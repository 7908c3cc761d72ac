------------------------------ MODULE Deadline ------------------------------
(***************************************************************************)
(* How long a call can take.  httpx applies a timeout to each operation of *)
(* a request: to the wait for a slot of the pool, to connecting, to        *)
(* writing, and to every wait for a part of the reply.  The transport      *)
(* passes one httpx.Timeout to every attempt and sleeps between attempts;  *)
(* nothing looks at the time the call has taken so far.                    *)
(*                                                                         *)
(* This is the retry loop of module Transport for one call, seen by a      *)
(* clock.  The unit of time is up to the instance.                         *)
(***************************************************************************)
EXTENDS HttpErrors, Integers

CONSTANTS
  Path,             \* the endpoint that is called
  MaxRetries,
  ConnectTimeout,   \* httpx.Timeout(PhaseTimeout, connect=ConnectTimeout)
  PhaseTimeout,
  MaxBackoff,       \* no sleep is longer: backoff_delay's 2.0 s
  MaxParts          \* bound on the parts a reply comes in

ASSUME PathAssumption == Path \in Paths

ASSUME TimesAssumption ==
  /\ MaxRetries \in Nat
  /\ ConnectTimeout \in Nat
  /\ PhaseTimeout \in Nat
  /\ MaxBackoff \in Nat
  /\ MaxParts \in Nat \ {0}

VARIABLES
  pc,        \* the operation the call waits for
  attempt,   \* the local variable of the same name
  part,      \* parts of the reply that have been read
  left,      \* time until the operation times out, or the sleep ends
  elapsed    \* time since the call was made

vars == <<pc, attempt, part, left, elapsed>>

Operations == {"pool", "connect", "write", "read"}

\* The timeout of an operation.
TimeoutOf(operation) == IF operation = "connect" THEN ConnectTimeout ELSE PhaseTimeout

Start(operation) ==
  /\ pc' = operation
  /\ left' = TimeoutOf(operation)

Init ==
  /\ pc = "pool"
  /\ left = TimeoutOf("pool")
  /\ attempt = 0
  /\ part = 0
  /\ elapsed = 0

-----------------------------------------------------------------------------

Tick ==
  /\ pc # "done"
  /\ left > 0
  /\ left' = left - 1
  /\ elapsed' = elapsed + 1
  /\ UNCHANGED <<pc, attempt, part>>

\* An operation ends in time.  A kept-alive connection needs no connecting.
Advance ==
  /\ \/ pc = "pool" /\ (Start("connect") \/ Start("write")) /\ UNCHANGED part
     \/ pc = "connect" /\ Start("write") /\ UNCHANGED part
     \/ pc = "write" /\ Start("read") /\ UNCHANGED part
     \/ pc = "read" /\ part + 1 < MaxParts /\ Start("read") /\ part' = part + 1
  /\ UNCHANGED <<attempt, elapsed>>

\* The reply is complete.
Return ==
  /\ pc = "read"
  /\ pc' = "done"
  /\ UNCHANGED <<attempt, part, left, elapsed>>

\* What httpx may raise now: a timeout when the time is over, others any time.
Raisable ==
  LET errors == CASE pc = "pool" -> PoolErrors
                  [] pc = "connect" -> ConnectErrors
                  [] pc = "write" -> WriteErrors
                  [] pc = "read" -> ReadErrors
  IN  IF left = 0 THEN errors ELSE errors \ TimeoutExceptions

\* The number of the attempt is not looked at.
Fail_mut(exc) ==
  IF exc \in RetryableFor(Path) /\ attempt <= MaxRetries
  THEN pc' = "backoff" /\ left' \in 0..MaxBackoff
  ELSE pc' = "done" /\ UNCHANGED left

\* The except clause: sleep, or raise.
Fail(exc) ==
  IF exc \in RetryableFor(Path) /\ attempt < MaxRetries
  THEN pc' = "backoff" /\ left' \in 0..MaxBackoff
  ELSE pc' = "done" /\ UNCHANGED left

Error ==
  /\ pc \in Operations
  /\ \E exc \in Raisable : Fail(exc)
  /\ UNCHANGED <<attempt, part, elapsed>>

\* The attempt is not counted.
Wake_mut ==
  /\ pc = "backoff"
  /\ left = 0
  /\ part' = 0
  /\ Start("pool")
  /\ UNCHANGED <<attempt, elapsed>>

\* The sleep is over: the next attempt.
Wake ==
  /\ pc = "backoff"
  /\ left = 0
  /\ attempt' = attempt + 1
  /\ part' = 0
  /\ Start("pool")
  /\ UNCHANGED elapsed

Next == Tick \/ Advance \/ Return \/ Error \/ Wake

Spec == Init /\ [][Next]_vars

-----------------------------------------------------------------------------
(***************************************************************************)
(* Properties                                                              *)
(***************************************************************************)

\* The longest an attempt can take: a slot, a connection, the request, the
\* parts of the reply.
AttemptLimit == 2 * PhaseTimeout + ConnectTimeout + MaxParts * PhaseTimeout

\* What an attempt has used up at most when it is where the call is.
Used ==
  CASE pc = "pool" -> PhaseTimeout - left
    [] pc = "connect" -> PhaseTimeout + ConnectTimeout - left
    [] pc = "write" -> 2 * PhaseTimeout + ConnectTimeout - left
    [] pc = "read" -> 2 * PhaseTimeout + ConnectTimeout + (part + 1) * PhaseTimeout - left
    [] pc = "backoff" -> AttemptLimit + MaxBackoff - left
    [] pc = "done" -> AttemptLimit

\* Types; the call is on one of its attempts and waits no longer than it may.
TypeOK ==
  /\ pc \in Operations \cup {"backoff", "done"}
  /\ attempt \in 0..MaxRetries
  /\ part \in 0..(MaxParts - 1)
  /\ elapsed \in Nat
  /\ left \in Nat
  /\ pc \in Operations => left <= TimeoutOf(pc)
  /\ pc = "backoff" => left <= MaxBackoff /\ attempt < MaxRetries

\* However slow the pool, the network and the gateway are, the time a call has
\* taken is accounted for by the limits of its attempts and sleeps.  For a call
\* that is done this is the bound a caller can rely on, far beyond 30 s.
TimeIsAccounted == elapsed <= attempt * (AttemptLimit + MaxBackoff) + Used

-----------------------------------------------------------------------------

\* "The timeout given here (default 30s total / 5s connect)" (_client.py:48):
\* a call is over when the time of its timeout is.
TimeoutIsTotal == elapsed <= PhaseTimeout
=============================================================================
