----------------------------- MODULE Transport ------------------------------
(***************************************************************************)
(* SyncTransport.request and AsyncTransport.request (kicbac/_transport.py) *)
(* run by any number of threads or tasks that share one client, its        *)
(* connection pool and the gateway.  Both transports have the same control *)
(* flow; a call of either is one process here.                             *)
(*                                                                         *)
(* httpx, the network and the gateway are outside the repository.  A       *)
(* request whose bytes were written may reach the gateway or be lost; the  *)
(* gateway may process it at any later time, also after the caller gave up *)
(* on it; its reply may be lost, and may say nothing about the charge (the *)
(* body of a proxy's 502, say).                                            *)
(***************************************************************************)
EXTENDS HttpErrors, Integers, FiniteSets

CONSTANTS
  TransactCalls,   \* calls of transact.php: each asks for one effect (a charge)
  QueryCalls,      \* calls of query.php: no effect
  MaxRetries,      \* Kicbac(max_retries=...)
  PoolSize,        \* connections of the httpx pool
  Answers          \* the gateway's answers: [charges, status, body]

ASSUME CallsAssumption == TransactCalls \cap QueryCalls = {}

\* Attempt number 1024 would overflow in 2.0**attempt (see backoff_delay).
ASSUME MaxRetriesAssumption == MaxRetries \in 0..1024

ASSUME PoolSizeAssumption == PoolSize \in Nat \ {0}

\* A rate-limited request is refused before it is processed.
ASSUME AnswersAssumption ==
  \A a \in Answers :
    /\ a.charges \in BOOLEAN
    /\ a.status \in Nat
    /\ a.status = 429 => ~a.charges

Calls == TransactCalls \cup QueryCalls

Path(c) == IF c \in QueryCalls THEN "query" ELSE "transact"

Attempts == 0..MaxRetries

\* query.php has no effect whatever it answers.
AnswersTo(c) == {a \in Answers : c \in QueryCalls => ~a.charges}

NoReply == [status |-> 0]

NoOutcome == [kind |-> "none"]
Text(body) == [kind |-> "text", body |-> body]
Raised(class, detail) == [kind |-> "raised", class |-> class, detail |-> detail]
ConnectionError(exc, path) == Raised(ClassOf(exc), DetailOf(exc, path))
RateLimited == Raised("RateLimitError", "rate_limit")
\* An exception that is no httpx.TransportError passes through unwrapped.
Escaped == [kind |-> "escaped"]

VARIABLES
  pc,        \* where the call is: see Phases
  attempt,   \* the local variable of the same name
  outcome,   \* what request() returned or raised
  sent,      \* history: <<c, k>> such that bytes of attempt k of c were written
  inbox,     \* requests that reached the gateway and are not processed yet
  ledger,    \* effects the gateway carried out, by call and attempt
  reply      \* the reply on its way to (or at) the client

vars == <<pc, attempt, outcome, sent, inbox, ledger, reply>>
clientVars == <<pc, attempt, outcome>>
gatewayVars == <<inbox, ledger>>

InFlight == {"pool", "connect", "write", "read", "backoff"}
Phases == {"idle", "done"} \cup InFlight

\* Connections of the pool that are taken.
InUse == {c \in Calls : pc[c] \in {"connect", "write", "read"}}

Init ==
  /\ pc = [c \in Calls |-> "idle"]
  /\ attempt = [c \in Calls |-> 0]
  /\ outcome = [c \in Calls |-> NoOutcome]
  /\ sent = {}
  /\ inbox = {}
  /\ ledger = {}
  /\ reply = [c \in Calls |-> NoReply]

-----------------------------------------------------------------------------

Goto(c, phase) == pc' = [pc EXCEPT ![c] = phase]

Finish(c, result) ==
  /\ Goto(c, "done")
  /\ outcome' = [outcome EXCEPT ![c] = result]
  /\ UNCHANGED attempt

\* The connection of c is closed or returned to the pool.
HangUp(c) == reply' = [reply EXCEPT ![c] = NoReply]

\* Bytes of the current attempt leave the client; the request may be lost.
WriteBytes(c) ==
  /\ sent' = sent \cup {<<c, attempt[c]>>}
  /\ \/ inbox' = inbox \cup {<<c, attempt[c]>>}
     \/ UNCHANGED inbox
  /\ UNCHANGED ledger

WriteNothing == UNCHANGED <<sent, inbox, ledger>>

-----------------------------------------------------------------------------

Call(c) ==
  /\ pc[c] = "idle"
  /\ Goto(c, "pool")
  /\ UNCHANGED <<attempt, outcome, sent, inbox, ledger, reply>>

\* The pool hands out a free slot: a new connection, or a kept-alive one.
AcquireConnection(c) ==
  /\ pc[c] = "pool"
  /\ Cardinality(InUse) < PoolSize
  /\ \E phase \in {"connect", "write"} : Goto(c, phase)
  /\ UNCHANGED <<attempt, outcome, sent, inbox, ledger, reply>>

Connect(c) ==
  /\ pc[c] = "connect"
  /\ Goto(c, "write")
  /\ UNCHANGED <<attempt, outcome, sent, inbox, ledger, reply>>

SendRequest(c) ==
  /\ pc[c] = "write"
  /\ Goto(c, "read")
  /\ WriteBytes(c)
  /\ UNCHANGED <<attempt, outcome, reply>>

(***************************************************************************)
(* httpx raises TransportError e in the phase the call is in.              *)
(***************************************************************************)
Raises(c, e) ==
  \/ /\ pc[c] = "pool"
     /\ e \in PoolErrors
     /\ e = "PoolTimeout" => Cardinality(InUse) >= PoolSize
     /\ WriteNothing
  \/ /\ pc[c] = "connect"
     /\ e \in ConnectErrors
     /\ WriteNothing
  \/ /\ pc[c] = "write"
     /\ e \in WriteErrors
     /\ IF e \in UnsentWriteErrors THEN WriteNothing ELSE WriteBytes(c)
  \/ /\ pc[c] = "read"
     /\ e \in ReadErrors
     /\ WriteNothing

\* One attempt too many.
ShouldRetry_mut(c, e) ==
  /\ e \in RetryableFor(Path(c))
  /\ attempt[c] <= MaxRetries

\* The guard of the except clause.
ShouldRetry(c, e) ==
  /\ e \in RetryableFor(Path(c))
  /\ attempt[c] < MaxRetries

\* except httpx.TransportError: sleep, or raise _connection_error.
Retry(c, e) ==
  /\ Raises(c, e)
  /\ ShouldRetry(c, e)
  /\ Goto(c, "backoff")
  /\ HangUp(c)
  /\ UNCHANGED <<attempt, outcome>>

GiveUp(c, e) ==
  /\ Raises(c, e)
  /\ ~ShouldRetry(c, e)
  /\ Finish(c, ConnectionError(e, Path(c)))
  /\ HangUp(c)

\* attempt += 1 is missing.
Wake_mut(c) ==
  /\ pc[c] = "backoff"
  /\ Goto(c, "pool")
  /\ UNCHANGED <<attempt, outcome, sent, inbox, ledger, reply>>

\* The sleep is over: attempt += 1 and back to the top of the loop.
Wake(c) ==
  /\ pc[c] = "backoff"
  /\ attempt' = [attempt EXCEPT ![c] = @ + 1]
  /\ Goto(c, "pool")
  /\ UNCHANGED <<outcome, sent, inbox, ledger, reply>>

\* A response arrived: HTTP 429 raises, every other status returns its text.
Receive(c) ==
  /\ pc[c] = "read"
  /\ reply[c] # NoReply
  /\ Finish(c, IF reply[c].status = 429 THEN RateLimited ELSE Text(reply[c].body))
  /\ HangUp(c)
  /\ UNCHANGED <<sent, inbox, ledger>>

(***************************************************************************)
(* What the except clause does not catch.  The body of a response cannot   *)
(* be decoded (httpx.DecodingError is no TransportError), or the call is   *)
(* interrupted at any of the points where it waits: asyncio cancellation   *)
(* at the awaits, KeyboardInterrupt in the sync transport.                 *)
(***************************************************************************)
DecodingError(c) ==
  /\ pc[c] = "read"
  /\ reply[c] # NoReply
  /\ Finish(c, Escaped)
  /\ HangUp(c)
  /\ UNCHANGED <<sent, inbox, ledger>>

Cancel(c) ==
  /\ pc[c] \in InFlight
  /\ \/ WriteNothing
     \/ pc[c] = "write" /\ WriteBytes(c)
  /\ Finish(c, Escaped)
  /\ HangUp(c)

(***************************************************************************)
(* The gateway takes a request and answers it.  The answer reaches the     *)
(* client only if the client still waits for it on that connection, and    *)
(* may be lost even then.                                                  *)
(***************************************************************************)
Process(c, k, a) ==
  /\ <<c, k>> \in inbox
  /\ a \in AnswersTo(c)
  /\ inbox' = inbox \ {<<c, k>>}
  /\ ledger' = IF a.charges THEN ledger \cup {<<c, k>>} ELSE ledger
  /\ \/ /\ pc[c] = "read"
        /\ attempt[c] = k
        /\ reply' = [reply EXCEPT ![c] = a]
     \/ UNCHANGED reply
  /\ UNCHANGED <<pc, attempt, outcome, sent>>

\* A request that reached the gateway's network is dropped there.
Drop(c, k) ==
  /\ <<c, k>> \in inbox
  /\ inbox' = inbox \ {<<c, k>>}
  /\ UNCHANGED <<pc, attempt, outcome, sent, ledger, reply>>

-----------------------------------------------------------------------------

HttpError(c) == \E e \in TransportErrors : Retry(c, e) \/ GiveUp(c, e)

\* What the thread or task of the call does by itself.
ClientStep(c) ==
  \/ AcquireConnection(c)
  \/ Connect(c)
  \/ SendRequest(c)
  \/ HttpError(c)
  \/ Wake(c)
  \/ Receive(c)

Gateway ==
  \E c \in Calls, k \in Attempts :
    \/ \E a \in Answers : Process(c, k, a)
    \/ Drop(c, k)

Next ==
  \/ \E c \in Calls :
       \/ Call(c)
       \/ ClientStep(c)
       \/ DecodingError(c)
       \/ Cancel(c)
  \/ Gateway

(***************************************************************************)
(* Every phase is bounded by one of httpx's timeouts (the client is built  *)
(* with DEFAULT_TIMEOUT) and the sleeps are finite, so a call that has     *)
(* started keeps taking steps.  Nothing is assumed of the gateway.         *)
(***************************************************************************)
Spec == Init /\ [][Next]_vars

FairSpec == Spec /\ \A c \in Calls : WF_vars(ClientStep(c))

-----------------------------------------------------------------------------
(***************************************************************************)
(* Properties                                                              *)
(***************************************************************************)

Outcomes ==
  {NoOutcome, Escaped, RateLimited}
    \cup {Text(a.body) : a \in Answers}
    \cup {Raised(class, detail) : class \in ConnectionErrorClasses, detail \in Details}

\* The variables hold what request()'s locals, the pool and the gateway can
\* hold; in particular a call never makes more than MaxRetries + 1 attempts.
TypeOK ==
  /\ pc \in [Calls -> Phases]
  /\ attempt \in [Calls -> Attempts]
  /\ outcome \in [Calls -> Outcomes]
  /\ sent \subseteq Calls \X Attempts
  /\ inbox \subseteq Calls \X Attempts
  /\ ledger \subseteq Calls \X Attempts
  /\ reply \in [Calls -> Answers \cup {NoReply}]

\* The double-charge invariant of _transport.py's docstring: however its
\* attempts fail and however late the gateway processes what it received, a
\* transact call has at most one effect.
NoDoubleCharge ==
  \A c \in TransactCalls : \A j, k \in Attempts :
    <<c, j>> \in ledger /\ <<c, k>> \in ledger => j = k

FailedWith(c, details) ==
  outcome[c].kind = "raised" /\ outcome[c].detail \in details

\* The call has had no effect and no request of it can still have one.
NeverCharged(c) == \A k \in Attempts : <<c, k>> \notin ledger \cup inbox

\* A caller who is told that it is safe to retry ("no request bytes were sent",
\* or a rate limit) may submit the transaction anew: nothing of the failed call
\* was charged or will be charged later.
SafeToResubmit ==
  \A c \in TransactCalls :
    FailedWith(c, {"no_bytes_sent", "rate_limit"}) => NeverCharged(c)

\* The text a transact call returns is the gateway's answer to the one attempt
\* that was processed: the effect it speaks of is the effect in the ledger.
TextTellsTheLedger ==
  \A c \in TransactCalls :
    outcome[c].kind = "text" =>
      \E a \in Answers :
        /\ a.body = outcome[c].body
        /\ a.charges <=> \E k \in Attempts : <<c, k>> \in ledger
        /\ \A k \in Attempts : <<c, k>> \notin inbox

\* No step puts a transact call back on its way to the gateway once bytes of
\* one of its attempts have been written ("NEVER retried for transact").
NeverRetriedOnceSent ==
  [][\A c \in TransactCalls :
       (\E k \in Attempts : <<c, k>> \in sent') => pc'[c] \in {"read", "done"}]_vars

\* A call that was made returns or raises: no sequence of failures, answers or
\* silences of the gateway keeps it in the retry loop for ever.
EveryCallReturns == \A c \in Calls : pc[c] = "pool" ~> pc[c] = "done"

-----------------------------------------------------------------------------
(***************************************************************************)
(* A statement of the code that the code does not keep.                    *)
(***************************************************************************)

\* "could not connect after N attempt(s); no request bytes were sent"
\* (_transport.py:57), read as a statement about the whole call, also for
\* query.php, whose earlier attempts may have failed in flight.
NoBytesSentIsTrue ==
  \A c \in Calls :
    FailedWith(c, {"no_bytes_sent"}) => \A k \in Attempts : <<c, k>> \notin sent
=============================================================================
