---------------------------- MODULE TransactCall ----------------------------
(***************************************************************************)
(* SyncResource._transact and AsyncResource._transact                      *)
(* (kicbac/resources/_base.py): every money-moving method of the SDK sends *)
(* one request through the transport and parses the text it returns.  The  *)
(* parsing follows the return of request() in the same thread and touches  *)
(* no shared state, so the result of a call is a function of its outcome.  *)
(*                                                                         *)
(* The result of a call is read as a verdict on its effect, and the SDK is *)
(* shown to keep the promise of module ChargePromise.                      *)
(***************************************************************************)
EXTENDS Transport, Outcome

CONSTANT ParserOf   \* the result builder each transact call passes to _transact

ASSUME ParserAssumption == ParserOf \in [TransactCalls -> Parsers]

(***************************************************************************)
(* The gateway is trusted to say what it did: response=1 stands for an     *)
(* effect, response=2 and response=3 for none.  A body that is not a       *)
(* gateway reply says nothing.                                             *)
(***************************************************************************)
ASSUME TruthfulGateway ==
  \A a \in Answers :
    LET fields == ParseTransactBody(a.body)
        response == Get(fields, "response", "missing")
    IN  /\ response = "1" => a.charges
        /\ response \in {"2", "3"} => ~a.charges

-----------------------------------------------------------------------------

\* parse(parse_transact_body(body), ...)
ParsedResult(c) == Parse(ParserOf[c], ParseTransactBody(outcome[c].body))

\* What the caller of the method gets: a result, or an exception.
Result(c) == IF outcome[c].kind = "text" THEN ParsedResult(c) ELSE outcome[c]

IsSuccess(r) == r.kind \in {"approved", "ok"}
IsFailure(r) == r.kind \in {"declined", "not_ok"}

\* The exceptions that say that the gateway refused the request.
RefusalClasses ==
  {"RateLimitError", "ProcessorError", "AuthenticationError", "InvalidRequestError"}

\* Any APIError of the gateway is taken for a refusal.
IsRefusal_mut(r) ==
  /\ r.kind = "raised"
  /\ \/ r.class \notin ConnectionErrorClasses
     \/ r.class \in ConnectionErrorClasses /\ r.detail = "no_bytes_sent"

\* The exceptions after which the caller may submit the transaction again.
IsRefusal(r) ==
  /\ r.kind = "raised"
  /\ \/ r.class \in RefusalClasses
     \/ r.class \in ConnectionErrorClasses /\ r.detail = "no_bytes_sent"

\* A result read as the SDK's documentation tells the merchant to read it.
Verdict(c) ==
  LET r == Result(c) IN
  IF r.kind = "none" THEN "open"
  ELSE IF IsSuccess(r) THEN "charged"
  ELSE IF IsFailure(r) \/ IsRefusal(r) THEN "not_charged"
  ELSE "unknown"

Promise ==
  INSTANCE ChargePromise WITH
    Payments <- TransactCalls,
    Ids      <- Attempts,
    effects  <- [c \in TransactCalls |-> {k \in Attempts : <<c, k>> \in ledger}],
    verdict  <- [c \in TransactCalls |-> Verdict(c)]

-----------------------------------------------------------------------------

\* The SDK, its pool, the network and the gateway together do nothing to a
\* merchant's money, and tell the merchant nothing about it, that the promise
\* does not allow.
KeepsPromise == Promise!Spec
=============================================================================
