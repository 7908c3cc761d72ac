----------------------------- MODULE Reconcile ------------------------------
(***************************************************************************)
(* A merchant who wants an order paid once and does what the SDK's         *)
(* messages and README say: submit the payment; when it was refused, or    *)
(* surely not sent, submit it again; when its fate is unknown, look for    *)
(* the order with client.query and submit it again only if the report does *)
(* not hold it.                                                            *)
(*                                                                         *)
(* The payments and the queries are calls of modules TransactCall and      *)
(* Transport, with all their failures.  What a report yields is taken from *)
(* module Report: the records the gateway answered, or an exception.       *)
(***************************************************************************)
EXTENDS TransactCall

CONSTANTS
  FoundBody,   \* query.php's reply with the order's transaction
  EmptyBody,   \* query.php's reply without it
  Settles      \* see Handle

ASSUME QueryRepliesAssumption ==
  /\ FoundBody # EmptyBody
  /\ Settles \in BOOLEAN

VARIABLES
  order,   \* what the merchant does, or has decided: see Stages
  call     \* the merchant's last call, or NoCall

merchantVars == <<order, call>>
allVars == <<vars, merchantVars>>

Stages == {"submit", "paying", "ask", "asking", "paid", "unpaid"}
NoCall == "no call"

\* The order's charges, whichever payment they belong to.
Charges == {x \in ledger : x[1] \in TransactCalls}

\* The order's payments that the gateway may still carry out.
Pending == {x \in inbox : x[1] \in TransactCalls}

OrderInit ==
  /\ Init
  /\ order = "submit"
  /\ call = NoCall

-----------------------------------------------------------------------------

Submit ==
  /\ order = "submit"
  /\ \E c \in TransactCalls :
       /\ Call(c)
       /\ call' = c
  /\ order' = "paying"

\* The merchant's reading of what the payment returned or raised.
Learn ==
  /\ order = "paying"
  /\ outcome[call] # NoOutcome
  /\ order' = CASE Verdict(call) = "charged"     -> "paid"
                [] Verdict(call) = "not_charged" -> "submit"
                [] Verdict(call) = "unknown"     -> "ask"
  /\ UNCHANGED <<vars, call>>

Ask ==
  /\ order = "ask"
  /\ \E q \in QueryCalls :
       /\ Call(q)
       /\ call' = q
  /\ order' = "asking"

\* The merchant does not wait for the end of the report.
LearnReport_mut ==
  /\ order = "asking"
  /\ order' = IF outcome[call] = Text(FoundBody) THEN "paid"
              ELSE IF outcome[call] = Text(EmptyBody) THEN "submit"
              ELSE "ask"
  /\ UNCHANGED <<vars, call>>

\* The report was read to its end, or raised: then it is asked for again.
LearnReport ==
  /\ order = "asking"
  /\ outcome[call] # NoOutcome
  /\ order' = IF outcome[call] = Text(FoundBody) THEN "paid"
              ELSE IF outcome[call] = Text(EmptyBody) THEN "submit"
              ELSE "ask"
  /\ UNCHANGED <<vars, call>>

\* The merchant does not try again.
GiveUpOrder ==
  /\ order = "submit"
  /\ order' = "unpaid"
  /\ UNCHANGED <<vars, call>>

(***************************************************************************)
(* The gateway answers a query about the order with the state of its       *)
(* ledger.  If Settles, it has carried out or dropped the payments that    *)
(* reached it before it does so; the pattern cannot be safe otherwise, and *)
(* nothing in the SDK can tell.                                            *)
(***************************************************************************)
Handle(c, k, a) ==
  /\ Process(c, k, a)
  /\ c \in TransactCalls => a.body \notin {FoundBody, EmptyBody}
  /\ c \in QueryCalls =>
       /\ Settles => Pending = {}
       /\ a.body = FoundBody => Charges # {}
       /\ a.body = EmptyBody => Charges = {}

OrderNext ==
  \/ Submit
  \/ Learn
  \/ Ask
  \/ LearnReport
  \/ GiveUpOrder
  \/ /\ \/ \E c \in Calls : ClientStep(c) \/ DecodingError(c) \/ Cancel(c)
        \/ \E c \in Calls, k \in Attempts :
             Drop(c, k) \/ \E a \in Answers : Handle(c, k, a)
     /\ UNCHANGED merchantVars

OrderSpec == OrderInit /\ [][OrderNext]_allVars

-----------------------------------------------------------------------------
(***************************************************************************)
(* Properties                                                              *)
(***************************************************************************)

\* Types; the merchant has at most one call under way.
OrderTypeOK ==
  /\ order \in Stages
  /\ call \in Calls \cup {NoCall}
  /\ \A c \in Calls : pc[c] \in InFlight => c = call /\ order \in {"paying", "asking"}

\* The order is charged at most once over all payments the merchant submits,
\* however they and the queries between them fail ("reconcile with the Query API
\* ... first", _transport.py:63).
ChargedOnce == Cardinality(Charges) <= 1

\* When the merchant is done, or is about to submit again, the order is in the
\* state the merchant believes it to be in, and nothing under way can change it.
MerchantIsRight ==
  /\ order = "paid" => Charges # {}
  /\ order \in {"submit", "unpaid"} => Charges = {} /\ Pending = {}
=============================================================================
