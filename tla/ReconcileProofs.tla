-------------------------- MODULE ReconcileProofs ---------------------------
(***************************************************************************)
(* Theorems about Reconcile, for any number of payments and queries, any   *)
(* retry limit and any replies: if the gateway settles what it received    *)
(* before it answers a query about the order, the merchant charges the     *)
(* order at most once and is right about it.                               *)
(*                                                                         *)
(* Everything the calls do is covered by IInv and VerdictsSound of module  *)
(* TransactCallProofs.  TurnInv says which calls can be under way: none    *)
(* but the one the merchant waits for.  OrderInv adds whose payment the    *)
(* order's charges and pending requests are, stage by stage: of nobody     *)
(* when a payment may be submitted, of one payment otherwise.              *)
(***************************************************************************)
EXTENDS Reconcile, TransactCallProofs, FiniteSetTheorems

\* Nothing of the order was charged or can still be.
Untouched == Charges = {} /\ Pending = {}

\* Whatever was charged or can still be belongs to payment c.
BelongsTo(c) == \A x \in Charges \cup Pending : x[1] = c

\* What body says of the order is true.
Tells(body) ==
  /\ body = FoundBody => Charges # {}
  /\ body = EmptyBody => Untouched

\* So is what query q got or is about to get.
ReportTells(q) ==
  /\ reply[q] # NoReply => Tells(reply[q].body)
  /\ outcome[q].kind = "text" => Tells(outcome[q].body)

StageInv ==
  /\ order \in {"submit", "unpaid"} => Untouched
  /\ order = "paying" => call \in TransactCalls /\ BelongsTo(call)
  /\ order \in {"ask", "asking", "paid"} => \E c \in TransactCalls : BelongsTo(c)
  /\ order = "asking" => call \in QueryCalls /\ ReportTells(call)
  /\ order = "paid" => Charges # {}

OrderInv == IInv /\ OrderTypeOK /\ StageInv

\* What the merchant waits for is a call of the kind its stage says.
CallInv ==
  /\ order = "paying" => call \in TransactCalls
  /\ order = "asking" => call \in QueryCalls

\* Enough for the merchant to have one call under way at most, whatever the
\* gateway does.
TurnInv == IInv /\ OrderTypeOK /\ CallInv

-----------------------------------------------------------------------------
(***************************************************************************)
(* The steps of the calls                                                  *)
(***************************************************************************)

\* A step of Reconcile is a step of the transport, or leaves it alone.
LEMMA OrderStepIsStep == [OrderNext]_allVars => [Next]_vars
<1> SUFFICES ASSUME [OrderNext]_allVars
             PROVE  [Next]_vars
  OBVIOUS
<1>1. CASE Submit \/ Ask
  BY <1>1, TransactPath DEF Submit, Ask, Next, Calls
<1>2. CASE Learn \/ LearnReport \/ GiveUpOrder
  BY <1>2 DEF Learn, LearnReport, GiveUpOrder, vars
<1>3. ASSUME NEW c \in Calls, ClientStep(c) \/ DecodingError(c) \/ Cancel(c)
      PROVE  Next
  BY <1>3 DEF Next
<1>4. ASSUME NEW c \in Calls, NEW k \in Attempts,
             Drop(c, k) \/ \E a \in Answers : Handle(c, k, a)
      PROVE  Next
  BY <1>4 DEF Next, Gateway, Handle
<1>5. CASE UNCHANGED allVars
  BY <1>5 DEF allVars, vars
<1> QED
  BY <1>1, <1>2, <1>3, <1>4, <1>5 DEF OrderNext

\* What a call's own step does to the rest of the system.
ClientEffect(c) ==
  /\ pc[c] \in InFlight
  /\ pc'[c] \in InFlight \cup {"done"}
  /\ ledger' = ledger
  /\ inbox' \subseteq inbox \cup {<<c, attempt[c]>>}
  /\ \A d \in Calls \ {c} :
       pc'[d] = pc[d] /\ outcome'[d] = outcome[d] /\ reply'[d] = reply[d]
  /\ reply'[c] \in {reply[c], NoReply}
  /\ outcome'[c].kind = "text" =>
       \/ outcome'[c] = outcome[c]
       \/ reply[c] # NoReply /\ outcome'[c] = Text(reply[c].body)

LEMMA ClientStepEffect ==
  ASSUME TypeOK, NEW c \in Calls, ClientStep(c) \/ DecodingError(c) \/ Cancel(c)
  PROVE  ClientEffect(c)
<1> USE DEF TypeOK
<1>1. CASE AcquireConnection(c) \/ Connect(c) \/ Wake(c)
  BY <1>1 DEF AcquireConnection, Connect, Wake, Goto, ClientEffect, InFlight
<1>2. CASE SendRequest(c)
  BY <1>2 DEF SendRequest, WriteBytes, Goto, ClientEffect, InFlight
<1>3. ASSUME NEW e, Retry(c, e)
      PROVE  ClientEffect(c)
  BY <1>3 DEF Retry, Raises, WriteNothing, WriteBytes, HangUp, Goto, ClientEffect, InFlight
<1>4. ASSUME NEW e, GiveUp(c, e)
      PROVE  ClientEffect(c)
  <2>1. outcome'[c].kind = "raised"
    BY <1>4 DEF GiveUp, Finish, ConnectionError, Raised
  <2> QED
    BY <1>4, <2>1
    DEF GiveUp, Finish, Raises, WriteNothing, WriteBytes, HangUp, Goto, ClientEffect, InFlight
<1>5. CASE Receive(c)
  <2>1. \/ outcome'[c] = Text(reply[c].body)
        \/ outcome'[c].kind = "raised"
    BY <1>5 DEF Receive, Finish, RateLimited, Raised
  <2> QED
    BY <1>5, <2>1 DEF Receive, Finish, HangUp, Goto, ClientEffect, InFlight
<1>6. CASE DecodingError(c) \/ Cancel(c)
  <2>1. outcome'[c].kind = "escaped"
    BY <1>6 DEF DecodingError, Cancel, Finish, Escaped
  <2> QED
    BY <1>6, <2>1
    DEF DecodingError, Cancel, Finish, WriteNothing, WriteBytes, HangUp, Goto,
        ClientEffect, InFlight
<1> QED
  BY <1>1, <1>2, <1>3, <1>4, <1>5, <1>6 DEF ClientStep, HttpError

-----------------------------------------------------------------------------
(***************************************************************************)
(* Taking turns                                                            *)
(***************************************************************************)

\* When the call the merchant waits for has an outcome, no call is under way.
LEMMA NothingUnderWay ==
  ASSUME TurnInv, order \in {"paying", "asking"}, outcome[call] # NoOutcome
  PROVE  \A c \in Calls : pc[c] \notin InFlight
<1>1. call \in Calls
  BY DEF TurnInv, CallInv, Calls
<1>2. pc[call] = "done"
  BY <1>1 DEF TurnInv, IInv, OutcomeInv, Told
<1> QED
  BY <1>2 DEF TurnInv, OrderTypeOK, InFlight

LEMMA SubmitTurn ==
  ASSUME TurnInv, Submit
  PROVE  OrderTypeOK' /\ CallInv'
<1>1. PICK c \in TransactCalls : Call(c) /\ call' = c
  BY DEF Submit
<1>2. /\ c \in Calls /\ order = "submit" /\ order' = "paying"
      /\ pc' = [pc EXCEPT ![c] = "pool"] /\ pc \in [Calls -> Phases]
  BY <1>1, TransactPath DEF Submit, Call, Goto, TurnInv, IInv, TypeOK
<1>3. OrderTypeOK'
  BY <1>1, <1>2 DEF TurnInv, OrderTypeOK, Stages
<1> QED
  BY <1>1, <1>2, <1>3 DEF CallInv

LEMMA AskTurn ==
  ASSUME TurnInv, Ask
  PROVE  OrderTypeOK' /\ CallInv'
<1>1. PICK q \in QueryCalls : Call(q) /\ call' = q
  BY DEF Ask
<1>2. /\ q \in Calls /\ order = "ask" /\ order' = "asking"
      /\ pc' = [pc EXCEPT ![q] = "pool"] /\ pc \in [Calls -> Phases]
  BY <1>1 DEF Ask, Call, Calls, Goto, TurnInv, IInv, TypeOK
<1>3. OrderTypeOK'
  BY <1>1, <1>2 DEF TurnInv, OrderTypeOK, Stages
<1> QED
  BY <1>1, <1>2, <1>3 DEF CallInv

LEMMA LearnTurn ==
  ASSUME TurnInv, Learn
  PROVE  /\ OrderTypeOK' /\ CallInv'
         /\ order' = IF Verdict(call) = "charged" THEN "paid"
                     ELSE IF Verdict(call) = "not_charged" THEN "submit" ELSE "ask"
<1>1. call \in TransactCalls /\ order = "paying" /\ outcome[call] # NoOutcome
  BY DEF TurnInv, CallInv, Learn
<1>2. VerdictSound(call)
  BY <1>1, IInvImpliesSound DEF TurnInv, VerdictsSound
<1>3. Verdict(call) \in {"charged", "not_charged", "unknown"}
  BY <1>1, <1>2 DEF VerdictSound, Verdict
<1>4. order' = IF Verdict(call) = "charged" THEN "paid"
               ELSE IF Verdict(call) = "not_charged" THEN "submit" ELSE "ask"
  BY <1>3 DEF Learn
<1>5. call' = call /\ pc' = pc
  BY DEF Learn, vars
<1> QED
  BY <1>1, <1>4, <1>5, NothingUnderWay DEF TurnInv, OrderTypeOK, CallInv, Stages

LEMMA LearnReportTurn ==
  ASSUME TurnInv, LearnReport
  PROVE  OrderTypeOK' /\ CallInv'
<1>1. order = "asking" /\ outcome[call] # NoOutcome
  BY DEF LearnReport
<1>2. call' = call /\ pc' = pc /\ order' \in {"paid", "submit", "ask"}
  BY DEF LearnReport, vars
<1> QED
  BY <1>1, <1>2, NothingUnderWay DEF TurnInv, OrderTypeOK, CallInv, Stages

LEMMA ClientTurn ==
  ASSUME TurnInv, NEW c \in Calls, ClientStep(c) \/ DecodingError(c) \/ Cancel(c),
         UNCHANGED merchantVars
  PROVE  OrderTypeOK' /\ CallInv'
<1>1. ClientEffect(c) /\ order' = order /\ call' = call
  BY ClientStepEffect DEF TurnInv, IInv, merchantVars
<1>2. c = call /\ order \in {"paying", "asking"}
  BY <1>1 DEF TurnInv, ClientEffect, OrderTypeOK
<1>3. OrderTypeOK'
  BY <1>1, <1>2 DEF TurnInv, OrderTypeOK, ClientEffect
<1> QED
  BY <1>1, <1>3 DEF TurnInv, CallInv

LEMMA TurnStep == TurnInv /\ [OrderNext]_allVars => TurnInv'
<1> SUFFICES ASSUME TurnInv, [OrderNext]_allVars
             PROVE  TurnInv'
  OBVIOUS
<1>1. IInv'
  BY OrderStepIsStep, InductiveStep DEF TurnInv
<1>2. CASE Submit \/ Ask \/ Learn \/ LearnReport
  BY <1>1, <1>2, SubmitTurn, AskTurn, LearnTurn, LearnReportTurn DEF TurnInv
<1>3. CASE GiveUpOrder
  <2>1. call' = call /\ pc' = pc /\ order = "submit" /\ order' = "unpaid"
    BY <1>3 DEF GiveUpOrder, vars
  <2> QED
    BY <1>1, <2>1 DEF TurnInv, OrderTypeOK, CallInv, Stages
<1>4. ASSUME NEW c \in Calls, ClientStep(c) \/ DecodingError(c) \/ Cancel(c),
             UNCHANGED merchantVars
      PROVE  TurnInv'
  BY <1>1, <1>4, ClientTurn DEF TurnInv
<1>5. ASSUME NEW c \in Calls, NEW k \in Attempts, UNCHANGED merchantVars,
             Drop(c, k) \/ \E a \in Answers : Handle(c, k, a)
      PROVE  TurnInv'
  <2>1. UNCHANGED <<pc, order, call>>
    BY <1>5 DEF Drop, Handle, Process, merchantVars
  <2> QED
    BY <1>1, <2>1 DEF TurnInv, OrderTypeOK, CallInv
<1>6. CASE UNCHANGED allVars
  <2>1. UNCHANGED <<pc, order, call>>
    BY <1>6 DEF allVars, vars, merchantVars
  <2> QED
    BY <1>1, <2>1 DEF TurnInv, OrderTypeOK, CallInv
<1> QED
  BY <1>2, <1>3, <1>4, <1>5, <1>6 DEF OrderNext

\* The merchant never has two calls under way, and none but while it waits,
\* whatever the gateway does.
THEOREM OrderTypeCorrect == OrderSpec => []OrderTypeOK
<1>1. OrderInit => TurnInv
  <2> SUFFICES ASSUME OrderInit
               PROVE  TurnInv
    OBVIOUS
  <2>1. IInv
    BY InductiveInit DEF OrderInit
  <2> QED
    BY <2>1 DEF OrderInit, Init, TurnInv, OrderTypeOK, CallInv, Stages, InFlight
<1>2. TurnInv => OrderTypeOK
  BY DEF TurnInv
<1> QED
  BY <1>1, <1>2, TurnStep, PTL DEF OrderSpec

\* The merchant's stage says what its call is.
LEMMA OrderInvTurn == OrderInv => TurnInv
  BY DEF OrderInv, TurnInv, StageInv, CallInv

-----------------------------------------------------------------------------
(***************************************************************************)
(* What the calls' steps do to the order                                   *)
(***************************************************************************)

\* A step of a payment under way touches the order only by that payment, a step
\* of a query not at all.
LEMMA ClientStepKeeps ==
  ASSUME OrderInv, NEW c \in Calls, ClientStep(c) \/ DecodingError(c) \/ Cancel(c),
         UNCHANGED merchantVars
  PROVE  StageInv'
<1>1. /\ TypeOK /\ ClientEffect(c) /\ order' = order /\ call' = call
      /\ OrderTypeOK /\ StageInv
  BY ClientStepEffect DEF OrderInv, IInv, merchantVars
<1>2. c = call /\ order \in {"paying", "asking"} /\ Charges' = Charges
  BY <1>1 DEF ClientEffect, OrderTypeOK, Charges
<1>4. CASE order = "paying"
  <2>1. \A x \in Pending' : x \in Pending \/ x[1] = call
    BY <1>1, <1>2 DEF ClientEffect, Pending
  <2> QED
    BY <1>1, <1>2, <1>4, <2>1 DEF StageInv, BelongsTo
<1>5. CASE order = "asking"
  <2>1. call \in QueryCalls /\ call \notin TransactCalls
    BY <1>1, <1>5, CallsAssumption DEF StageInv
  <2>2. Pending' \subseteq Pending
    BY <1>1, <1>2, <2>1 DEF ClientEffect, Pending
  <2>3. ASSUME NEW body, Tells(body)
        PROVE  Tells(body)'
    BY <1>2, <2>2, <2>3 DEF Tells, Untouched
  <2>4. ReportTells(call)'
    <3>1. ReportTells(call)
      BY <1>1, <1>5 DEF StageInv
    <3>2. reply'[call] # NoReply => Tells(reply'[call].body)
      BY <1>1, <1>2, <3>1 DEF ClientEffect, ReportTells
    <3>3. outcome'[call].kind = "text" => Tells(outcome'[call].body)
      BY <1>1, <1>2, <3>1 DEF ClientEffect, ReportTells, Text
    <3> QED
      BY <1>1, <1>2, <2>2, <3>2, <3>3 DEF ReportTells, Tells, Untouched
  <2>5. \A d : BelongsTo(d) => BelongsTo(d)'
    BY <1>2, <2>2 DEF BelongsTo
  <2> QED
    BY <1>1, <1>5, <2>1, <2>4, <2>5 DEF StageInv
<1> QED
  BY <1>2, <1>4, <1>5

\* The gateway turns a pending payment into a charge, drops it, or answers a
\* query truthfully.
LEMMA DropKeeps ==
  ASSUME OrderInv, NEW c \in Calls, NEW k \in Attempts, Drop(c, k), UNCHANGED merchantVars
  PROVE  StageInv'
<1>1. /\ Charges' = Charges /\ Pending' \subseteq Pending
      /\ UNCHANGED <<pc, outcome, reply, order, call>>
  BY DEF Drop, Charges, Pending, merchantVars
<1>2. /\ Untouched => Untouched'
      /\ \A d : BelongsTo(d) => BelongsTo(d)'
      /\ \A q : ReportTells(q) => ReportTells(q)'
  BY <1>1 DEF Untouched, BelongsTo, ReportTells, Tells
<1> QED
  BY <1>1, <1>2 DEF OrderInv, StageInv

LEMMA HandleKeeps ==
  ASSUME Settles, OrderInv, NEW c \in Calls, NEW k \in Attempts, NEW a \in Answers,
         Handle(c, k, a), UNCHANGED merchantVars
  PROVE  StageInv'
<1>1. /\ TypeOK /\ OrderTypeOK /\ StageInv
      /\ UNCHANGED <<pc, outcome, order, call>>
      /\ <<c, k>> \in inbox /\ inbox' = inbox \ {<<c, k>>}
      /\ ledger' = IF a.charges THEN ledger \cup {<<c, k>>} ELSE ledger
      /\ \A d \in Calls : reply'[d] = reply[d] \/ (d = c /\ reply'[d] = a)
  BY DEF OrderInv, IInv, TypeOK, Handle, Process, merchantVars
<1>3. CASE c \in TransactCalls
  <2>1. <<c, k>> \in Pending /\ Pending' \subseteq Pending
    BY <1>1, <1>3 DEF Pending
  <2>2. Charges \subseteq Charges' /\ Charges' \subseteq Charges \cup {<<c, k>>}
    BY <1>1 DEF Charges
  <2>3. \A d : BelongsTo(d) => BelongsTo(d)'
    BY <2>1, <2>2 DEF BelongsTo
  <2>4. ~Untouched
    BY <2>1 DEF Untouched
  <2>5. ASSUME NEW q \in QueryCalls, ReportTells(q)
        PROVE  ReportTells(q)'
    <3>1. reply'[q] = reply[q] /\ outcome'[q] = outcome[q]
      BY <1>1, <1>3, CallsAssumption DEF Calls
    <3>2. ASSUME NEW body, Tells(body)
          PROVE  body # EmptyBody /\ (body = FoundBody => Charges' # {})
      BY <2>2, <2>4, <3>2 DEF Tells
    <3> QED
      BY <2>5, <3>1, <3>2 DEF ReportTells, Tells
  <2> QED
    BY <1>1, <2>2, <2>3, <2>4, <2>5 DEF StageInv
<1>4. CASE c \notin TransactCalls
  <2>1. c \in QueryCalls /\ ~a.charges
    BY <1>4 DEF Calls, Handle, Process, AnswersTo
  <2>2. Charges' = Charges /\ Pending' = Pending
    BY <1>1, <1>4, <2>1 DEF Charges, Pending
  <2>3. Tells(a.body)
    BY <2>1 DEF Handle, Tells, Untouched
  <2>4. \A d : BelongsTo(d) => BelongsTo(d)'
    BY <2>2 DEF BelongsTo
  <2>5. ASSUME NEW q \in QueryCalls, ReportTells(q)
        PROVE  ReportTells(q)'
    <3>1. reply'[q] \in {reply[q], a} /\ outcome'[q] = outcome[q]
      BY <1>1 DEF Calls
    <3> QED
      BY <2>2, <2>3, <2>5, <3>1 DEF ReportTells, Tells, Untouched
  <2> QED
    BY <1>1, <2>2, <2>4, <2>5 DEF StageInv, Untouched
<1> QED
  BY <1>3, <1>4

-----------------------------------------------------------------------------
(***************************************************************************)
(* The merchant's steps                                                    *)
(***************************************************************************)

\* Before its first step a call has no reply and no outcome.
LEMMA NewCall ==
  ASSUME IInv, NEW c \in Calls, pc[c] = "idle"
  PROVE  outcome[c] = NoOutcome /\ reply[c] = NoReply
  BY DEF IInv, OutcomeInv, Told, ReplyInv

LEMMA SubmitStep ==
  ASSUME OrderInv, Submit
  PROVE  StageInv'
<1>1. PICK c \in TransactCalls : Call(c) /\ call' = c
  BY DEF Submit
<1>2. /\ c \in Calls /\ order = "submit" /\ order' = "paying"
      /\ Charges' = Charges /\ Pending' = Pending
      /\ pc' = [pc EXCEPT ![c] = "pool"] /\ pc \in [Calls -> Phases]
  BY <1>1, TransactPath DEF Submit, Call, Goto, Charges, Pending, OrderInv, IInv, TypeOK
<1>3. BelongsTo(c)'
  BY <1>2 DEF OrderInv, StageInv, Untouched, BelongsTo
<1> QED
  BY <1>1, <1>2, <1>3 DEF StageInv

LEMMA AskStep ==
  ASSUME OrderInv, Ask
  PROVE  StageInv'
<1>1. PICK q \in QueryCalls : Call(q) /\ call' = q
  BY DEF Ask
<1>2. /\ q \in Calls /\ order = "ask" /\ order' = "asking"
      /\ Charges' = Charges /\ Pending' = Pending
      /\ pc[q] = "idle" /\ pc' = [pc EXCEPT ![q] = "pool"] /\ pc \in [Calls -> Phases]
      /\ outcome' = outcome /\ reply' = reply
  BY <1>1 DEF Ask, Call, Calls, Goto, Charges, Pending, OrderInv, IInv, TypeOK
<1>3. outcome[q] = NoOutcome /\ reply[q] = NoReply
  BY <1>2, NewCall DEF OrderInv
<1>4. ReportTells(q)'
  BY <1>2, <1>3 DEF ReportTells, NoOutcome
<1>5. \A d : BelongsTo(d) => BelongsTo(d)'
  BY <1>2 DEF BelongsTo
<1> QED
  BY <1>1, <1>2, <1>4, <1>5 DEF OrderInv, StageInv

LEMMA LearnStep ==
  ASSUME OrderInv, Learn
  PROVE  StageInv'
<1>1. /\ call \in TransactCalls /\ call \in Calls /\ BelongsTo(call)
      /\ VerdictSound(call) /\ pc[call] = "done" /\ outcome[call] # NoOutcome
      /\ ledger \subseteq TransactCalls \X Attempts /\ inbox \subseteq Calls \X Attempts
  BY IInvImpliesSound, TransactPath
  DEF OrderInv, StageInv, Learn, VerdictsSound, IInv, OutcomeInv, Told, GatewayInv, TypeOK
<1>2. /\ UNCHANGED vars /\ call' = call /\ Charges' = Charges /\ Pending' = Pending
      /\ UNCHANGED <<pc, ledger, inbox>>
      /\ order = "paying"
  BY DEF Learn, vars, Charges, Pending
<1>3. order' = IF Verdict(call) = "charged" THEN "paid"
               ELSE IF Verdict(call) = "not_charged" THEN "submit" ELSE "ask"
  BY OrderInvTurn, LearnTurn
<1>4. BelongsTo(call)'
  BY <1>1, <1>2 DEF BelongsTo
<1>5. Verdict(call) = "charged" => Charges # {}
  BY <1>1 DEF VerdictSound, Effects, Charges
<1>6. Verdict(call) = "not_charged" => Untouched
  <2>1. \A x \in Charges \cup Pending :
          \E k \in Attempts : x = <<call, k>> /\ x \in ledger \cup inbox
    BY <1>1 DEF BelongsTo, Charges, Pending
  <2> QED
    BY <1>1, <2>1 DEF VerdictSound, NeverCharged, Untouched
<1> QED
  BY <1>1, <1>2, <1>3, <1>4, <1>5, <1>6 DEF StageInv, Untouched

LEMMA LearnReportStep ==
  ASSUME OrderInv, LearnReport
  PROVE  StageInv'
<1>1. /\ call \in QueryCalls /\ call \in Calls /\ ReportTells(call)
      /\ order = "asking"
      /\ \E c \in TransactCalls : BelongsTo(c)
  BY DEF OrderInv, StageInv, LearnReport, IInv, OutcomeInv, Told, Calls
<1>2. /\ call' = call /\ Charges' = Charges /\ Pending' = Pending
      /\ order' = IF outcome[call] = Text(FoundBody) THEN "paid"
                  ELSE IF outcome[call] = Text(EmptyBody) THEN "submit" ELSE "ask"
  BY DEF LearnReport, vars, Charges, Pending
<1>3. /\ outcome[call] = Text(FoundBody) => Charges # {}
      /\ outcome[call] = Text(EmptyBody) => Untouched
  BY <1>1 DEF ReportTells, Tells, Text
<1>4. \A d : BelongsTo(d) => BelongsTo(d)'
  BY <1>2 DEF BelongsTo
<1> QED
  BY <1>1, <1>2, <1>3, <1>4 DEF StageInv, Untouched

LEMMA GiveUpOrderStep ==
  ASSUME OrderInv, GiveUpOrder
  PROVE  StageInv'
<1>1. /\ call' = call /\ Charges' = Charges /\ Pending' = Pending
      /\ order = "submit" /\ order' = "unpaid"
  BY DEF GiveUpOrder, vars, Charges, Pending
<1> QED
  BY <1>1 DEF OrderInv, StageInv, Untouched

-----------------------------------------------------------------------------
(***************************************************************************)
(* The theorems                                                            *)
(***************************************************************************)

LEMMA OrderInvInit == OrderInit => OrderInv
<1> SUFFICES ASSUME OrderInit
             PROVE  OrderInv
  OBVIOUS
<1>1. IInv
  BY InductiveInit DEF OrderInit
<1>2. OrderTypeOK /\ StageInv
  BY DEF OrderInit, Init, OrderTypeOK, Stages, InFlight, StageInv, Untouched, Charges, Pending
<1> QED
  BY <1>1, <1>2 DEF OrderInv

LEMMA OrderInvStep == Settles /\ OrderInv /\ [OrderNext]_allVars => OrderInv'
<1> SUFFICES ASSUME Settles, OrderInv, [OrderNext]_allVars
             PROVE  OrderInv'
  OBVIOUS
<1>1. IInv' /\ OrderTypeOK'
  BY OrderInvTurn, TurnStep DEF TurnInv
<1>2. CASE Submit \/ Learn \/ Ask \/ LearnReport \/ GiveUpOrder
  BY <1>1, <1>2, SubmitStep, LearnStep, AskStep, LearnReportStep, GiveUpOrderStep DEF OrderInv
<1>3. ASSUME NEW c \in Calls, ClientStep(c) \/ DecodingError(c) \/ Cancel(c),
             UNCHANGED merchantVars
      PROVE  OrderInv'
  BY <1>1, <1>3, ClientStepKeeps DEF OrderInv
<1>4. ASSUME NEW c \in Calls, NEW k \in Attempts, UNCHANGED merchantVars,
             Drop(c, k) \/ \E a \in Answers : Handle(c, k, a)
      PROVE  OrderInv'
  BY <1>1, <1>4, DropKeeps, HandleKeeps DEF OrderInv
<1>5. CASE UNCHANGED allVars
  <2>1. UNCHANGED <<outcome, inbox, ledger, reply, order, call>>
    BY <1>5 DEF allVars, vars, merchantVars
  <2>2. StageInv'
    BY <2>1
    DEF OrderInv, StageInv, Untouched, BelongsTo, ReportTells, Tells, Charges, Pending
  <2> QED
    BY <1>1, <2>2 DEF OrderInv
<1> QED
  BY <1>2, <1>3, <1>4, <1>5 DEF OrderNext

THEOREM OrderInvariance ==
  ASSUME Settles
  PROVE  OrderSpec => []OrderInv
<1>1. OrderInv /\ [OrderNext]_allVars => OrderInv'
  BY OrderInvStep
<1> QED
  BY OrderInvInit, <1>1, PTL DEF OrderSpec

LEMMA AtMostOneCharge == OrderInv => ChargedOnce
<1> SUFFICES ASSUME OrderInv
             PROVE  ChargedOnce
  OBVIOUS
<1>1. NoDoubleCharge /\ ledger \subseteq TransactCalls \X Attempts
  BY IInvImpliesSafety DEF OrderInv, IInv, GatewayInv
<1>2. \A x, y \in Charges : x[1] = y[1]
  BY DEF OrderInv, OrderTypeOK, StageInv, Stages, Untouched, BelongsTo
<1>3. \A x, y \in Charges : x = y
  <2> SUFFICES ASSUME NEW x \in Charges, NEW y \in Charges
               PROVE  x = y
    OBVIOUS
  <2>1. PICK c \in TransactCalls, k \in Attempts : x = <<c, k>> /\ <<c, k>> \in ledger
    BY <1>1 DEF Charges
  <2>2. PICK d \in TransactCalls, j \in Attempts : y = <<d, j>> /\ <<d, j>> \in ledger
    BY <1>1 DEF Charges
  <2>3. c = d
    BY <1>2, <2>1, <2>2
  <2> QED
    BY <1>1, <2>1, <2>2, <2>3 DEF NoDoubleCharge
<1>4. CASE Charges = {}
  BY <1>4, FS_EmptySet DEF ChargedOnce
<1>5. ASSUME NEW x \in Charges
      PROVE  ChargedOnce
  <2>1. Charges = {x}
    BY <1>3, <1>5
  <2>2. Cardinality({x}) = 1
    BY FS_Singleton, Zenon
  <2> QED
    BY <2>1, <2>2 DEF ChargedOnce
<1> QED
  BY <1>4, <1>5

\* The documented pattern (submit, reconcile, resubmit) charges an order at most
\* once, over all its payments and however they fail, if the gateway settles.
THEOREM OrderIsChargedOnce ==
  ASSUME Settles
  PROVE  OrderSpec => []ChargedOnce
  BY OrderInvariance, AtMostOneCharge, PTL

\* What the merchant concludes about the order is true and stays true.
THEOREM MerchantKnows ==
  ASSUME Settles
  PROVE  OrderSpec => []MerchantIsRight
<1>1. OrderInv => MerchantIsRight
  BY DEF OrderInv, StageInv, Untouched, MerchantIsRight
<1> QED
  BY OrderInvariance, <1>1, PTL
=============================================================================
