------------------------- MODULE TransactCallProofs -------------------------
(***************************************************************************)
(* Theorems about Transport, for every set of calls, every retry limit,    *)
(* every pool and every gateway whose rate limits refuse before they       *)
(* process; and TransactCall implements ChargePromise, if the gateway also *)
(* says what it did.                                                       *)
(*                                                                         *)
(* None of the transport's properties is inductive by itself.  The bound   *)
(* on attempts needs the guard of the except clause to be remembered over  *)
(* the sleep.  That a reply tells what the ledger holds is only preserved  *)
(* because a transact call writes at most once, and that it writes at most *)
(* once only because it leaves the loop whenever it fails after writing.   *)
(* IInv is the conjunction of these facts.  Its part Told(c) carries what  *)
(* the transport told the caller over to what the parsed result says.      *)
(* TruthfulGateway is used in the last part only.                          *)
(***************************************************************************)
EXTENDS TransactCall, TLAPS

-----------------------------------------------------------------------------
(***************************************************************************)
(* The inductive invariant                                                 *)
(***************************************************************************)

\* A call only sleeps when it has an attempt left.
BackoffInv == \A c \in Calls : pc[c] = "backoff" => attempt[c] < MaxRetries

\* A transact call whose bytes were written did so in its current attempt,
\* and is past the point where it writes.
SentOnce ==
  \A c \in TransactCalls : \A k \in Attempts :
    <<c, k>> \in sent => k = attempt[c] /\ pc[c] \in {"read", "done"}

\* The gateway has, and processes, only what was written, once, and only
\* transact calls have effects.
GatewayInv ==
  /\ inbox \subseteq sent
  /\ ledger \subseteq sent
  /\ inbox \cap ledger = {}
  /\ ledger \subseteq TransactCalls \X Attempts

\* A reply on its way tells the effect of the attempt that waits for it.
ReplyInv ==
  \A c \in Calls :
    reply[c] # NoReply =>
      /\ pc[c] = "read"
      /\ reply[c] \in Answers
      /\ c \in TransactCalls =>
           /\ <<c, attempt[c]>> \in sent
           /\ <<c, attempt[c]>> \notin inbox
           /\ reply[c].charges <=> <<c, attempt[c]>> \in ledger

\* What a call told its caller was true and stays true.
Told(c) ==
  /\ outcome[c] # NoOutcome => pc[c] = "done"
  /\ c \in TransactCalls =>
       /\ FailedWith(c, {"no_bytes_sent"}) => \A k \in Attempts : <<c, k>> \notin sent
       /\ FailedWith(c, {"rate_limit"}) => NeverCharged(c)
       /\ outcome[c].kind = "text" =>
            \E a \in Answers :
              /\ a.body = outcome[c].body
              /\ a.charges <=> \E k \in Attempts : <<c, k>> \in ledger
              /\ \A k \in Attempts : <<c, k>> \notin inbox

OutcomeInv == \A c \in Calls : Told(c)

IInv == TypeOK /\ BackoffInv /\ SentOnce /\ GatewayInv /\ ReplyInv /\ OutcomeInv

-----------------------------------------------------------------------------
(***************************************************************************)
(* Type correctness                                                        *)
(***************************************************************************)

LEMMA AttemptsAreIntegers == Attempts \subseteq Int
  BY MaxRetriesAssumption DEF Attempts

\* Whatever the exception and the endpoint, the caller gets one of the errors
\* the SDK declares.
LEMMA ConnectionErrorType ==
  ASSUME NEW exc, NEW path
  PROVE  ConnectionError(exc, path) \in Outcomes
  BY DEF ConnectionError, Outcomes, ClassOf, DetailOf, ConnectionErrorClasses, Details

LEMMA TypeInit == Init => TypeOK /\ BackoffInv
  BY MaxRetriesAssumption
  DEF Init, TypeOK, BackoffInv, Phases, Attempts, Outcomes

LEMMA TypeStep == TypeOK /\ BackoffInv /\ [Next]_vars => TypeOK' /\ BackoffInv'
<1> SUFFICES ASSUME TypeOK, BackoffInv, [Next]_vars
             PROVE  TypeOK' /\ BackoffInv'
  OBVIOUS
<1> USE DEF TypeOK, BackoffInv
<1>1. ASSUME NEW c \in Calls, Call(c) \/ AcquireConnection(c) \/ Connect(c)
      PROVE  TypeOK' /\ BackoffInv'
  BY <1>1 DEF Call, AcquireConnection, Connect, Goto, Phases, InFlight
<1>2. ASSUME NEW c \in Calls, SendRequest(c)
      PROVE  TypeOK' /\ BackoffInv'
  BY <1>2 DEF SendRequest, WriteBytes, Goto, Phases, InFlight
<1>3. ASSUME NEW c \in Calls, NEW e, Retry(c, e)
      PROVE  TypeOK' /\ BackoffInv'
  BY <1>3 DEF Retry, ShouldRetry, Raises, WriteNothing, WriteBytes, HangUp, Goto,
              Phases, InFlight
<1>4. ASSUME NEW c \in Calls, NEW e, GiveUp(c, e)
      PROVE  TypeOK' /\ BackoffInv'
  BY <1>4, ConnectionErrorType
  DEF GiveUp, Finish, Raises, WriteNothing, WriteBytes, HangUp, Goto, Phases
<1>5. ASSUME NEW c \in Calls, Wake(c)
      PROVE  TypeOK' /\ BackoffInv'
  <2>1. attempt[c] \in Attempts /\ attempt[c] < MaxRetries
    BY <1>5 DEF Wake
  <2>2. attempt[c] + 1 \in Attempts
    BY <2>1, MaxRetriesAssumption DEF Attempts
  <2> QED
    BY <1>5, <2>2 DEF Wake, Goto, Phases, InFlight
<1>6. ASSUME NEW c \in Calls, Receive(c) \/ DecodingError(c)
      PROVE  TypeOK' /\ BackoffInv'
  BY <1>6 DEF Receive, DecodingError, Finish, HangUp, Goto, Phases, Outcomes
<1>7. ASSUME NEW c \in Calls, Cancel(c)
      PROVE  TypeOK' /\ BackoffInv'
  BY <1>7 DEF Cancel, Finish, WriteNothing, WriteBytes, HangUp, Goto, Phases, Outcomes
<1>8. ASSUME NEW c \in Calls, NEW k \in Attempts, NEW a \in Answers, Process(c, k, a)
      PROVE  TypeOK' /\ BackoffInv'
  BY <1>8 DEF Process, AnswersTo
<1>9. ASSUME NEW c \in Calls, NEW k \in Attempts, Drop(c, k)
      PROVE  TypeOK' /\ BackoffInv'
  BY <1>9 DEF Drop
<1>10. CASE UNCHANGED vars
  BY <1>10 DEF vars
<1> QED
  BY <1>1, <1>2, <1>3, <1>4, <1>5, <1>6, <1>7, <1>8, <1>9, <1>10
  DEF Next, ClientStep, HttpError, Gateway

\* The type invariant of Transport; it bounds every call to MaxRetries + 1
\* attempts.
THEOREM TypeCorrect == Spec => []TypeOK
  BY TypeInit, TypeStep, PTL DEF Spec

-----------------------------------------------------------------------------
(***************************************************************************)
(* The strengthening                                                       *)
(***************************************************************************)

LEMMA TransactPath == \A c \in TransactCalls : Path(c) = "transact" /\ c \in Calls
  BY CallsAssumption DEF Path, Calls

\* A pre-send error is raised before anything is written.
LEMMA PreSendIsUnsent ==
  ASSUME NEW c, NEW e \in PreSendErrors, Raises(c, e)
  PROVE  pc[c] \in {"pool", "connect"} /\ WriteNothing
  BY DEF PreSendErrors, Raises, PoolErrors, ConnectErrors, WriteErrors, ReadErrors

\* The retry policy of transact.php: only pre-send errors are retried.
LEMMA TransactRetry ==
  ASSUME NEW c \in TransactCalls, NEW e, Retry(c, e)
  PROVE  pc[c] \in {"pool", "connect"} /\ WriteNothing
<1>1. e \in PreSendErrors /\ Raises(c, e)
  BY TransactPath DEF Retry, ShouldRetry, RetryableFor
<1> QED
  BY <1>1, PreSendIsUnsent

LEMMA SentOnceStep == TypeOK /\ SentOnce /\ [Next]_vars => SentOnce'
<1> SUFFICES ASSUME TypeOK, SentOnce, [Next]_vars,
                    NEW d \in TransactCalls, NEW j \in Attempts, <<d, j>> \in sent'
             PROVE  j = attempt'[d] /\ pc'[d] \in {"read", "done"}
  BY DEF SentOnce
<1>a. d \in Calls
  BY TransactPath
<1> USE <1>a DEF TypeOK, SentOnce
<1>1. ASSUME NEW c \in Calls,
             Call(c) \/ AcquireConnection(c) \/ Connect(c) \/ Wake(c)
      PROVE  j = attempt'[d] /\ pc'[d] \in {"read", "done"}
  BY <1>1 DEF Call, AcquireConnection, Connect, Wake, Goto
<1>2. ASSUME NEW c \in Calls, SendRequest(c)
      PROVE  j = attempt'[d] /\ pc'[d] \in {"read", "done"}
  BY <1>2 DEF SendRequest, WriteBytes, Goto
<1>3. ASSUME NEW c \in Calls, NEW e, Retry(c, e)
      PROVE  j = attempt'[d] /\ pc'[d] \in {"read", "done"}
  <2>1. CASE c = d
    BY <1>3, <2>1, TransactRetry DEF Retry, WriteNothing
  <2>2. CASE c # d
    BY <1>3, <2>2 DEF Retry, Raises, WriteNothing, WriteBytes, Goto
  <2> QED
    BY <2>1, <2>2
<1>4. ASSUME NEW c \in Calls, NEW e, GiveUp(c, e)
      PROVE  j = attempt'[d] /\ pc'[d] \in {"read", "done"}
  BY <1>4 DEF GiveUp, Finish, Raises, WriteNothing, WriteBytes, Goto
<1>5. ASSUME NEW c \in Calls, Receive(c) \/ DecodingError(c) \/ Cancel(c)
      PROVE  j = attempt'[d] /\ pc'[d] \in {"read", "done"}
  BY <1>5 DEF Receive, DecodingError, Cancel, Finish, WriteNothing, WriteBytes, Goto
<1>6. ASSUME Gateway \/ UNCHANGED vars
      PROVE  j = attempt'[d] /\ pc'[d] \in {"read", "done"}
  BY <1>6 DEF Gateway, Process, Drop, vars
<1> QED
  BY <1>1, <1>2, <1>3, <1>4, <1>5, <1>6 DEF Next, ClientStep, HttpError

\* The attempt of a transact call that is about to be written is new to the
\* gateway; a query never has an effect.
LEMMA WrittenIsNew ==
  ASSUME TypeOK, SentOnce, GatewayInv, NEW c \in Calls, pc[c] = "write"
  PROVE  <<c, attempt[c]>> \notin ledger
<1>1. CASE c \in TransactCalls
  BY <1>1 DEF SentOnce, GatewayInv, TypeOK
<1>2. CASE c \notin TransactCalls
  BY <1>2 DEF GatewayInv
<1> QED
  BY <1>1, <1>2

LEMMA GatewayStep == TypeOK /\ SentOnce /\ GatewayInv /\ [Next]_vars => GatewayInv'
<1> SUFFICES ASSUME TypeOK, SentOnce, GatewayInv, [Next]_vars
             PROVE  GatewayInv'
  OBVIOUS
<1>1. ASSUME NEW c \in Calls, pc[c] = "write", WriteBytes(c)
      PROVE  GatewayInv'
  BY <1>1, WrittenIsNew DEF WriteBytes, GatewayInv
<1>2. ASSUME WriteNothing
      PROVE  GatewayInv'
  BY <1>2 DEF WriteNothing, GatewayInv
<1>3. ASSUME NEW c \in Calls, NEW e, Raises(c, e)
      PROVE  GatewayInv'
  BY <1>1, <1>2, <1>3 DEF Raises
<1>4. ASSUME NEW c \in Calls, NEW k \in Attempts, NEW a \in Answers, Process(c, k, a)
      PROVE  GatewayInv'
  <2>1. a.charges => c \in TransactCalls
    BY <1>4 DEF Process, AnswersTo, Calls
  <2> QED
    BY <1>4, <2>1 DEF Process, GatewayInv
<1>5. ASSUME NEW c \in Calls, NEW k \in Attempts, Drop(c, k)
      PROVE  GatewayInv'
  BY <1>5 DEF Drop, GatewayInv
<1>6. ASSUME NEW c \in Calls, SendRequest(c) \/ Cancel(c)
      PROVE  GatewayInv'
  BY <1>1, <1>2, <1>6 DEF SendRequest, Cancel
<1>7. ASSUME NEW c \in Calls,
             \/ Call(c) \/ AcquireConnection(c) \/ Connect(c) \/ Wake(c)
             \/ Receive(c) \/ DecodingError(c)
      PROVE  GatewayInv'
  BY <1>2, <1>7
  DEF Call, AcquireConnection, Connect, Wake, Receive, DecodingError, WriteNothing
<1>8. CASE UNCHANGED vars
  BY <1>2, <1>8 DEF vars, WriteNothing
<1> QED
  BY <1>3, <1>4, <1>5, <1>6, <1>7, <1>8
  DEF Next, ClientStep, HttpError, Gateway, Retry, GiveUp

-----------------------------------------------------------------------------
(***************************************************************************)
(* Replies and outcomes                                                    *)
(***************************************************************************)

LEMMA ReplyStep ==
  TypeOK /\ SentOnce /\ GatewayInv /\ ReplyInv /\ [Next]_vars => ReplyInv'
<1> SUFFICES ASSUME TypeOK, SentOnce, GatewayInv, ReplyInv, [Next]_vars
             PROVE  ReplyInv'
  OBVIOUS
<1> USE DEF TypeOK, ReplyInv
<1>1. ASSUME NEW c \in Calls,
             Call(c) \/ AcquireConnection(c) \/ Connect(c) \/ Wake(c)
      PROVE  ReplyInv'
  BY <1>1 DEF Call, AcquireConnection, Connect, Wake, Goto
<1>2. ASSUME NEW c \in Calls, SendRequest(c)
      PROVE  ReplyInv'
  BY <1>2 DEF SendRequest, WriteBytes, Goto
<1>3. ASSUME NEW c \in Calls, NEW e, Retry(c, e) \/ GiveUp(c, e)
      PROVE  ReplyInv'
  BY <1>3 DEF Retry, GiveUp, Finish, Raises, WriteNothing, WriteBytes, HangUp, Goto
<1>4. ASSUME NEW c \in Calls, Receive(c) \/ DecodingError(c) \/ Cancel(c)
      PROVE  ReplyInv'
  BY <1>4
  DEF Receive, DecodingError, Cancel, Finish, WriteNothing, WriteBytes, HangUp, Goto
<1>5. ASSUME NEW c \in Calls, NEW k \in Attempts, NEW a \in Answers, Process(c, k, a)
      PROVE  ReplyInv'
  <2> SUFFICES ASSUME NEW d \in Calls, reply'[d] # NoReply
               PROVE  /\ pc'[d] = "read"
                      /\ reply'[d] \in Answers
                      /\ d \in TransactCalls =>
                           /\ <<d, attempt'[d]>> \in sent'
                           /\ <<d, attempt'[d]>> \notin inbox'
                           /\ reply'[d].charges <=> <<d, attempt'[d]>> \in ledger'
    OBVIOUS
  <2>1. /\ UNCHANGED <<pc, attempt, sent>>
        /\ <<c, k>> \in sent /\ <<c, k>> \notin ledger
    BY <1>5 DEF Process, GatewayInv
  <2>2. CASE reply'[d] = reply[d] /\ <<d, attempt[d]>> # <<c, k>>
    BY <1>5, <2>1, <2>2 DEF Process
  <2>3. CASE reply'[d] = reply[d] /\ <<d, attempt[d]>> = <<c, k>>
    \* The reply was there before its request was processed: d is no transact.
    <3>1. d \notin TransactCalls
      BY <1>5, <2>3 DEF Process
    <3> QED
      BY <2>1, <2>3, <3>1
  <2>4. CASE d = c /\ reply'[d] = a /\ pc[c] = "read" /\ attempt[c] = k
    BY <1>5, <2>1, <2>4, AnswersAssumption DEF Process
  <2> QED
    BY <1>5, <2>2, <2>3, <2>4 DEF Process
<1>6. ASSUME NEW c \in Calls, NEW k \in Attempts, Drop(c, k)
      PROVE  ReplyInv'
  BY <1>6 DEF Drop
<1>7. CASE UNCHANGED vars
  BY <1>7 DEF vars
<1> QED
  BY <1>1, <1>2, <1>3, <1>4, <1>5, <1>6, <1>7 DEF Next, ClientStep, HttpError, Gateway

\* Nothing a finished call relies on changes: it writes no more, and the
\* gateway has an effect of it only if it still had a request of it.
LEMMA FinishedIsStable ==
  ASSUME TypeOK, [Next]_vars, NEW d \in Calls, pc[d] = "done"
  PROVE  /\ pc'[d] = "done"
         /\ outcome'[d] = outcome[d]
         /\ \A k \in Attempts : /\ <<d, k>> \in sent' => <<d, k>> \in sent
                                /\ <<d, k>> \in inbox' => <<d, k>> \in inbox
                                /\ <<d, k>> \in ledger => <<d, k>> \in ledger'
                                /\ <<d, k>> \in ledger' => <<d, k>> \in ledger \cup inbox
<1> DEFINE Goal ==
         /\ pc'[d] = "done"
         /\ outcome'[d] = outcome[d]
         /\ \A k \in Attempts : /\ <<d, k>> \in sent' => <<d, k>> \in sent
                                /\ <<d, k>> \in inbox' => <<d, k>> \in inbox
                                /\ <<d, k>> \in ledger => <<d, k>> \in ledger'
                                /\ <<d, k>> \in ledger' => <<d, k>> \in ledger \cup inbox
<1> USE DEF TypeOK
<1>1. ASSUME NEW c \in Calls,
             \/ Call(c) \/ AcquireConnection(c) \/ Connect(c) \/ Wake(c)
             \/ Receive(c) \/ DecodingError(c)
      PROVE  Goal
  BY <1>1 DEF Call, AcquireConnection, Connect, Wake, Receive, DecodingError, Finish, Goto
<1>2. ASSUME NEW c \in Calls, SendRequest(c) \/ Cancel(c)
      PROVE  Goal
  BY <1>2 DEF SendRequest, Cancel, InFlight, Finish, WriteNothing, WriteBytes, Goto
<1>3. ASSUME NEW c \in Calls, NEW e, Retry(c, e) \/ GiveUp(c, e)
      PROVE  Goal
  BY <1>3 DEF Retry, GiveUp, Raises, Finish, WriteNothing, WriteBytes, Goto
<1>4. CASE Gateway
  BY <1>4 DEF Gateway, Process, Drop
<1>5. CASE UNCHANGED vars
  BY <1>5 DEF vars
<1> QED
  BY <1>1, <1>2, <1>3, <1>4, <1>5 DEF Next, ClientStep, HttpError

\* The message of the exception is right about transact.php.
LEMMA GiveUpTells ==
  ASSUME TypeOK, SentOnce, GatewayInv, NEW d \in Calls, NEW e, GiveUp(d, e)
  PROVE  Told(d)'
<1>1. /\ pc'[d] = "done"
      /\ outcome'[d] = ConnectionError(e, Path(d))
  BY DEF GiveUp, Finish, Goto, TypeOK
<1>2. outcome'[d].kind = "raised" /\ outcome'[d].detail = DetailOf(e, Path(d))
  BY <1>1 DEF ConnectionError, Raised
<1>3. outcome'[d].detail # "rate_limit"
  BY <1>2 DEF DetailOf
<1>4. ASSUME d \in TransactCalls, outcome'[d].detail = "no_bytes_sent"
      PROVE  \A k \in Attempts : <<d, k>> \notin sent'
  <2>1. e \in PreSendErrors
    BY <1>2, <1>4, TransactPath DEF DetailOf
  <2>2. pc[d] \in {"pool", "connect"} /\ sent' = sent
    BY <2>1, PreSendIsUnsent DEF GiveUp, WriteNothing
  <2> QED
    BY <1>4, <2>2 DEF SentOnce
<1> QED
  BY <1>1, <1>2, <1>3, <1>4 DEF Told, FailedWith

\* So is a rate limit, and the text of a reply.
LEMMA ReceiveTells ==
  ASSUME TypeOK, SentOnce, GatewayInv, ReplyInv, NEW d \in Calls, Receive(d)
  PROVE  Told(d)'
<1> DEFINE a == reply[d]
<1>1. /\ pc'[d] = "done"
      /\ outcome'[d] = IF a.status = 429 THEN RateLimited ELSE Text(a.body)
      /\ UNCHANGED <<sent, inbox, ledger>>
      /\ a # NoReply
  BY DEF Receive, Finish, Goto, TypeOK
<1>2. a \in Answers /\ (a.status = 429 => ~a.charges)
  BY <1>1, AnswersAssumption DEF ReplyInv
<1>3. ASSUME d \in TransactCalls
      PROVE  /\ \A k \in Attempts : <<d, k>> \notin inbox
             /\ a.charges <=> \E k \in Attempts : <<d, k>> \in ledger
  <2>1. \A k \in Attempts : <<d, k>> \in sent => k = attempt[d]
    BY <1>3 DEF SentOnce
  <2>2. attempt[d] \in Attempts
    BY DEF TypeOK
  <2> QED
    BY <1>1, <1>3, <2>1, <2>2 DEF ReplyInv, GatewayInv
<1>4. CASE a.status = 429
  <2>1. outcome'[d].kind = "raised" /\ outcome'[d].detail = "rate_limit"
    BY <1>1, <1>4 DEF RateLimited, Raised
  <2> QED
    BY <1>1, <1>2, <1>3, <1>4, <2>1 DEF Told, FailedWith, NeverCharged
<1>5. CASE a.status # 429
  <2>1. outcome'[d].kind = "text" /\ outcome'[d].body = a.body
    BY <1>1, <1>5 DEF Text
  <2> QED
    BY <1>1, <1>2, <1>3, <2>1 DEF Told, FailedWith
<1> QED
  BY <1>4, <1>5

LEMMA OutcomeStep ==
  /\ TypeOK /\ SentOnce /\ GatewayInv /\ ReplyInv /\ OutcomeInv
  /\ [Next]_vars
  => OutcomeInv'
<1> SUFFICES ASSUME TypeOK, SentOnce, GatewayInv, ReplyInv, OutcomeInv, [Next]_vars,
                    NEW d \in Calls
             PROVE  Told(d)'
  BY DEF OutcomeInv
<1>1. CASE pc[d] = "done"
  BY <1>1, FinishedIsStable DEF OutcomeInv, Told, FailedWith, NeverCharged, GatewayInv
<1>2. CASE outcome'[d] = NoOutcome
  BY <1>2 DEF Told, FailedWith, NoOutcome
<1>3. ASSUME NEW e, GiveUp(d, e)
      PROVE  Told(d)'
  BY <1>3, GiveUpTells
<1>4. ASSUME Receive(d)
      PROVE  Told(d)'
  BY <1>4, ReceiveTells
<1>5. ASSUME DecodingError(d) \/ Cancel(d)
      PROVE  Told(d)'
  BY <1>5 DEF DecodingError, Cancel, Finish, Goto, Escaped, NoOutcome, Told, FailedWith,
              TypeOK
<1>6. ASSUME pc[d] # "done", outcome'[d] # NoOutcome
      PROVE  (\E e : GiveUp(d, e)) \/ Receive(d) \/ DecodingError(d) \/ Cancel(d)
  <2>1. outcome[d] = NoOutcome
    BY <1>6 DEF OutcomeInv, Told
  <2>2. outcome' # outcome
    BY <1>6, <2>1
  <2>3. ASSUME NEW c \in Calls, NEW result, Finish(c, result)
        PROVE  c = d
    BY <1>6, <2>1, <2>3 DEF Finish, TypeOK
  <2>4. PICK c \in Calls :
          (\E e : GiveUp(c, e)) \/ Receive(c) \/ DecodingError(c) \/ Cancel(c)
    BY <2>2
    DEF Next, ClientStep, HttpError, Gateway, Call, AcquireConnection, Connect,
        SendRequest, Wake, Retry, Process, Drop, vars
  <2>5. c = d
    BY <2>3, <2>4 DEF GiveUp, Receive, DecodingError, Cancel
  <2> QED
    BY <2>4, <2>5
<1> QED
  BY <1>1, <1>2, <1>3, <1>4, <1>5, <1>6

-----------------------------------------------------------------------------
(***************************************************************************)
(* The theorems                                                            *)
(***************************************************************************)

LEMMA InductiveInit == Init => IInv
<1> SUFFICES ASSUME Init
             PROVE  SentOnce /\ GatewayInv /\ ReplyInv /\ OutcomeInv
  BY TypeInit DEF IInv
<1>1. SentOnce /\ GatewayInv
  BY DEF Init, SentOnce, GatewayInv
<1>2. ReplyInv
  BY DEF Init, ReplyInv
<1>3. OutcomeInv
  BY DEF Init, OutcomeInv, Told, FailedWith, NoOutcome
<1> QED
  BY <1>1, <1>2, <1>3

LEMMA InductiveStep == IInv /\ [Next]_vars => IInv'
  BY TypeStep, SentOnceStep, GatewayStep, ReplyStep, OutcomeStep DEF IInv

THEOREM Invariance == Spec => []IInv
  BY InductiveInit, InductiveStep, PTL DEF Spec

LEMMA IInvImpliesSafety == IInv => NoDoubleCharge /\ SafeToResubmit /\ TextTellsTheLedger
<1> SUFFICES ASSUME IInv
             PROVE  NoDoubleCharge /\ SafeToResubmit /\ TextTellsTheLedger
  OBVIOUS
<1> USE TransactPath DEF IInv
<1>1. NoDoubleCharge
  BY DEF NoDoubleCharge, SentOnce, GatewayInv
<1>2. SafeToResubmit
  BY DEF SafeToResubmit, OutcomeInv, Told, FailedWith, NeverCharged, GatewayInv
<1>3. TextTellsTheLedger
  BY DEF TextTellsTheLedger, OutcomeInv, Told
<1> QED
  BY <1>1, <1>2, <1>3

\* The double-charge invariant of the transports, for any number of concurrent
\* calls, any retry limit and any gateway.
THEOREM DoubleChargeFreedom == Spec => []NoDoubleCharge
  BY Invariance, IInvImpliesSafety, PTL

\* A caller who resubmits a transaction because the SDK says that it is safe
\* does not charge twice.
THEOREM ResubmissionIsSafe == Spec => []SafeToResubmit
  BY Invariance, IInvImpliesSafety, PTL

\* The text request() returns for a transact call speaks of the effect that
\* took place.
THEOREM TextIsTruthful == Spec => []TextTellsTheLedger
  BY Invariance, IInvImpliesSafety, PTL

LEMMA RetriedOnlyUnsent ==
  TypeOK /\ SentOnce /\ SentOnce' /\ [Next]_vars
  => [\A c \in TransactCalls :
        (\E k \in Attempts : <<c, k>> \in sent') => pc'[c] \in {"read", "done"}]_vars
  BY DEF SentOnce

\* Once bytes of a transact call have been written no step takes the call back
\* to the pool, to a connection or into a backoff.
THEOREM NoRetryAfterSend == Spec => NeverRetriedOnceSent
<1>1. Spec => []IInv
  BY Invariance
<1>2. IInv => TypeOK /\ SentOnce
  BY DEF IInv
<1> QED
  BY <1>1, <1>2, RetriedOnlyUnsent, PTL DEF Spec, NeverRetriedOnceSent

-----------------------------------------------------------------------------
(***************************************************************************)
(* Lemmas about the parsers                                                *)
(***************************************************************************)

\* The classifier only knows classes that say "refused".
LEMMA ClassifyIsRefusal ==
  ASSUME NEW code, NEW text
  PROVE  /\ ClassifyGatewayError(code, text) \in RefusalClasses
         /\ ClassifyGatewayError(code, text) # NoError
  BY DEF ClassifyGatewayError, RefusalClasses, NoError

\* What a builder raises, by the response field alone: a class that says
\* "refused" only for response=3, for which it always raises.
LEMMA RaisedFor ==
  ASSUME NEW fields
  PROVE  LET response == Get(fields, "response", "missing")
             error == BuilderError(fields)
         IN  /\ response \notin {"1", "2", "3"} => error = "APIError"
             /\ response = "3" => error # NoError
             /\ response \in {"1", "2"} => error \in {"ValueError", NoError}
  BY ClassifyIsRefusal DEF BuilderError, RaiseForError, NoError

\* Whichever builder a method uses: success stands for response=1, a result
\* that is no success for response=2, and a refusal for response=3.
LEMMA ResultMeansResponse ==
  ASSUME NEW fields, NEW parser
  PROVE  LET response == Get(fields, "response", "missing")
             r == Parse(parser, fields)
         IN  /\ r.kind # "none"
             /\ IsSuccess(r) => response = "1"
             /\ IsFailure(r) => response = "2"
             /\ IsRefusal(r) => response = "3"
<1> DEFINE response == Get(fields, "response", "missing")
           r == Parse(parser, fields)
<1>1. CASE response \notin {"1", "2", "3"}
  <2>1. r = Rejected("APIError")
    BY <1>1, RaisedFor DEF Parse, DecideOutcome, OkResult, NoError
  <2> QED
    BY <2>1 DEF Rejected, IsSuccess, IsFailure, IsRefusal, RefusalClasses,
                ConnectionErrorClasses
<1>2. CASE response = "3"
  <2>1. r = Rejected(BuilderError(fields))
    BY <1>2, RaisedFor DEF Parse, DecideOutcome, OkResult
  <2> QED
    BY <1>2, <2>1 DEF Rejected, IsSuccess, IsFailure
<1>3. CASE response \in {"1", "2"}
  <2>1. fields["response"] = response
    BY <1>3 DEF Get
  <2>2. CASE BuilderError(fields) = NoError
    <3>1. r.kind = IF parser = "decide_outcome"
                   THEN IF response = "1" THEN "approved" ELSE "declined"
                   ELSE IF response = "1" THEN "ok" ELSE "not_ok"
      BY <2>1, <2>2 DEF Parse, DecideOutcome, OkResult
    <3> QED
      BY <1>3, <3>1 DEF IsSuccess, IsFailure, IsRefusal
  <2>3. CASE BuilderError(fields) = "ValueError"
    <3>1. r = Rejected("ValueError")
      BY <2>3 DEF Parse, DecideOutcome, OkResult, NoError
    <3> QED
      BY <3>1 DEF Rejected, IsSuccess, IsFailure, IsRefusal, RefusalClasses,
                  ConnectionErrorClasses
  <2> QED
    BY <1>3, <2>2, <2>3, RaisedFor
<1> QED
  BY <1>1, <1>2, <1>3

-----------------------------------------------------------------------------
(***************************************************************************)
(* What a verdict is worth                                                 *)
(***************************************************************************)

Effects(c) == {k \in Attempts : <<c, k>> \in ledger}

\* The verdict on a call is sound: it speaks of the effect in the ledger, and
\* "not charged" also rules out a later effect.
VerdictSound(c) ==
  /\ Verdict(c) = "charged" => Effects(c) # {} /\ \A k \in Attempts : <<c, k>> \notin inbox
  /\ Verdict(c) = "not_charged" => NeverCharged(c)
  /\ Verdict(c) = "open" <=> outcome[c] = NoOutcome

LEMMA ToldIsSound ==
  ASSUME TypeOK, GatewayInv, OutcomeInv, NEW c \in TransactCalls
  PROVE  VerdictSound(c)
<1>1. c \in Calls /\ Told(c)
  BY TransactPath DEF OutcomeInv
<1>2. outcome[c] \in Outcomes
  BY <1>1 DEF TypeOK
<1>3. CASE outcome[c] = NoOutcome
  <2>1. Verdict(c) = "open"
    BY <1>3 DEF Verdict, Result, NoOutcome
  <2> QED
    BY <1>3, <2>1 DEF VerdictSound
<1>4. CASE outcome[c].kind = "text"
  <2> DEFINE fields == ParseTransactBody(outcome[c].body)
             response == Get(fields, "response", "missing")
             r == Parse(ParserOf[c], fields)
  <2>1. PICK a \in Answers :
          /\ a.body = outcome[c].body
          /\ a.charges <=> Effects(c) # {}
          /\ \A k \in Attempts : <<c, k>> \notin inbox
    BY <1>1, <1>4 DEF Told, Effects
  <2>2. /\ response = "1" => a.charges
        /\ response \in {"2", "3"} => ~a.charges
    BY <2>1, TruthfulGateway
  <2>3. Result(c) = r
    BY <1>4 DEF Result, ParsedResult
  <2>4. /\ r.kind # "none"
        /\ IsSuccess(r) => response = "1"
        /\ IsFailure(r) => response = "2"
        /\ IsRefusal(r) => response = "3"
    BY ResultMeansResponse
  <2> HIDE DEF fields, response, r
  <2>5. Verdict(c) = "charged" => response = "1"
    BY <2>3, <2>4 DEF Verdict
  <2>6. Verdict(c) = "not_charged" => response \in {"2", "3"}
    BY <2>3, <2>4 DEF Verdict
  <2>7. Verdict(c) # "open"
    BY <2>3, <2>4 DEF Verdict
  <2>8. outcome[c] # NoOutcome
    BY <1>4 DEF NoOutcome
  <2> QED
    BY <2>1, <2>2, <2>5, <2>6, <2>7, <2>8 DEF VerdictSound, NeverCharged, Effects
<1>5. CASE outcome[c].kind \in {"raised", "escaped"}
  <2>1. Result(c) = outcome[c]
    BY <1>5 DEF Result
  <2>2. Verdict(c) # "open" /\ Verdict(c) # "charged" /\ outcome[c] # NoOutcome
    BY <1>5, <2>1 DEF Verdict, IsSuccess, NoOutcome
  <2>3. ASSUME Verdict(c) = "not_charged"
        PROVE  FailedWith(c, {"no_bytes_sent", "rate_limit"})
    <3>1. IsRefusal(outcome[c])
      BY <1>5, <2>1, <2>3 DEF Verdict, IsFailure, IsSuccess
    <3>2. outcome[c].class \in RefusalClasses => outcome[c] = RateLimited
      BY <1>2, <1>5, <3>1
      DEF Outcomes, NoOutcome, Escaped, Text, Raised, RateLimited, RefusalClasses,
          ConnectionErrorClasses, IsRefusal
    <3> QED
      BY <3>1, <3>2 DEF IsRefusal, FailedWith, RateLimited, Raised
  <2> QED
    BY <1>1, <2>2, <2>3 DEF VerdictSound, Told, FailedWith, NeverCharged, GatewayInv
<1> QED
  BY <1>2, <1>3, <1>4, <1>5
  DEF Outcomes, NoOutcome, Escaped, Text, Raised, RateLimited

VerdictsSound == \A c \in TransactCalls : VerdictSound(c)

LEMMA IInvImpliesSound == IInv => VerdictsSound
  BY ToldIsSound DEF IInv, VerdictsSound

\* Every verdict a merchant can read off a result is true when it is given and
\* ever after.
THEOREM VerdictSoundness == Spec => []VerdictsSound
  BY Invariance, IInvImpliesSound, PTL

-----------------------------------------------------------------------------
(***************************************************************************)
(* The refinement                                                          *)
(***************************************************************************)

LEMMA PromiseInit == Init => Promise!Init
  BY TransactPath
  DEF Init, Promise!Init, Verdict, Result, NoOutcome

\* A step that changes neither the ledger nor an outcome of a transact call is
\* invisible to the promise.
LEMMA Invisible ==
  ASSUME UNCHANGED ledger, \A c \in TransactCalls : outcome'[c] = outcome[c]
  PROVE  UNCHANGED Promise!vars
  BY DEF Promise!vars, Verdict, Result, ParsedResult

\* A call that finishes reports its verdict.
LEMMA FinishReports ==
  ASSUME IInv, VerdictsSound, VerdictsSound', UNCHANGED ledger, NEW c \in Calls, NEW result, Finish(c, result),
         pc[c] # "done", result # NoOutcome
  PROVE  Promise!Next \/ UNCHANGED Promise!vars
<1> USE DEF IInv
<1>1. /\ outcome' = [outcome EXCEPT ![c] = result]
      /\ outcome[c] = NoOutcome
      /\ outcome'[c] = result
  BY DEF Finish, OutcomeInv, Told, TypeOK
<1>2. CASE c \notin TransactCalls
  BY <1>1, <1>2, Invisible, TransactPath DEF TypeOK
<1>3. CASE c \in TransactCalls
  <2>1. VerdictSound(c) /\ VerdictSound(c)'
    BY <1>3 DEF VerdictsSound
  <2>2. Verdict(c) = "open" /\ Verdict(c)' # "open"
    BY <1>1, <2>1 DEF VerdictSound
  <2>3. Verdict(c)' \in Promise!Verdicts
    BY DEF Verdict, Promise!Verdicts
  <2>4. \A d \in TransactCalls : d # c => Verdict(d)' = Verdict(d)
    BY <1>1, TransactPath DEF Verdict, Result, ParsedResult, TypeOK
  <2>5. Effects(c)' = Effects(c)
    BY DEF Effects
  <2>6. /\ Verdict(c)' = "charged" => Effects(c) # {}
        /\ Verdict(c)' = "not_charged" => Effects(c) = {}
    BY <2>1, <2>5 DEF VerdictSound, NeverCharged, Effects
  <2>7. Promise!Report(c, Verdict(c)')
    BY <1>3, <2>2, <2>4, <2>6 DEF Promise!Report, Effects
  <2> QED
    BY <1>3, <2>2, <2>3, <2>7 DEF Promise!Next
<1> QED
  BY <1>2, <1>3

\* The gateway's processing of a request is a charge, or nothing.
LEMMA ProcessCharges ==
  ASSUME IInv, NEW c \in Calls, NEW k \in Attempts, NEW a \in Answers, Process(c, k, a)
  PROVE  Promise!Next \/ UNCHANGED Promise!vars
<1> USE DEF IInv
<1>1. UNCHANGED outcome /\ <<c, k>> \in inbox
  BY DEF Process
<1>2. CASE ~a.charges
  BY <1>1, <1>2, Invisible DEF Process
<1>3. CASE a.charges
  <2>1. c \in TransactCalls /\ ledger' = ledger \cup {<<c, k>>}
    BY <1>3 DEF Process, AnswersTo, Calls
  <2>2. Effects(c) = {}
    BY <1>1, <2>1 DEF Effects, SentOnce, GatewayInv
  <2>3. Verdict(c) \in {"open", "unknown"}
    <3>1. VerdictSound(c)
      BY <2>1, ToldIsSound
    <3> QED
      BY <1>1, <3>1 DEF VerdictSound, NeverCharged, Verdict
  <2>4. Effects(c)' = {k} /\ \A d \in TransactCalls : d # c => Effects(d)' = Effects(d)
    BY <2>1, <2>2 DEF Effects
  <2>5. \A d \in TransactCalls : Verdict(d)' = Verdict(d)
    BY <1>1 DEF Verdict, Result, ParsedResult
  <2>6. Promise!Charge(c, k)
    BY <2>1, <2>2, <2>3, <2>4, <2>5 DEF Promise!Charge, Effects
  <2> QED
    BY <2>1, <2>6 DEF Promise!Next
<1> QED
  BY <1>2, <1>3, AnswersAssumption

LEMMA PromiseStep ==
  IInv /\ VerdictsSound /\ VerdictsSound' /\ [Next]_vars
  => [Promise!Next]_(Promise!vars)
<1> SUFFICES ASSUME IInv, VerdictsSound, VerdictsSound', [Next]_vars
             PROVE  Promise!Next \/ UNCHANGED Promise!vars
  OBVIOUS
<1>1. ASSUME NEW c \in Calls,
             Call(c) \/ AcquireConnection(c) \/ Connect(c) \/ SendRequest(c) \/ Wake(c)
      PROVE  UNCHANGED Promise!vars
  BY <1>1, Invisible
  DEF Call, AcquireConnection, Connect, SendRequest, WriteBytes, Wake
<1>2. ASSUME NEW c \in Calls, NEW e, Retry(c, e)
      PROVE  UNCHANGED Promise!vars
  BY <1>2, Invisible DEF Retry, Raises, WriteBytes, WriteNothing
<1>3. ASSUME NEW c \in Calls, NEW e, GiveUp(c, e)
      PROVE  Promise!Next \/ UNCHANGED Promise!vars
  <2>1. UNCHANGED ledger /\ pc[c] # "done" /\ Finish(c, ConnectionError(e, Path(c)))
    BY <1>3 DEF GiveUp, Raises, WriteBytes, WriteNothing
  <2>2. ConnectionError(e, Path(c)) # NoOutcome
    BY DEF ConnectionError, Raised, NoOutcome
  <2> QED
    BY <2>1, <2>2, FinishReports
<1>4. ASSUME NEW c \in Calls, Receive(c)
      PROVE  Promise!Next \/ UNCHANGED Promise!vars
  <2> DEFINE result == IF reply[c].status = 429 THEN RateLimited ELSE Text(reply[c].body)
  <2>1. UNCHANGED ledger /\ pc[c] # "done" /\ Finish(c, result)
    BY <1>4 DEF Receive
  <2>2. result # NoOutcome
    BY DEF RateLimited, Raised, Text, NoOutcome
  <2> HIDE DEF result
  <2> QED
    BY <2>1, <2>2, FinishReports
<1>5. ASSUME NEW c \in Calls, DecodingError(c) \/ Cancel(c)
      PROVE  Promise!Next \/ UNCHANGED Promise!vars
  <2>1. UNCHANGED ledger /\ pc[c] # "done" /\ Finish(c, Escaped)
    BY <1>5 DEF DecodingError, Cancel, InFlight, WriteBytes, WriteNothing
  <2>2. Escaped # NoOutcome
    BY DEF Escaped, NoOutcome
  <2> QED
    BY <2>1, <2>2, FinishReports
<1>6. ASSUME NEW c \in Calls, NEW k \in Attempts, NEW a \in Answers, Process(c, k, a)
      PROVE  Promise!Next \/ UNCHANGED Promise!vars
  BY <1>6, ProcessCharges
<1>7. ASSUME NEW c \in Calls, NEW k \in Attempts, Drop(c, k)
      PROVE  UNCHANGED Promise!vars
  BY <1>7, Invisible DEF Drop
<1>8. CASE UNCHANGED vars
  BY <1>8, Invisible DEF vars
<1> QED
  BY <1>1, <1>2, <1>3, <1>4, <1>5, <1>6, <1>7, <1>8
  DEF Next, ClientStep, HttpError, Gateway

\* The SDK keeps the promise of ChargePromise: every step of the transports,
\* the network and the gateway is a charge or a report the promise allows, or
\* is invisible to the merchant.
THEOREM PromiseIsKept == Spec => KeepsPromise
  BY PromiseInit, PromiseStep, Invariance, VerdictSoundness, PTL DEF Spec, KeepsPromise, Promise!Spec
=============================================================================
