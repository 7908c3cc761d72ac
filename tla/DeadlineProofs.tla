--------------------------- MODULE DeadlineProofs ---------------------------
(***************************************************************************)
(* The bound on a call's duration, for all timeouts, retries and parts of  *)
(* a reply.  TimeIsAccounted is inductive together with the types: each    *)
(* operation starts with what the operations before it left of the bound.  *)
(***************************************************************************)
EXTENDS Deadline, TLAPS

Inv == TypeOK /\ TimeIsAccounted

\* The time of the attempts before this one, with the sleeps after them.
Before == attempt * (AttemptLimit + MaxBackoff)

-----------------------------------------------------------------------------

LEMMA Distribute ==
  ASSUME NEW m \in Nat, NEW d \in Nat
  PROVE  m * d \in Nat /\ (m + 1) * d = m * d + d
  OBVIOUS

LEMMA Grows ==
  ASSUME NEW m \in Nat, NEW n \in Nat, NEW d \in Nat, m <= n
  PROVE  m * d <= n * d
<1> DEFINE k == n - m
<1>1. k \in Nat /\ n = m + k
  OBVIOUS
<1>2. k * d \in Nat
  BY <1>1, Distribute
<1>3. n * d = m * d + k * d
  BY <1>1
<1> QED
  BY <1>2, <1>3

\* The sum of an attempt's limits, part by part.
LEMMA Limits ==
  ASSUME TypeOK
  PROVE  /\ AttemptLimit \in Nat
         /\ Before \in Nat
         /\ (part + 1) * PhaseTimeout = part * PhaseTimeout + PhaseTimeout
         /\ part * PhaseTimeout \in Nat
         /\ 2 * PhaseTimeout + ConnectTimeout + (part + 1) * PhaseTimeout <= AttemptLimit
<1>1. /\ MaxRetries \in Nat /\ ConnectTimeout \in Nat /\ PhaseTimeout \in Nat
      /\ MaxBackoff \in Nat /\ MaxParts \in Nat /\ MaxParts > 0
  BY TimesAssumption
<1>2. part \in Nat /\ attempt \in Nat /\ part + 1 <= MaxParts
  BY <1>1 DEF TypeOK
<1>3. /\ part * PhaseTimeout \in Nat /\ MaxParts * PhaseTimeout \in Nat
      /\ (part + 1) * PhaseTimeout = part * PhaseTimeout + PhaseTimeout
  BY <1>1, <1>2, Distribute
<1>4. (part + 1) * PhaseTimeout <= MaxParts * PhaseTimeout
  BY <1>1, <1>2, Grows
<1>5. AttemptLimit \in Nat
  BY <1>1, <1>3 DEF AttemptLimit
<1>6. Before \in Nat
  BY <1>1, <1>2, <1>5, Distribute DEF Before
<1> QED
  BY <1>1, <1>3, <1>4, <1>5, <1>6 DEF AttemptLimit

-----------------------------------------------------------------------------

LEMMA InvInit == Init => Inv
<1> SUFFICES ASSUME Init
             PROVE  Inv
  OBVIOUS
<1>1. TypeOK
  BY TimesAssumption DEF Init, TypeOK, Operations, TimeoutOf
<1>2. AttemptLimit \in Nat
  BY <1>1, Limits
<1> QED
  BY <1>1, <1>2, TimesAssumption DEF Init, Inv, TimeIsAccounted, Used, TimeoutOf

LEMMA TypeStep == TypeOK /\ [Next]_vars => TypeOK'
<1> SUFFICES ASSUME TypeOK, [Next]_vars
             PROVE  TypeOK'
  OBVIOUS
<1> USE TimesAssumption DEF TypeOK, Operations, TimeoutOf
<1>1. CASE Tick
  BY <1>1 DEF Tick
<1>2. CASE Advance
  BY <1>2 DEF Advance, Start
<1>3. CASE Return
  BY <1>3 DEF Return
<1>4. CASE Error
  BY <1>4 DEF Error, Fail
<1>5. CASE Wake
  BY <1>5 DEF Wake, Start
<1>6. CASE UNCHANGED vars
  BY <1>6 DEF vars
<1> QED
  BY <1>1, <1>2, <1>3, <1>4, <1>5, <1>6 DEF Next

LEMMA InvStep == Inv /\ [Next]_vars => Inv'
<1> SUFFICES ASSUME Inv, [Next]_vars
             PROVE  Inv'
  OBVIOUS
<1>1. TypeOK /\ TypeOK'
  BY TypeStep DEF Inv
<1>2. /\ AttemptLimit \in Nat /\ Before \in Nat
      /\ (part + 1) * PhaseTimeout = part * PhaseTimeout + PhaseTimeout
      /\ part * PhaseTimeout \in Nat
      /\ 2 * PhaseTimeout + ConnectTimeout + (part + 1) * PhaseTimeout <= AttemptLimit
  BY <1>1, Limits
<1>3. Before \in Nat
  BY <1>2
<1>4. elapsed <= Before + Used
  BY DEF Inv, TimeIsAccounted, Before
<1>5. /\ ConnectTimeout \in Nat /\ PhaseTimeout \in Nat /\ MaxBackoff \in Nat
      /\ left \in Nat /\ elapsed \in Nat /\ part \in Nat /\ attempt \in Nat
  BY <1>1, TimesAssumption DEF TypeOK
<1>6. Used \in Int
  BY <1>1, <1>2, <1>5 DEF Used, TypeOK, Operations
<1>7. \A used \in Int : Used <= used => elapsed <= Before + used
  BY <1>3, <1>4, <1>5, <1>6
<1>8. SUFFICES elapsed' <= Before' + Used'
  BY <1>1 DEF Inv, TimeIsAccounted, Before
<1>9. ASSUME UNCHANGED attempt
      PROVE  Before' = Before
  BY <1>9 DEF Before, AttemptLimit
<1>10. CASE Tick
  <2>1. Before' = Before /\ elapsed' = elapsed + 1 /\ left' = left - 1
    BY <1>9, <1>10 DEF Tick
  <2>2. Used' = Used + 1
    BY <1>1, <1>2, <1>5, <1>10 DEF Tick, Used, TypeOK, Operations, AttemptLimit
  <2> QED
    BY <1>3, <1>4, <1>5, <2>1, <2>2, <1>6
<1>11. CASE Advance
  <2>1. Before' = Before /\ elapsed' = elapsed
    BY <1>9, <1>11 DEF Advance
  <2>2. (part + 2) * PhaseTimeout = part * PhaseTimeout + 2 * PhaseTimeout
    BY <1>5
  <2>3. Used' \in Int /\ Used <= Used'
    BY <1>1, <1>2, <1>5, <1>11, <2>2 DEF Advance, Start, TimeoutOf, Used
  <2> QED
    BY <1>7, <2>1, <2>3, Zenon
<1>12. CASE Return
  <2>1. Before' = Before /\ elapsed' = elapsed
    BY <1>9, <1>12 DEF Return
  <2>2. Used' \in Int /\ Used <= Used'
    BY <1>1, <1>2, <1>5, <1>12 DEF Return, Used, AttemptLimit
  <2> QED
    BY <1>7, <2>1, <2>2, Zenon
<1>13. CASE Error
  <2>1. Before' = Before /\ elapsed' = elapsed
    BY <1>9, <1>13 DEF Error
  <2>2. Used <= AttemptLimit
    BY <1>1, <1>2, <1>5, <1>13 DEF Error, Operations, Used
  <2>3. \/ pc' = "backoff" /\ left' \in 0..MaxBackoff
        \/ pc' = "done"
    BY <1>13 DEF Error, Fail
  <2>4. \A limit \in Int : Used <= limit => \A used \in Int : limit <= used => Used <= used
    BY <1>6
  <2>5. Used' \in Int /\ AttemptLimit <= Used'
    BY <1>2, <1>5, <2>3 DEF Used, AttemptLimit
  <2>6. AttemptLimit \in Int
    BY <1>2
  <2>7. Used <= Used'
    BY <2>2, <2>4, <2>5, <2>6, Zenon
  <2> QED
    BY <1>7, <2>1, <2>5, <2>7, Zenon
<1>14. CASE Wake
  <2>1. Used = AttemptLimit + MaxBackoff
    BY <1>2, <1>5, <1>14 DEF Wake, Used
  <2>2. Used' = 0
    BY <1>5, <1>14 DEF Wake, Start, TimeoutOf, Used
  <2>3. Before' = Before + (AttemptLimit + MaxBackoff)
    BY <1>2, <1>5, <1>14, Distribute DEF Wake, Before, AttemptLimit
  <2> QED
    BY <1>2, <1>4, <1>5, <1>14, <2>1, <2>2, <2>3 DEF Wake
<1>15. CASE UNCHANGED vars
  BY <1>4, <1>9, <1>15 DEF vars, Used, AttemptLimit
<1> QED
  BY <1>10, <1>11, <1>12, <1>13, <1>14, <1>15 DEF Next

THEOREM Invariance == Spec => []Inv
  BY InvInit, InvStep, PTL DEF Spec

\* Types of the call's state: an operation never waits past its timeout.
THEOREM TypeCorrect == Spec => []TypeOK
<1>1. Inv => TypeOK
  BY DEF Inv
<1> QED
  BY Invariance, <1>1, PTL

\* For all timeouts, retries and parts of a reply: the time a call has taken is
\* accounted for by the limits of its attempts and sleeps.
THEOREM Accounting == Spec => []TimeIsAccounted
<1>1. Inv => TimeIsAccounted
  BY DEF Inv
<1> QED
  BY Invariance, <1>1, PTL

\* The bound a caller can rely on: the limits of all attempts, and the sleeps
\* between them.
THEOREM Bound ==
  Spec => [](elapsed <= (MaxRetries + 1) * AttemptLimit + MaxRetries * MaxBackoff)
<1> DEFINE Bounded == elapsed <= (MaxRetries + 1) * AttemptLimit + MaxRetries * MaxBackoff
<1>1. Inv => Bounded
  <2> SUFFICES ASSUME Inv
               PROVE  Bounded
    OBVIOUS
  <2>1. /\ TypeOK /\ AttemptLimit \in Nat /\ Before \in Nat
        /\ 2 * PhaseTimeout + ConnectTimeout + (part + 1) * PhaseTimeout <= AttemptLimit
        /\ (part + 1) * PhaseTimeout = part * PhaseTimeout + PhaseTimeout
        /\ part * PhaseTimeout \in Nat
    BY Limits DEF Inv
  <2>2. /\ ConnectTimeout \in Nat /\ PhaseTimeout \in Nat /\ MaxBackoff \in Nat
        /\ left \in Nat /\ elapsed \in Nat /\ MaxRetries \in Nat
        /\ attempt \in Nat /\ attempt <= MaxRetries
        /\ pc = "backoff" => attempt + 1 <= MaxRetries
    BY <2>1, TimesAssumption DEF TypeOK
  <2>3. elapsed <= Before + Used
    BY DEF Inv, TimeIsAccounted, Before
  <2> DEFINE d == AttemptLimit + MaxBackoff
  <2>4. d \in Nat /\ Before = attempt * d
    BY <2>1, <2>2 DEF Before
  <2>5. MaxRetries * d = MaxRetries * AttemptLimit + MaxRetries * MaxBackoff
    BY <2>1, <2>2
  <2>6. (MaxRetries + 1) * AttemptLimit = MaxRetries * AttemptLimit + AttemptLimit
    BY <2>1, <2>2, Distribute
  <2>7. MaxRetries * AttemptLimit \in Nat /\ MaxRetries * MaxBackoff \in Nat
    BY <2>1, <2>2, Distribute
  <2>8. CASE pc = "backoff"
    <3>1. (attempt + 1) * d <= MaxRetries * d /\ (attempt + 1) * d = attempt * d + d
      BY <2>2, <2>4, <2>8, Grows, Distribute
    <3>2. Used <= d /\ Used \in Int
      BY <2>1, <2>2, <2>8 DEF Used
    <3>3. attempt * d \in Nat
      BY <2>2, <2>4, Distribute
    <3> HIDE DEF d
    <3> QED
      BY <2>1, <2>2, <2>3, <2>4, <2>5, <2>6, <2>7, <3>1, <3>2, <3>3
  <2>9. CASE pc # "backoff"
    <3>1. attempt * d <= MaxRetries * d
      BY <2>2, <2>4, Grows
    <3>2. Used <= AttemptLimit /\ Used \in Int
      BY <2>1, <2>2, <2>9 DEF Used, TypeOK, Operations
    <3>3. attempt * d \in Nat
      BY <2>2, <2>4, Distribute
    <3> HIDE DEF d
    <3> QED
      BY <2>1, <2>2, <2>3, <2>4, <2>5, <2>6, <2>7, <3>1, <3>2, <3>3
  <2> QED
    BY <2>8, <2>9
<1> QED
  BY Invariance, <1>1, PTL
=============================================================================
