--------------------------- MODULE WebhooksProofs ---------------------------
(***************************************************************************)
(* What handlers believe and do about signed events, for any number of     *)
(* events, keys, concurrent handlers, deliveries and faults.  The          *)
(* invariant says where signatures come from (SignedInv), what a handler   *)
(* knows of the delivery it works on (HandlerInv), and that the table of   *)
(* applied events agrees with what was done (LedgerInv).                   *)
(***************************************************************************)
EXTENDS Webhooks, TLAPS

Bodies == [event : Events, form : {"raw", "reserialised", "str"}]
Hmacs == Keys \X Nat \X Bodies
SignedHeaders ==
  [kind : {"signed"}, nonce : Nat, signature : [case : {"lower", "upper"}, hmac : Hmacs]]
Headers == {NoHeader, MalformedHeader} \cup SignedHeaders
Deliveries == [event : Events, header : SignedHeaders]
Handlings ==
  [stage : {"verified", "handled", "refused"}, body : Bodies, header : Headers,
   key : Keys \cup {NoKey}, outcome : Outcomes]

Shape ==
  /\ gatewayKey \in Keys /\ merchantKey \in Keys
  /\ tries \in [Events -> 0..MaxDeliveries]
  /\ sent \subseteq Hmacs
  /\ network \subseteq Deliveries
  /\ handler \in [Handlers -> {Idle} \cup Handlings]
  /\ deduped \subseteq Events
  /\ applied \in [Events -> Nat]
  /\ acked \subseteq Events
  /\ faults \in 0..MaxFaults

\* The gateway signs raw bodies, and a signature that travels is one of its.
SignedInv ==
  /\ \A m \in sent : m[3].form = "raw"
  /\ \A d \in network : d.header.signature.hmac \in sent

\* A handler has what construct_event said of a header from the network.
HandlerInv ==
  \A h \in Handlers : Busy(h) =>
    /\ handler[h].header.kind = "signed" => handler[h].header.signature.hmac \in sent
    /\ handler[h].outcome =
         ConstructEvent(handler[h].body, handler[h].header, handler[h].key)
    /\ handler[h].stage # "refused" <=> handler[h].outcome = "event"
    /\ handler[h].stage = "handled" => handler[h].body.event \in deduped

\* An event was acted on once if it is in the table, else never.
LedgerInv ==
  /\ \A e \in Events : applied[e] = IF e \in deduped THEN 1 ELSE 0
  /\ acked \subseteq deduped

IInv == Shape /\ SignedInv /\ HandlerInv /\ LedgerInv

-----------------------------------------------------------------------------
(***************************************************************************)
(* construct_event                                                         *)
(***************************************************************************)

LEMMA OutcomeType ==
  ASSUME NEW body, NEW header, NEW key
  PROVE  ConstructEvent(body, header, key) \in Outcomes
  BY DEF ConstructEvent, Outcomes

LEMMA HeaderKinds ==
  /\ NoHeader.kind # "signed" /\ MalformedHeader.kind # "signed"
  /\ \A header \in Headers : header.kind = "signed" <=> header \in SignedHeaders
<1>1. NoHeader.kind # "signed" /\ MalformedHeader.kind # "signed"
  BY DEF NoHeader, MalformedHeader, Header
<1>2. \A header \in SignedHeaders : header.kind = "signed"
  BY DEF SignedHeaders
<1> QED
  BY <1>1, <1>2 DEF Headers

\* compare_digest says yes exactly when the header holds the HMAC of the body.
LEMMA MatchesIsHmac ==
  ASSUME NEW body \in Bodies, NEW header \in SignedHeaders, NEW key
  PROVE  SignatureMatches(body, header, key)
           <=> header.signature.hmac = Hmac(key, header.nonce, body)
<1>1. PICK case \in {"lower", "upper"}, hmac \in Hmacs :
        header.signature = [case |-> case, hmac |-> hmac]
  BY DEF SignedHeaders
<1>2. Lower(header.signature) = [case |-> "lower", hmac |-> hmac]
  BY <1>1 DEF Lower
<1> QED
  BY <1>1, <1>2 DEF SignatureMatches, Hex

\* Past the signature check there are only bytes the gateway signed.
LEMMA VerifiedIsSent ==
  ASSUME NEW body \in Bodies, NEW header \in Headers, NEW key,
         header.kind = "signed" => header.signature.hmac \in sent,
         ConstructEvent(body, header, key) \in {"event", "WebhookPayloadError"}
  PROVE  Hmac(key, header.nonce, body) \in sent
<1>1. header.kind = "signed" /\ SignatureMatches(body, header, key)
  BY DEF ConstructEvent
<1>2. header \in SignedHeaders
  BY <1>1, HeaderKinds
<1> QED
  BY <1>1, <1>2, MatchesIsHmac

\* What the gateway signed gets past it.
LEMMA SentIsVerified ==
  ASSUME Shape, SignedInv, NEW body \in Bodies, NEW header \in Headers, NEW key,
         header.kind = "signed", header.signature.hmac \in sent,
         header.signature.hmac = Hmac(key, header.nonce, body)
  PROVE  ConstructEvent(body, header, key) =
           IF KindOf[body.event] = "event" THEN "event" ELSE "WebhookPayloadError"
<1>1. SignatureMatches(body, header, key)
  BY HeaderKinds, MatchesIsHmac
<1>2. Hmac(key, header.nonce, body) \in sent
  OBVIOUS
<1>3. Hmac(key, header.nonce, body)[1] \in Keys
  BY <1>2 DEF Shape, Hmacs
<1>4. key # NoKey
  BY <1>3, KeysAssumption DEF Hmac
<1>5. Hmac(key, header.nonce, body)[3].form = "raw"
  BY <1>2 DEF SignedInv
<1>6. body.form = "raw"
  BY <1>5 DEF Hmac
<1> QED
  BY <1>1, <1>4, <1>6 DEF ConstructEvent

-----------------------------------------------------------------------------
(***************************************************************************)
(* The steps                                                               *)
(***************************************************************************)

LEMMA InitIInv == Init => IInv
  BY MaxDeliveriesAssumption, MaxFaultsAssumption
  DEF Init, IInv, Shape, SignedInv, HandlerInv, LedgerInv, Busy

LEMMA SendStep ==
  ASSUME IInv, NEW e \in Events, Send(e)
  PROVE  IInv'
<1> DEFINE hmac == Hmac(gatewayKey, tries[e], Body(e, "raw"))
           delivery == [event |-> e,
                        header |-> Header("signed", tries[e], Hex(SignatureCase, hmac))]
<1>1. /\ sent' = sent \cup {hmac} /\ network' = network \cup {delivery}
      /\ tries' = [tries EXCEPT ![e] = @ + 1] /\ tries[e] < MaxDeliveries
      /\ UNCHANGED <<gatewayKey, merchantKey, handler, deduped, applied, acked, faults>>
  BY DEF Send
<1>2. tries[e] \in Nat /\ gatewayKey \in Keys
  BY MaxDeliveriesAssumption DEF IInv, Shape
<1>3. hmac \in Hmacs /\ hmac[3].form = "raw"
  BY <1>2 DEF Hmac, Hmacs, Body, Bodies
<1>4. delivery \in Deliveries /\ delivery.header.signature.hmac = hmac
  <2> HIDE DEF hmac
  <2>1. Hex(SignatureCase, hmac) \in [case : {"lower", "upper"}, hmac : Hmacs]
    BY <1>3, SignatureCaseAssumption DEF Hex
  <2> QED
    BY <1>2, <2>1 DEF Hex, Header, Deliveries, SignedHeaders
<1> HIDE DEF hmac, delivery
<1>5. tries' \in [Events -> 0..MaxDeliveries]
  BY <1>1, MaxDeliveriesAssumption DEF IInv, Shape
<1>6. Shape'
  BY <1>1, <1>3, <1>4, <1>5 DEF IInv, Shape
<1>7. SignedInv'
  BY <1>1, <1>3, <1>4 DEF IInv, SignedInv
<1>8. HandlerInv'
  BY <1>1 DEF IInv, HandlerInv, Busy
<1>9. LedgerInv'
  BY <1>1 DEF IInv, LedgerInv
<1> QED
  BY <1>6, <1>7, <1>8, <1>9 DEF IInv

LEMMA ReceiveStep ==
  ASSUME IInv, NEW h \in Handlers, NEW d \in network, NEW body \in Bodies,
         NEW header \in Headers, NEW key \in Keys \cup {NoKey},
         header.kind = "signed" => header.signature.hmac \in sent,
         Receive(h, d, body, header, key), faults' \in 0..MaxFaults
  PROVE  IInv'
<1> DEFINE outcome == ConstructEvent(body, header, key)
           new == Handling(Stage(outcome), body, header, key, outcome)
<1>1. /\ network' = network \ {d} /\ handler' = [handler EXCEPT ![h] = new]
      /\ UNCHANGED <<gatewayKey, merchantKey, tries, sent, deduped, applied, acked>>
  BY DEF Receive
<1>2. outcome \in Outcomes
  BY OutcomeType
<1> HIDE DEF outcome
<1>3. /\ new \in Handlings
      /\ new.header = header /\ new.body = body /\ new.key = key /\ new.outcome = outcome
      /\ new.stage = Stage(outcome)
  BY <1>2 DEF Handling, Handlings, Stage
<1>4. new.stage # "handled" /\ (new.stage # "refused" <=> outcome = "event")
  BY <1>3 DEF Stage
<1> HIDE DEF new
<1>5. handler' \in [Handlers -> {Idle} \cup Handlings]
  BY <1>1, <1>3 DEF IInv, Shape
<1>6. handler'[h] = new /\ \A i \in Handlers \ {h} : handler'[i] = handler[i]
  BY <1>1 DEF IInv, Shape
<1>7. Shape'
  BY <1>1, <1>5 DEF IInv, Shape
<1>8. SignedInv'
  BY <1>1 DEF IInv, SignedInv
<1>9. HandlerInv'
  <2>1. ASSUME NEW i \in Handlers, i # h, Busy(i)'
        PROVE  /\ handler'[i] = handler[i] /\ Busy(i)
    BY <1>6, <2>1 DEF Busy
  <2>2. outcome = ConstructEvent(new.body, new.header, new.key)
    BY <1>3 DEF outcome
  <2> QED
    BY <1>1, <1>3, <1>4, <1>6, <2>1, <2>2 DEF IInv, HandlerInv
<1>10. LedgerInv'
  BY <1>1 DEF IInv, LedgerInv
<1> QED
  BY <1>7, <1>8, <1>9, <1>10 DEF IInv

\* Whatever the framework hands out, the header is none, a stump, or as sent.
LEMMA ReceiveAnyStep ==
  ASSUME IInv, NEW h \in Handlers, ReceiveIntact(h) \/ ReceiveDamaged(h)
  PROVE  IInv'
<1>1. PICK d \in network :
        \E form \in {"raw", "reserialised", "str"}, key \in {merchantKey, NoKey},
           header \in {d.header, NoHeader, MalformedHeader} :
             Receive(h, d, Body(d.event, form), header, key)
  BY DEF ReceiveIntact, ReceiveDamaged
<1>2. PICK form \in {"raw", "reserialised", "str"}, key \in {merchantKey, NoKey},
           header \in {d.header, NoHeader, MalformedHeader} :
             Receive(h, d, Body(d.event, form), header, key)
  BY <1>1
<1>3. d \in Deliveries /\ d.header.signature.hmac \in sent
  BY DEF IInv, Shape, SignedInv
<1>4. /\ Body(d.event, form) \in Bodies /\ header \in Headers /\ key \in Keys \cup {NoKey}
      /\ header.kind = "signed" => header.signature.hmac \in sent
  BY <1>3, HeaderKinds DEF Deliveries, Body, Bodies, Headers, IInv, Shape
<1>5. faults' \in 0..MaxFaults
  BY MaxFaultsAssumption DEF ReceiveIntact, ReceiveDamaged, Fault, IInv, Shape
<1> QED
  BY <1>2, <1>4, <1>5, ReceiveStep

LEMMA HandleStep ==
  ASSUME IInv, NEW h \in Handlers, Handle(h)
  PROVE  IInv'
<1> DEFINE e == handler[h].body.event
<1>1. Busy(h) /\ handler[h] \in Handlings /\ e \in Events
  BY DEF Handle, Busy, Idle, IInv, Shape, Handlings, Bodies
<1>2. /\ handler' = [handler EXCEPT ![h].stage = "handled"]
      /\ deduped' = deduped \cup {e}
      /\ applied' = IF e \in deduped THEN applied ELSE [applied EXCEPT ![e] = @ + 1]
      /\ handler[h].stage = "verified"
      /\ UNCHANGED <<gatewayKey, merchantKey, tries, sent, network, acked, faults>>
  BY DEF Handle, DedupKey
<1>3. /\ handler'[h] = [handler[h] EXCEPT !.stage = "handled"]
      /\ \A i \in Handlers \ {h} : handler'[i] = handler[i]
  BY <1>2 DEF IInv, Shape
<1>4. /\ handler'[h] \in Handlings
      /\ handler'[h].stage = "handled" /\ handler'[h].body = handler[h].body
      /\ handler'[h].header = handler[h].header /\ handler'[h].key = handler[h].key
      /\ handler'[h].outcome = handler[h].outcome
  BY <1>1, <1>3 DEF Handlings
<1>5. handler' \in [Handlers -> {Idle} \cup Handlings]
  BY <1>2, <1>3, <1>4 DEF IInv, Shape
<1>6. applied' \in [Events -> Nat]
  BY <1>1, <1>2 DEF IInv, Shape
<1>7. Shape'
  BY <1>1, <1>2, <1>5, <1>6 DEF IInv, Shape
<1>8. SignedInv'
  BY <1>2 DEF IInv, SignedInv
<1>9. HandlerInv'
  <2>1. handler[h].outcome = "event"
    BY <1>1, <1>2 DEF IInv, HandlerInv
  <2>2. ASSUME NEW i \in Handlers, i # h, Busy(i)'
        PROVE  handler'[i] = handler[i] /\ Busy(i)
    BY <1>3, <2>2 DEF Busy
  <2> QED
    BY <1>1, <1>2, <1>4, <2>1, <2>2 DEF IInv, HandlerInv
<1>10. LedgerInv'
  BY <1>1, <1>2 DEF IInv, LedgerInv, Shape
<1> QED
  BY <1>7, <1>8, <1>9, <1>10 DEF IInv

\* The end of a handler, answered or not.
LEMMA IdleStep ==
  ASSUME IInv, NEW h \in Handlers, handler' = [handler EXCEPT ![h] = Idle],
         acked' \subseteq deduped, faults' \in 0..MaxFaults,
         UNCHANGED <<gatewayKey, merchantKey, tries, sent, network, deduped, applied>>
  PROVE  IInv'
<1>1. \A i \in Handlers : Busy(i)' => handler'[i] = handler[i] /\ Busy(i)
  BY DEF IInv, Shape, Busy
<1>2. Shape'
  BY DEF IInv, Shape
<1>3. SignedInv' /\ LedgerInv'
  BY DEF IInv, SignedInv, LedgerInv
<1>4. HandlerInv'
  BY <1>1 DEF IInv, HandlerInv
<1> QED
  BY <1>2, <1>3, <1>4 DEF IInv

LEMMA RespondStep ==
  ASSUME IInv, NEW h \in Handlers, Respond(h)
  PROVE  IInv'
<1>1. Status(handler[h]) = 200 => handler[h].body.event \in deduped
  <2>1. handler[h].stage = "handled" => Busy(h)
    BY DEF Busy, Idle
  <2> QED
    BY <2>1 DEF Status, IInv, HandlerInv
<1>2. acked' \subseteq deduped
  BY <1>1 DEF Respond, IInv, LedgerInv
<1> QED
  BY <1>2, IdleStep DEF Respond, IInv, Shape

LEMMA CrashStep ==
  ASSUME IInv, NEW h \in Handlers, Crash(h)
  PROVE  IInv'
<1>1. faults' \in 0..MaxFaults /\ acked' \subseteq deduped
  BY MaxFaultsAssumption DEF Crash, Fault, IInv, Shape, LedgerInv
<1> QED
  BY <1>1, IdleStep DEF Crash

\* Steps that leave handlers and their table alone, and sign nothing.
LEMMA OtherStep ==
  ASSUME IInv, RotateKey \/ ConfigureKey \/ (\E d \in network : Lose(d)) \/ UNCHANGED vars
  PROVE  IInv'
<1>1. /\ network' \subseteq network
      /\ UNCHANGED <<tries, sent, handler, deduped, applied, acked>>
  BY DEF RotateKey, ConfigureKey, Lose, vars
<1>2. gatewayKey' \in Keys /\ merchantKey' \in Keys /\ faults' \in 0..MaxFaults
  BY MaxFaultsAssumption DEF RotateKey, ConfigureKey, Lose, Fault, vars, IInv, Shape
<1> QED
  BY <1>1, <1>2 DEF IInv, Shape, SignedInv, HandlerInv, LedgerInv, Busy

LEMMA StepIInv == IInv /\ [Next]_vars => IInv'
<1> SUFFICES ASSUME IInv, [Next]_vars
             PROVE  IInv'
  OBVIOUS
<1>1. ASSUME NEW e \in Events, Send(e)
      PROVE  IInv'
  BY <1>1, SendStep
<1>2. ASSUME NEW h \in Handlers, HandlerStep(h) \/ Crash(h)
      PROVE  IInv'
  BY <1>2, ReceiveAnyStep, HandleStep, RespondStep, CrashStep DEF HandlerStep
<1> QED
  BY <1>1, <1>2, OtherStep DEF Next

THEOREM Invariance == Spec => []IInv
  BY InitIInv, StepIInv, PTL DEF Spec

-----------------------------------------------------------------------------

\* Types of the state of gateway, network and handlers; a handler goes past
\* construct_event only with an event.
THEOREM TypeCorrect == Spec => []TypeOK
<1>1. IInv => TypeOK
  BY DEF IInv, Shape, HandlerInv, TypeOK, Handlings, Busy
<1> QED
  BY Invariance, <1>1, PTL

\* What goes on behind the signature check is about bytes the gateway signed.
THEOREM OnlySignedBytesPass == Spec => []VerifiedBytesWereSent
<1>1. IInv => VerifiedBytesWereSent
  <2> SUFFICES ASSUME IInv, NEW h \in Handlers, Busy(h),
                      handler[h].outcome \in {"event", "WebhookPayloadError"}
               PROVE  Hmac(handler[h].key, handler[h].header.nonce, handler[h].body) \in sent
    BY DEF VerifiedBytesWereSent
  <2>1. handler[h] \in Handlings
    BY DEF IInv, Shape, Busy
  <2>2. handler[h].body \in Bodies /\ handler[h].header \in Headers
    BY <2>1 DEF Handlings
  <2> QED
    BY <2>2, VerifiedIsSent DEF IInv, HandlerInv
<1> QED
  BY Invariance, <1>1, PTL

\* A delivery that arrives as it was signed is refused only for what it says.
THEOREM SignedBytesPass == Spec => []GenuineIsRecognised
<1>1. IInv => GenuineIsRecognised
  <2> SUFFICES ASSUME IInv, NEW h \in Handlers, Busy(h),
                      handler[h].header.kind = "signed",
                      handler[h].header.signature.hmac =
                        Hmac(handler[h].key, handler[h].header.nonce, handler[h].body)
               PROVE  handler[h].outcome =
                        IF KindOf[handler[h].body.event] = "event" THEN "event"
                        ELSE "WebhookPayloadError"
    BY DEF GenuineIsRecognised
  <2>1. handler[h] \in Handlings
    BY DEF IInv, Shape, Busy
  <2>2. handler[h].body \in Bodies /\ handler[h].header \in Headers
    BY <2>1 DEF Handlings
  <2> QED
    BY <2>2, SentIsVerified DEF IInv, HandlerInv
<1> QED
  BY Invariance, <1>1, PTL

\* Repeated and concurrent deliveries and crashes do not make the merchant act
\* on an event twice.
THEOREM NoEventTwice == Spec => []AppliedOnce
<1>1. IInv => AppliedOnce
  BY DEF IInv, LedgerInv, AppliedOnce
<1> QED
  BY Invariance, <1>1, PTL

\* The gateway stops delivering only what was acted on.
THEOREM NoEventDropped == Spec => []AckedIsApplied
<1>1. IInv => AckedIsApplied
  BY DEF IInv, Shape, LedgerInv, AckedIsApplied
<1> QED
  BY Invariance, <1>1, PTL
=============================================================================
