------------------------------ MODULE Webhooks ------------------------------
(***************************************************************************)
(* construct_event (kicbac/webhooks.py) between the gateway, which signs   *)
(* its events and delivers each one until it is acknowledged, and the      *)
(* merchant's handlers, written the way README.md shows.                   *)
(*                                                                         *)
(* A body is an event in one of its forms: the raw bytes that were signed, *)
(* the same JSON serialised anew, or a decoded str.  HMAC is perfect: two  *)
(* signatures are equal exactly when key, nonce and body are.  A handler   *)
(* may be handed a damaged delivery, may crash between any two steps, and  *)
(* its response may be lost.                                               *)
(***************************************************************************)
EXTENDS Integers, FiniteSets

CONSTANTS
  Events,          \* each with an event_id of its own
  KindOf,          \* KindOf[e]: what the body of e is, see Kinds
  Handlers,        \* concurrent handlers of the merchant
  SignatureCase,   \* "lower" or "upper": the gateway's spelling of hex digits
  Keys,            \* signing keys the merchant has in Settings > Webhooks
  MaxDeliveries,   \* deliveries of one event ("~20x over 3 days")
  MaxFaults        \* bound on losses, damages and crashes

Kinds == {"event", "not JSON", "not an object", "missing key", "malformed field"}

ASSUME KindAssumption == KindOf \in [Events -> Kinds]

ASSUME SignatureCaseAssumption == SignatureCase \in {"lower", "upper"}

ASSUME MaxDeliveriesAssumption == MaxDeliveries \in Nat

ASSUME MaxFaultsAssumption == MaxFaults \in Nat

-----------------------------------------------------------------------------
(***************************************************************************)
(* construct_event                                                         *)
(***************************************************************************)

Body(e, form) == [event |-> e, form |-> form]

Hmac(key, nonce, body) == <<key, nonce, body>>

\* The 64 hex digits of an HMAC, in lower or upper case.
Hex(case, hmac) == [case |-> case, hmac |-> hmac]

Lower(hex) == [hex EXCEPT !.case = "lower"]

\* The Webhook-Signature header.
Header(kind, nonce, signature) ==
  [kind |-> kind, nonce |-> nonce, signature |-> signature]

NoHeader == Header("missing", 0, "")
MalformedHeader == Header("malformed", 0, "")

NoKey == "no key"

ASSUME KeysAssumption == NoKey \notin Keys

\* The signature is compared with one over the JSON, not over the bytes.
SignatureMatches_mut(body, header, key) ==
  Lower(header.signature) = Hex("lower", Hmac(key, header.nonce, Body(body.event, "raw")))

\* .lower() is missing.
SignatureMatches_case_mut(body, header, key) ==
  header.signature = Hex("lower", Hmac(key, header.nonce, body))

\* compare_digest(expected, signature.lower())
SignatureMatches(body, header, key) ==
  Lower(header.signature) = Hex("lower", Hmac(key, header.nonce, body))

\* t= taken for a time: a later delivery of the event is too old.
ConstructEvent_time_mut(body, header, key) ==
  IF body.form = "str" THEN "TypeError"
  ELSE IF key = NoKey THEN "ValueError"
  ELSE IF header.kind # "signed" \/ header.nonce > 0 \/ ~SignatureMatches(body, header, key)
       THEN "SignatureVerificationError"
  ELSE IF KindOf[body.event] # "event" THEN "WebhookPayloadError"
  ELSE "event"

\* "event", or the class that is raised.  The body is not looked into before
\* its signature was verified.
ConstructEvent(body, header, key) ==
  IF body.form = "str" THEN "TypeError"
  ELSE IF key = NoKey THEN "ValueError"
  ELSE IF header.kind # "signed" \/ ~SignatureMatches(body, header, key)
       THEN "SignatureVerificationError"
  ELSE IF KindOf[body.event] # "event" THEN "WebhookPayloadError"
  ELSE "event"

-----------------------------------------------------------------------------

VARIABLES
  gatewayKey,    \* the key the gateway signs with
  merchantKey,   \* the key the merchant's handlers verify with
  tries,         \* tries[e]: deliveries of e so far
  sent,          \* history: what the gateway signed
  network,       \* deliveries on their way
  handler,       \* handler[h]: see IdleHandler and Handling
  deduped,       \* the merchant's table of events that were applied
  applied,       \* applied[e]: how often e was acted on
  acked,         \* events whose delivery was answered with 200
  faults

vars == <<gatewayKey, merchantKey, tries, sent, network, handler, deduped,
          applied, acked, faults>>

Idle == [stage |-> "idle"]

Init ==
  /\ gatewayKey \in Keys
  /\ merchantKey = gatewayKey
  /\ tries = [e \in Events |-> 0]
  /\ sent = {}
  /\ network = {}
  /\ handler = [h \in Handlers |-> Idle]
  /\ deduped = {}
  /\ applied = [e \in Events |-> 0]
  /\ acked = {}
  /\ faults = 0

-----------------------------------------------------------------------------
(***************************************************************************)
(* The gateway                                                             *)
(***************************************************************************)

\* The gateway does not wait for the answer to an earlier delivery.
Send(e) ==
  /\ e \notin acked
  /\ tries[e] < MaxDeliveries
  /\ tries' = [tries EXCEPT ![e] = @ + 1]
  /\ LET hmac == Hmac(gatewayKey, tries[e], Body(e, "raw")) IN
     /\ sent' = sent \cup {hmac}
     /\ network' = network \cup
          {[event |-> e, header |-> Header("signed", tries[e], Hex(SignatureCase, hmac))]}
  /\ UNCHANGED <<gatewayKey, merchantKey, handler, deduped, applied, acked, faults>>

\* The merchant asks for a new key, and configures it some time later.
RotateKey ==
  /\ gatewayKey' \in Keys \ {gatewayKey}
  /\ UNCHANGED <<merchantKey, tries, sent, network, handler, deduped, applied,
                 acked, faults>>

ConfigureKey ==
  /\ merchantKey' = gatewayKey
  /\ UNCHANGED <<gatewayKey, tries, sent, network, handler, deduped, applied,
                 acked, faults>>

-----------------------------------------------------------------------------
(***************************************************************************)
(* The merchant's handlers                                                 *)
(***************************************************************************)

Fault ==
  /\ faults < MaxFaults
  /\ faults' = faults + 1

\* What a handler remembers of a delivery while it works on it.
Handling(stage, body, header, key, outcome) ==
  [stage |-> stage, body |-> body, header |-> header, key |-> key,
   outcome |-> outcome]

\* Only SignatureVerificationError is caught.
Stage_mut(outcome) ==
  IF outcome = "SignatureVerificationError" THEN "refused" ELSE "verified"

\* Whether the handler goes on behind construct_event.
Stage(outcome) == IF outcome = "event" THEN "verified" ELSE "refused"

\* construct_event(payload, sig, SIGNING_KEY) on what the framework hands out.
Receive(h, d, body, header, key) ==
  LET outcome == ConstructEvent(body, header, key) IN
  /\ handler[h] = Idle
  /\ d \in network
  /\ network' = network \ {d}
  /\ handler' = [handler EXCEPT ![h] =
       Handling(Stage(outcome), body, header, key, outcome)]
  /\ UNCHANGED <<gatewayKey, merchantKey, tries, sent, deduped, applied, acked>>

ReceiveIntact(h) ==
  /\ \E d \in network : Receive(h, d, Body(d.event, "raw"), d.header, merchantKey)
  /\ UNCHANGED faults

\* A framework that parsed or decoded the body, a proxy that dropped or cut
\* the header, a handler started without its key.
ReceiveDamaged(h) ==
  /\ \E d \in network :
       \/ \E form \in {"reserialised", "str"} :
            Receive(h, d, Body(d.event, form), d.header, merchantKey)
       \/ \E header \in {NoHeader, MalformedHeader} :
            Receive(h, d, Body(d.event, "raw"), header, merchantKey)
       \/ Receive(h, d, Body(d.event, "raw"), d.header, NoKey)
  /\ Fault

\* The nonce taken for the identity of the event.
DedupKey_mut(handling) == <<handling.header.nonce>>

\* "Deduplicate on event.event_id"
DedupKey(handling) == handling.body.event

\* The event is acted on and its event_id recorded in one transaction, unless
\* it was there already.
Handle(h) ==
  /\ handler[h].stage = "verified"
  /\ handler' = [handler EXCEPT ![h].stage = "handled"]
  /\ deduped' = deduped \cup {DedupKey(handler[h])}
  /\ applied' = IF DedupKey(handler[h]) \in deduped THEN applied
                ELSE [applied EXCEPT ![handler[h].body.event] = @ + 1]
  /\ UNCHANGED <<gatewayKey, merchantKey, tries, sent, network, acked, faults>>

\* A body that will never be usable is acknowledged.
Status_mut(handling) ==
  IF handling.stage = "handled" \/ handling.outcome = "WebhookPayloadError" THEN 200 ELSE 400

\* An exception of construct_event is answered with an error: 400 for those the
\* handler catches, the framework's 500 for TypeError and ValueError.
Status(handling) == IF handling.stage = "handled" THEN 200 ELSE 400

Respond(h) ==
  /\ handler[h].stage \in {"handled", "refused"}
  /\ acked' = IF Status(handler[h]) = 200 THEN acked \cup {handler[h].body.event} ELSE acked
  /\ handler' = [handler EXCEPT ![h] = Idle]
  /\ UNCHANGED <<gatewayKey, merchantKey, tries, sent, network, deduped, applied, faults>>

\* The handler dies, or the gateway does not get its answer.
Crash(h) ==
  /\ handler[h] # Idle
  /\ Fault
  /\ handler' = [handler EXCEPT ![h] = Idle]
  /\ UNCHANGED <<gatewayKey, merchantKey, tries, sent, network, deduped, applied, acked>>

Lose(d) ==
  /\ d \in network
  /\ Fault
  /\ network' = network \ {d}
  /\ UNCHANGED <<gatewayKey, merchantKey, tries, sent, handler, deduped, applied, acked>>

-----------------------------------------------------------------------------

HandlerStep(h) == ReceiveIntact(h) \/ ReceiveDamaged(h) \/ Handle(h) \/ Respond(h)

Next ==
  \/ \E e \in Events : Send(e)
  \/ RotateKey
  \/ ConfigureKey
  \/ \E h \in Handlers : HandlerStep(h) \/ Crash(h)
  \/ \E d \in network : Lose(d)

Spec == Init /\ [][Next]_vars

\* The gateway delivers until it is answered with 200 or gives up, and a
\* handler that runs finishes.
FairSpec ==
  /\ Spec
  /\ \A e \in Events : WF_vars(Send(e))
  /\ \A h \in Handlers : WF_vars(HandlerStep(h))

-----------------------------------------------------------------------------
(***************************************************************************)
(* Properties                                                              *)
(***************************************************************************)

Outcomes ==
  {"event", "TypeError", "ValueError", "SignatureVerificationError",
   "WebhookPayloadError"}

Busy(h) == handler[h] # Idle

\* Types; the gateway delivers an event at most MaxDeliveries times, and a
\* handler goes past construct_event only with an event.
TypeOK ==
  /\ gatewayKey \in Keys /\ merchantKey \in Keys
  /\ tries \in [Events -> 0..MaxDeliveries]
  /\ acked \subseteq Events
  /\ applied \in [Events -> Nat]
  /\ faults \in 0..MaxFaults
  /\ \A h \in Handlers : Busy(h) =>
       /\ handler[h].outcome \in Outcomes
       /\ handler[h].stage \in {"verified", "handled", "refused"}
       /\ handler[h].stage # "refused" <=> handler[h].outcome = "event"

\* "Verification is over the exact raw request bytes": whatever goes on behind
\* the signature check (an event, or the complaint that a body is unusable) is
\* about bytes that the gateway signed with the key the handler has.
VerifiedBytesWereSent ==
  \A h \in Handlers :
    Busy(h) /\ handler[h].outcome \in {"event", "WebhookPayloadError"} =>
      Hmac(handler[h].key, handler[h].header.nonce, handler[h].body) \in sent

\* A delivery that reaches the handler as it was sent, and was signed with the
\* key the handler has, is accepted, be it the first or a later one, and
\* refused only for what its body is.
GenuineIsRecognised ==
  \A h \in Handlers :
    (Busy(h) /\ handler[h].header.kind = "signed"
       /\ handler[h].header.signature.hmac =
            Hmac(handler[h].key, handler[h].header.nonce, handler[h].body)) =>
      handler[h].outcome =
        IF KindOf[handler[h].body.event] = "event" THEN "event" ELSE "WebhookPayloadError"

\* Deliveries that come twice, at the same time or out of order, and crashes
\* between acting on an event and acknowledging it, do not make the merchant
\* act twice.
AppliedOnce == \A e \in Events : applied[e] <= 1

\* The gateway stops delivering an event only after the merchant acted on it.
AckedIsApplied == \A e \in acked : applied[e] = 1

\* As long as there are fewer faults than deliveries, and both sides have the
\* same key all along, every usable event is acted on.
EveryEventIsApplied ==
  [](merchantKey = gatewayKey) =>
    \A e \in Events : KindOf[e] = "event" => <>(applied[e] = 1)
=============================================================================
