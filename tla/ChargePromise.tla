--------------------------- MODULE ChargePromise ----------------------------
(***************************************************************************)
(* What the SDK promises a merchant about a call that moves money, without *)
(* attempts, connections or retries: the effect of a call happens at most  *)
(* once, and a verdict on it is given once and is final.  A call reported  *)
(* as charged was charged; a call reported as not charged was not and will *)
(* not be; a call whose fate is unknown, and only such a call, may still   *)
(* be charged after it was reported.                                       *)
(***************************************************************************)
CONSTANTS
  Payments,   \* calls that ask for one effect each
  Ids         \* identities an effect may have

VARIABLES
  effects,    \* effects[p]: the effects p has had
  verdict     \* verdict[p]: what the caller was told

vars == <<effects, verdict>>

Verdicts == {"open", "charged", "not_charged", "unknown"}

Init ==
  /\ effects = [p \in Payments |-> {}]
  /\ verdict = [p \in Payments |-> "open"]

Charge(p, id) ==
  /\ effects[p] = {}
  /\ verdict[p] \in {"open", "unknown"}
  /\ effects' = [effects EXCEPT ![p] = {id}]
  /\ UNCHANGED verdict

Report(p, v) ==
  /\ verdict[p] = "open"
  /\ v = "charged" => effects[p] # {}
  /\ v = "not_charged" => effects[p] = {}
  /\ verdict' = [verdict EXCEPT ![p] = v]
  /\ UNCHANGED effects

Next ==
  \E p \in Payments :
    \/ \E id \in Ids : Charge(p, id)
    \/ \E v \in Verdicts \ {"open"} : Report(p, v)

Spec == Init /\ [][Next]_vars
=============================================================================
