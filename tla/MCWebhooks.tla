----------------------------- MODULE MCWebhooks -----------------------------
(***************************************************************************)
(* A usable and an unusable event, two handlers that may work on two       *)
(* deliveries of one event at the same time, and a change of keys.         *)
(***************************************************************************)
EXTENDS Webhooks, TLC

CONSTANTS e1, e2, h1, h2

MCEvents == {e1, e2}
MCHandlers == {h1, h2}
MCKindOf == (e1 :> "event") @@ (e2 :> "missing key")
MCKeys == {"old key", "new key"}
=============================================================================
