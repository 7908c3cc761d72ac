----------------------------- MODULE MCDeadline -----------------------------
(***************************************************************************)
(* The default timeouts and retries in units of five seconds: 30 s an      *)
(* operation, 5 s to connect, sleeps of up to one unit.                    *)
(***************************************************************************)
EXTENDS Deadline
=============================================================================
