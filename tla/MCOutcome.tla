----------------------------- MODULE MCOutcome ------------------------------
(***************************************************************************)
(* Bodies of up to three fields: each response value, the codes on both    *)
(* sides of every boundary of the table, both kinds of text, fields that   *)
(* are missing, and fields that occur twice.                               *)
(***************************************************************************)
EXTENDS OutcomeCases

Responses == {"", "0", "1", "2", "3", "4"}
Codes == {NoCode, Superscript, 0, 100, 200, 225, 299, 300, 301, 302, 399, 400, 405, 430, 455, 461, 462, 999}
Texts == {"", AuthFail, "some text"}

Response(r) == <<"response", r>>
Code(c) == <<"response_code", c>>
ResponseText(t) == <<"responsetext", t>>

MCBodies ==
  { <<Response(r), Code(c), ResponseText(t)>> :
      r \in Responses, c \in Codes, t \in Texts }
    \cup { <<Code(c), ResponseText(t)>> : c \in Codes, t \in Texts }
    \cup { <<Response(r)>> : r \in Responses }
    \cup { <<Response(r), Code(300), Response(s)>> : r \in Responses, s \in Responses }
    \cup { <<Code(c), Response("3"), Code(d)>> : c \in Codes, d \in Codes }
    \cup { <<>> }
=============================================================================
