---------------------------- MODULE MCTransport -----------------------------
(***************************************************************************)
(* A vault call and a query share a client.  The answers are the cases the *)
(* transport, the parser of replies and the caller tell apart: an          *)
(* approval, an approval with a code that makes the parser raise           *)
(* ValueError, a decline, a refusal with a duplicated field, a rate limit  *)
(* (HTTP 429), and a body that is no gateway reply and speaks of no effect *)
(* (a proxy's 502 page), sent after the effect or instead of it.           *)
(***************************************************************************)
EXTENDS TransactCall, TLC

CONSTANTS t1, q1

Body(response, code, text) ==
  << <<"response", response>>, <<"response_code", code>>, <<"responsetext", text>> >>

Html == << <<"<html", "">> >>

Answer(charges, status, body) ==
  [charges |-> charges, status |-> status, body |-> body]

MCAnswers ==
  { Answer(TRUE, 200, Body("1", 100, "")), Answer(TRUE, 200, Body("1", Superscript, "")),
    Answer(FALSE, 200, Body("2", 202, "")),
    Answer(FALSE, 200, << <<"response", "1">> >> \o Body("3", 300, AuthFail)),
    Answer(FALSE, 429, Html),
    Answer(TRUE, 502, Html), Answer(FALSE, 502, Html) }

MCTransactCalls == {t1}
MCQueryCalls == {q1}
MCParserOf == (t1 :> "ok_result")
=============================================================================
