---------------------------- MODULE MCReconcile -----------------------------
(***************************************************************************)
(* Two payments and two queries, one retry each.  The bodies are an        *)
(* approval, a refusal, a body that is no gateway reply (sent after the    *)
(* charge or instead of it) and the two replies to the query.              *)
(***************************************************************************)
EXTENDS Reconcile, TLC

CONSTANTS t1, t2, q1, q2

Body(response, code, text) ==
  << <<"response", response>>, <<"response_code", code>>, <<"responsetext", text>> >>

Answer(charges, status, body) ==
  [charges |-> charges, status |-> status, body |-> body]

Html == << <<"<html", "">> >>

MCFoundBody == << <<"nm_response", "transaction">> >>
MCEmptyBody == << <<"nm_response", "">> >>

MCAnswers ==
  { Answer(TRUE, 200, Body("1", 100, "")), Answer(FALSE, 200, Body("3", 410, "")),
    Answer(TRUE, 502, Html), Answer(FALSE, 502, Html),
    Answer(FALSE, 200, MCFoundBody), Answer(FALSE, 200, MCEmptyBody) }

MCTransactCalls == {t1, t2}
MCQueryCalls == {q1, q2}
MCParserOf == [c \in MCTransactCalls |-> "decide_outcome"]

\* The payments are alike, and so are the queries.
MCSymmetry == Permutations(MCTransactCalls) \cup Permutations(MCQueryCalls)
=============================================================================
