---------------------------- MODULE OutcomeCases ----------------------------
(***************************************************************************)
(* The parsers of module Outcome on every body of a finite set: a body     *)
(* arrives and each parser is applied to it.  The expectations below are   *)
(* written from the documented response-code table and the error taxonomy, *)
(* not from the functions that compute the outcome.                        *)
(***************************************************************************)
EXTENDS Outcome, FiniteSets

CONSTANT Bodies   \* reply bodies: sequences of <<name, value>> pairs

ASSUME BodiesAssumption ==
  \A b \in Bodies :
    /\ Len(b) \in Nat /\ DOMAIN b = 1..Len(b)
    /\ \A i \in DOMAIN b : b[i][1] = "response_code" => b[i][2] \in Nat \cup {NoCode, Superscript}

VARIABLES
  body,     \* the reply
  results   \* what each parser made of it; empty before it is parsed

vars == <<body, results>>

Init ==
  /\ body \in Bodies
  /\ results = <<>>

ParseBody ==
  /\ results = <<>>
  /\ results' = [parser \in Parsers |-> Parse(parser, ParseTransactBody(body))]
  /\ UNCHANGED body

Spec == Init /\ [][ParseBody]_vars

-----------------------------------------------------------------------------

Parsed == results # <<>>

\* The value of a name after which the body does not have the name again.
LastValue(name, default) ==
  LET IsLast(i) == body[i][1] = name /\ \A j \in DOMAIN body : j > i => body[j][1] # name
  IN  IF \A i \in DOMAIN body : body[i][1] # name THEN default
      ELSE body[CHOOSE i \in DOMAIN body : IsLast(i)][2]

\* errors.py's taxonomy and the response-code table, as one relation between
\* the three fields of a reply and the class of the exception: code 301 and
\* the codes from 400 on, also those the table lacks, are decided by the code
\* alone, whatever the text; a response=3 with any other code is a credential
\* failure or an invalid request by its text; a decline is a result even with
\* an error's code.
DocumentedClass(response, code, text) ==
  CASE response \notin {"1", "2", "3"} -> "APIError"
    [] response \in {"1", "2"} -> NoError
    [] response = "3" /\ code = 301 -> "RateLimitError"
    [] response = "3" /\ code >= 400 -> "ProcessorError"
    [] response = "3" /\ code # 301 /\ code < 400 ->
         IF text = AuthFail THEN "AuthenticationError" ELSE "InvalidRequestError"

\* Every parser raises the documented exception, and only then.  No document
\* speaks of a code that int() refuses.
RaisesAsDocumented ==
  Parsed /\ LastValue("response_code", NoCode) # Superscript =>
    \A parser \in Parsers :
      LET class == DocumentedClass(LastValue("response", "missing"),
                                   LastValue("response_code", NoCode),
                                   LastValue("responsetext", ""))
      IN  IF class = NoError THEN results[parser].kind # "raised"
          ELSE results[parser] = Rejected(class)

\* The payment methods and the vault, plan, subscription and invoice methods
\* read the same reply the same way: one approves exactly when the others are
\* ok, with the same code.
ParsersAgree ==
  Parsed =>
    LET payment == results["decide_outcome"]
        other == results["ok_result"]
    IN  /\ payment.kind = "raised" <=> other.kind = "raised"
        /\ payment.kind = "approved" <=> other.kind = "ok"
        /\ payment.kind # "raised" => payment.code = other.code
=============================================================================
