------------------------------ MODULE Outcome -------------------------------
(***************************************************************************)
(* What the SDK makes of a transact.php reply (kicbac/_core.py): the body  *)
(* is parsed into fields, a malformed body or response=3 raises, anything  *)
(* else becomes a result.                                                  *)
(*                                                                         *)
(* A body is the sequence of its <<name, value>> pairs.  The value of      *)
(* "response" is a string, and the value of "responsetext" is AuthFail for *)
(* the texts AUTH_FAIL_PATTERN matches.  The value of "response_code" is a *)
(* number, NoCode if isdigit() is false of it, or Superscript if isdigit() *)
(* is true of it and int() still raises ValueError.                        *)
(***************************************************************************)
EXTENDS Integers, Sequences

NoCode == -1
Superscript == -2
AuthFail == "authentication failed"

\* dict(parse_qsl(body)): of several values for a name the last one wins.
ParseTransactBody(body) ==
  LET Positions(name) == {i \in DOMAIN body : body[i][1] = name}
      Last(name) == CHOOSE i \in Positions(name) : \A j \in Positions(name) : j <= i
  IN  [name \in {body[i][1] : i \in DOMAIN body} |-> body[Last(name)][2]]

Get(fields, name, default) ==
  IF name \in DOMAIN fields THEN fields[name] ELSE default

ParseResponseCode(fields) == Get(fields, "response_code", NoCode)

\* Calling _parse_response_code raises.
CodeRaises(fields) == ParseResponseCode(fields) = Superscript

\* The rows of VENDORED_RESPONSE_CODES whose outcome is "error".
ProcessorCodes == {400, 410, 411, 420, 421, 430, 440, 441, 460, 461}
ErrorClassByCode ==
  [code \in {300, 301} \cup ProcessorCodes |->
     CASE code = 300 -> "InvalidRequestError"
       [] code = 301 -> "RateLimitError"
       [] code \in ProcessorCodes -> "ProcessorError"]

IsProcessorCode(code) ==
  IF code \in DOMAIN ErrorClassByCode
  THEN ErrorClassByCode[code] = "ProcessorError"
  ELSE code >= 400

IsRateLimitCode(code) ==
  code \in DOMAIN ErrorClassByCode /\ ErrorClassByCode[code] = "RateLimitError"

\* The text is looked at before the code.
ClassifyGatewayError_mut(code, text) ==
  IF text = AuthFail THEN "AuthenticationError"
  ELSE IF code # NoCode /\ IsRateLimitCode(code) THEN "RateLimitError"
  ELSE IF code # NoCode /\ IsProcessorCode(code) THEN "ProcessorError"
  ELSE "InvalidRequestError"

ClassifyGatewayError(code, text) ==
  IF code # NoCode /\ IsRateLimitCode(code) THEN "RateLimitError"
  ELSE IF code # NoCode /\ IsProcessorCode(code) THEN "ProcessorError"
  ELSE IF text = AuthFail THEN "AuthenticationError"
  ELSE "InvalidRequestError"

NoError == "none"

\* raise_for_error: the class it raises, or NoError.
RaiseForError(fields) ==
  LET response == Get(fields, "response", "missing") IN
  IF response \notin {"1", "2", "3"} THEN "APIError"
  ELSE IF response # "3" THEN NoError
  ELSE IF CodeRaises(fields) THEN "ValueError"
  ELSE ClassifyGatewayError(ParseResponseCode(fields), Get(fields, "responsetext", ""))

\* _parse_response_code(fields) or 0
CodeOrZero(fields) ==
  IF ParseResponseCode(fields) = NoCode THEN 0 ELSE ParseResponseCode(fields)

\* What a builder raises: after raise_for_error it reads the code for the result.
BuilderError(fields) ==
  IF RaiseForError(fields) = NoError /\ CodeRaises(fields) THEN "ValueError"
  ELSE RaiseForError(fields)

Rejected(class) == [kind |-> "raised", class |-> class]

\* decide_outcome, the parser of payments: a decline is a result.
DecideOutcome(fields) ==
  IF BuilderError(fields) # NoError THEN Rejected(BuilderError(fields))
  ELSE [kind |-> IF fields["response"] = "1" THEN "approved" ELSE "declined",
        code |-> CodeOrZero(fields)]

\* Only response=2 is not ok: raise_for_error is not called.
OkResult_mut(fields) ==
  [kind |-> IF Get(fields, "response", "missing") = "2" THEN "not_ok" ELSE "ok",
   code |-> CodeOrZero(fields)]

\* vault_result, plan_result, subscription_result and invoice_result: the kind
\* is the flag ok of the result.
OkResult(fields) ==
  IF BuilderError(fields) # NoError THEN Rejected(BuilderError(fields))
  ELSE [kind |-> IF Get(fields, "response", "missing") = "1" THEN "ok" ELSE "not_ok",
        code |-> CodeOrZero(fields)]

Parsers == {"decide_outcome", "ok_result"}

Parse(parser, fields) ==
  IF parser = "decide_outcome" THEN DecideOutcome(fields) ELSE OkResult(fields)
=============================================================================
