--------------------------- MODULE OutcomeProofs ----------------------------
(***************************************************************************)
(* The parsers keep to the documented taxonomy on every body, not only on  *)
(* those of the run: of any length, with any codes, texts and repetitions. *)
(* A body is parsed by one step, so the invariant says what was parsed;    *)
(* the work is in the last value of a name, which the code and the         *)
(* expectation define in different ways, and in the order of the checks of *)
(* the classifier.                                                         *)
(***************************************************************************)
EXTENDS OutcomeCases, WellFoundedInduction, TLAPS

-----------------------------------------------------------------------------
(***************************************************************************)
(* The last value of a name                                                *)
(***************************************************************************)

Less == {p \in Nat \X Nat : p[1] < p[2]}

LEMMA LessIsWellFounded == IsWellFoundedOn(Less, Nat)
<1>1. Less = OpToRel(<, Nat)
  BY DEF Less, OpToRel
<1> QED
  BY <1>1, NatLessThanWellFounded

LEMMA SmallestExists ==
  ASSUME NEW S, S \subseteq Nat, S # {}
  PROVE  \E m \in S : \A k \in S : m <= k
<1>1. PICK m \in S : \A k \in S : ~(<<k, m>> \in Less)
  BY LessIsWellFounded, WFMin, Zenon
<1>2. \A k \in S : k \in Nat /\ m \in Nat /\ ~(k < m)
  BY <1>1 DEF Less
<1> QED
  BY <1>1, <1>2

LEMMA LargestExists ==
  ASSUME NEW n \in Nat, NEW S, S \subseteq 1..n, S # {}
  PROVE  \E m \in S : \A k \in S : k <= m
<1> DEFINE T == {n - k : k \in S}
<1>1. T \subseteq Nat /\ T # {}
  <2>1. \A k \in S : n - k \in Nat
    OBVIOUS
  <2> QED
    BY <2>1
<1>2. PICK t \in T : \A u \in T : t <= u
  <2> HIDE DEF T
  <2> QED
    BY <1>1, SmallestExists
<1>3. PICK m \in S : t = n - m
  BY <1>2
<1>4. ASSUME NEW k \in S
      PROVE  k <= m
  <2>1. n - m <= n - k
    BY <1>2, <1>3
  <2>2. k \in Int /\ m \in Int
    OBVIOUS
  <2> QED
    BY <2>1, <2>2
<1> QED
  BY <1>3, <1>4

IsBody(b) == Len(b) \in Nat /\ DOMAIN b = 1..Len(b)

LEMMA LastExists ==
  ASSUME IsBody(body), NEW name, \E i \in DOMAIN body : body[i][1] = name
  PROVE  \E i \in DOMAIN body :
           body[i][1] = name /\ \A j \in DOMAIN body : j > i => body[j][1] # name
<1> DEFINE positions == {i \in DOMAIN body : body[i][1] = name}
<1>1. PICK i \in positions : \A j \in positions : j <= i
  <2>1. positions \subseteq 1..Len(body) /\ positions # {}
    BY DEF IsBody
  <2> HIDE DEF positions
  <2> QED
    BY <2>1, LargestExists DEF IsBody
<1> QED
  BY <1>1 DEF IsBody

\* parse_qsl keeps the order, so dict() keeps the value that no other follows.
LEMMA ParsedIsLast ==
  ASSUME IsBody(body), NEW name, NEW default
  PROVE  Get(ParseTransactBody(body), name, default) = LastValue(name, default)
<1> DEFINE positions == {i \in DOMAIN body : body[i][1] = name}
           last == CHOOSE i \in positions : \A j \in positions : j <= i
           IsLast(i) == body[i][1] = name /\ \A j \in DOMAIN body : j > i => body[j][1] # name
           final == CHOOSE i \in DOMAIN body : IsLast(i)
           fields == ParseTransactBody(body)
<1>1. DOMAIN fields = {body[i][1] : i \in DOMAIN body}
  BY DEF ParseTransactBody
<1>2. CASE positions = {}
  BY <1>1, <1>2 DEF Get, LastValue
<1>3. CASE positions # {}
  <2>1. name \in DOMAIN fields /\ fields[name] = body[last][2]
    BY <1>1, <1>3 DEF ParseTransactBody
  <2>2. LastValue(name, default) = body[final][2]
    BY <1>3 DEF LastValue
  <2>3. PICK i \in DOMAIN body : IsLast(i)
    BY <1>3, LastExists
  <2>4. last \in positions /\ \A j \in positions : j <= last
    <3>1. i \in positions /\ \A j \in positions : j <= i
      BY <2>3 DEF IsBody
    <3> HIDE DEF positions
    <3> QED
      BY <3>1
  <2>5. final \in DOMAIN body /\ IsLast(final)
    <3> HIDE DEF IsLast
    <3> QED
      BY <2>3
  <2>6. final = last
    <3> HIDE DEF last, final
    <3> QED
      BY <2>3, <2>4, <2>5 DEF IsBody
  <2> QED
    BY <2>1, <2>2, <2>6 DEF Get
<1> QED
  BY <1>2, <1>3

-----------------------------------------------------------------------------
(***************************************************************************)
(* The taxonomy                                                            *)
(***************************************************************************)

IsCode(code) == code \in Nat \cup {NoCode}

LEMMA SuperscriptIsNoCode == ~IsCode(Superscript)
  BY DEF IsCode, NoCode, Superscript

\* The vendored rows and the default for codes without a row amount to two
\* boundaries.
LEMMA ClassOfCode ==
  ASSUME NEW code, IsCode(code), NEW text
  PROVE  ClassifyGatewayError(code, text) = DocumentedClass("3", code, text)
<1>1. code \in Int
  BY DEF IsCode, NoCode
<1>2. (code # NoCode /\ IsRateLimitCode(code)) <=> code = 301
  BY <1>1 DEF IsRateLimitCode, ErrorClassByCode, ProcessorCodes, NoCode
<1>3. (code # NoCode /\ IsProcessorCode(code)) <=> code >= 400
  <2>1. CASE code \in ProcessorCodes
    BY <1>1, <2>1 DEF IsProcessorCode, ErrorClassByCode, ProcessorCodes, NoCode
  <2>2. CASE code \in {300, 301}
    BY <1>1, <2>2 DEF IsProcessorCode, ErrorClassByCode, ProcessorCodes, NoCode
  <2>3. CASE code \notin {300, 301} \cup ProcessorCodes
    BY <1>1, <2>3 DEF IsProcessorCode, ErrorClassByCode, NoCode
  <2> QED
    BY <2>1, <2>2, <2>3
<1> QED
  BY <1>1, <1>2, <1>3 DEF ClassifyGatewayError, DocumentedClass

\* raise_for_error raises what is documented.
LEMMA RaisedIsDocumented ==
  ASSUME NEW fields, IsCode(ParseResponseCode(fields))
  PROVE  RaiseForError(fields) =
           DocumentedClass(Get(fields, "response", "missing"), ParseResponseCode(fields),
                           Get(fields, "responsetext", ""))
<1> DEFINE response == Get(fields, "response", "missing")
<1>1. CASE response = "3"
  BY <1>1, ClassOfCode, SuperscriptIsNoCode DEF RaiseForError, CodeRaises
<1>2. CASE response # "3"
  BY <1>2 DEF RaiseForError, DocumentedClass
<1> QED
  BY <1>1, <1>2

LEMMA RejectedIsRaised ==
  ASSUME NEW class
  PROVE  Rejected(class).kind = "raised"
  BY DEF Rejected

\* If the code can be read, both families of builders raise exactly what
\* raise_for_error raises, and else make a result.
LEMMA ParserRaises ==
  ASSUME NEW fields, IsCode(ParseResponseCode(fields)), NEW parser
  PROVE  IF RaiseForError(fields) = NoError THEN Parse(parser, fields).kind # "raised"
         ELSE Parse(parser, fields) = Rejected(RaiseForError(fields))
<1>1. ~CodeRaises(fields)
  BY SuperscriptIsNoCode DEF CodeRaises
<1>2. BuilderError(fields) = RaiseForError(fields)
  BY <1>1 DEF BuilderError
<1> QED
  BY <1>2 DEF Parse, DecideOutcome, OkResult

LEMMA ClassifyIsNotNoError ==
  ASSUME NEW code, NEW text
  PROVE  ClassifyGatewayError(code, text) # NoError
  BY DEF ClassifyGatewayError, NoError

LEMMA BuildersAgree ==
  ASSUME NEW fields
  PROVE  LET payment == DecideOutcome(fields)
             other == OkResult(fields)
         IN  /\ payment.kind = "raised" <=> other.kind = "raised"
             /\ payment.kind = "approved" <=> other.kind = "ok"
             /\ payment.kind # "raised" => payment.code = other.code
<1>1. CASE BuilderError(fields) = NoError
  <2>1. Get(fields, "response", "missing") \in {"1", "2"}
    BY <1>1, ClassifyIsNotNoError DEF BuilderError, RaiseForError, NoError
  <2>2. fields["response"] = Get(fields, "response", "missing")
    BY <2>1 DEF Get
  <2> QED
    BY <1>1, <2>1, <2>2 DEF DecideOutcome, OkResult
<1>2. CASE BuilderError(fields) # NoError
  BY <1>2, RejectedIsRaised DEF DecideOutcome, OkResult, Rejected
<1> QED
  BY <1>1, <1>2

-----------------------------------------------------------------------------

IInv ==
  /\ body \in Bodies
  /\ Parsed => results = [parser \in Parsers |-> Parse(parser, ParseTransactBody(body))]

LEMMA Invariance == Spec => []IInv
<1>1. Init => IInv
  BY DEF Init, IInv, Parsed
<1>2. IInv /\ [ParseBody]_vars => IInv'
  BY DEF IInv, ParseBody, vars, Parsed
<1> QED
  BY <1>1, <1>2, PTL DEF Spec

\* What the expectation reads from the body is what the code reads.
LEMMA ReadAlike ==
  ASSUME IInv
  PROVE  LET fields == ParseTransactBody(body) IN
         /\ Get(fields, "response", "missing") = LastValue("response", "missing")
         /\ ParseResponseCode(fields) = LastValue("response_code", NoCode)
         /\ Get(fields, "responsetext", "") = LastValue("responsetext", "")
         /\ ParseResponseCode(fields) # Superscript => IsCode(ParseResponseCode(fields))
<1>1. IsBody(body)
  BY BodiesAssumption DEF IInv, IsBody
<1>2. \/ IsCode(LastValue("response_code", NoCode))
      \/ LastValue("response_code", NoCode) = Superscript
  <2> DEFINE name == "response_code"
             IsLast(i) == body[i][1] = name /\ \A j \in DOMAIN body : j > i => body[j][1] # name
             last == CHOOSE i \in DOMAIN body : IsLast(i)
  <2>1. CASE \A i \in DOMAIN body : body[i][1] # name
    BY <2>1 DEF LastValue, IsCode
  <2>2. CASE ~\A i \in DOMAIN body : body[i][1] # name
    <3>1. LastValue(name, NoCode) = body[last][2]
      BY <2>2 DEF LastValue
    <3>2. \E i \in DOMAIN body : IsLast(i)
      BY <1>1, <2>2, LastExists
    <3>3. last \in DOMAIN body /\ body[last][1] = name
      BY <3>2
    <3> HIDE DEF last
    <3> QED
      BY <3>1, <3>3, BodiesAssumption DEF IInv, IsCode
  <2> QED
    BY <2>1, <2>2
<1> QED
  BY <1>1, <1>2, ParsedIsLast DEF ParseResponseCode

\* Each exception class is raised for exactly the replies it is documented for, if
\* their code is not one that int() refuses.
THEOREM TaxonomyIsKept == Spec => []RaisesAsDocumented
<1>1. IInv => RaisesAsDocumented
  <2> SUFFICES ASSUME IInv, Parsed, LastValue("response_code", NoCode) # Superscript,
                      NEW parser \in Parsers
               PROVE  LET class == DocumentedClass(LastValue("response", "missing"),
                                                   LastValue("response_code", NoCode),
                                                   LastValue("responsetext", ""))
                      IN  IF class = NoError THEN results[parser].kind # "raised"
                          ELSE results[parser] = Rejected(class)
    BY DEF RaisesAsDocumented
  <2> DEFINE fields == ParseTransactBody(body)
  <2>1. results[parser] = Parse(parser, fields)
    BY DEF IInv
  <2>2. RaiseForError(fields) =
          DocumentedClass(LastValue("response", "missing"),
                          LastValue("response_code", NoCode),
                          LastValue("responsetext", ""))
    BY ReadAlike, RaisedIsDocumented
  <2>3. IsCode(ParseResponseCode(fields))
    BY ReadAlike
  <2> HIDE DEF fields
  <2> QED
    BY <2>1, <2>2, <2>3, ParserRaises
<1> QED
  BY <1>1, Invariance, PTL

\* A reply is a success for one family of builders exactly if it is for the
\* other.
THEOREM FamiliesAgree == Spec => []ParsersAgree
<1>1. IInv => ParsersAgree
  <2> SUFFICES ASSUME IInv, Parsed
               PROVE  ParsersAgree
    BY DEF ParsersAgree
  <2> DEFINE fields == ParseTransactBody(body)
  <2>1. /\ results["decide_outcome"] = DecideOutcome(fields)
        /\ results["ok_result"] = OkResult(fields)
    BY DEF IInv, Parsers, Parse
  <2> HIDE DEF fields
  <2> QED
    BY <2>1, BuildersAgree DEF ParsersAgree
<1> QED
  BY <1>1, Invariance, PTL
=============================================================================
