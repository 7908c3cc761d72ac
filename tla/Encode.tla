------------------------------- MODULE Encode -------------------------------
(***************************************************************************)
(* Which argument values the SDK refuses before anything is sent, and what *)
(* it sends for those it accepts (kicbac/_encode.py and the private        *)
(* helpers of resources/plans.py and resources/invoices.py).               *)
(*                                                                         *)
(* A value is a record: its Python type, or the shape of its text, and the *)
(* numbers in it.  An amount n + frac / 10^places is "Decimal",            *)
(* "-Decimal" with a minus sign (a negative zero too), "NaN", or a "str"   *)
(* of digits, perhaps with a point and more digits.  Leading zeros that    *)
(* leave at most eight digits before the point ("007.50") make no          *)
(* difference; a str with more of them is "malformed", as is any other.    *)
(***************************************************************************)
EXTENDS Integers

\* Bound on the decimal places of an amount.
MaxPlaces == 4

Value(kind, n, frac, places) ==
  [kind |-> kind, n |-> n, frac |-> frac, places |-> places]

Number(n) == Value("int", n, 0, 0)
Plain == Value("text", 0, 0, 0)

NoError == "none"

\* 10^p
Scale(p) == CASE p = 0 -> 1 [] p = 1 -> 10 [] p = 2 -> 100 [] p = 3 -> 1000 [] p = 4 -> 10000

\* What may be given for an amount.
AmountValues ==
  { v \in [kind : {"Decimal", "-Decimal", "NaN", "float", "str", "malformed"},
           n : Nat, frac : Nat, places : 0..MaxPlaces] : v.frac < Scale(v.places) }

-----------------------------------------------------------------------------

IsDecimal(v) == v.kind \in {"Decimal", "-Decimal"}

\* quantize() without the Inexact trap: the rest is cut off.
IsExact_mut(v) == TRUE

\* quantize(0.01) with the Inexact trap does not raise.
IsExact(v) == v.places <= 2 \/ v.frac % Scale(v.places - 2) = 0

\* The fraction of a Decimal, in cents.
Cents(v) ==
  IF v.places <= 2 THEN v.frac * Scale(2 - v.places) ELSE v.frac \div Scale(v.places - 2)

\* What is sent, up to leading zeros: whole units, the digits after the point and
\* their number.
AmountText(v) ==
  IF IsDecimal(v) THEN <<v.n, Cents(v), 2>> ELSE <<v.n, v.frac, v.places>>

\* _AMOUNT_RE matches AmountText(v).
IsAmount(v) ==
  /\ v.kind \in {"Decimal", "str"}
  /\ AmountText(v)[1] < 100000000
  /\ AmountText(v)[3] <= 2

AmountError(v) ==
  IF v.kind = "float" THEN "TypeError"
  ELSE IF (IsDecimal(v) /\ ~IsExact(v)) \/ ~IsAmount(v) THEN "InvalidRequestError"
  ELSE NoError

\* Unless allow_zero.
ZeroAmountError(v) ==
  IF AmountText(v)[1] = 0 /\ AmountText(v)[2] = 0 THEN "InvalidRequestError" ELSE NoError

-----------------------------------------------------------------------------

\* An int is checked against 0-999, a str of digits is not.
PaymentTermsError(v) ==
  IF \/ v.kind = "bool"
     \/ v.kind = "int" /\ v.n \notin 0..999
     \/ v.kind = "malformed"
  THEN "InvalidRequestError" ELSE NoError

MaxDupSeconds == 7862400

DupSecondsError(v) ==
  IF v.kind # "int" THEN "TypeError"
  ELSE IF v.n \notin 0..MaxDupSeconds THEN "InvalidRequestError"
  ELSE NoError

\* encode_date and encode_datetime take a date object or digits.
DateError(values) ==
  IF \E v \in values : v.kind = "not a date" THEN "InvalidRequestError" ELSE NoError

\* encode_csv takes a str or a sequence of which something is left when joined.
CsvError(values) ==
  IF \E v \in values : v.kind = "empty" THEN "InvalidRequestError" ELSE NoError

MerchantDefinedFieldsError(numbers) ==
  IF numbers \subseteq 1..20 THEN NoError ELSE "InvalidRequestError"

BillingKeys ==
  {"first_name", "last_name", "company", "address1", "address2", "city",
   "state", "zip", "country", "phone", "fax", "email"}
ShippingKeys == BillingKeys \ {"phone", "fax"}

KeysError(keys, known) ==
  IF keys \subseteq known THEN NoError ELSE "InvalidRequestError"

\* month_frequency without day_of_month, and the other way round, let through.
FrequencyError_mut(args, required) ==
  LET given == DOMAIN args \cap {"day_frequency", "month_frequency", "day_of_month"}
  IN  IF \/ "day_frequency" \in given /\ given # {"day_frequency"}
         \/ \E a \in given : args[a].n < 1
         \/ "month_frequency" \in given /\ args["month_frequency"].n > 24
         \/ "day_of_month" \in given /\ args["day_of_month"].n > 31
         \/ given = {} /\ required
      THEN "InvalidRequestError" ELSE NoError

\* _frequency_params: one schedule style, or none where none is required.
FrequencyError(args, required) ==
  LET given == DOMAIN args \cap {"day_frequency", "month_frequency", "day_of_month"}
      N(a) == args[a].n
  IN  IF \/ given = {"day_frequency"} /\ N("day_frequency") >= 1
         \/ /\ given = {"month_frequency", "day_of_month"}
            /\ N("month_frequency") \in 1..24
            /\ N("day_of_month") \in 1..31
         \/ given = {} /\ ~required
      THEN NoError ELSE "InvalidRequestError"
=============================================================================
