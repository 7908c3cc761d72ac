----------------------------- MODULE MCRequests -----------------------------
(***************************************************************************)
(* Every method with its required arguments and any two optional ones,     *)
(* with and without the payment source or schedule its checks ask for,     *)
(* and with and without billing, shipping and extra parameters that        *)
(* collide with them; and the values on both sides of every boundary of    *)
(* the arguments that are checked.                                         *)
(***************************************************************************)
EXTENDS Requests, FiniteSets, TLC

UsualValue(a) ==
  CASE a = "amount" -> Value("Decimal", 19, 9, 1)
    [] a = "dup_seconds" -> Number(60)
    [] a = "payment_terms" -> Number(30)
    [] a \in ScheduleArguments -> Number(1)
    [] OTHER -> Plain

UsualArguments(names) == [a \in names |-> UsualValue(a)]

Call(op, args, mdf, billing, shipping, extra) ==
  [op |-> op, args |-> args, mdf |-> mdf, billing |-> billing,
   shipping |-> shipping, extra |-> extra]

Dict(op, name, choices) == IF name \in Methods[op].dicts THEN choices ELSE {{}}

Extras == {{}, {"type", "email"}, {"page_number", "amount"}, {"payment_token"}}

\* All subsets of a set with at most two elements.
UpToTwo(s) == {{}} \cup {{a, b} : a \in s, b \in s}

\* What a call without a payment source or a schedule lacks.
Enough(op) ==
  IF op = "create_plan" THEN {"day_frequency"}
  ELSE Methods[op].optional \cap {"payment_token"}

PairsOfArguments(op) ==
  { Call(op, UsualArguments(Methods[op].required \cup enough \cup optional),
         mdf, billing, shipping, extra) :
      enough \in {{}, Enough(op)},
      optional \in UpToTwo(Methods[op].optional),
      mdf \in Dict(op, "mdf", {{}, {20}}),
      billing \in Dict(op, "billing", {{}, {"first_name", "email"}}),
      shipping \in Dict(op, "shipping", {{}, {"first_name", "email"}}),
      extra \in Extras }

\* A call of a method with all it needs, and the given arguments.
With(op, args) ==
  Call(op, args @@ UsualArguments(Methods[op].required \cup Enough(op)), {}, {}, {}, {})

Amounts ==
  { Value(kind, n, frac, places) :
      kind \in {"str", "Decimal", "-Decimal"}, n \in {0, 1, 99999999, 100000000},
      frac \in {0}, places \in 0..3 }
  \cup { Value(kind, n, frac, places) :
      kind \in {"str", "Decimal"}, n \in {0, 5}, frac \in {5, 10, 99, 100},
      places \in 2..4 }
  \cup { Value(kind, 0, 0, 0) : kind \in {"NaN", "float", "malformed"} }

CallsWithAmounts ==
  { With(op, "amount" :> v) :
      op \in {"sale", "capture", "refund", "charge_customer", "create_plan",
              "update_subscription", "create_invoice"},
      v \in Amounts \cap AmountValues }

Numbers(numbers) == {Number(n) : n \in numbers}

Schedules ==
  UNION { [given -> Numbers({0, 1, 24, 25, 31, 32})] : given \in SUBSET ScheduleArguments }

CallsWithSchedules ==
  { Call(op, schedule @@ UsualArguments(Methods[op].required), {}, {}, {}, extra) :
      op \in {"create_plan", "update_plan", "update_subscription"},
      schedule \in Schedules, extra \in {{}, {"month_frequency"}} }

CallsWithTerms ==
  { With(op, "payment_terms" :> v) :
      op \in {"create_invoice", "update_invoice"},
      v \in Numbers({-1, 0, 999, 1000})
              \cup { Value(kind, n, 0, 0) : kind \in {"digits", "bool"}, n \in {0, 1, 1000} }
              \cup { Value(kind, 0, 0, 0) : kind \in {"upon_receipt", "malformed"} } }

CallsWithOddities ==
  { With("charge_customer", "dup_seconds" :> v) :
      v \in Numbers({-1, 0, 7862400, 7862401}) \cup {Plain} }
  \cup { With("query_invoices", "invoice_status" :> Value("empty", 0, 0, 0)),
         With("query_customers", "end_date" :> Value("not a date", 0, 0, 0)) }
  \cup { Call("charge_customer", UsualArguments({"customer_vault_id", "amount"}),
              numbers, {}, {}, {}) : numbers \in {{0}, {1}, {20}, {1, 21}} }
  \cup { Call("create_invoice", UsualArguments({"amount", "email", "payment_terms"}),
              {}, billing, shipping, {}) :
           billing \in {{"fax"}, {"nickname"}}, shipping \in {{"zip"}, {"phone"}} }

SpecialCalls ==
  CallsWithAmounts \cup CallsWithSchedules \cup CallsWithTerms \cup CallsWithOddities

OfMethod(op, calls) == {c \in calls : c.op = op}

MCCalls ==
  [op \in DOMAIN Methods |-> PairsOfArguments(op) \cup OfMethod(op, SpecialCalls)]

MCInvoices == [op \in {"create_invoice", "update_invoice"} |-> OfMethod(op, CallsWithTerms)]
=============================================================================
