--------------------------- MODULE RequestsProofs ---------------------------
(***************************************************************************)
(* What arrives at the gateway says what the merchant's arguments said,    *)
(* for every set of calls.  The state invariant is simple: what was sent   *)
(* is the request of a call that was not refused.  The work is in two      *)
(* facts about such a request: where each of its fields comes from (the    *)
(* rows and the order of the dicts), and what the checks that were passed  *)
(* say of the arguments.                                                   *)
(***************************************************************************)
EXTENDS Requests, TLAPS

-----------------------------------------------------------------------------
(***************************************************************************)
(* Amounts                                                                 *)
(***************************************************************************)

LEMMA Scales ==
  /\ Scale(0) = 1 /\ Scale(1) = 10 /\ Scale(2) = 100
  /\ Scale(3) = 1000 /\ Scale(4) = 10000
  BY DEF Scale

\* Cutting digits off that are all zero changes nothing.
LEMMA CutIsExact ==
  ASSUME NEW frac \in Nat, NEW unit \in {10, 100}, frac % unit = 0
  PROVE  /\ frac \div unit \in Nat
         /\ (frac \div unit) * unit = frac
<1>1. CASE unit = 10
  BY <1>1
<1>2. CASE unit = 100
  BY <1>2
<1> QED
  BY <1>1, <1>2

\* A Decimal that is accepted has whole cents, and they are what is sent.
LEMMA CentsAreExact ==
  ASSUME NEW v \in AmountValues, IsExact(v)
  PROVE  Cents(v) \in Nat /\ Cents(v) * Scale(v.places) = v.frac * 100
<1>1. v.frac \in Nat /\ v.places \in {0, 1, 2, 3, 4}
  BY DEF AmountValues, MaxPlaces
<1>2. CASE v.places \in {0, 1, 2}
  BY <1>1, <1>2, Scales DEF Cents
<1>3. CASE v.places \in {3, 4}
  <2> DEFINE unit == Scale(v.places - 2)
  <2>1. unit \in {10, 100} /\ v.frac % unit = 0 /\ Cents(v) = v.frac \div unit
    BY <1>3, Scales DEF IsExact, Cents
  <2>2. Scale(v.places) = unit * 100
    BY <1>3, Scales
  <2> HIDE DEF unit
  <2>3. Cents(v) \in Nat /\ Cents(v) * unit = v.frac
    BY <1>1, <2>1, CutIsExact
  <2>4. CASE unit = 10
    BY <2>2, <2>3, <2>4
  <2>5. CASE unit = 100
    BY <2>2, <2>3, <2>5
  <2> QED
    BY <2>1, <2>4, <2>5
<1> QED
  BY <1>1, <1>2, <1>3

\* encode_amount sends every amount it accepts as it was given, to the cent:
\* nothing is rounded, nothing is negative, and zero needs allow_zero.
THEOREM AcceptedAmountsAreExact ==
  ASSUME NEW v \in AmountValues, AmountError(v) = NoError
  PROVE  /\ v.kind \in {"Decimal", "str"}
         /\ AmountText(v)[1] = v.n /\ v.n <= 99999999
         /\ AmountText(v)[2] * Scale(v.places) = v.frac * Scale(AmountText(v)[3])
         /\ AmountText(v)[3] <= 2
         /\ ZeroAmountError(v) = NoError => v.n + v.frac > 0
<1>1. /\ IsDecimal(v) => IsExact(v)
      /\ IsAmount(v)
  BY DEF AmountError, NoError
<1>2. /\ v.n \in Nat /\ v.frac \in Nat /\ v.places \in {0, 1, 2, 3, 4}
      /\ v.kind \in {"Decimal", "str"} /\ AmountText(v)[1] < 100000000
      /\ AmountText(v)[3] <= 2
  BY <1>1 DEF AmountValues, MaxPlaces, IsAmount
<1>3. ZeroAmountError(v) = NoError => ~(AmountText(v)[1] = 0 /\ AmountText(v)[2] = 0)
  BY DEF ZeroAmountError, NoError
<1>4. CASE v.kind = "Decimal"
  <2>1. AmountText(v) = <<v.n, Cents(v), 2>>
    BY <1>4 DEF AmountText, IsDecimal
  <2>2. Cents(v) \in Nat /\ Cents(v) * Scale(v.places) = v.frac * 100
    BY <1>1, <1>4, CentsAreExact DEF IsDecimal
  <2>3. v.frac = 0 => Cents(v) = 0
    BY <1>2, <2>2, Scales
  <2> QED
    BY <1>2, <1>3, <2>1, <2>2, <2>3, Scales
<1>5. CASE v.kind = "str"
  <2>1. AmountText(v) = <<v.n, v.frac, v.places>>
    BY <1>5 DEF AmountText, IsDecimal
  <2> QED
    BY <1>2, <1>3, <2>1
<1> QED
  BY <1>2, <1>4, <1>5

-----------------------------------------------------------------------------
(***************************************************************************)
(* The checks                                                              *)
(***************************************************************************)

LEMMA FirstExists ==
  ASSUME NEW S, S \subseteq 1..11, S # {}
  PROVE  \E i \in S : \A j \in S : i <= j
<1> DEFINE AtLeast(n) == \A j \in S : n <= j
<1> SUFFICES ASSUME \A n \in S : ~AtLeast(n)
             PROVE  FALSE
  OBVIOUS
<1>1. ASSUME NEW n \in 1..11, AtLeast(n)
      PROVE  AtLeast(n + 1)
  <2> SUFFICES ASSUME NEW j \in S
               PROVE  n + 1 <= j
    OBVIOUS
  <2>1. j # n /\ n <= j /\ j \in Int
    BY <1>1
  <2> QED
    BY <2>1
<1>2. AtLeast(1)
  OBVIOUS
<1>3. ~AtLeast(12)
  <2>1. PICK j : j \in S
    OBVIOUS
  <2>2. j \in 1..11
    BY <2>1
  <2> QED
    BY <2>1, <2>2
<1> HIDE DEF AtLeast
<1>4. AtLeast(2) /\ AtLeast(3) /\ AtLeast(4) /\ AtLeast(5) /\ AtLeast(6)
      /\ AtLeast(7) /\ AtLeast(8) /\ AtLeast(9) /\ AtLeast(10) /\ AtLeast(11)
  BY <1>1, <1>2
<1> QED
  BY <1>1, <1>3, <1>4

\* A call that is not refused passed every check; one that is raises the class
\* of one of them.
LEMMA RefusalIsAnError ==
  ASSUME NEW c
  PROVE  /\ Refusal(c) = NoError => \A i \in 1..11 : Errors(c)[i] = NoError
         /\ \E i \in 1..11 : Refusal(c) \in {NoError, Errors(c)[i]}
<1> DEFINE errors == Errors(c)
           failed == {i \in DOMAIN errors : errors[i] # NoError}
           first == CHOOSE i \in failed : \A j \in failed : i <= j
<1>1. DOMAIN errors = 1..11
  BY DEF Errors
<1>2. Refusal(c) = IF failed = {} THEN NoError ELSE errors[first]
  BY DEF Refusal
<1> HIDE DEF errors
<1>3. failed # {} => first \in failed
  <2>1. failed \subseteq 1..11
    BY <1>1
  <2> HIDE DEF failed
  <2> QED
    BY <2>1, FirstExists
<1>4. CASE failed = {}
  <2>1. \A i \in 1..11 : errors[i] = NoError
    BY <1>1, <1>4
  <2> QED
    BY <1>2, <1>4, <2>1 DEF errors
<1>5. CASE failed # {}
  <2>1. first \in 1..11 /\ errors[first] # NoError
    BY <1>1, <1>3, <1>5
  <2> HIDE DEF first, failed
  <2> QED
    BY <1>2, <1>5, <2>1 DEF errors
<1> QED
  BY <1>4, <1>5

ErrorClasses == {NoError, "TypeError", "InvalidRequestError"}

LEMMA ErrorTypes ==
  ASSUME NEW c, NEW i \in 1..11
  PROVE  Errors(c)[i] \in ErrorClasses
<1>1. \A v : AmountError(v) \in ErrorClasses
  BY DEF ErrorClasses, NoError, AmountError
<1>2. \A v : ZeroAmountError(v) \in ErrorClasses
  BY DEF ErrorClasses, NoError, ZeroAmountError
<1>3. \A v : PaymentTermsError(v) \in ErrorClasses
  BY DEF ErrorClasses, NoError, PaymentTermsError
<1>4. \A v : DupSecondsError(v) \in ErrorClasses
  BY DEF ErrorClasses, NoError, DupSecondsError
<1>5. \A values : CsvError(values) \in ErrorClasses
  BY DEF ErrorClasses, NoError, CsvError
<1>6. \A values : DateError(values) \in ErrorClasses
  BY DEF ErrorClasses, NoError, DateError
<1>7. \A keys, known : KeysError(keys, known) \in ErrorClasses
  BY DEF ErrorClasses, NoError, KeysError
<1>8. \A numbers : MerchantDefinedFieldsError(numbers) \in ErrorClasses
  BY DEF ErrorClasses, NoError, MerchantDefinedFieldsError
<1>9. /\ SourceError(c) \in ErrorClasses
      /\ ScheduleError(c) \in ErrorClasses
  BY DEF ErrorClasses, NoError, SourceError, ScheduleError, FrequencyError
<1> QED
  BY <1>1, <1>2, <1>3, <1>4, <1>5, <1>6, <1>7, <1>8, <1>9
  DEF Errors, IfGiven, ErrorClasses

LEMMA RefusalType ==
  ASSUME NEW c
  PROVE  Refusal(c) \in ErrorClasses
  BY RefusalIsAnError, ErrorTypes DEF ErrorClasses

\* What the checks that were passed say.
LEMMA NotRefused ==
  ASSUME NEW c, Refusal(c) = NoError
  PROVE  /\ SourceError(c) = NoError
         /\ "amount" \in DOMAIN c.args =>
              /\ AmountError(c.args["amount"]) = NoError
              /\ c.op # "refund" => ZeroAmountError(c.args["amount"]) = NoError
         /\ ScheduleError(c) = NoError
         /\ c.billing \subseteq BillingKeys
         /\ c.shipping \subseteq ShippingKeys
         /\ c.mdf \subseteq 1..20
<1>1. \A i \in 1..11 : Errors(c)[i] = NoError
  BY RefusalIsAnError
<1>2. /\ Errors(c)[1] = SourceError(c)
      /\ Errors(c)[2] = IfGiven(c, "amount", AmountError(c.args["amount"]))
      /\ Errors(c)[3] = IF c.op = "refund" THEN NoError
                        ELSE IfGiven(c, "amount", ZeroAmountError(c.args["amount"]))
      /\ Errors(c)[4] = ScheduleError(c)
      /\ Errors(c)[8] = KeysError(c.billing, BillingKeys)
      /\ Errors(c)[9] = KeysError(c.shipping, ShippingKeys)
      /\ Errors(c)[11] = MerchantDefinedFieldsError(c.mdf)
  BY DEF Errors
<1>3. "amount" \in DOMAIN c.args =>
        /\ AmountError(c.args["amount"]) = NoError
        /\ c.op # "refund" => ZeroAmountError(c.args["amount"]) = NoError
  BY <1>1, <1>2 DEF IfGiven, Gives
<1>4. /\ c.billing \subseteq BillingKeys /\ c.shipping \subseteq ShippingKeys
      /\ c.mdf \subseteq 1..20
  BY <1>1, <1>2 DEF KeysError, MerchantDefinedFieldsError, NoError
<1> QED
  BY <1>1, <1>2, <1>3, <1>4

-----------------------------------------------------------------------------
(***************************************************************************)
(* The rows                                                                *)
(***************************************************************************)

LEMMA UpdatedAt ==
  ASSUME NEW earlier, NEW later, NEW f
  PROVE  /\ f \in DOMAIN Updated(earlier, later) <=> f \in DOMAIN earlier \/ f \in DOMAIN later
         /\ f \in DOMAIN later => Updated(earlier, later)[f] = later[f]
         /\ f \in DOMAIN earlier /\ f \notin DOMAIN later =>
              Updated(earlier, later)[f] = earlier[f]
  BY DEF Updated

TransactOps ==
  {"sale", "authorize", "credit", "validate", "capture", "void", "refund", "update",
   "create_customer", "update_customer", "delete_customer", "charge_customer",
   "add_billing", "update_billing", "delete_billing", "create_plan", "update_plan",
   "create_subscription", "update_subscription", "delete_subscription",
   "create_invoice", "update_invoice", "send_invoice", "close_invoice"}

ReportOps ==
  {"query_transactions", "query_customers", "query_subscriptions", "query_plans",
   "query_invoices"}

LEMMA Operations ==
  /\ DOMAIN TransactMethods = TransactOps
  /\ DOMAIN Reports = ReportOps
  /\ DOMAIN Methods = TransactOps \cup ReportOps
  /\ \A op \in TransactOps : op \notin ReportOps /\ Methods[op] = TransactMethods[op]
  /\ \A op \in ReportOps : Methods[op] = Reports[op]
<1>1. DOMAIN TransactMethods = TransactOps
  BY DEF TransactMethods, TransactOps
<1>2. DOMAIN Reports = ReportOps
  BY DEF Reports, ReportOps
<1>3. \A op \in TransactOps : op \notin ReportOps
  BY DEF TransactOps, ReportOps
<1> QED
  BY <1>1, <1>2, <1>3 DEF Methods, Updated

Allowed(row) == row.required \cup row.optional

\* The arguments of all methods.
Arguments ==
  ChargeArguments \cup ScheduleArguments \cup DateRange \cup
  {"amount", "transaction_id", "void_reason", "shipping_carrier", "tracking_number",
   "shipping_date", "source_transaction_id", "priority", "plan_id", "name", "payments",
   "subscription_id", "paused", "invoice_id", "email", "payment_terms",
   "payment_methods_allowed", "customer_id", "condition", "transaction_type",
   "action_type", "source", "first_name", "last_name", "date_search", "invoice_status"}

\* The arguments whose names are also fields of a billing dict.
BillingArguments == {"email", "first_name", "last_name"}

\* The fields that select the operation.
SelectorNames == {"type", "customer_vault", "recurring", "invoicing", "report_type"}

RowIsRegular(row) ==
  /\ row.selector \in SelectorNames \cup {NoSelector}
  /\ Allowed(row) \subseteq Arguments
  /\ "billing" \in row.dicts => Allowed(row) \cap BillingArguments \subseteq {"email"}

LEMMA TransactionRows ==
  \A row \in {Sale, Authorize, Credit, Validate, Capture, Void, Refund, UpdateTransaction} :
    RowIsRegular(row)
<1>1. RowIsRegular(Sale) /\ RowIsRegular(Authorize)
  BY DEF Sale, Authorize, Row,
         RowIsRegular, SelectorNames, NoSelector, Allowed, Arguments,
         BillingArguments, ChargeArguments, CredentialArguments
<1>2. RowIsRegular(Credit) /\ RowIsRegular(Validate)
  BY DEF Credit, Validate, Row,
         RowIsRegular, SelectorNames, NoSelector, Allowed, Arguments,
         BillingArguments, ChargeArguments, CredentialArguments
<1>3. RowIsRegular(Capture) /\ RowIsRegular(Void) /\ RowIsRegular(Refund)
  BY DEF Capture, Void, Refund, Row,
         RowIsRegular, SelectorNames, NoSelector, Allowed, Arguments,
         BillingArguments, ChargeArguments, CredentialArguments
<1>4. RowIsRegular(UpdateTransaction)
  BY DEF UpdateTransaction, Row,
         RowIsRegular, SelectorNames, NoSelector, Allowed, Arguments,
         BillingArguments, ChargeArguments, CredentialArguments
<1> QED
  BY <1>1, <1>2, <1>3, <1>4

LEMMA CustomerRows ==
  \A row \in {CreateCustomer, UpdateCustomer, DeleteCustomer, ChargeCustomer, AddBilling,
              UpdateBilling, DeleteBilling} : RowIsRegular(row)
<1>1. RowIsRegular(CreateCustomer) /\ RowIsRegular(UpdateCustomer)
  BY DEF CreateCustomer, UpdateCustomer, Row,
         RowIsRegular, SelectorNames, NoSelector, Allowed, Arguments,
         BillingArguments, ChargeArguments, CredentialArguments
<1>2. RowIsRegular(ChargeCustomer) /\ RowIsRegular(DeleteCustomer)
  BY DEF ChargeCustomer, DeleteCustomer, Row,
         RowIsRegular, SelectorNames, NoSelector, Allowed, Arguments,
         BillingArguments, ChargeArguments, CredentialArguments
<1>3. RowIsRegular(AddBilling) /\ RowIsRegular(UpdateBilling) /\ RowIsRegular(DeleteBilling)
  BY DEF AddBilling, UpdateBilling, DeleteBilling, Row,
         RowIsRegular, SelectorNames, NoSelector, Allowed, Arguments,
         BillingArguments, ChargeArguments, CredentialArguments
<1> QED
  BY <1>1, <1>2, <1>3

LEMMA OtherRows ==
  \A row \in {CreatePlan, UpdatePlan, CreateSubscription, UpdateSubscription,
              DeleteSubscription, CreateInvoice, UpdateInvoice, SendInvoice, CloseInvoice} :
    RowIsRegular(row)
<1>1. RowIsRegular(CreatePlan) /\ RowIsRegular(UpdatePlan)
  BY DEF CreatePlan, UpdatePlan, Row,
         RowIsRegular, SelectorNames, NoSelector, Allowed, Arguments,
         BillingArguments, ChargeArguments, ScheduleArguments, CredentialArguments, DateRange
<1>2. RowIsRegular(CreateSubscription) /\ RowIsRegular(DeleteSubscription)
  BY DEF CreateSubscription, DeleteSubscription, Row,
         RowIsRegular, SelectorNames, NoSelector, Allowed, Arguments,
         BillingArguments, ChargeArguments, ScheduleArguments, CredentialArguments, DateRange
<1>3. RowIsRegular(UpdateSubscription)
  BY DEF UpdateSubscription, Row,
         RowIsRegular, SelectorNames, NoSelector, Allowed, Arguments,
         BillingArguments, ChargeArguments, ScheduleArguments, CredentialArguments, DateRange
<1>4. RowIsRegular(CreateInvoice) /\ RowIsRegular(UpdateInvoice)
  BY DEF CreateInvoice, UpdateInvoice, Row,
         RowIsRegular, SelectorNames, NoSelector, Allowed, Arguments,
         BillingArguments, ChargeArguments, ScheduleArguments, CredentialArguments, DateRange
<1>5. RowIsRegular(SendInvoice) /\ RowIsRegular(CloseInvoice)
  BY DEF SendInvoice, CloseInvoice, Row,
         RowIsRegular, SelectorNames, NoSelector, Allowed, Arguments,
         BillingArguments, ChargeArguments, ScheduleArguments, CredentialArguments, DateRange
<1> QED
  BY <1>1, <1>2, <1>3, <1>4, <1>5

LEMMA ReportRows ==
  \A row \in {QueryTransactions, QueryCustomers, QuerySubscriptions, QueryPlans,
              QueryInvoices} : RowIsRegular(row)
<1>1. RowIsRegular(QueryTransactions)
  BY DEF QueryTransactions, Row, RowIsRegular, SelectorNames, NoSelector, Allowed, Arguments,
         ChargeArguments, DateRange
<1>2. RowIsRegular(QueryCustomers)
  BY DEF QueryCustomers, Row, RowIsRegular, SelectorNames, NoSelector, Allowed, Arguments,
         ChargeArguments, DateRange
<1>3. RowIsRegular(QuerySubscriptions)
  BY DEF QuerySubscriptions, Row, RowIsRegular, SelectorNames, NoSelector, Allowed,
         Arguments, DateRange
<1>4. RowIsRegular(QueryPlans)
  BY DEF QueryPlans, Row, RowIsRegular, SelectorNames, NoSelector, Allowed
<1>5. RowIsRegular(QueryInvoices)
  BY DEF QueryInvoices, Row, RowIsRegular, SelectorNames, NoSelector, Allowed,
         Arguments, DateRange
<1> QED
  BY <1>1, <1>2, <1>3, <1>4, <1>5

LEMMA RowsAreRegular == \A op \in DOMAIN Methods : RowIsRegular(Methods[op])
<1>1. \A op \in TransactOps :
        TransactMethods[op] \in
          {Sale, Authorize, Credit, Validate, Capture, Void, Refund, UpdateTransaction}
          \cup {CreateCustomer, UpdateCustomer, DeleteCustomer, ChargeCustomer, AddBilling,
                UpdateBilling, DeleteBilling}
          \cup {CreatePlan, UpdatePlan, CreateSubscription, UpdateSubscription,
                DeleteSubscription, CreateInvoice, UpdateInvoice, SendInvoice, CloseInvoice}
  BY DEF TransactMethods, TransactOps
<1>2. \A op \in ReportOps :
        Reports[op] \in {QueryTransactions, QueryCustomers, QuerySubscriptions, QueryPlans,
                         QueryInvoices}
  BY DEF Reports, ReportOps
<1> QED
  BY <1>1, <1>2, Operations, TransactionRows, CustomerRows, OtherRows, ReportRows

\* Only plans and a subscription's update take a schedule.
ScheduleOps == {"create_plan", "update_plan", "update_subscription"}

HasNoSchedule(row) == Allowed(row) \cap ScheduleArguments = {}

LEMMA RowsWithoutSchedule ==
  /\ \A row \in {Sale, Authorize, Credit, Validate} : HasNoSchedule(row)
  /\ \A row \in {Capture, Void, Refund, UpdateTransaction} : HasNoSchedule(row)
  /\ \A row \in {CreateCustomer, UpdateCustomer, DeleteCustomer, ChargeCustomer} :
       HasNoSchedule(row)
  /\ \A row \in {AddBilling, UpdateBilling, DeleteBilling} : HasNoSchedule(row)
  /\ \A row \in {CreateSubscription, DeleteSubscription} : HasNoSchedule(row)
  /\ \A row \in {CreateInvoice, UpdateInvoice, SendInvoice, CloseInvoice} : HasNoSchedule(row)
  /\ \A row \in {QueryTransactions, QueryCustomers, QuerySubscriptions, QueryPlans,
                 QueryInvoices} : HasNoSchedule(row)
<1>1. \A row \in {Sale, Authorize, Credit, Validate} : HasNoSchedule(row)
  BY DEF Sale, Authorize, Credit, Validate,
         HasNoSchedule, Allowed, Row, ChargeArguments, CredentialArguments,
         ScheduleArguments, DateRange
<1>2. \A row \in {Capture, Void, Refund, UpdateTransaction} : HasNoSchedule(row)
  BY DEF Capture, Void, Refund, UpdateTransaction,
         HasNoSchedule, Allowed, Row, ChargeArguments, CredentialArguments,
         ScheduleArguments, DateRange
<1>3. \A row \in {CreateCustomer, UpdateCustomer, DeleteCustomer, ChargeCustomer} :
        HasNoSchedule(row)
  BY DEF CreateCustomer, UpdateCustomer, DeleteCustomer, ChargeCustomer,
         HasNoSchedule, Allowed, Row, ChargeArguments, CredentialArguments,
         ScheduleArguments, DateRange
<1>4. \A row \in {AddBilling, UpdateBilling, DeleteBilling} : HasNoSchedule(row)
  BY DEF AddBilling, UpdateBilling, DeleteBilling,
         HasNoSchedule, Allowed, Row, ChargeArguments, CredentialArguments,
         ScheduleArguments, DateRange
<1>5. \A row \in {CreateSubscription, DeleteSubscription} : HasNoSchedule(row)
  BY DEF CreateSubscription, DeleteSubscription,
         HasNoSchedule, Allowed, Row, ChargeArguments, CredentialArguments,
         ScheduleArguments, DateRange
<1>6. \A row \in {CreateInvoice, UpdateInvoice, SendInvoice, CloseInvoice} : HasNoSchedule(row)
  BY DEF CreateInvoice, UpdateInvoice, SendInvoice, CloseInvoice,
         HasNoSchedule, Allowed, Row, ChargeArguments, CredentialArguments,
         ScheduleArguments, DateRange
<1>7. HasNoSchedule(QueryTransactions)
  BY DEF QueryTransactions, HasNoSchedule, Allowed, Row, ScheduleArguments, DateRange
<1>8. \A row \in {QueryCustomers, QuerySubscriptions, QueryPlans, QueryInvoices} :
        HasNoSchedule(row)
  BY DEF QueryCustomers, QuerySubscriptions, QueryPlans, QueryInvoices,
         HasNoSchedule, Allowed, Row, ScheduleArguments, DateRange
<1> QED
  BY <1>1, <1>2, <1>3, <1>4, <1>5, <1>6, <1>7, <1>8

LEMMA SchedulesAreOfPlans ==
  \A op \in DOMAIN Methods : op \notin ScheduleOps => HasNoSchedule(Methods[op])
<1>1. \A op \in TransactOps \ ScheduleOps :
        TransactMethods[op] \in
          {Sale, Authorize, Credit, Validate}
          \cup {Capture, Void, Refund, UpdateTransaction}
          \cup {CreateCustomer, UpdateCustomer, DeleteCustomer, ChargeCustomer}
          \cup {AddBilling, UpdateBilling, DeleteBilling}
          \cup {CreateSubscription, DeleteSubscription}
          \cup {CreateInvoice, UpdateInvoice, SendInvoice, CloseInvoice}
  BY DEF TransactMethods, TransactOps, ScheduleOps
<1>2. \A op \in ReportOps :
        Reports[op] \in {QueryTransactions, QueryCustomers, QuerySubscriptions, QueryPlans,
                         QueryInvoices}
  BY DEF Reports, ReportOps
<1> QED
  BY <1>1, <1>2, Operations, RowsWithoutSchedule

LEMMA SourceRows ==
  /\ "customer_vault_id" \in Methods["charge_customer"].required
  /\ "source_transaction_id" \notin Allowed(Methods["create_subscription"])
<1>1. /\ Methods["charge_customer"] = ChargeCustomer
      /\ Methods["create_subscription"] = CreateSubscription
  BY Operations DEF TransactMethods, TransactOps
<1> QED
  BY <1>1 DEF ChargeCustomer, CreateSubscription, Row, Allowed

-----------------------------------------------------------------------------
(***************************************************************************)
(* Where a field comes from                                                *)
(***************************************************************************)

\* The fields whose names are no argument's.
Renamed ==
  {"orderid", "ponumber", "ipaddress", "transactionid", "plan_name", "plan_payments",
   "paused_subscription", "plan_amount", "current_plan_id"}

LEMMA RenamedAreNew == Arguments \cap Renamed = {}
  BY DEF Arguments, Renamed, ChargeArguments, CredentialArguments, ScheduleArguments,
         DateRange

LEMMA FieldIs ==
  ASSUME NEW op, NEW a
  PROVE  \/ Field(op, a) = a
         \/ a = "order_id" /\ Field(op, a) = "orderid"
         \/ a = "po_number" /\ Field(op, a) = "ponumber"
         \/ a = "ip_address" /\ Field(op, a) = "ipaddress"
         \/ a = "transaction_id" /\ Field(op, a) = "transactionid"
         \/ a = "name" /\ Field(op, a) = "plan_name"
         \/ a = "payments" /\ Field(op, a) = "plan_payments"
         \/ a = "paused" /\ Field(op, a) = "paused_subscription"
         \/ a = "amount" /\ Field(op, a) = "plan_amount"
         \/ a = "plan_id" /\ Field(op, a) = "current_plan_id"
  BY DEF Field

LEMMA FieldNames ==
  ASSUME NEW op, NEW a
  PROVE  Field(op, a) = a \/ Field(op, a) \in Renamed
  BY FieldIs DEF Renamed

\* No two arguments share a field.
LEMMA FieldIsInjective ==
  ASSUME NEW op, NEW a \in Arguments, NEW b \in Arguments, Field(op, a) = Field(op, b)
  PROVE  a = b
<1>1. CASE Field(op, a) = a
  BY <1>1, FieldNames, RenamedAreNew
<1>2. CASE Field(op, b) = b
  BY <1>2, FieldNames, RenamedAreNew
<1>3. CASE Field(op, a) # a /\ Field(op, b) # b
  BY <1>3, FieldIs
<1> QED
  BY <1>1, <1>2, <1>3

\* The fields of the other dicts.
ShippingNames == {ShippingField[key] : key \in ShippingKeys}
MdfNames == {MdfField[number] : number \in 1..20}

LEMMA SelectorsAreNoArguments ==
  (Arguments \cup Renamed) \cap (SelectorNames \cup DOMAIN PageFields(0)) = {}
  BY DEF Arguments, Renamed, ChargeArguments, CredentialArguments, ScheduleArguments,
         DateRange, SelectorNames, PageFields

LEMMA ShippingNamesAre ==
  ShippingNames \subseteq
    {"shipping_firstname", "shipping_lastname", "shipping_company", "shipping_address1",
     "shipping_address2", "shipping_city", "shipping_state", "shipping_zip",
     "shipping_country", "shipping_email"}
  BY DEF ShippingNames, ShippingField, ShippingKeys, BillingKeys

LEMMA ShippingIsNoArgument == (Arguments \cup Renamed) \cap ShippingNames = {}
<1>1. ASSUME NEW f \in ShippingNames
      PROVE  f \notin Arguments
  BY ShippingNamesAre DEF Arguments, ChargeArguments, CredentialArguments,
     ScheduleArguments, DateRange
<1>2. ASSUME NEW f \in ShippingNames
      PROVE  f \notin Renamed
  BY ShippingNamesAre DEF Renamed
<1> QED
  BY <1>1, <1>2

LEMMA MdfIsNoArgument == (Arguments \cup Renamed) \cap MdfNames = {}
<1>1. ASSUME NEW number \in 1..20
      PROVE  MdfField[number] \notin Arguments \cup Renamed
  BY DEF MdfField, Arguments, Renamed, ChargeArguments, CredentialArguments,
     ScheduleArguments, DateRange
<1> QED
  BY <1>1 DEF MdfNames

LEMMA BillingIsNoArgument ==
  (Arguments \cup Renamed) \cap BillingKeys = BillingArguments
  BY DEF Arguments, Renamed, ChargeArguments, CredentialArguments, ScheduleArguments,
     DateRange, BillingKeys, BillingArguments

\* params is put together from six dicts; the last that has a field sets it.
LEMMA ParamsAt ==
  ASSUME NEW c, NEW f
  PROVE  /\ f \in DOMAIN Params(c) <=>
              \/ f \in DOMAIN SelectorFields(Methods[c.op])
              \/ f \in DOMAIN ArgumentFields(c)
              \/ f \in c.billing
              \/ f \in DOMAIN ShippingFields(c.shipping)
              \/ f \in DOMAIN MdfFields(c.mdf)
              \/ f \in c.extra
         /\ f \in c.extra => Params(c)[f] = From("extra", f, <<>>)
         /\ /\ f \in DOMAIN ArgumentFields(c)
            /\ f \notin c.billing \cup c.extra
            /\ f \notin DOMAIN ShippingFields(c.shipping)
            /\ f \notin DOMAIN MdfFields(c.mdf)
            => Params(c)[f] = ArgumentFields(c)[f]
<1> DEFINE selected == Updated(SelectorFields(Methods[c.op]), ArgumentFields(c))
           billed == Updated(selected, BillingFields(c.billing))
           addressed == Updated(billed, ShippingFields(c.shipping))
           defined == Updated(addressed, MdfFields(c.mdf))
<1>1. Params(c) = Updated(defined, ExtraFields(c.extra))
  BY DEF Params
<1>2. DOMAIN BillingFields(c.billing) = c.billing
  BY DEF BillingFields
<1>3. /\ DOMAIN ExtraFields(c.extra) = c.extra
      /\ f \in c.extra => ExtraFields(c.extra)[f] = From("extra", f, <<>>)
  BY DEF ExtraFields
<1>4. /\ f \in DOMAIN selected <=>
           f \in DOMAIN SelectorFields(Methods[c.op]) \/ f \in DOMAIN ArgumentFields(c)
      /\ f \in DOMAIN ArgumentFields(c) => selected[f] = ArgumentFields(c)[f]
  BY UpdatedAt
<1> HIDE DEF selected
<1>5. /\ f \in DOMAIN billed <=> f \in DOMAIN selected \/ f \in c.billing
      /\ f \in DOMAIN selected /\ f \notin c.billing => billed[f] = selected[f]
  BY UpdatedAt, <1>2
<1> HIDE DEF billed
<1>6. /\ f \in DOMAIN addressed <=>
           f \in DOMAIN billed \/ f \in DOMAIN ShippingFields(c.shipping)
      /\ f \in DOMAIN billed /\ f \notin DOMAIN ShippingFields(c.shipping) =>
           addressed[f] = billed[f]
  BY UpdatedAt
<1> HIDE DEF addressed
<1>7. /\ f \in DOMAIN defined <=> f \in DOMAIN addressed \/ f \in DOMAIN MdfFields(c.mdf)
      /\ f \in DOMAIN addressed /\ f \notin DOMAIN MdfFields(c.mdf) =>
           defined[f] = addressed[f]
  BY UpdatedAt
<1> HIDE DEF defined
<1>8. /\ f \in DOMAIN Params(c) <=> f \in DOMAIN defined \/ f \in c.extra
      /\ f \in c.extra => Params(c)[f] = From("extra", f, <<>>)
      /\ f \in DOMAIN defined /\ f \notin c.extra => Params(c)[f] = defined[f]
  BY UpdatedAt, <1>1, <1>3
<1> QED
  BY <1>4, <1>5, <1>6, <1>7, <1>8

LEMMA DictNames ==
  ASSUME NEW c, Refusal(c) = NoError
  PROVE  /\ DOMAIN ShippingFields(c.shipping) \subseteq ShippingNames
         /\ DOMAIN MdfFields(c.mdf) \subseteq MdfNames
         /\ c.billing \subseteq BillingKeys
<1>1. DOMAIN ShippingFields(c.shipping) \subseteq ShippingNames
  BY NotRefused DEF ShippingFields, ShippingNames
<1>2. DOMAIN MdfFields(c.mdf) \subseteq MdfNames
  BY NotRefused DEF MdfFields, MdfNames
<1> QED
  BY <1>1, <1>2, NotRefused

LEMMA GivenAreArguments ==
  ASSUME NEW c, c.op \in DOMAIN Methods, IsCall(c)
  PROVE  DOMAIN c.args \subseteq Arguments
  BY RowsAreRegular DEF IsCall, RowIsRegular, Allowed

\* Each given argument has its field, before the dicts are added.
LEMMA ArgumentFieldsAt ==
  ASSUME NEW c, c.op \in DOMAIN Methods, IsCall(c), NEW a \in DOMAIN c.args
  PROVE  /\ Field(c.op, a) \in DOMAIN ArgumentFields(c)
         /\ ArgumentFields(c)[Field(c.op, a)] = From("argument", a, Text(a, c.args[a]))
<1> DEFINE f == Field(c.op, a)
           Last(g) == CHOOSE b \in DOMAIN c.args : Field(c.op, b) = g
<1>1. Last(f) \in DOMAIN c.args /\ Field(c.op, Last(f)) = f
  OBVIOUS
<1>2. Last(f) = a
  BY <1>1, GivenAreArguments, FieldIsInjective
<1>3. f \in DOMAIN ArgumentFields(c)
  BY DEF ArgumentFields
<1>4. ArgumentFields(c)[f] = From("argument", Last(f), Text(Last(f), c.args[Last(f)]))
  BY <1>3 DEF ArgumentFields
<1> QED
  BY <1>2, <1>3, <1>4

\* An argument's field holds the argument, unless billing or extra_params have
\* a field of that name.
LEMMA ArgumentSent ==
  ASSUME NEW c, c.op \in DOMAIN Methods, IsCall(c), Refusal(c) = NoError,
         NEW a \in DOMAIN c.args,
         Field(c.op, a) \notin c.billing \cup c.extra
  PROVE  /\ Field(c.op, a) \in DOMAIN Params(c)
         /\ Params(c)[Field(c.op, a)] = From("argument", a, Text(a, c.args[a]))
<1>1. Field(c.op, a) \in Arguments \cup Renamed
  BY FieldNames, GivenAreArguments
<1>2. /\ Field(c.op, a) \notin DOMAIN ShippingFields(c.shipping)
      /\ Field(c.op, a) \notin DOMAIN MdfFields(c.mdf)
  BY <1>1, DictNames, ShippingIsNoArgument, MdfIsNoArgument
<1> QED
  BY <1>2, ParamsAt, ArgumentFieldsAt

\* A field with an argument's name holds that argument.
LEMMA FieldIsGiven ==
  ASSUME NEW c, c.op \in DOMAIN Methods, IsCall(c), Refusal(c) = NoError,
         NEW f \in DOMAIN Params(c),
         f \in Arguments \ BillingKeys, f \notin c.extra
  PROVE  f \in DOMAIN c.args /\ Field(c.op, f) = f
<1>1. f \notin DOMAIN SelectorFields(Methods[c.op])
  BY RowsAreRegular, SelectorsAreNoArguments DEF SelectorFields, RowIsRegular
<1>2. f \in DOMAIN ArgumentFields(c)
  BY <1>1, ParamsAt, DictNames, ShippingIsNoArgument, MdfIsNoArgument
<1>3. PICK a \in DOMAIN c.args : Field(c.op, a) = f
  BY <1>2 DEF ArgumentFields
<1>4. a = f
  BY <1>3, FieldNames, RenamedAreNew
<1> QED
  BY <1>3, <1>4

-----------------------------------------------------------------------------
(***************************************************************************)
(* The invariant: what was sent is the request of a call that passed its   *)
(* checks, and a call that did not pass them sends nothing.                *)
(***************************************************************************)

TransactSent ==
  call.op \in DOMAIN TransactMethods /\ fields = TransactRequest(call)

PageSent ==
  call.op \in DOMAIN Reports /\ page > 0 /\ fields = PageRequest(call, page - 1)

IInv ==
  /\ call.op \in DOMAIN Methods
  /\ IsCall(call)
  /\ page \in 0..MaxPages
  /\ raised # NoError => Refusal(call) = raised /\ ~Sent
  /\ Sent \/ page > 0 => Refusal(call) = NoError
  /\ Sent => TransactSent \/ PageSent

LEMMA InitInv == Init => IInv
<1> SUFFICES ASSUME Init
             PROVE  IInv
  OBVIOUS
<1>1. PICK op \in DOMAIN Calls : call \in Calls[op]
  BY DEF Init
<1>2. call.op \in DOMAIN Methods /\ IsCall(call)
  BY <1>1, CallsAssumption
<1> QED
  BY <1>2, MaxPagesAssumption DEF Init, IInv, Sent

LEMMA NextInv == IInv /\ [Next]_vars => IInv'
<1> SUFFICES ASSUME IInv, [Next]_vars
             PROVE  IInv'
  OBVIOUS
<1> USE MaxPagesAssumption
<1>1. CASE Refuse
  <2>1. call' = call /\ page' = page /\ fields' = <<>> /\ raised' = Refusal(call)
    BY <1>1 DEF Refuse
  <2>2. Refusal(call) # NoError
    BY <1>1 DEF Refuse
  <2> QED
    BY <2>1, <2>2 DEF IInv, Sent
<1>2. CASE Transact
  <2>1. /\ call' = call /\ page' = page /\ fields' = TransactRequest(call)
        /\ raised' = raised
    BY <1>2 DEF Transact
  <2>2. Refusal(call) = NoError /\ call.op \in DOMAIN TransactMethods
    BY <1>2 DEF Transact
  <2>3. TransactSent'
    BY <2>1, <2>2 DEF TransactSent
  <2> QED
    BY <2>1, <2>2, <2>3 DEF IInv, Sent
<1>3. CASE FetchPage
  <2>1. /\ call' = call /\ page' = page + 1 /\ fields' = PageRequest(call, page)
        /\ raised' = raised /\ page < MaxPages
    BY <1>3 DEF FetchPage
  <2>2. Refusal(call) = NoError /\ call.op \in DOMAIN Reports
    BY <1>3 DEF FetchPage
  <2>3. page' \in 0..MaxPages /\ page' > 0 /\ page' - 1 = page
    BY <2>1 DEF IInv
  <2>4. PageSent'
    BY <2>1, <2>2, <2>3 DEF PageSent
  <2> QED
    BY <2>1, <2>2, <2>3, <2>4 DEF IInv, Sent
<1>4. CASE UNCHANGED vars
  BY <1>4 DEF vars, IInv, Sent, TransactSent, PageSent
<1> QED
  BY <1>1, <1>2, <1>3, <1>4 DEF Next

LEMMA Invariance == Spec => []IInv
  BY InitInv, NextInv, PTL DEF Spec

-----------------------------------------------------------------------------
(***************************************************************************)
(* What the invariant says of the fields that were sent                    *)
(***************************************************************************)

LEMMA SentFields ==
  ASSUME IInv, Sent
  PROVE  /\ Refusal(call) = NoError
         /\ "security_key" \in DOMAIN fields
         /\ \A f \in DOMAIN Params(call) :
              /\ f \in DOMAIN fields
              /\ f \notin DOMAIN PageFields(0) \/ call.op \notin DOMAIN Reports =>
                   fields[f] = Params(call)[f]
         /\ \A f \in DOMAIN fields :
              f \in DOMAIN Params(call) \cup DOMAIN PageFields(0) \cup {"security_key"}
<1>1. Refusal(call) = NoError
  BY DEF IInv
<1>2. DOMAIN SecurityKey = {"security_key"}
  BY DEF SecurityKey
<1>3. CASE TransactSent
  <2>1. fields = Updated(SecurityKey, Params(call))
    BY <1>3 DEF TransactSent, TransactRequest
  <2>2. call.op \notin DOMAIN Reports
    BY <1>3, Operations DEF TransactSent
  <2> QED
    BY <1>1, <1>2, <2>1, <2>2, UpdatedAt
<1>4. CASE PageSent
  <2> DEFINE merged == Updated(Params(call), PageFields(page - 1))
  <2>1. fields = Updated(SecurityKey, merged)
    BY <1>4 DEF PageSent, PageRequest
  <2>2. DOMAIN PageFields(page - 1) = DOMAIN PageFields(0)
    BY DEF PageFields
  <2>3. call.op \in DOMAIN Reports
    BY <1>4 DEF PageSent
  <2>4. \A f :
          /\ f \in DOMAIN merged <=> f \in DOMAIN Params(call) \cup DOMAIN PageFields(0)
          /\ f \in DOMAIN Params(call) /\ f \notin DOMAIN PageFields(0) =>
               merged[f] = Params(call)[f]
    BY <2>2, UpdatedAt
  <2> HIDE DEF merged
  <2>5. \A f :
          /\ f \in DOMAIN fields <=> f = "security_key" \/ f \in DOMAIN merged
          /\ f \in DOMAIN merged => fields[f] = merged[f]
    BY <1>2, <2>1, UpdatedAt
  <2> QED
    BY <1>1, <2>3, <2>4, <2>5
<1> QED
  BY <1>3, <1>4 DEF IInv

\* A given argument is in its field, unless billing or extra_params have a field
\* of that name.
LEMMA ArgumentArrives ==
  ASSUME IInv, Sent, NEW a \in DOMAIN call.args,
         Field(call.op, a) \notin call.billing \cup call.extra
  PROVE  Arrives(a)
<1>1. /\ call.op \in DOMAIN Methods /\ IsCall(call)
      /\ Refusal(call) = NoError
  BY SentFields DEF IInv
<1>2. /\ Field(call.op, a) \in DOMAIN Params(call)
      /\ Params(call)[Field(call.op, a)] = From("argument", a, Text(a, call.args[a]))
  BY <1>1, ArgumentSent
<1>3. Field(call.op, a) \notin DOMAIN PageFields(0)
  BY <1>1, FieldNames, GivenAreArguments, SelectorsAreNoArguments
<1> QED
  BY <1>2, <1>3, SentFields DEF Arrives

\* A field with an argument's name was sent exactly if the argument was given
\* under that name.
LEMMA SentIsGiven ==
  ASSUME IInv, Sent, NEW f \in DOMAIN fields,
         f \in Arguments \ BillingKeys, f \notin call.extra
  PROVE  f \in DOMAIN call.args /\ Field(call.op, f) = f
<1>1. /\ call.op \in DOMAIN Methods /\ IsCall(call)
      /\ Refusal(call) = NoError
  BY SentFields DEF IInv
<1>2. f \notin DOMAIN PageFields(0)
  BY SelectorsAreNoArguments
<1>3. f # "security_key"
  BY DEF Arguments, ChargeArguments, CredentialArguments, ScheduleArguments, DateRange
<1>4. f \in DOMAIN Params(call)
  BY <1>2, <1>3, SentFields
<1> QED
  BY <1>1, <1>4, FieldIsGiven

-----------------------------------------------------------------------------
(***************************************************************************)
(* The theorems                                                            *)
(***************************************************************************)

\* A refused call has sent nothing, a report asks for no page after its last,
\* and every request carries the client's key.
THEOREM TypeCorrect == Spec => []TypeOK
<1>1. IInv => TypeOK
  <2> SUFFICES ASSUME IInv
               PROVE  TypeOK
    OBVIOUS
  <2>1. raised \in {NoError, "TypeError", "InvalidRequestError"}
    BY RefusalType DEF IInv, ErrorClasses
  <2>2. Sent => "security_key" \in DOMAIN fields
    BY SentFields
  <2>3. raised # NoError => ~Sent /\ page = 0
    BY MaxPagesAssumption DEF IInv
  <2> QED
    BY <2>1, <2>2, <2>3 DEF IInv, TypeOK
<1> QED
  BY <1>1, Invariance, PTL

\* No amount is changed on its way into the form, by any method.
THEOREM NoAmountIsRounded == Spec => []AmountsAreExact
<1>1. IInv => AmountsAreExact
  <2> SUFFICES ASSUME IInv, Sent, Gives(call, "amount"),
                      Field(call.op, "amount") \notin call.extra
               PROVE  LET v == call.args["amount"]
                          text == fields[Field(call.op, "amount")].text
                      IN  /\ text[1] = v.n /\ v.n <= 99999999
                          /\ text[2] * Scale(v.places) = v.frac * Scale(text[3])
                          /\ text[3] <= 2
                          /\ v.kind # "-Decimal"
                          /\ call.op # "refund" => v.n + v.frac > 0
    BY DEF AmountsAreExact
  <2> DEFINE v == call.args["amount"]
             f == Field(call.op, "amount")
  <2>1. "amount" \in DOMAIN call.args /\ v \in AmountValues
    BY DEF IInv, IsCall, Gives
  <2>2. /\ AmountError(v) = NoError
        /\ call.op # "refund" => ZeroAmountError(v) = NoError
    BY <2>1, SentFields, NotRefused
  <2>3. f \notin call.billing
    <3>1. f \in {"amount", "plan_amount"}
      BY FieldIs
    <3>2. call.billing \subseteq BillingKeys
      BY SentFields, NotRefused
    <3> QED
      BY <3>1, <3>2 DEF BillingKeys
  <2>4. Arrives("amount")
    BY <2>1, <2>3, ArgumentArrives
  <2>5. fields[f].text = AmountText(v)
    BY <2>4 DEF Arrives, From, Text
  <2>6. v.kind # "-Decimal"
    BY <2>1, <2>2, AcceptedAmountsAreExact
  <2> QED
    BY <2>1, <2>2, <2>5, <2>6, AcceptedAmountsAreExact
<1> QED
  BY <1>1, Invariance, PTL

WholeSchedule(args) ==
  LET given == DOMAIN args \cap {"day_frequency", "month_frequency", "day_of_month"} IN
  \/ given = {"day_frequency"} /\ args["day_frequency"].n >= 1
  \/ /\ given = {"month_frequency", "day_of_month"}
     /\ args["month_frequency"].n \in 1..24
     /\ args["day_of_month"].n \in 1..31

\* What _frequency_params lets through, with and without required.
LEMMA ScheduleIs ==
  ASSUME NEW c, ScheduleError(c) = NoError,
         c.op \in {"create_plan", "update_plan", "update_subscription"}
  PROVE  \/ WholeSchedule(c.args)
         \/ /\ c.op # "create_plan"
            /\ DOMAIN c.args \cap {"day_frequency", "month_frequency", "day_of_month"} = {}
<1>1. CASE c.op = "create_plan"
  <2>1. FrequencyError(c.args, TRUE) = NoError
    BY <1>1 DEF ScheduleError
  <2> QED
    BY <2>1 DEF FrequencyError, WholeSchedule, NoError
<1>2. CASE c.op # "create_plan"
  <2>1. FrequencyError(c.args, FALSE) = NoError
    BY <1>2 DEF ScheduleError
  <2> QED
    BY <1>2, <2>1 DEF FrequencyError, WholeSchedule, NoError
<1> QED
  BY <1>1, <1>2

\* The schedule fields that were sent, of all methods, are a whole schedule of
\* one style with numbers in range, or none where none is needed.
THEOREM ScheduleIsWhole == Spec => []OneScheduleStyle
<1>1. IInv => OneScheduleStyle
  <2> DEFINE given == ScheduleArguments \cap DOMAIN fields
             N(f) == fields[f].text[1]
  <2> SUFFICES ASSUME IInv, Sent, call.extra \cap ScheduleArguments = {}
               PROVE  /\ given \in {{}, {"day_frequency"}, {"month_frequency", "day_of_month"}}
                      /\ call.op = "create_plan" => given # {}
                      /\ \A f \in given : N(f) >= 1
                      /\ "month_frequency" \in given => N("month_frequency") <= 24
                      /\ "day_of_month" \in given => N("day_of_month") <= 31
    BY DEF OneScheduleStyle
  <2>1. ScheduleArguments \subseteq Arguments \ BillingKeys
    BY DEF ScheduleArguments, Arguments, BillingKeys
  <2>2. given = DOMAIN call.args \cap ScheduleArguments
    <3>1. \A f \in given : f \in DOMAIN call.args
      BY <2>1, SentIsGiven
    <3>2. ASSUME NEW f \in DOMAIN call.args \cap ScheduleArguments
          PROVE  f \in DOMAIN fields
      <4>1. Field(call.op, f) = f
        BY FieldIs DEF ScheduleArguments
      <4>2. f \notin call.billing
        BY <2>1, SentFields, NotRefused
      <4> QED
        BY <4>1, <4>2, ArgumentArrives DEF Arrives
    <3> QED
      BY <3>1, <3>2
  <2>3. ASSUME NEW f \in given
        PROVE  N(f) = call.args[f].n
    <3>1. Field(call.op, f) = f /\ f # "amount"
      BY FieldIs DEF ScheduleArguments
    <3>2. f \notin call.billing
      BY <2>1, SentFields, NotRefused
    <3>3. Arrives(f)
      BY <2>2, <3>1, <3>2, ArgumentArrives
    <3> QED
      BY <3>1, <3>3 DEF Arrives, From, Text
  <2>4. CASE call.op \in ScheduleOps
    <3>1. ScheduleError(call) = NoError
      BY SentFields, NotRefused
    <3>2. WholeSchedule(call.args) \/ (call.op # "create_plan" /\ given = {})
      BY <2>2, <2>4, <3>1, ScheduleIs DEF ScheduleOps, ScheduleArguments
    <3>3. CASE given = {"day_frequency"} /\ call.args["day_frequency"].n >= 1
      <4>1. N("day_frequency") = call.args["day_frequency"].n
        BY <2>3, <3>3
      <4>2. N("day_frequency") >= 1
        BY <3>3, <4>1
      <4> HIDE DEF given, N
      <4> QED
        BY <3>3, <4>2
    <3>4. CASE /\ given = {"month_frequency", "day_of_month"}
               /\ call.args["month_frequency"].n \in 1..24
               /\ call.args["day_of_month"].n \in 1..31
      <4>1. /\ N("month_frequency") = call.args["month_frequency"].n
            /\ N("day_of_month") = call.args["day_of_month"].n
        BY <2>3, <3>4
      <4>2. N("month_frequency") \in 1..24 /\ N("day_of_month") \in 1..31
        BY <3>4, <4>1
      <4> HIDE DEF given, N
      <4> QED
        BY <3>4, <4>2
    <3>5. CASE call.op # "create_plan" /\ given = {}
      BY <3>5
    <3> QED
      BY <2>2, <3>2, <3>3, <3>4, <3>5 DEF WholeSchedule, ScheduleArguments
  <2>5. CASE call.op \notin ScheduleOps
    <3>1. given = {}
      BY <2>2, <2>5, SchedulesAreOfPlans DEF HasNoSchedule, Allowed, IInv, IsCall
    <3> HIDE DEF given, N
    <3> QED
      BY <2>5, <3>1 DEF ScheduleOps
  <2> QED
    BY <2>4, <2>5
<1> QED
  BY <1>1, Invariance, PTL

\* Without extra_params, no field but the arguments' names a payment source, so
\* what the checks say of the arguments is true of the form.
THEOREM SourceIsNamed == Spec => []OnePaymentSource
<1>1. IInv => OnePaymentSource
  <2> DEFINE names == {"payment_token", "source_transaction_id", "customer_vault_id"}
             sources == DOMAIN fields \cap names
  <2> SUFFICES ASSUME IInv, Sent, call.extra = {}
               PROVE  /\ call.op \in {"sale", "authorize", "credit", "validate",
                                     "charge_customer"} => sources # {}
                      /\ call.op = "create_customer" =>
                           \/ sources \ {"customer_vault_id"} = {"payment_token"}
                           \/ sources \ {"customer_vault_id"} = {"source_transaction_id"}
                      /\ call.op = "create_subscription" =>
                           sources \in {{"payment_token"}, {"customer_vault_id"}}
    BY DEF OnePaymentSource
  <2>1. names \subseteq Arguments \ BillingKeys
    BY DEF Arguments, ChargeArguments, BillingKeys
  <2>2. sources = DOMAIN call.args \cap names
    <3>1. \A f \in sources : f \in DOMAIN call.args
      BY <2>1, SentIsGiven
    <3>2. ASSUME NEW f \in DOMAIN call.args \cap names
          PROVE  f \in DOMAIN fields
      <4>1. Field(call.op, f) = f
        BY FieldIs
      <4>2. f \notin call.billing
        BY <2>1, SentFields, NotRefused
      <4> QED
        BY <4>1, <4>2, ArgumentArrives DEF Arrives
    <3> QED
      BY <3>1, <3>2
  <2>3. SourceError(call) = NoError
    BY SentFields, NotRefused
  <2> HIDE DEF sources
  <2>4. call.op \in {"sale", "authorize", "credit", "validate"} => sources # {}
    BY <2>2, <2>3 DEF SourceError, Sources, NoError
  <2>5. call.op = "charge_customer" => sources # {}
    BY <2>2, SourceRows DEF IInv, IsCall
  <2>6. call.op = "create_customer" =>
          \/ sources \ {"customer_vault_id"} = {"payment_token"}
          \/ sources \ {"customer_vault_id"} = {"source_transaction_id"}
    BY <2>2, <2>3 DEF SourceError, Sources, NoError
  <2>7. call.op = "create_subscription" =>
          sources \in {{"payment_token"}, {"customer_vault_id"}}
    <3> SUFFICES ASSUME call.op = "create_subscription"
                 PROVE  sources \in {{"payment_token"}, {"customer_vault_id"}}
      OBVIOUS
    <3>1. "source_transaction_id" \notin DOMAIN call.args
      BY SourceRows DEF IInv, IsCall, Allowed
    <3> QED
      BY <2>2, <2>3, <3>1 DEF SourceError, Sources, NoError
  <2> QED
    BY <2>4, <2>5, <2>6, <2>7
<1> QED
  BY <1>1, Invariance, PTL

\* No method has two arguments with one field, and of a dict's fields only
\* billing["email"] can take an argument's.
THEOREM NoArgumentIsLost == Spec => []ArgumentsArrive
<1>1. IInv => ArgumentsArrive
  <2> SUFFICES ASSUME IInv, Sent, call.extra = {}, NEW a \in DOMAIN call.args
               PROVE  Arrives(a) \/ (a = "email" /\ "email" \in call.billing)
    BY DEF ArgumentsArrive
  <2>1. CASE Field(call.op, a) \notin call.billing
    BY <2>1, ArgumentArrives
  <2>2. CASE Field(call.op, a) \in call.billing
    <3>1. call.op \in DOMAIN Methods /\ IsCall(call)
      BY DEF IInv
    <3>2. a \in Arguments
      BY <3>1, GivenAreArguments
    <3>3. Field(call.op, a) \in BillingKeys
      BY <2>2, SentFields, NotRefused
    <3>4. Field(call.op, a) = a /\ a \in BillingArguments
      BY <3>2, <3>3, FieldNames, BillingIsNoArgument, RenamedAreNew
         DEF BillingArguments, Arguments
    <3>5. "billing" \in Methods[call.op].dicts
      BY <2>2, <3>1 DEF IsCall
    <3>6. a \in Allowed(Methods[call.op])
      BY <3>1 DEF IsCall, Allowed
    <3>7. a = "email"
      BY <3>1, <3>4, <3>5, <3>6, RowsAreRegular DEF RowIsRegular
    <3> QED
      BY <2>2, <3>4, <3>7
  <2> QED
    BY <2>1, <2>2
<1> QED
  BY <1>1, Invariance, PTL

\* extra_params win over everything but a report's page fields, which the
\* iterator sets last.
THEOREM ExtraParamsWin == Spec => []ExtraParamsArrive
<1>1. IInv => ExtraParamsArrive
  <2> SUFFICES ASSUME IInv, Sent
               PROVE  /\ \A f \in call.extra :
                           fields[f] = From("extra", f, <<>>)
                             \/ (call.op \in DOMAIN Reports /\ f \in DOMAIN PageFields(0))
                      /\ call.op \in DOMAIN Reports =>
                           fields["page_number"] = From("iterator", "page_number", <<page - 1>>)
    BY DEF ExtraParamsArrive
  <2>1. ASSUME NEW f \in call.extra
        PROVE  fields[f] = From("extra", f, <<>>)
                 \/ (call.op \in DOMAIN Reports /\ f \in DOMAIN PageFields(0))
    <3>1. f \in DOMAIN Params(call) /\ Params(call)[f] = From("extra", f, <<>>)
      BY ParamsAt
    <3> QED
      BY <3>1, SentFields
  <2>2. ASSUME call.op \in DOMAIN Reports
        PROVE  fields["page_number"] = From("iterator", "page_number", <<page - 1>>)
    <3>1. PageSent
      BY <2>2, Operations DEF IInv, TransactSent
    <3>2. fields = Updated(SecurityKey, Updated(Params(call), PageFields(page - 1)))
      BY <3>1 DEF PageSent, PageRequest
    <3>3. /\ "page_number" \in DOMAIN PageFields(page - 1)
          /\ PageFields(page - 1)["page_number"]
               = From("iterator", "page_number", <<page - 1>>)
      BY DEF PageFields
    <3>4. /\ "page_number" \in DOMAIN Updated(Params(call), PageFields(page - 1))
          /\ Updated(Params(call), PageFields(page - 1))["page_number"]
               = PageFields(page - 1)["page_number"]
      BY <3>3, UpdatedAt
    <3> QED
      BY <3>2, <3>3, <3>4, UpdatedAt
  <2> QED
    BY <2>1, <2>2
<1> QED
  BY <1>1, Invariance, PTL
=============================================================================
