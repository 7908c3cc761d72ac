------------------------------ MODULE Requests ------------------------------
(***************************************************************************)
(* From a method of client.transactions, .customers, .plans,               *)
(* .subscriptions, .invoices or .query to the form fields that are sent    *)
(* (kicbac/resources/).  The sync and the async classes call the same      *)
(* builders.                                                               *)
(*                                                                         *)
(* Every builder has the same form: checks; a dict that starts with the    *)
(* field that selects the operation; the given arguments under the         *)
(* gateway's spelling; then update() with the billing fields, the shipping *)
(* fields, the merchant defined fields and, last, extra_params.  What      *)
(* differs from method to method is in the rows below.                     *)
(*                                                                         *)
(* A field's value is a record that says where it comes from.              *)
(***************************************************************************)
EXTENDS Encode, Sequences

CONSTANTS
  Calls,      \* Calls[op]: calls of the method op, see IsCall
  MaxPages    \* bound on the pages of a report

\* dict.update(): what later holds wins over what earlier holds.
Updated(earlier, later) ==
  [name \in DOMAIN earlier \cup DOMAIN later |->
     IF name \in DOMAIN later THEN later[name] ELSE earlier[name]]

-----------------------------------------------------------------------------
(***************************************************************************)
(* The methods: the field that selects the operation and its value, the    *)
(* arguments that must be given, those that may be, and the dicts taken.   *)
(***************************************************************************)

Row(selector, value, required, optional, dicts) ==
  [selector |-> selector, value |-> value, required |-> required,
   optional |-> optional, dicts |-> dicts]

\* Transactions

CredentialArguments ==
  {"initiated_by", "stored_credential_indicator", "initial_transaction_id"}

\* _charge_params
ChargeArguments ==
  {"payment_token", "customer_vault_id", "billing_id", "order_id",
   "order_description", "po_number", "currency", "ip_address", "test_mode",
   "dup_seconds"} \cup CredentialArguments

Sale == Row("type", "sale", {"amount"}, ChargeArguments, {"billing", "shipping", "mdf"})
Authorize == Row("type", "auth", {"amount"}, ChargeArguments, {"billing", "shipping", "mdf"})
Credit ==
  Row("type", "credit", {"amount"},
      ChargeArguments \ ({"po_number", "ip_address", "dup_seconds"} \cup CredentialArguments),
      {"billing"})
Validate ==
  Row("type", "validate", {},
      {"payment_token", "customer_vault_id", "test_mode"} \cup CredentialArguments,
      {"billing"})
Capture == Row("type", "capture", {"transaction_id"}, {"amount"}, {})
Void == Row("type", "void", {"transaction_id"}, {"void_reason"}, {})
Refund == Row("type", "refund", {"transaction_id"}, {"amount"}, {})
UpdateTransaction ==
  Row("type", "update", {"transaction_id"},
      {"shipping_carrier", "tracking_number", "shipping_date", "order_description"}, {})

\* Customers

CreateCustomer ==
  Row("customer_vault", "add_customer", {},
      {"payment_token", "source_transaction_id", "customer_vault_id", "billing_id"},
      {"billing", "shipping"})
UpdateCustomer ==
  Row("customer_vault", "update_customer", {"customer_vault_id"},
      {"payment_token", "billing_id"}, {"billing", "shipping"})
DeleteCustomer ==
  Row("customer_vault", "delete_customer", {"customer_vault_id"}, {}, {})
ChargeCustomer ==
  Row("type", "sale", {"customer_vault_id", "amount"},
      ChargeArguments \ {"payment_token", "customer_vault_id", "po_number", "ip_address"},
      {"mdf"})
AddBilling ==
  Row("customer_vault", "add_billing", {"customer_vault_id"},
      {"payment_token", "billing_id", "priority"}, {"billing"})
UpdateBilling ==
  Row("customer_vault", "update_billing", {"customer_vault_id", "billing_id"},
      {"payment_token", "priority"}, {"billing"})
DeleteBilling ==
  Row("customer_vault", "delete_billing", {"customer_vault_id", "billing_id"}, {}, {})

\* Plans and subscriptions

ScheduleArguments == {"day_frequency", "month_frequency", "day_of_month"}

CreatePlan ==
  Row("recurring", "add_plan", {"plan_id", "name", "amount"},
      {"payments"} \cup ScheduleArguments, {})
UpdatePlan ==
  Row("recurring", "edit_plan", {"plan_id"},
      {"name", "amount", "payments"} \cup ScheduleArguments, {})
CreateSubscription ==
  Row("recurring", "add_subscription", {"plan_id"},
      {"customer_vault_id", "payment_token", "start_date", "order_id",
       "order_description"}, {"billing"})
UpdateSubscription ==
  Row("recurring", "update_subscription", {"subscription_id"},
      {"paused", "amount", "payments", "start_date", "payment_token"}
        \cup ScheduleArguments, {})
DeleteSubscription ==
  Row("recurring", "delete_subscription", {"subscription_id"}, {}, {})

\* Invoices

CreateInvoice ==
  Row("invoicing", "add_invoice", {"amount", "email", "payment_terms"},
      {"payment_methods_allowed", "currency", "order_id", "order_description",
       "customer_id"}, {"billing", "shipping"})
UpdateInvoice ==
  Row("invoicing", "update_invoice", {"invoice_id"},
      {"amount", "email", "payment_terms", "payment_methods_allowed", "order_id",
       "order_description", "customer_id"}, {"billing", "shipping"})
SendInvoice == Row("invoicing", "send_invoice", {"invoice_id"}, {}, {})
CloseInvoice == Row("invoicing", "close_invoice", {"invoice_id"}, {}, {})

\* Reports

DateRange == {"start_date", "end_date"}

\* The transaction report is the only one without report_type.
NoSelector == "no selector"
QueryTransactions ==
  Row(NoSelector, "", {},
      {"condition", "transaction_type", "action_type", "source", "transaction_id",
       "subscription_id", "order_id", "first_name", "last_name", "email"}
        \cup DateRange, {})
QueryCustomers ==
  Row("report_type", "customer_vault", {},
      {"customer_vault_id", "date_search"} \cup DateRange, {})
QuerySubscriptions ==
  Row("report_type", "recurring", {}, {"subscription_id"} \cup DateRange, {})
QueryPlans == Row("report_type", "recurring_plans", {}, {}, {})
QueryInvoices ==
  Row("report_type", "invoicing", {}, {"invoice_id", "invoice_status"} \cup DateRange, {})

TransactMethods ==
  [sale |-> Sale, authorize |-> Authorize, credit |-> Credit, validate |-> Validate,
   capture |-> Capture, void |-> Void, refund |-> Refund, update |-> UpdateTransaction,
   create_customer |-> CreateCustomer, update_customer |-> UpdateCustomer,
   delete_customer |-> DeleteCustomer, charge_customer |-> ChargeCustomer,
   add_billing |-> AddBilling, update_billing |-> UpdateBilling,
   delete_billing |-> DeleteBilling,
   create_plan |-> CreatePlan, update_plan |-> UpdatePlan,
   create_subscription |-> CreateSubscription,
   update_subscription |-> UpdateSubscription,
   delete_subscription |-> DeleteSubscription,
   create_invoice |-> CreateInvoice, update_invoice |-> UpdateInvoice,
   send_invoice |-> SendInvoice, close_invoice |-> CloseInvoice]

Reports ==
  [query_transactions |-> QueryTransactions, query_customers |-> QueryCustomers,
   query_subscriptions |-> QuerySubscriptions, query_plans |-> QueryPlans,
   query_invoices |-> QueryInvoices]

Methods == Updated(TransactMethods, Reports)

\* A call: the method, a value for each argument that is not None (test_mode:
\* that is True), the numbers, keys and fields of the four dicts.  These are
\* the calls Python's argument binding lets through.
IsCall(c) ==
  LET row == Methods[c.op] IN
  /\ row.required \subseteq DOMAIN c.args
  /\ DOMAIN c.args \subseteq row.required \cup row.optional
  /\ "billing" \notin row.dicts => c.billing = {}
  /\ "shipping" \notin row.dicts => c.shipping = {}
  /\ "mdf" \notin row.dicts => c.mdf = {}
  /\ "amount" \in DOMAIN c.args => c.args["amount"] \in AmountValues

ASSUME CallsAssumption ==
  /\ DOMAIN Calls \subseteq DOMAIN Methods
  /\ \A op \in DOMAIN Calls : \A c \in Calls[op] : c.op = op /\ IsCall(c)

ASSUME MaxPagesAssumption == MaxPages \in Nat

-----------------------------------------------------------------------------
(***************************************************************************)
(* The checks, in the order of the code.                                   *)
(***************************************************************************)

Gives(c, a) == a \in DOMAIN c.args

\* A customer or subscription with two payment sources is let through.
SourceError_mut(c) ==
  IF /\ c.op \in {"sale", "authorize", "credit", "validate", "create_subscription",
                     "create_customer"}
     /\ ~Gives(c, "payment_token")
     /\ ~Gives(c, "customer_vault_id")
     /\ ~Gives(c, "source_transaction_id")
     /\ c.extra = {}
  THEN "InvalidRequestError" ELSE NoError

\* The arguments that may name the money's source, method by method.
Sources(op) ==
  IF op = "create_customer" THEN {"payment_token", "source_transaction_id"}
  ELSE {"payment_token", "customer_vault_id"}

\* Extra parameters may name a source as well, so they satisfy the check; only
\* a new customer and a new subscription may not have two.
SourceError(c) ==
  LET given == Sources(c.op) \cap DOMAIN c.args
      single == {"create_customer", "create_subscription"}
      checked == single \cup {"sale", "authorize", "credit", "validate"}
  IN  IF \/ c.op \in checked /\ given = {} /\ c.extra = {}
         \/ c.op \in single /\ given = Sources(c.op)
      THEN "InvalidRequestError" ELSE NoError

ScheduleError(c) ==
  IF c.op \in {"create_plan", "update_plan", "update_subscription"}
  THEN FrequencyError(c.args, c.op = "create_plan") ELSE NoError

\* The error of argument a, if it is given.
IfGiven(c, a, error) == IF Gives(c, a) THEN error ELSE NoError

Values(c) == {c.args[a] : a \in DOMAIN c.args}

\* One order of checks serves all builders: none makes all of them.
Errors(c) ==
  << SourceError(c),
     IfGiven(c, "amount", AmountError(c.args["amount"])),
     IF c.op = "refund" THEN NoError
       ELSE IfGiven(c, "amount", ZeroAmountError(c.args["amount"])),
     ScheduleError(c),
     IfGiven(c, "payment_terms", PaymentTermsError(c.args["payment_terms"])),
     CsvError(Values(c)),
     DateError(Values(c)),
     KeysError(c.billing, BillingKeys),
     KeysError(c.shipping, ShippingKeys),
     IfGiven(c, "dup_seconds", DupSecondsError(c.args["dup_seconds"])),
     MerchantDefinedFieldsError(c.mdf) >>

\* The class that is raised, or NoError.
Refusal(c) ==
  LET errors == Errors(c)
      failed == {i \in DOMAIN errors : errors[i] # NoError}
  IN  IF failed = {} THEN NoError
      ELSE errors[CHOOSE i \in failed : \A j \in failed : i <= j]

-----------------------------------------------------------------------------
(***************************************************************************)
(* The fields.                                                             *)
(***************************************************************************)

From(origin, name, text) == [from |-> origin, name |-> name, text |-> text]

\* po_number put under order_id's field.
Field_mut(op, a) ==
  CASE a \in {"order_id", "po_number"} /\ op \notin DOMAIN Reports -> "orderid"
    [] a = "ip_address" -> "ipaddress"
    [] a = "transaction_id" /\ op \notin DOMAIN Reports -> "transactionid"
    [] a = "name" -> "plan_name"
    [] a = "payments" -> "plan_payments"
    [] a = "paused" -> "paused_subscription"
    [] a = "amount" /\ op \in {"create_plan", "update_plan", "update_subscription"} -> "plan_amount"
    [] a = "plan_id" /\ op = "update_plan" -> "current_plan_id"
    [] OTHER -> a

\* The gateway's name of argument a.
Field(op, a) ==
  CASE a = "order_id" /\ op \notin DOMAIN Reports -> "orderid"
    [] a = "po_number" -> "ponumber"
    [] a = "ip_address" -> "ipaddress"
    [] a = "transaction_id" /\ op \notin DOMAIN Reports -> "transactionid"
    [] a = "name" -> "plan_name"
    [] a = "payments" -> "plan_payments"
    [] a = "paused" -> "paused_subscription"
    [] a = "amount" /\ op \in {"create_plan", "update_plan", "update_subscription"} -> "plan_amount"
    [] a = "plan_id" /\ op = "update_plan" -> "current_plan_id"
    [] OTHER -> a

Text(a, v) == IF a = "amount" THEN AmountText(v) ELSE <<v.n>>

ArgumentFields(c) ==
  LET arguments == DOMAIN c.args
      Last(f) == CHOOSE a \in arguments : Field(c.op, a) = f
  IN  [f \in {Field(c.op, a) : a \in arguments} |->
         From("argument", Last(f), Text(Last(f), c.args[Last(f)]))]

SelectorFields(row) ==
  IF row.selector = NoSelector THEN <<>>
  ELSE [f \in {row.selector} |-> From("method", row.value, <<>>)]

\* Billing fields keep their names.
BillingFields(keys) == [f \in keys |-> From("billing", f, <<>>)]

ShippingField ==
  [first_name |-> "shipping_firstname", last_name |-> "shipping_lastname",
   company |-> "shipping_company", address1 |-> "shipping_address1",
   address2 |-> "shipping_address2", city |-> "shipping_city",
   state |-> "shipping_state", zip |-> "shipping_zip",
   country |-> "shipping_country", email |-> "shipping_email"]

ShippingFields(keys) ==
  [f \in {ShippingField[key] : key \in keys} |->
     From("shipping", CHOOSE key \in keys : ShippingField[key] = f, <<>>)]

MdfField ==
  << "merchant_defined_field_1", "merchant_defined_field_2",
     "merchant_defined_field_3", "merchant_defined_field_4",
     "merchant_defined_field_5", "merchant_defined_field_6",
     "merchant_defined_field_7", "merchant_defined_field_8",
     "merchant_defined_field_9", "merchant_defined_field_10",
     "merchant_defined_field_11", "merchant_defined_field_12",
     "merchant_defined_field_13", "merchant_defined_field_14",
     "merchant_defined_field_15", "merchant_defined_field_16",
     "merchant_defined_field_17", "merchant_defined_field_18",
     "merchant_defined_field_19", "merchant_defined_field_20" >>

MdfFields(numbers) ==
  [f \in {MdfField[number] : number \in numbers} |-> From("mdf", f, <<>>)]

ExtraFields(names) == [f \in names |-> From("extra", f, <<>>)]

\* The dicts in the order in which they are put into params.
Params(c) ==
  LET selected  == Updated(SelectorFields(Methods[c.op]), ArgumentFields(c))
      addressed == Updated(Updated(selected, BillingFields(c.billing)),
                           ShippingFields(c.shipping))
  IN  Updated(Updated(addressed, MdfFields(c.mdf)), ExtraFields(c.extra))

SecurityKey == [f \in {"security_key"} |-> From("client", f, <<>>)]

\* build_transact_request
TransactRequest(c) == Updated(SecurityKey, Params(c))

PageFields(n) ==
  [result_limit |-> From("iterator", "page_size", <<>>),
   page_number |-> From("iterator", "page_number", <<n>>)]

\* The filters are merged over the page.
PageRequest_mut(c, n) == Updated(SecurityKey, Updated(PageFields(n), Params(c)))

\* _fetch_records and build_query_request
PageRequest(c, n) == Updated(SecurityKey, Updated(Params(c), PageFields(n)))

-----------------------------------------------------------------------------

VARIABLES
  call,      \* the call that was made
  raised,    \* the class it raised, or NoError
  fields,    \* the form fields it sent last, or <<>>
  page       \* pages a report has asked for

vars == <<call, raised, fields, page>>

Init ==
  /\ \E op \in DOMAIN Calls : call \in Calls[op]
  /\ raised = NoError
  /\ fields = <<>>
  /\ page = 0

\* The check is made when the request is already on its way.
Refuse_mut ==
  /\ fields = <<>>
  /\ raised = NoError
  /\ Refusal(call) # NoError
  /\ raised' = Refusal(call)
  /\ fields' = TransactRequest(call)
  /\ UNCHANGED <<call, page>>

\* A check fails: nothing is sent.
Refuse ==
  /\ fields = <<>>
  /\ raised = NoError
  /\ Refusal(call) # NoError
  /\ raised' = Refusal(call)
  /\ UNCHANGED <<call, fields, page>>

\* _transact
Transact ==
  /\ call.op \in DOMAIN TransactMethods
  /\ fields = <<>>
  /\ Refusal(call) = NoError
  /\ fields' = TransactRequest(call)
  /\ UNCHANGED <<call, raised, page>>

\* A report asks for its next page.
FetchPage ==
  /\ call.op \in DOMAIN Reports
  /\ Refusal(call) = NoError
  /\ page < MaxPages
  /\ fields' = PageRequest(call, page)
  /\ page' = page + 1
  /\ UNCHANGED <<call, raised>>

Next == Refuse \/ Transact \/ FetchPage

Spec == Init /\ [][Next]_vars

-----------------------------------------------------------------------------
(***************************************************************************)
(* Properties                                                              *)
(***************************************************************************)

Sent == fields # <<>>

\* The form field of argument a was sent and says what the argument said.
Arrives(a) ==
  LET f == Field(call.op, a) IN
  /\ f \in DOMAIN fields
  /\ fields[f] = From("argument", a, Text(a, call.args[a]))

\* The call, the exception and the fields that were sent fit together.
TypeOK ==
  /\ IsCall(call)
  /\ raised \in {NoError, "TypeError", "InvalidRequestError"}
  /\ Sent => "security_key" \in DOMAIN fields
  /\ page \in 0..MaxPages
  /\ raised # NoError => ~Sent /\ page = 0

\* An amount is charged to the cent as the merchant wrote it, whatever its
\* type and precision: never rounded, never negative, and zero only for a
\* refund, where it means the full amount.
AmountsAreExact ==
  Sent /\ Gives(call, "amount") /\ Field(call.op, "amount") \notin call.extra =>
    LET v == call.args["amount"]
        text == fields[Field(call.op, "amount")].text
    IN  /\ text[1] = v.n /\ v.n <= 99999999
        /\ text[2] * Scale(v.places) = v.frac * Scale(text[3])
        /\ text[3] <= 2
        /\ v.kind # "-Decimal"
        /\ call.op # "refund" => v.n + v.frac > 0

\* "one schedule style per plan": the gateway never gets half a schedule or
\* two, a new plan has one, and its numbers are in range.
OneScheduleStyle ==
  Sent /\ call.extra \cap ScheduleArguments = {} =>
    LET given == ScheduleArguments \cap DOMAIN fields
        N(f) == fields[f].text[1]
    IN  /\ given \in {{}, {"day_frequency"}, {"month_frequency", "day_of_month"}}
        /\ call.op = "create_plan" => given # {}
        /\ \A f \in given : N(f) >= 1
        /\ "month_frequency" \in given => N("month_frequency") <= 24
        /\ "day_of_month" \in given => N("day_of_month") <= 31

\* The gateway can tell whose money is meant: a charge, a new customer and a
\* new subscription name a payment source, the last two exactly one.
OnePaymentSource ==
  Sent /\ call.extra = {} =>
    LET sources == DOMAIN fields \cap
          {"payment_token", "source_transaction_id", "customer_vault_id"}
    IN  /\ call.op \in {"sale", "authorize", "credit", "validate", "charge_customer"} =>
             sources # {}
        /\ call.op = "create_customer" =>
             \/ sources \ {"customer_vault_id"} = {"payment_token"}
             \/ sources \ {"customer_vault_id"} = {"source_transaction_id"}
        /\ call.op = "create_subscription" =>
             sources \in {{"payment_token"}, {"customer_vault_id"}}

\* No two arguments of any method fall on one field: each given argument
\* arrives with its own value.  The exception is an invoice's email, which
\* billing["email"] replaces.
ArgumentsArrive ==
  Sent /\ call.extra = {} =>
    \A a \in DOMAIN call.args :
      Arrives(a) \/ (a = "email" /\ "email" \in call.billing)

\* extra_params are the escape hatch: they are sent as they are whatever the
\* arguments say, but a report's pages stay under the iterator's control, or
\* it would never see the last one.
ExtraParamsArrive ==
  Sent =>
    /\ \A f \in call.extra :
         fields[f] = From("extra", f, <<>>)
           \/ (call.op \in DOMAIN Reports /\ f \in DOMAIN PageFields(0))
    /\ call.op \in DOMAIN Reports =>
         fields["page_number"] = From("iterator", "page_number", <<page - 1>>)
=============================================================================
