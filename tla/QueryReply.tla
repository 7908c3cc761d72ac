----------------------------- MODULE QueryReply -----------------------------
(***************************************************************************)
(* What the SDK makes of a query.php reply: parse_query_records            *)
(* (kicbac/_xml.py) takes the records out of the XML, and the models of    *)
(* kicbac/models/query.py take them over.                                  *)
(*                                                                         *)
(* A body is XML, is not, or is refused because of a DOCTYPE.  An element  *)
(* has a tag, a text ("" if there is none) and a sequence of children.     *)
(* The value of a field is a text, a record or a list of records.          *)
(*                                                                         *)
(* Recursion over the elements is bounded: a record has parts (an action,  *)
(* a product, a nested record), and parts have no parts of their own.      *)
(***************************************************************************)
EXTENDS Naturals, SequencesExt

Xml(root) == [kind |-> "xml", root |-> root]
Malformed == [kind |-> "malformed"]
Doctype == [kind |-> "doctype"]

Leaf(tag, text) == [tag |-> tag, text |-> text, kids |-> <<>>]
Node(tag, kids) == [tag |-> tag, text |-> "", kids |-> kids]

Text(text) == [kind |-> "text", text |-> text]
Record(fields) == [kind |-> "record", fields |-> fields]
List(items) == [kind |-> "list", items |-> items]
None == [kind |-> "none"]

Raised(class) == [kind |-> "raised", class |-> class]

-----------------------------------------------------------------------------
(***************************************************************************)
(* parse_query_records                                                     *)
(***************************************************************************)

\* The numbers of a finite set, smallest first.
Ascending(S) ==
  [k \in 1..Cardinality(S) |-> CHOOSE i \in S : Cardinality({j \in S : j <= i}) = k]

\* element.findall(tag) and element.findall("./*/tag"), in document order.
Children(element, tag) ==
  LET at == {i \in DOMAIN element.kids : element.kids[i].tag = tag}
  IN  [k \in 1..Cardinality(at) |-> element.kids[Ascending(at)[k]]]
Grandchildren(element, tag) ==
  FlattenSeq([i \in DOMAIN element.kids |-> Children(element.kids[i], tag)])

\* Elements that repeat inside a record, and the fields that collect them.
RepeatedTags == {"action", "product"}
Plural == [action |-> "actions", product |-> "products"]

\* A later action replaces an earlier one.
Repeated_mut(element, tag) ==
  LET found == Children(element, tag) IN SubSeq(found, Len(found), Len(found))

\* repeated.setdefault(...).append(...), for the children with that tag.
Repeated(element, tag) == Children(element, tag)

\* _element_to_record, where Inner(child) stands for its call of itself.  Of
\* several children with another tag the last one wins, and
\* record.update(repeated) wins over all of them.
RecordOf(element, Inner(_)) ==
  LET tags == {element.kids[i].tag : i \in DOMAIN element.kids}
      lists == {Plural[tag] : tag \in tags \cap RepeatedTags}
      Collected(name) ==
        LET tag == CHOOSE t \in RepeatedTags : Plural[t] = name
            kids == Repeated(element, tag)
        IN  List([i \in DOMAIN kids |-> Record(Inner(kids[i]))])
      Single(name) ==
        LET kid == Last(Children(element, name)) IN
        IF kid.kids = <<>> THEN Text(kid.text) ELSE Record(Inner(kid))
  IN  [name \in (tags \ RepeatedTags) \cup lists |->
         IF name \in lists THEN Collected(name) ELSE Single(name)]

\* A part of a part: the bound on the nesting.
TooDeep(element) == <<>>
PartToRecord(element) == RecordOf(element, TooDeep)
ElementToRecord(element) == RecordOf(element, PartToRecord)

\* root.find(...) or root.find(...): an element without children is falsy, so
\* one that is found directly is passed over.
ErrorResponses_mut(root) ==
  SelectSeq(Children(root, "error_response"), LAMBDA e : e.kids # <<>>)
    \o Grandchildren(root, "error_response")

\* The error elements, in the order they are looked for.
ErrorResponses(root) ==
  Children(root, "error_response") \o Grandchildren(root, "error_response")

\* Texts that match AUTH_FAIL_PATTERN, in a case of the gateway's choice.
AuthFailTexts == {"Authentication Failed", "invalid security key"}

\* _raise_error_response: the class it raises.
RaiseErrorResponse(text) ==
  IF text \in AuthFailTexts THEN "AuthenticationError" ELSE "InvalidRequestError"

ParseQueryRecords(body, tag) ==
  IF body.kind # "xml" THEN Raised("APIError")
  ELSE LET root == body.root
           found == Children(root, tag) \o Grandchildren(root, tag)
       IN  IF ErrorResponses(root) # <<>>
           THEN Raised(RaiseErrorResponse(Head(ErrorResponses(root)).text))
           ELSE [kind |-> "records",
                 records |-> [i \in DOMAIN found |-> ElementToRecord(found[i])]]

-----------------------------------------------------------------------------
(***************************************************************************)
(* The models.  A model has fields that hold a text or None, fields that   *)
(* hold a list of another model, and fields that hold another model or     *)
(* None.  Any other field is kept as it is.                                *)
(***************************************************************************)

CardFields == {"cc_number", "cc_hash", "cc_exp", "cc_type"}
CheckFields == {"check_account", "check_aba", "check_name"}
NameFields == {"first_name", "last_name"}
AddressFields ==
  {"address_1", "address_2", "company", "city", "state", "postal_code", "country",
   "email", "phone"}

TextFields ==
  [action |->
     {"amount", "action_type", "date", "success", "ip_address", "source",
      "api_method", "username", "response_text", "batch_id", "processor_batch_id",
      "response_code", "processor_response_text", "processor_response_code"},
   product |-> {"sku", "quantity", "description", "amount"},
   transaction |->
     {"transaction_id", "partial_payment_id", "partial_payment_balance",
      "platform_id", "transaction_type", "condition", "order_id",
      "authorization_code", "ponumber", "order_description", "cc_bin",
      "avs_response", "csc_response", "processor_id", "tax", "currency",
      "surcharge", "tip", "customerid", "customer_vault_id", "entry_mode"}
       \cup NameFields \cup AddressFields \cup CardFields \cup CheckFields,
   customer |->
     {"customer_vault_id", "created", "updated"}
       \cup NameFields \cup AddressFields \cup CardFields \cup CheckFields,
   plan |->
     {"plan_id", "plan_name", "plan_amount", "plan_payments", "day_frequency",
      "month_frequency", "day_of_month"},
   subscription |->
     {"subscription_id", "customer_vault_id", "next_charge_date",
      "completed_payments", "attempted_payments", "remaining_payments", "order_id",
      "order_description", "cc_number", "cc_exp"} \cup NameFields,
   invoice |->
     {"invoice_id", "amount", "currency", "status", "email", "customer_id",
      "order_description", "orderid", "created"}]

\* Fields that hold a list of a model, and fields that hold a model.
ListFields(model) ==
  IF model = "transaction" THEN [actions |-> "action", products |-> "product"] ELSE <<>>
ModelFields(model) ==
  IF model = "subscription" THEN [plan |-> "plan"] ELSE <<>>

Declared(model) ==
  TextFields[model] \cup DOMAIN ListFields(model) \cup DOMAIN ModelFields(model)

\* Whether pydantic accepts a record for a model: each declared field that is
\* there has the declared shape.  A part declares nothing but texts.
AcceptsTexts(model, fields) ==
  \A f \in TextFields[model] \cap DOMAIN fields : fields[f].kind = "text"

Accepts(model, fields) ==
  /\ AcceptsTexts(model, fields)
  /\ \A f \in DOMAIN ListFields(model) \cap DOMAIN fields :
       /\ fields[f].kind = "list"
       /\ \A i \in DOMAIN fields[f].items :
            AcceptsTexts(ListFields(model)[f], fields[f].items[i].fields)
  /\ \A f \in DOMAIN ModelFields(model) \cap DOMAIN fields :
       /\ fields[f].kind = "record"
       /\ AcceptsTexts(ModelFields(model)[f], fields[f].fields)

\* A model without the fields the gateway did not send.
ModelValidate_mut(model, fields) == fields

\* The model built from a record it accepts: what is missing gets its default.
PartValidate(model, fields) ==
  [f \in TextFields[model] \cup DOMAIN fields |->
     IF f \in DOMAIN fields THEN fields[f] ELSE None]

PartsValidate(model, items) ==
  [i \in DOMAIN items |-> Record(PartValidate(model, items[i].fields))]

ModelValidate(model, fields) ==
  [f \in Declared(model) \cup DOMAIN fields |->
     CASE f \notin DOMAIN fields ->
            IF f \in DOMAIN ListFields(model) THEN List(<<>>) ELSE None
       [] f \in DOMAIN ListFields(model) \cap DOMAIN fields ->
            List(PartsValidate(ListFields(model)[f], fields[f].items))
       [] f \in DOMAIN ModelFields(model) \cap DOMAIN fields ->
            Record(PartValidate(ModelFields(model)[f], fields[f].fields))
       [] OTHER -> fields[f]]

-----------------------------------------------------------------------------

\* A record the model rejects is left out.
FetchPage_mut(report, body) ==
  LET parsed == ParseQueryRecords(body, report) IN
  IF parsed.kind = "raised" THEN parsed
  ELSE LET good == SelectSeq(parsed.records, LAMBDA r : Accepts(report, r)) IN
       [kind |-> "page",
        models |-> [i \in DOMAIN good |-> ModelValidate(report, good[i])]]

\* fetch() of a report: the models of a page, or the class it raises.  pydantic's
\* ValidationError is not wrapped.
FetchPage(report, body) ==
  LET parsed == ParseQueryRecords(body, report) IN
  IF parsed.kind = "raised" THEN parsed
  ELSE IF \E i \in DOMAIN parsed.records : ~Accepts(report, parsed.records[i])
  THEN Raised("ValidationError")
  ELSE [kind |-> "page",
        models |-> [i \in DOMAIN parsed.records |->
                      ModelValidate(report, parsed.records[i])]]
=============================================================================
