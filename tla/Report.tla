------------------------------- MODULE Report -------------------------------
(***************************************************************************)
(* A report method of Query (transactions, customers, subscriptions, plans *)
(* or invoices): the generator of module Pagination with a fetch() that    *)
(* parses the body of a query.php reply into models (module QueryReply).   *)
(*                                                                         *)
(* The gateway renders the records of a page as XML, directly below the    *)
(* root or in one wrapper, or says that it refuses the query; a proxy on   *)
(* the way may answer with an error page, which the transport returns like *)
(* any body that does not come with HTTP 429.  The report is shown to      *)
(* implement Pagination, where a page is a sequence of records.            *)
(***************************************************************************)
EXTENDS Pagination, QueryReply

CONSTANTS
  Content,      \* Content[r][n]: the fields of record n of report r
  ProxyBodies,  \* bodies of the error pages (HTTP 502, say) of proxies on the way
  Uncaught      \* classes of exceptions that httpx or the event loop raises in
                \* request() and that are no httpx.TransportError

Reports == {"transaction", "customer", "subscription", "plan", "invoice"}

\* The field that identifies a record.
IdField ==
  [transaction |-> "transaction_id", customer |-> "customer_vault_id",
   subscription |-> "subscription_id", plan |-> "plan_id", invoice |-> "invoice_id"]

\* What XML can say of a record: texts that repeated elements do not hide.
IsPart(fields) ==
  /\ IsFiniteSet(DOMAIN fields) /\ DOMAIN fields # {}
  /\ DOMAIN fields \cap RepeatedTags = {}
  /\ fields = [f \in DOMAIN fields |-> Text(fields[f].text)]

\* In a record there are also nested records, and the lists of a transaction.
IsContent(fields) ==
  /\ IsFiniteSet(DOMAIN fields)
  /\ DOMAIN fields \cap RepeatedTags = {}
  /\ fields = [f \in DOMAIN fields |-> fields[f]]
  /\ \A f \in DOMAIN fields :
       LET value == fields[f] IN
       \/ value.kind = "text" /\ value = Text(value.text)
       \/ value.kind = "record" /\ value = Record(value.fields) /\ IsPart(value.fields)
       \/ /\ value.kind = "list" /\ f \in {Plural[tag] : tag \in RepeatedTags}
          /\ value = List([i \in 1..Len(value.items) |-> Record(value.items[i].fields)])
          /\ Len(value.items) \in Nat \ {0}
          /\ \A i \in 1..Len(value.items) : IsPart(value.items[i].fields)

\* No record has a field with the tag of its own report, or of an error: it would
\* be taken for one if there is no wrapper.
ASSUME ContentAssumption ==
  \A r \in Reports : \A m, n \in 1..MaxRecords :
    /\ IsContent(Content[r][n])
    /\ {r, "error_response"} \cap DOMAIN Content[r][n] = {}
    /\ IdField[r] \in DOMAIN Content[r][n]
    /\ Content[r][m][IdField[r]] = Content[r][n][IdField[r]] => m = n

\* What the transport raises for itself, and what the parser makes of a reply.
TransportClasses == {"APIConnectionError", "APITimeoutError", "RateLimitError"}
ReplyClasses == {"APIError", "AuthenticationError", "InvalidRequestError"}

\* Nothing below the SDK raises the SDK's exceptions, or pydantic's.
ASSUME UncaughtAssumption ==
  Uncaught \cap (TransportClasses \cup ReplyClasses \cup {"ValidationError", "none"}) = {}

VARIABLES
  report,    \* the report that was asked for
  body,      \* the gateway's reply to the current or last request, or NoBody
  models,    \* batch: the models of the page
  raised     \* the class of the exception that ended the iteration, or "none"

reportVars == <<report, body, models, raised>>
allVars == <<vars, reportVars>>

NoBody == [kind |-> "no body"]

-----------------------------------------------------------------------------
(***************************************************************************)
(* The gateway's side: fields as XML, a list as repeated elements.         *)
(***************************************************************************)

RenderPart(tag, fields) ==
  LET names == SetToSeq(DOMAIN fields)
  IN  Node(tag, [i \in DOMAIN names |-> Leaf(names[i], fields[names[i]].text)])

RenderItems(tag, fields) ==
  LET name == Plural[tag] IN
  IF name \in DOMAIN fields /\ fields[name].kind = "list"
  THEN [i \in 1..Len(fields[name].items) |->
          RenderPart(tag, fields[name].items[i].fields)]
  ELSE <<>>

RenderValue(name, value) ==
  IF value.kind = "text" THEN Leaf(name, value.text) ELSE RenderPart(name, value.fields)

Render(tag, fields) ==
  LET single == SetToSeq({f \in DOMAIN fields : fields[f].kind # "list"})
      values == [i \in DOMAIN single |-> RenderValue(single[i], fields[single[i]])]
  IN  Node(tag, values \o RenderItems("action", fields) \o RenderItems("product", fields))

\* The root of a reply, with or without a wrapper element.
Page(elements, wrapped) ==
  Node("nm_response", IF wrapped THEN <<Node("report", elements)>> ELSE elements)

\* Replies that carry no page, with the class the SDK documents for them.
NoReplies ==
  {[body |-> errorPage, class |-> "APIError"] : errorPage \in ProxyBodies \cup {Doctype}}

Refusal(text, wrapped) ==
  [body |-> Xml(Page(<<Leaf("error_response", text)>>, wrapped)),
   class |-> IF text \in AuthFailTexts THEN "AuthenticationError"
             ELSE "InvalidRequestError"]

RefusalTexts == AuthFailTexts \cup {"Invalid date range"}
Refusals == {Refusal(text, wrapped) : text \in RefusalTexts, wrapped \in BOOLEAN}

ErrorReplies == NoReplies \cup Refusals

-----------------------------------------------------------------------------

ReportInit ==
  /\ Init
  /\ report \in Reports
  /\ body = NoBody
  /\ models = <<>>
  /\ raised = "none"

\* An attempt of the request reaches the gateway, which answers with the page.
GatewaySendsPage ==
  /\ GatewayAnswers
  /\ LET slice == answer'[1]
         elements == [i \in DOMAIN slice |-> Render(report, Content[report][slice[i]])]
     IN  \E wrapped \in BOOLEAN : body' = Xml(Page(elements, wrapped))
  /\ UNCHANGED <<report, models, raised>>

\* The gateway refuses the query, or something that is no reply comes back.
GatewaySendsError ==
  /\ gen = "fetching"
  /\ \E reply \in ErrorReplies : body' = reply.body
  /\ UNCHANGED <<vars, report, models, raised>>

\* next(): a request that is sent has no reply yet.
Advance(c) ==
  /\ CallNext(c)
  /\ body' = IF gen # "fetching" /\ gen' = "fetching" THEN NoBody ELSE body
  /\ UNCHANGED <<report, models, raised>>

\* The record of which a model was built.
NumberOf(model) ==
  CHOOSE n \in 1..MaxRecords :
    model[IdField[report]] = Content[report][n][IdField[report]]

\* fetch() returns the models of the page.
FetchReturnsModels(c) ==
  /\ body # NoBody
  /\ LET reply == FetchPage(report, body) IN
     /\ reply.kind = "page"
     /\ models' = reply.models
     /\ TakePage(c, [i \in DOMAIN models' |-> NumberOf(models'[i])])
  /\ UNCHANGED <<report, body, raised>>

\* fetch() raises: parsing, the models or the transport, through which also
\* passes what its except clause does not catch.
FetchFails(c) ==
  /\ FetchRaises(c)
  /\ \/ /\ body # NoBody
        /\ FetchPage(report, body).kind = "raised"
        /\ raised' = FetchPage(report, body).class
     \/ raised' \in TransportClasses \cup Uncaught
  /\ UNCHANGED <<report, body, models>>

ReportNext ==
  \/ /\ \/ AppendRecord
        \/ \E i \in 1..Len(records) : RemoveRecord(i)
        \/ Close
     /\ UNCHANGED reportVars
  \/ GatewaySendsPage
  \/ GatewaySendsError
  \/ \E c \in Consumers : Advance(c) \/ FetchReturnsModels(c) \/ FetchFails(c)

ReportSpec == ReportInit /\ [][ReportNext]_allVars

-----------------------------------------------------------------------------
(***************************************************************************)
(* Properties                                                              *)
(***************************************************************************)

\* Types: a report ends with an exception of the SDK, pydantic's ValidationError,
\* what the transport does not catch, or none; and a model has every field its
\* class declares.
ReportTypeOK ==
  /\ report \in Reports
  /\ raised \in
       ReplyClasses \cup TransportClasses \cup {"ValidationError"} \cup Uncaught \cup {"none"}
  /\ gen = "suspended" => Len(models) = Len(batch)
  /\ \A i \in DOMAIN models : Declared(report) \subseteq DOMAIN models[i]

\* Whatever the gateway sends, the report behaves like Pagination: a page that
\* is yielded is a page the gateway answered, whole and in its order, and an
\* error, a reply that is no XML or a record that is rejected is never taken for
\* an empty or a shorter page, which would end the report as if it were complete.
ImplementsPagination == Spec

\* A reply without a page ends the iteration with the class documented for it,
\* unless an exception below the parser came first; and nothing else ends one
\* with that class: no page, whatever its records say, is read as a refusal.
GatewayErrorsAreTold ==
  /\ \A reply \in ErrorReplies :
       body = reply.body /\ gen = "finished" =>
         raised \in {reply.class} \cup TransportClasses \cup Uncaught
  /\ raised \in ReplyClasses =>
       \E reply \in ErrorReplies : body = reply.body /\ raised = reply.class

\* got holds all of sent: every field, and every item of a list in its place.
HoldsTexts(got, sent) == \A f \in DOMAIN sent : f \in DOMAIN got /\ got[f] = sent[f]

HoldsValue(got, sent) ==
  /\ got.kind = sent.kind
  /\ sent.kind = "text" => got.text = sent.text
  /\ sent.kind = "record" => HoldsTexts(got.fields, sent.fields)
  /\ sent.kind = "list" =>
       /\ Len(got.items) = Len(sent.items)
       /\ \A i \in 1..Len(sent.items) :
            HoldsTexts(got.items[i].fields, sent.items[i].fields)

Holds(got, sent) ==
  \A f \in DOMAIN sent : f \in DOMAIN got /\ HoldsValue(got[f], sent[f])

\* A model the merchant gets holds every field, action, product and plan of the
\* gateway's record, and nothing else but None and empty lists.
RecordsArrive ==
  gen = "suspended" =>
    \A i \in 1..Len(batch) :
      LET sent == Content[report][batch[i]] IN
      /\ Holds(models[i], sent)
      /\ \A f \in DOMAIN models[i] \ DOMAIN sent : models[i][f] \in {None, List(<<>>)}

-----------------------------------------------------------------------------
(***************************************************************************)
(* A statement of the code that the code does not keep.                    *)
(***************************************************************************)

\* "APIError  gateway/transport problems (response=3, HTTP, parsing)"
\* (errors.py:6): a report that got an HTTP error page for its last request
\* ended with an exception, and not as if it were complete.
HttpErrorsAreTold == body \in ProxyBodies /\ gen = "finished" => raised # "none"
=============================================================================
