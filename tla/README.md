# A TLA+ model of the kicbac Python SDK

`sdk-python/` is a client for a payment gateway with two endpoints: `transact.php`, which moves
money and changes vault, plan, subscription and invoice records, and `query.php`, which reports.
The SDK builds form-encoded requests, sends them through httpx with a retry policy, turns replies
into results or exceptions, iterates over reports page by page, and verifies the gateway's signed
webhooks. This directory holds TLA+ modules of these parts, TLC instances that check them, and
TLAPS proofs. Source paths below are relative to `src/sdk-python/src/kicbac/` unless they start
with `src/`.

What can go wrong here costs money: a charge carried out twice because it was retried, a caller who
is told the wrong thing about a charge and acts on it, a report that silently lacks records, a
webhook event that is acted on twice or not at all. The model is organised around these questions.

## Inventory

| Part | State it keeps | Operations | Talks to | What makes it correct |
|---|---|---|---|---|
| Transports (`_transport.py`, `_core.py:74-76`) | per call: `attempt`, the exception at hand; shared: httpx's pool | `request()`: send, retry with backoff, wrap errors, 429 | httpx, gateway | at most one effect per call; what an error says about the request is true; every call ends |
| Replies (`_core.py:68-231`, `_constants.py`) | none | parse a body, classify errors, build results | called by the resources | documented classes of exceptions; all builders agree |
| Resources (`resources/_base.py`) | none | `_transact`: transport, then parser | transports, replies | a result or exception is a true and final verdict on the charge |
| Reports (`_pagination.py`, `resources/query.py`) | a generator's frame: `page_number`, `batch`, position | `next()`, `close()`, page fetch | transports | no record twice, none skipped, clean end only when complete, lazy, ends |
| Request building (`resources/*.py`, `_encode.py`, `types.py`) | none | 29 methods: check arguments, make form fields | resources | what is sent says what the arguments said; invalid combinations never leave |
| Webhooks (`webhooks.py`, handler in `src/sdk-python/README.md`) | none in the SDK; the merchant's table of applied events | `construct_event` | gateway's deliveries | only signed bytes get through; events are acted on once |
| Clients (`_client.py`) | key, httpx client, who owns it | construct, call, close | environment, httpx | keys and ownership are not mixed up |
| Timeouts (`_constants.py:16`, `_transport.py`) | none of its own | httpx's timeout per operation | httpx | a call's duration is bounded |
| Query replies (`_xml.py`, `models/`) | none | parse XML, build records | reports | a reply without a page is never read as one; nothing of a record is lost |
| The documented pattern around a charge (`_transport.py:61-64`, `src/sdk-python/README.md:75-82`) | the merchant's: what is known of the order | submit, look up, submit again | resources, reports | an order is charged once; what the merchant believes is true |
| Redaction (`_redact.py`) | none | hide secrets in errors | errors | not modelled, see below |
| Packaging, exports, `src/openapi/` | none | none | none | no behaviour to model |

Interactions. A resource method builds fields, calls the transport once (`_transact`) or hands a
fetch function to `paginate`, which calls it once per page. The transport runs in the caller's thread
or task; calls share only the httpx client and what is behind it. No part keeps anything on disk.
Webhooks arrive independently of all calls.

The hard behaviours: threads and tasks that compete for pooled connections; requests that are
processed after their caller gave up; lost requests and replies; cancellation in the middle of a
request; reports whose records come and go while they are read; error pages in the place of replies; one iterator with several consumers; webhooks that are
redelivered, reordered, and handled at the same time, with crashes between acting and acknowledging;
changes of the signing key; shared httpx clients that are closed. `PROJECT.json` lists each hazard at
its line with the properties that would catch it, or the reason why none does. Four of them are what the code
does, with no document to say that it should do otherwise: a doubled field, `StopIteration` after an
exception, a payment source waived by any `extra_params`, an invoice's email that billing replaces. Their properties
leave the case out, so they are listed without one.

## Modules

| Component | Specification | Instances | Proofs |
|---|---|---|---|
| Transports | `HttpErrors`, `Transport` | `MCTransport` | `TransactCallProofs` |
| Replies | `Outcome`, `OutcomeCases` | `MCOutcome` | `OutcomeProofs` |
| Resources | `TransactCall` (Transport + Outcome), abstract: `ChargePromise` | `MCTransport` | `TransactCallProofs` |
| Merchant's pattern | `Reconcile` (TransactCall + a merchant) | `MCReconcile` | `ReconcileProofs` |
| Reports | `Pagination` | `MCPagination` | `ReportProofs` |
| Query replies | `QueryReply`, `Report` (Pagination + QueryReply), abstract: `Pagination` | `MCReport` | `ReportProofs` |
| Request building | `Encode`, `Requests` | `MCRequests` | `RequestsProofs` |
| Webhooks | `Webhooks` | `MCWebhooks` | `WebhooksProofs` |
| Clients | `Client` | `MCClient` | `ClientProofs` |
| Timeouts | `HttpErrors`, `Deadline` | `MCDeadline` | `DeadlineProofs` |

An operator whose name ends in `_mut` is a plausible bug: a mutated form of the definition of the
same name. Substituting it makes the property that `PROJECT.json` pairs it with fail; the specifications
never use it.

### Transport

A call is a process with a program counter `pc`: `idle`, `pool` (waiting for a connection), `connect`,
`write`, `read`, `backoff`, `done`. `Call`, `Retry`/`GiveUp` (the two ways through the `except` clause),
`Wake` (the end of the sleep and `attempt += 1`) and `Receive` (the code after the loop's `try`) are the
code's; `AcquireConnection`, `Connect`, `SendRequest` and `Raises` stand for httpx and say in which
phase it raises which `TransportError`. `DecodingError` and `Cancel` are the exceptions that the
`except` clause does not catch. The sync and the async transport have the same control flow and are one
model; the points where the async one can be cancelled are a superset of those where a sync call can be
interrupted.

`sent`, `inbox`, `ledger` and `reply` are outside the SDK: bytes that were written, requests the gateway
has and may still process at any later time or drop, effects it carried out, and the reply on its way. The gateway is
a constant set `Answers` of [charges, status, body]; a 429 does not charge, any other answer may. A
reply may say nothing about the effect (a proxy's 502 after the charge).

Abstractions: an exception is its class name; a request is its call and attempt number; sleeping has
no length (see `Deadline`); `WriteError` and `WriteTimeout` count as having written bytes,
`LocalProtocolError` as not.

### Outcome, OutcomeCases, TransactCall, ChargePromise

`Outcome` has one operator per function of `_core.py`. A body is a sequence of name and value pairs, so
that fields that occur twice are distinguished (`dict(parse_qsl(...))` keeps the last). The four
builders for vault, plan, subscription and invoice results differ only in the fields they copy, which are
left out; `OkResult` is all of them. `OutcomeCases` applies both parsers to each body of a set and
compares them with a table written from the documented taxonomy (`DocumentedClass`): 301 and every code
from 400 on, whether the vendored table has it or not, is decided by the code alone. A field that occurs twice has
its last value there too, since no document says which value is meant: what a gateway means that says
`response=1` and `response=3` in one reply, neither `RaisesAsDocumented` nor `TruthfulGateway` can decide. A
`response_code` of digits that `int()` refuses (`Superscript`) makes every builder raise `ValueError`, also after an
approval: `ParsersAgree` and `KeepsPromise` cover it (the merchant's verdict is "unknown"), `RaisesAsDocumented` leaves it
out.

`TransactCall` composes the transport with the parsers: `Result(c)` is what the caller of a method gets.
`Verdict(c)` is how a careful merchant reads it: charged, not charged, or unknown. `ChargePromise` is the
abstract specification: effects happen at most once, a verdict is given once and is final, and only a call
whose fate is unknown may still be charged. `KeepsPromise` states the refinement.

### Pagination

The generator's frame is explicit (`new`, `suspended`, `fetching`, `finished`), with Python's rules:
one caller at a time ("already executing" for the others), an exception that leaves the frame
finishes it, `close()` finishes it. `FirstNext`, `YieldNext`, `NextPage` and `Stop` are the four
ways a `next()` can go; `FetchReturns` and `FetchRaises` end a page's request. At the gateway a report is a
sequence of records to which new ones are appended and from which any record may go (it stops matching the
filters). `GatewayAnswers` takes a slice of it at some moment between the request and its
return, again for each attempt of the transport.

A page is found by its offset, so a record that goes between two pages moves those behind it up and
one of them is skipped. That is the SDK's behaviour and `CleanEndIsComplete` says exactly what is left: a clean
end misses at most one record for each that went. The order is an assumption: the
repository does not say how `query.php` sorts a report. If new records came first, each of them would
repeat a record of the page before and `YieldsInOrder` would be false.

### QueryReply, Report

`QueryReply` has one operator per function of `_xml.py`, on trees of elements, and the models of
`models/query.py` as sets of fields with `model_validate` as what it does to a record: reject one whose declared
fields have another shape, else add defaults and keep what is not declared. `Report` is `Pagination` with bodies in
the place of pages. The gateway renders the slice as XML (`Render`, with or without a wrapper element) or sends
`<error_response>`; a proxy sends a page of its own; `FetchPage` is what the closure `fetch` makes of the
body. `ImplementsPagination` states that this is still `Pagination`: whatever comes back, a page
that is yielded is one the gateway answered, whole. `RecordsArrive` follows the fields through
rendering, parsing and validation.

`_element_to_record` calls itself for children of any depth. Here it is unrolled: `ElementToRecord` for a
record, `PartToRecord` for an action, a product or a nested record, whose own children are taken to be texts. The
models declare nothing deeper. `Content` is any set of records within that bound which XML can express
(`ContentAssumption`): no field is named like a repeated element, no list is empty, and no field has the tag of its
own report or of an error, which `findall("./*/...")` would take for a record or an error
if there is no wrapper.

A report can end with any exception that comes out of `fetch()`: the SDK's own from the transport
(`TransportClasses`) or the parser (`ReplyClasses`), pydantic's, or one that the transport's `except` clause does not
catch. The last kind is the constant `Uncaught`, of which it is only assumed that it has none of the others
(`UncaughtAssumption`); MCReport has a body that cannot be decoded, redirects, a closed httpx client, a
cancellation and Ctrl-C in it. `GatewayErrorsAreTold` says in both directions which reply ends a report with which of the
parser's classes: a refusal is told unless an exception from below the parser came first, and no page of
records is taken for a refusal.

A record that its model rejects raises pydantic's `ValidationError`, which is not a `KicbacError`
although `errors.py:41` calls that the base of all the SDK's errors; the model has it as a class of its
own. A subscription whose `<plan/>` is empty is such a record, and MCReport has one.

### Reconcile

A merchant with one order follows what the SDK says: `Submit` a payment; read its result or exception as `Verdict`
of `TransactCall` does (`Learn`); if the order is known to be charged, stop; if it is known not to be,
submit again or stop; if neither, look for it with `client.query` (`Ask`) and decide by what the report
holds (`LearnReport`); if the query fails, ask again. The calls are those of `Transport`, with all their
failures and late processing.

`ChargedOnce` needs one thing the SDK cannot give: that a payment which reached the gateway has been carried
out or dropped by the time the gateway answers a query about the order (`Settles`, in `Handle`). With
`Settles = FALSE` TLC finds the order charged twice: the payment's reply is lost, the query is answered
before the gateway processes the payment, the merchant submits again, and both payments are carried
out. The README's advice (`src/sdk-python/README.md:79-81`) does not mention it. The report is taken as
`Report` leaves it, with one exception: if a proxy's error page is well-formed XML, the report looks empty
(below), and a merchant who submits again on that ground may charge twice. `EmptyBody` therefore stands
for an answer of the gateway.

### Encode, Requests

`Requests` is a table with a row per method (selector field and value, required and optional
arguments, dicts it takes) and the common shape of the builders: checks, selector, arguments under
their gateway names, then `update()` with billing, shipping, merchant-defined fields and
`extra_params`, in the code's order (`Updated` is `dict.update`). `SourceError`, `ScheduleError`, the checks of
`Encode` and `Errors` are the checks in the order in which they are made. A field's value is a record that says where it comes from,
so that a field that is overwritten shows. Names of arguments and fields are written out, also the twenty `merchant_defined_field_` names, so that
their being different is a matter of fact. `Encode` has the checks of `_encode.py` on abstract values: an
amount (`AmountValues`) is its kind, integer part, fraction and number of places, of which `MaxPlaces` bounds the
last; strings are the cases the checks tell apart. Leading zeros within the eight digits that the regular expression
allows are sent as they are and are the same amount, so the model does not tell `"007.50"` from `"7.50"`.

### Webhooks

`ConstructEvent` makes the checks of `construct_event` in its order, over perfect HMAC. Deliveries are
messages with a nonce each; the gateway delivers an event until a delivery is answered with 200 or it
gives up. Handlers follow the FastAPI example of the README: verify, answer 400 on the two
exceptions, deduplicate on `event_id`, act, answer 200. The README only says "deduplicate"; that acting
and recording the `event_id` is one transaction is an assumption on the merchant, and without it no
handler can have `AppliedOnce` and `AckedIsApplied` at the same time. `ReceiveDamaged` hands the handler
what frameworks and proxies make of a delivery (JSON serialised anew, a `str`, a dropped or cut header, no
key), `Crash` ends a handler between any two steps, `Lose` loses a delivery, and the signing key may be
changed at the gateway before it is at the merchant.

### Client, Deadline

`Client` follows several client objects through construction (explicit key, environment, refused),
calls and closing, on httpx clients of their own or of the merchant's; `base_url`, `max_retries` and `timeout`, which
are only handed on, are left out. `Deadline` is the retry loop for
one call with a clock: each httpx operation has its own timeout, the reply comes in up to `MaxParts`
parts with a timeout each, the sleeps are at most `MaxBackoff`.

## Runs

| Run | Instance and bounds | What it shows |
|---|---|---|
| `transport` | a transact call and a query, one connection, `MaxRetries = 2` (the default) | `NoDoubleCharge`, `SafeToResubmit`, `TextTellsTheLedger`, `NeverRetriedOnceSent`, the refinement `KeepsPromise`, and under fairness `EveryCallReturns` |
| `outcome` | every response value, codes on both sides of every boundary, fields missing and doubled | `RaisesAsDocumented`, `ParsersAgree` |
| `reconcile` | two payments, two queries, one retry each, one connection, six answers | `ChargedOnce`, `MerchantIsRight` |
| `pagination` | two consumers, pages of 2, up to 5 records, any of which may go | `YieldsInOrder`, `CleanEndIsComplete`, `FetchesLazily`, and under fairness `IterationEnds` |
| `report` | five reports, one consumer, pages of 2, up to 3 records of all shapes, two refusals, a DOCTYPE and a page that is no XML | `ImplementsPagination`, `GatewayErrorsAreTold`, `RecordsArrive` |
| `requests` | 29 methods with every pair of optional arguments and colliding dicts, boundary values of every check | `AmountsAreExact`, `OneScheduleStyle`, `OnePaymentSource`, `ArgumentsArrive`, `ExtraParamsArrive` |
| `webhooks` | two events (one unusable), two handlers, two keys, two deliveries, one fault | `VerifiedBytesWereSent`, `GenuineIsRecognised`, `AppliedOnce`, `AckedIsApplied`, and under fairness `EveryEventIsApplied` |
| `client` | two clients, one shared httpx client, two keys | `BorrowedStaysOpen`, `NoPoolIsLeaked`, `KeysAreNotMixed`, `SilentOnceClosed` |
| `deadline` | a query, defaults in units of 5 s, replies of up to 3 parts | `TimeIsAccounted`: the sum of the limits of attempts and sleeps |

Why the bounds are enough. Each transact call has its own effect, so a double charge needs one call and
two attempts; a third attempt gives the order "failed unsent, failed in flight, failed unsent"; a
competing call on a pool of one connection makes `PoolTimeout` possible. Charging an order twice needs two
payments, and a query between them that fails and is asked again needs two queries. The theorems below
cover all sizes of these models and of `pagination`, `report`, `webhooks`, `client` and `deadline`. Two consumers make the races on an iterator in
`pagination`; `report` is about bodies and needs one. Five records and pages of two give reports that end inside a page, at the end of a page and
grow across that border. Requests collide only in pairs (two arguments on one field, an argument and
a dict's key), so every pair is enough. Two handlers and two deliveries give the
duplicate that is handled at the same time and the one that comes after a crash; with one fault fewer than
deliveries redelivery can make up for it. The state of one client is only shared with another through
the environment and an httpx client.

Deadlock is checked for `client` only; in the other models everything stops when the calls are done or used
up, the report has ended or the gateway has given up.

Fairness. `Transport`: weak fairness on what the thread or task of a call does by itself, because every phase
is bounded by one of httpx's timeouts and the sleeps are finite. Nothing is assumed of the gateway, of
cancellations, or of the pool beyond its timeout. `Pagination`: weak fairness on a consumer that loops and
on fetches that return, which is what `EveryCallReturns` gives. `Webhooks`: the gateway redelivers and a
handler that runs finishes; nothing says that a delivery is not lost, and `EveryEventIsApplied` is stated for
executions in which the keys are equal throughout, since deliveries that meet the wrong key count
as faults.

## Where code and documentation disagree

Three runs check a statement of the documentation and find it violated.

- `transport_no_bytes_sent`: "no request bytes were sent" (`_transport.py:57`) is decided by the last exception
  only, so for a query that failed in flight first it is untrue. For transact calls it is true:
  `ResubmissionIsSafe`.
- `report_http_errors`: `APIError` stands for "gateway/transport problems (response=3, HTTP, parsing)"
  (`errors.py:6`), but the transport passes on the body of any status except 429 and the parser does not look at the
  root's tag, so an HTTP error page that happens to be well-formed XML ends a report as if it were
  complete. A page that is not well-formed raises `APIError`, as it should.
- `deadline_total`: "default 30s total" (`_client.py:48`) is 30 s for each operation of each attempt.

Read in the source while modelling, and not given a run of their own: "retries all transport errors"
(`_transport.py:7`) leaves out `ProxyError`, `LocalProtocolError` and `UnsupportedProtocol`; "days 0-999"
(`resources/invoices.py:26`) is checked for an `int` only, and `"1000"` is sent; `KicbacError` is called the base of every
exception (`errors.py:41`), and pydantic's `ValidationError`, httpx's exceptions that are no `TransportError` and the
`ValueError` of a superscript `response_code` (`_core.py:94`) escape; the message "after the request was
sent" (`_transport.py:61`) is also used for transport errors that come before the first byte, which
errs on the safe side; the docstring of `APIConnectionError` (`errors.py:105`) says that for `transact.php` it is
only raised when nothing was sent or retries were exhausted, and two lines on allows for what really
happens; `encode_amount` says it returns the x.xx form (`_encode.py:26`) and passes the str `"5"` through;
the OpenAPI description's values of `customer_vault` (`src/openapi/kicbac.openapi.yaml:750`) lack
`add_billing`, `update_billing` and `delete_billing`, which the SDK sends.

## Proofs

`TransactCallProofs` holds for every set of calls, every `MaxRetries` up to 1024, every pool size and every set of
answers in which 429 does not charge (`CallsAssumption`, `MaxRetriesAssumption`, `PoolSizeAssumption`,
`AnswersAssumption`). Its first part is about the transport. The inductive invariant `IInv` is needed because none
of the properties is inductive:

- `BackoffInv`: a call sleeps only with an attempt left, which carries the guard of the `except` clause over
  to `attempt += 1`.
- `SentOnce`: a transact call whose bytes were written wrote them in its current attempt and is in `read` or
  `done`. This is the retry policy: every error that is retried on `transact.php` comes before the first byte
  (`TransactRetry`).
- `GatewayInv`: the gateway has and processes only what was written, once.
- `ReplyInv`: a reply on its way tells the effect of the attempt that waits for it.
- `OutcomeInv`: what a call told its caller was true; that it stays true is `FinishedIsStable`.

From it: `TypeCorrect`, `DoubleChargeFreedom`, `ResubmissionIsSafe`, `TextIsTruthful`, and the action property
`NoRetryAfterSend`.

The second part adds that the gateway says what it did (`TruthfulGateway`: response=1 stands for an
effect, 2 and 3 for none) and proves lemmas about the parsers (a result's class determines the response field),
`VerdictSoundness`, and `PromiseIsKept`: every step of the transport is a step of `ChargePromise` or
leaves its variables unchanged. No invariant of its own is needed.

`OutcomeProofs` holds for every set of bodies whose response codes are numbers, no numbers, or refused by `int()`
(`BodiesAssumption`). Parsing is one step, so the invariant only says what was parsed, and the
work is in the operators: that the last value of a name, which the parser and the expectation define in different
ways, is one value (`ParsedIsLast`, by the principle that a set of numbers has a smallest and a largest member), that the
classifier's ranges and the vendored table give each code the documented class (`ClassOfCode`), and that the two
builders branch on the same fields (`BuildersAgree`). From these: `TaxonomyIsKept`, `FamiliesAgree`.

`ReconcileProofs` holds for every number of payments, queries and retries; `OrderIsChargedOnce` and
`MerchantKnows` assume `Settles`. `OrderInv`
adds to the invariant of the transport what is true at each stage of the merchant (`StageInv`): before a submission and
after giving up nothing is charged and nothing pending (`Untouched`); from then on, all that is charged or
pending belongs to one payment (`BelongsTo`); and what a query's answer says of the order stays true while it is on its
way (`ReportTells`). `Submit` is the step that needs it: without "nothing is pending" a second payment
could be carried out next to the first. The step `Learn` rests on `VerdictsSound` of `TransactCallProofs`.
`OrderTypeCorrect` does without `Settles`: that a merchant has at most one call under way, of the kind its stage says, is
the merchant's own doing, and `TurnInv` is the part of the invariant that shows it.

`ReportProofs` has two parts. The first, about `Pagination`, holds for every page size of at least 1, every set of
consumers and every bound on records.
Its invariant (`IInv`) says that the records are increasing and those that matched from the start are
still there or in `removed` (`GatewayInv`); that `page * PageSize + index` records were yielded, all before
what is still to come (`FetchingInv`, `SuspendedInv`); and that of the records before the next page's
offset, at most as many were not seen as were removed (`Unseen`, in `PageInv` and `FetchingInv`). The last part is what
`CleanEndIsComplete` needs: a removal moves the records behind it up by one place, so it can hide at most
one. From it: `TypeCorrect`, `OrderedYield`, `Completeness`, `Laziness`.

The second part, about `Report`, holds for every such `Content` and every set of uncaught exceptions
(`UncaughtAssumption`) as well. It first shows that parsing undoes
rendering: `PartArrives` and `RecordArrives` for a record (each field is the only child with its tag, the items of
a list are the children with its tag in their order, by `ChildrenAreItems`), `PageParsed` for a page with or without a
wrapper, `ErrorRaises` for the replies that carry no page. `ModelIsWhole` says that validation loses nothing and adds
only defaults, and `NumberIs` that a model tells which record it was built from. `ReportInv` adds to `IInv` what the reply
has to do with the answer, and the class that ended the iteration with the reply (`BodyInv`), what the models have to do with the page (`ModelsInv`) and that all numbers of
records are numbers `Content` knows (`NumbersInv`); with it, every step of `Report` is one of `Pagination` or a
stutter (`ReportInductive`), so that `IInv` carries over. From this: `ReportTypeCorrect`, `ErrorsAreTold`,
`RecordsAreWhole`, `ReportImplementsPagination`. All four assume `NoXmlPages`, that a proxy's error page is
no XML: where it is, it passes for an empty page, as the run `report_http_errors` shows.

`WebhooksProofs` holds for every number of events, handlers, deliveries, faults and every set of keys. It assumes
that a missing key is not a key (`KeysAssumption`) and, as the model does, that HMAC is perfect. `SignedInv`: the
gateway signs raw bytes only, and each signature on the network is one it made. `HandlerInv`: what a handler knows
of its delivery is what `construct_event` said of that body, header and key, and once it has handled an
event, the event is in the merchant's table. `LedgerInv`: an event was acted on exactly once if it is in the table,
else never, and whatever was acknowledged is in it. `VerifiedIsSent` and `SentIsVerified` say of
`ConstructEvent` alone that it lets through the gateway's bytes and nothing else. From these: `TypeCorrect`,
`OnlySignedBytesPass`, `SignedBytesPass`, `NoEventTwice`, `NoEventDropped`.

`ClientProofs` holds for every set of clients, keys and shared httpx clients, if the merchant's httpx clients are not
those the SDK makes and neither `None` nor the empty string counts as a key (`ConstantsAssumption`). `BorrowedStaysOpen` and
`NoPoolIsLeaked` are not inductive without `HttpInv`, which ties `_owns_client` to the identity of the httpx
client that `close()` will close; `KeysAreNotMixed` needs `KeyInv` (a client's key is the one its
constructor chose) and `RequestInv` (a request's key is its client's). From these: `TypeCorrect`,
`BorrowedIsNeverClosed`, `PoolsAreClosed`, `KeysStayApart`, and the action property `ClosedIsSilent`.

`DeadlineProofs` holds for all timeouts, numbers of retries and parts of a reply (`TimesAssumption`). `TimeIsAccounted` is
inductive together with the types, since it says for each operation how much of the bound the operations before
it left. `Bound` is its consequence for a whole call: `MaxRetries + 1` attempts, each of them a wait for the pool,
a connection, a write and up to `MaxParts` reads, and `MaxRetries` sleeps.

`RequestsProofs` holds for any calls that Python's argument binding lets through (`CallsAssumption`), with any values,
dicts and `extra_params`, and for amounts of up to four decimal places. `IInv` says that fields were only sent for
a call whose checks passed, and which fields those are. The rest is about the operators. A call that is
not refused passed each check (`NotRefused`, from `FirstExists`: a refusal is the first error of the list).
`RowsAreRegular` says of all 29 rows what the builders rely on: no method has two arguments for one
field, a dict's names are apart from the arguments of the methods that take it (an invoice's email excepted), and only
plans and a subscription's update have a schedule. `FieldIsInjective` lifts this to the gateway's names, and `ParamsAt`
says for each field which of the `update()`s had the last word. From these: `TypeCorrect`, `NoAmountIsRounded`,
`ScheduleIsWhole`, `SourceIsNamed`, `NoArgumentIsLost`, `ExtraParamsWin`. Of `encode_amount` alone,
`AcceptedAmountsAreExact` says that what it sends is the number it was given (`CutIsExact` for the digits that `quantize`
drops).

Only model-checked: liveness (`EveryCallReturns`, `IterationEnds`, `EveryEventIsApplied`), which is out of the
prover's reach. Every invariant and action property and both refinements are proved.

## Plan

Done: every component is checked, and every property of the runs but liveness is proved.

Left: the fields that results copy from replies, if the SDK comes to compute with them.

## Not modelled

- Redaction (`_redact.py`): a masking of texts by regular expressions that error constructors apply. It has no state
  and nothing depends on its result; what could be wrong with it is a matter of characters, and a model
  that keeps the characters would repeat the code.
- Result fields (`models/results.py`): which class is built from which reply is in `Outcome`; the fields that
  are copied from the reply are not.
- What the gateway reports when `extra_params` ask for another `report_type`, a cap of its own on
  `result_limit`, and its order of records: the repository states none of them.
- `backoff_delay` beyond 1024 attempts, and JSON nested deeply enough for a `RecursionError` in `construct_event`:
  too large for an instance (the second is listed as a hazard).
- Exports, metadata, `src/openapi/`: no behaviour.
- String-level details (digits of other scripts, percent-encoding, XML syntax), the wording of
  messages, logging.
