----------------------------- MODULE Pagination -----------------------------
(***************************************************************************)
(* A query report: the generator paginate (or paginate_async) of           *)
(* kicbac/_pagination.py over Query._fetch_records, which asks query.php   *)
(* for one page at a time while the report's records keep growing.         *)
(*                                                                         *)
(* Several consumers may share the iterator.  Python runs a generator's    *)
(* frame for one caller at a time: a second caller gets an exception       *)
(* ("generator already executing") and an exception that leaves the frame  *)
(* finishes the generator for good.                                        *)
(*                                                                         *)
(* The gateway answers a page with the slice of the records that match     *)
(* when it handles the request, at any time between the request and its    *)
(* return, and anew for each attempt of the transport.  New records come   *)
(* last; a record may cease to match (a transaction is settled, an invoice *)
(* is paid), and those behind it move up.                                  *)
(***************************************************************************)
EXTENDS Integers, Sequences, FiniteSets

CONSTANTS
  Consumers,   \* threads or tasks that call next() on the one iterator
  PageSize,    \* page_size, sent as result_limit
  MaxRecords   \* bound on the records that ever match

\* _check_page_size rejects anything smaller.
ASSUME PageSizeAssumption == PageSize \in Nat \ {0}

ASSUME MaxRecordsAssumption == MaxRecords \in Nat

VARIABLES
  records,   \* the records that match the report's filters, at the gateway
  born,      \* how many ever did; record number born was the last one
  answer,    \* the gateway's answer to the current request: <<>>, or <<slice>>
  gen,       \* the frame: see GenStates
  runner,    \* the consumer for which the frame is fetching, or NoOne
  page,      \* page_number
  batch,     \* the page that is being yielded
  index,     \* how many records of it were yielded
  told,      \* told[c]: what the last next() of c gave
  yielded,   \* history: the records yielded, to whomever
  atStart,   \* history: the records that matched when the first next() came
  removed,   \* history: the records that ceased to match since then
  cut        \* history: an exception left the frame

gateway == <<records, born, removed>>
frame == <<gen, runner, page, batch, index>>
vars == <<gateway, answer, frame, told, yielded, atStart, cut>>

\* "new" and "suspended" frames wait for next(), a "fetching" frame for the
\* gateway; nothing runs a "finished" frame again.
GenStates == {"new", "suspended", "fetching", "finished"}
Tellings == {"nothing", "waiting", "item", "stop", "error", "busy"}
NoOne == "no one"

ASSUME NoOneAssumption == NoOne \notin Consumers

Init ==
  /\ born \in 0..MaxRecords
  /\ records = [i \in 1..born |-> i]
  /\ removed = {}
  /\ answer = <<>>
  /\ gen = "new"
  /\ runner = NoOne
  /\ page = 0
  /\ batch = <<>>
  /\ index = 0
  /\ told = [c \in Consumers |-> "nothing"]
  /\ yielded = <<>>
  /\ atStart = {}
  /\ cut = FALSE

Tell(c, what) == told' = [told EXCEPT ![c] = what]

\* The set of records that match.
Records == {records[i] : i \in 1..Len(records)}

\* The records a page holds: _fetch_records(page_size, page_number).
Slice(n) ==
  LET first == n * PageSize + 1
      last  == IF (n + 1) * PageSize <= Len(records)
               THEN (n + 1) * PageSize ELSE Len(records)
  IN  SubSeq(records, first, last)

\* A full page taken for the last one.
IsLast_mut(b) == Len(b) <= PageSize

\* if len(batch) < page_size: return
IsLast(b) == Len(b) < PageSize

-----------------------------------------------------------------------------

\* A record that matches comes into being.
AppendRecord ==
  /\ born < MaxRecords
  /\ born' = born + 1
  /\ records' = Append(records, born + 1)
  /\ UNCHANGED <<removed, answer, frame, told, yielded, atStart, cut>>

\* A sequence without its i-th element.
Without(seq, i) == [j \in 1..Len(seq) - 1 |-> seq[IF j < i THEN j ELSE j + 1]]

\* The i-th record does not match any more.
RemoveRecord(i) ==
  /\ records' = Without(records, i)
  /\ removed' = IF gen = "new" THEN removed ELSE removed \cup {records[i]}
  /\ UNCHANGED <<born, answer, frame, told, yielded, atStart, cut>>

\* The gateway handles an attempt of the current request.
GatewayAnswers ==
  /\ gen = "fetching"
  /\ answer' = <<Slice(page)>>
  /\ UNCHANGED <<gateway, frame, told, yielded, atStart, cut>>

\* The frame asks for page n on behalf of c.
Fetch(c, n) ==
  /\ gen' = "fetching"
  /\ runner' = c
  /\ page' = n
  /\ Tell(c, "waiting")
  /\ UNCHANGED <<gateway, answer, batch, index, yielded, cut>>

\* The first next(): nothing was sent before it.
FirstNext(c) ==
  /\ gen = "new"
  /\ atStart' = Records
  /\ Fetch(c, 0)

\* next() while a record of the page is left.
YieldNext(c) ==
  /\ gen = "suspended"
  /\ index < Len(batch)
  /\ index' = index + 1
  /\ yielded' = Append(yielded, batch[index + 1])
  /\ Tell(c, "item")
  /\ UNCHANGED <<gateway, answer, gen, runner, page, batch, atStart, cut>>

\* page_number += 1 is missing.
NextPage_mut(c) ==
  /\ gen = "suspended"
  /\ index = Len(batch)
  /\ ~IsLast(batch)
  /\ Fetch(c, page)
  /\ UNCHANGED atStart

\* The next page is fetched before this one is exhausted.
NextPage_eager_mut(c) ==
  /\ gen = "suspended"
  /\ ~IsLast(batch)
  /\ Fetch(c, page + 1)
  /\ UNCHANGED atStart

\* next() after the last record of a full page: page_number += 1 and fetch.
NextPage(c) ==
  /\ gen = "suspended"
  /\ index = Len(batch)
  /\ ~IsLast(batch)
  /\ Fetch(c, page + 1)
  /\ UNCHANGED atStart

\* next() after the last record of a page that was not full, or after the end.
Stop(c) ==
  /\ \/ gen = "suspended" /\ index = Len(batch) /\ IsLast(batch)
     \/ gen = "finished"
  /\ gen' = "finished"
  /\ Tell(c, "stop")
  /\ UNCHANGED <<gateway, answer, runner, page, batch, index, yielded, atStart, cut>>

\* The second consumer waits as well, and nobody will ever answer it.
AlreadyExecuting_mut(c) ==
  /\ gen = "fetching"
  /\ runner # c
  /\ Tell(c, "waiting")
  /\ UNCHANGED <<gateway, answer, frame, yielded, atStart, cut>>

\* next() while the frame runs for another consumer.
AlreadyExecuting(c) ==
  /\ gen = "fetching"
  /\ runner # c
  /\ Tell(c, "busy")
  /\ UNCHANGED <<gateway, answer, frame, yielded, atStart, cut>>

\* An empty page is asked for again instead of ending the iteration.
FetchReturns_mut(c) ==
  /\ gen = "fetching"
  /\ runner = c
  /\ answer # <<>>
  /\ answer' = <<>>
  /\ runner' = NoOne
  /\ \/ /\ answer[1] # <<>>
        /\ batch' = answer[1]
        /\ gen' = "suspended"
        /\ index' = 1
        /\ yielded' = Append(yielded, batch'[1])
        /\ Tell(c, "item")
        /\ UNCHANGED page
     \/ /\ answer[1] = <<>>
        /\ gen' = IF page = 0 THEN "new" ELSE "suspended"
        /\ page' = IF page = 0 THEN 0 ELSE page - 1
        /\ Tell(c, "nothing")
        /\ UNCHANGED <<batch, index, yielded>>
  /\ UNCHANGED <<gateway, atStart, cut>>

\* The frame gets slice for c: its first record is yielded, or an empty page
\* ends it all.
TakePage(c, slice) ==
  /\ gen = "fetching"
  /\ runner = c
  /\ answer' = <<>>
  /\ batch' = slice
  /\ runner' = NoOne
  /\ \/ /\ batch' # <<>>
        /\ gen' = "suspended"
        /\ index' = 1
        /\ yielded' = Append(yielded, batch'[1])
        /\ Tell(c, "item")
     \/ /\ batch' = <<>>
        /\ gen' = "finished"
        /\ index' = 0
        /\ Tell(c, "stop")
        /\ UNCHANGED yielded
  /\ UNCHANGED <<gateway, page, atStart, cut>>

\* The page arrives.
FetchReturns(c) ==
  /\ answer # <<>>
  /\ TakePage(c, answer[1])

\* The fetch raises (a connection error, an unparseable reply, a record the
\* model rejects) or the task is cancelled at its await.
FetchRaises(c) ==
  /\ gen = "fetching"
  /\ runner = c
  /\ gen' = "finished"
  /\ runner' = NoOne
  /\ Tell(c, "error")
  /\ cut' = TRUE
  /\ answer' = <<>>
  /\ UNCHANGED <<gateway, page, batch, index, yielded, atStart>>

\* A consumer leaves its loop and the generator is closed: GeneratorExit.
Close ==
  /\ gen \in {"new", "suspended"}
  /\ gen' = "finished"
  /\ cut' = TRUE
  /\ UNCHANGED <<gateway, answer, runner, page, batch, index, told, yielded, atStart>>

-----------------------------------------------------------------------------

\* next(), for a consumer that is not inside an earlier one.
CallNext(c) ==
  /\ told[c] # "waiting"
  /\ \/ FirstNext(c)
     \/ YieldNext(c)
     \/ NextPage(c)
     \/ Stop(c)
     \/ AlreadyExecuting(c)

Next ==
  \/ AppendRecord
  \/ \E i \in 1..Len(records) : RemoveRecord(i)
  \/ GatewayAnswers
  \/ \E c \in Consumers : CallNext(c) \/ FetchReturns(c) \/ FetchRaises(c)
  \/ Close

Spec == Init /\ [][Next]_vars

(***************************************************************************)
(* A for loop calls next() until it is told to stop, and a fetch returns   *)
(* or raises: the transport gives up after a bounded number of attempts    *)
(* (EveryCallReturns of module Transport).  Nothing is assumed of the      *)
(* gateway.                                                                *)
(***************************************************************************)
FairSpec ==
  /\ Spec
  /\ \A c \in Consumers :
       WF_vars(CallNext(c)) /\ WF_vars(FetchReturns(c) \/ FetchRaises(c))

-----------------------------------------------------------------------------
(***************************************************************************)
(* Properties                                                              *)
(***************************************************************************)

\* Types; a frame that fetches does so for someone who waits, and index stays
\* inside the page.
TypeOK ==
  /\ records \in Seq(Nat)
  /\ born \in Nat
  /\ answer \in Seq(Seq(Nat)) /\ Len(answer) <= 1
  /\ gen \in GenStates
  /\ runner \in Consumers \cup {NoOne}
  /\ page \in Nat
  /\ batch \in Seq(Nat)
  /\ index \in 0..Len(batch)
  /\ told \in [Consumers -> Tellings]
  /\ yielded \in Seq(Nat)
  /\ atStart \in SUBSET Nat
  /\ removed \in SUBSET Nat
  /\ cut \in BOOLEAN
  /\ gen = "fetching" <=> runner # NoOne
  /\ \A c \in Consumers : told[c] = "waiting" <=> runner = c

\* However the pages interleave with records that come and go, and however
\* many consumers share the iterator, the records come out in their order and
\* none comes out twice.
YieldsInOrder == \A i, j \in 1..Len(yielded) : i < j => yielded[i] < yielded[j]

Yielded == {yielded[i] : i \in 1..Len(yielded)}

\* The records that matched from the first next() on and were not yielded.
Missed == (atStart \ removed) \ Yielded

\* An iteration that ends by itself, and was not cut short for anyone, misses
\* at most one record for each record that ceased to match while it was under
\* way (each page's offset is counted anew); if none did, it is complete.
CleanEndIsComplete ==
  gen = "finished" /\ ~cut => Cardinality(Missed) <= Cardinality(removed)

\* "fetch page N+1 only after page N is exhausted and only if page N was full"
\* (_pagination.py:12): when page n is asked for, all records of the n pages
\* before it have been yielded and nothing else.
FetchesLazily == gen = "fetching" => Len(yielded) = page * PageSize

\* A consumer loop over a report ends: the chain of pages stops at the first
\* page that is not full, even if records are appended meanwhile.
IterationEnds == <>(gen = "finished")
=============================================================================
