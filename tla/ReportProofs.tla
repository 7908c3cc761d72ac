---------------------------- MODULE ReportProofs ----------------------------
(***************************************************************************)
(* Theorems about Pagination and Report, for every page size, any number   *)
(* of consumers, and of records that come and go with any content that     *)
(* XML can say.                                                            *)
(*                                                                         *)
(* The inductive invariant of Pagination relates the position of the frame *)
(* to what was yielded (page * PageSize records before the current page,   *)
(* index of it), says that whatever the frame has or had is ordered before *)
(* the records behind its position, and counts the records that moved up   *)
(* past that position without being seen: never more than were removed.    *)
(*                                                                         *)
(* For Report it is first shown that the parser gets every page back that  *)
(* the gateway renders, field by field and item by item.  Its invariant    *)
(* adds what the body and the models have to do with the page; a step of   *)
(* Report is then a step of Pagination or a stutter, and what is proved of *)
(* Pagination carries over.                                                *)
(***************************************************************************)
EXTENDS Report, FiniteSetTheorems, SequenceTheorems, WellFoundedInduction, TLAPS

-----------------------------------------------------------------------------
(***************************************************************************)
(* Pagination                                                              *)
(***************************************************************************)

\* Records before the current page, and up to its end.
Offset == page * PageSize
End == Offset + PageSize

Elements(seq) == {seq[i] : i \in 1..Len(seq)}

Increasing(seq) == \A i, j \in 1..Len(seq) : i < j => seq[i] < seq[j]

\* All of s come before what is behind the first n elements of seq.
Before(s, seq, n) == \A x \in s : \A j \in 1..Len(seq) : n < j => x < seq[j]

\* The first n elements of seq.
Passed(seq, n) == {seq[i] : i \in {j \in 1..Len(seq) : j <= n}}

\* Those of them that are in start and not in s.
Unseen(start, seq, n, s) == (start \cap Passed(seq, n)) \ s

AtMost(s, t) == Cardinality(s) <= Cardinality(t)

-----------------------------------------------------------------------------

GatewayInv ==
  /\ Increasing(records)
  /\ \A i \in 1..Len(records) : records[i] <= born /\ records[i] \notin removed
  /\ \A r \in removed \cup atStart : r <= born
  /\ atStart \ removed \subseteq Elements(records)

\* A page the frame has or is about to get: nothing it should hold is missing
\* from it but what removals pushed before it, and the last page reaches the end.
PageInv(slice) ==
  /\ Len(slice) <= PageSize
  /\ Increasing(slice)
  /\ \A x \in Elements(slice) : x <= born
  /\ Before(Elements(slice), records, End)
  /\ AtMost(Unseen(atStart, records, End, Yielded \cup Elements(slice)), removed)
  /\ IsLast(slice) => atStart \ removed \subseteq Passed(records, End)

YieldedInv ==
  /\ YieldsInOrder
  /\ \A x \in Yielded : x <= born

NewInv ==
  gen = "new" => yielded = <<>> /\ ~cut /\ removed = {} /\ atStart = {}

FetchingInv ==
  /\ gen # "fetching" => answer = <<>>
  /\ gen = "fetching" =>
       /\ Len(yielded) = Offset
       /\ Before(Yielded, records, Offset)
       /\ AtMost(Unseen(atStart, records, Offset, Yielded), removed)
       /\ answer # <<>> =>
            /\ PageInv(answer[1])
            /\ \A x \in Yielded, y \in Elements(answer[1]) : x < y

SuspendedInv ==
  gen = "suspended" =>
    /\ Len(yielded) = Offset + index
    /\ PageInv(batch)
    /\ Before(Yielded, records, End)
    /\ \A i \in 1..Len(batch) :
         IF i <= index THEN batch[i] \in Yielded ELSE \A x \in Yielded : x < batch[i]

FrameInv == NewInv /\ FetchingInv /\ SuspendedInv

IInv == TypeOK /\ GatewayInv /\ YieldedInv /\ FrameInv /\ CleanEndIsComplete

-----------------------------------------------------------------------------
(***************************************************************************)
(* Sequences, and what a removal does to them                              *)
(***************************************************************************)

LEMMA OffsetType ==
  ASSUME page \in Nat
  PROVE  Offset \in Nat /\ End \in Nat /\ Offset <= End
  BY PageSizeAssumption DEF Offset, End

LEMMA AppendNumber ==
  ASSUME NEW seq \in Seq(Nat), NEW e \in Nat
  PROVE  /\ Append(seq, e) \in Seq(Nat)
         /\ Len(Append(seq, e)) = Len(seq) + 1
         /\ \A i \in 1..Len(seq) : Append(seq, e)[i] = seq[i]
         /\ Append(seq, e)[Len(seq) + 1] = e
  BY AppendProperties

LEMMA NextOffset ==
  ASSUME NEW n \in Nat
  PROVE  /\ n * PageSize \in Nat
         /\ (n + 1) * PageSize = n * PageSize + PageSize
  BY PageSizeAssumption

LEMMA SubSeqOfNumbers ==
  ASSUME NEW seq, NEW m \in Int, NEW n \in Int, \A i \in m..n : seq[i] \in Nat
  PROVE  /\ SubSeq(seq, m, n) \in Seq(Nat)
         /\ Len(SubSeq(seq, m, n)) = IF m <= n THEN n - m + 1 ELSE 0
         /\ \A i \in 1..n - m + 1 : SubSeq(seq, m, n)[i] = seq[m + i - 1]
  BY SubSeqProperties

\* Taking the i-th element out of an increasing sequence: the others keep their
\* order, none moves back, and only element n + 1 moves up among the first n.
LEMMA WithoutProperties ==
  ASSUME NEW seq \in Seq(Nat), Increasing(seq), NEW i \in 1..Len(seq)
  PROVE  /\ Without(seq, i) \in Seq(Nat)
         /\ Len(Without(seq, i)) = Len(seq) - 1
         /\ Increasing(Without(seq, i))
         /\ Elements(Without(seq, i)) = Elements(seq) \ {seq[i]}
         /\ \A n \in Nat :
              /\ Passed(Without(seq, i), n) \subseteq Passed(seq, n) \cup {seq[n + 1]}
              /\ Passed(seq, n) \ {seq[i]} \subseteq Passed(Without(seq, i), n)
         /\ \A n \in Nat, s \in SUBSET Nat :
              Before(s, seq, n) => Before(s, Without(seq, i), n)
<1> DEFINE t == Without(seq, i)
           At(j) == IF j < i THEN j ELSE j + 1
<1>1. /\ Len(seq) \in Nat /\ Len(seq) - 1 \in Nat
      /\ \A j \in 1..Len(seq) - 1 : At(j) \in 1..Len(seq) /\ At(j) # i /\ t[j] = seq[At(j)]
      /\ DOMAIN t = 1..Len(seq) - 1
  BY DEF Without
<1>2. t \in Seq(Nat) /\ Len(t) = Len(seq) - 1
  BY <1>1 DEF Without
<1>3. \A j, k \in 1..Len(seq) - 1 : j < k => At(j) < At(k)
  OBVIOUS
<1>4. \A k \in 1..Len(seq) : k # i =>
        \E j \in 1..Len(seq) - 1 : At(j) = k /\ j <= k
  <2> SUFFICES ASSUME NEW k \in 1..Len(seq), k # i
               PROVE  \E j \in 1..Len(seq) - 1 : At(j) = k /\ j <= k
    OBVIOUS
  <2>1. CASE k < i
    <3>1. k \in 1..Len(seq) - 1 /\ At(k) = k
      BY <1>1, <2>1
    <3> QED
      BY <3>1
  <2>2. CASE k > i
    <3>1. k - 1 \in 1..Len(seq) - 1 /\ At(k - 1) = k /\ k - 1 <= k
      BY <1>1, <2>2
    <3> QED
      BY <3>1
  <2> QED
    BY <2>1, <2>2
<1>5. \A j \in 1..Len(seq) - 1 : j <= At(j) /\ At(j) <= j + 1
  OBVIOUS
<1> HIDE DEF t, At
<1>6. Increasing(t)
  BY <1>1, <1>2, <1>3 DEF Increasing
<1>7. \A j \in 1..Len(t) : t[j] \in Elements(seq) \ {seq[i]}
  <2> SUFFICES ASSUME NEW j \in 1..Len(t)
               PROVE  t[j] \in Elements(seq) \ {seq[i]}
    OBVIOUS
  <2>1. At(j) \in 1..Len(seq) /\ At(j) # i /\ t[j] = seq[At(j)]
    BY <1>1, <1>2
  <2>2. seq[At(j)] # seq[i] /\ seq[At(j)] \in Nat /\ seq[i] \in Nat
    BY <2>1 DEF Increasing
  <2> QED
    BY <2>1, <2>2 DEF Elements
<1>8. Elements(t) = Elements(seq) \ {seq[i]}
  <2>1. Elements(t) \subseteq Elements(seq) \ {seq[i]}
    BY <1>7 DEF Elements
  <2>2. ASSUME NEW k \in 1..Len(seq), seq[k] # seq[i]
        PROVE  seq[k] \in Elements(t)
    <3>1. PICK j \in 1..Len(seq) - 1 : At(j) = k
      BY <1>4, <2>2
    <3> QED
      BY <1>1, <1>2, <3>1 DEF Elements
  <2> QED
    BY <2>1, <2>2 DEF Elements
<1>9. ASSUME NEW n \in Nat
      PROVE  /\ Passed(t, n) \subseteq Passed(seq, n) \cup {seq[n + 1]}
             /\ Passed(seq, n) \ {seq[i]} \subseteq Passed(t, n)
  <2>1. ASSUME NEW j \in 1..Len(t), j <= n
        PROVE  t[j] \in Passed(seq, n) \cup {seq[n + 1]}
    <3>1. j \in 1..Len(seq) - 1 /\ j \in Nat
      BY <1>1, <1>2
    <3>2. At(j) \in 1..Len(seq) /\ t[j] = seq[At(j)] /\ j <= At(j) /\ At(j) <= j + 1
      BY <1>1, <1>5, <3>1
    <3>3. At(j) <= n \/ At(j) = n + 1
      BY <2>1, <3>1, <3>2
    <3> QED
      BY <3>2, <3>3 DEF Passed
  <2>2. ASSUME NEW k \in 1..Len(seq), k <= n, seq[k] # seq[i]
        PROVE  seq[k] \in Passed(t, n)
    <3>1. PICK j \in 1..Len(seq) - 1 : At(j) = k /\ j <= k
      BY <1>4, <2>2
    <3>2. t[j] = seq[k]
      BY <1>1, <3>1
    <3>3. j \in 1..Len(t)
      BY <1>2, <3>1
    <3>4. j <= n
      <4>1. j \in Nat /\ k \in Nat /\ j <= k
        BY <1>1, <3>1
      <4> QED
        BY <2>2, <4>1
    <3> QED
      BY <3>2, <3>3, <3>4 DEF Passed
  <2> QED
    BY <2>1, <2>2 DEF Passed
<1>10. ASSUME NEW n \in Nat, NEW s \in SUBSET Nat, Before(s, seq, n)
       PROVE  Before(s, t, n)
  <2> SUFFICES ASSUME NEW x \in s, NEW j \in 1..Len(t), n < j
               PROVE  x < t[j]
    BY DEF Before
  <2>1. j \in 1..Len(seq) - 1 /\ j \in Nat
    BY <1>1, <1>2
  <2>2. At(j) \in 1..Len(seq) /\ t[j] = seq[At(j)] /\ j <= At(j)
    BY <1>1, <1>5, <2>1
  <2>3. n < At(j)
    BY <2>1, <2>2
  <2> QED
    BY <1>10, <2>2, <2>3 DEF Before
<1> QED
  BY <1>2, <1>6, <1>8, <1>9, <1>10 DEF t

\* A set that gets at most one element larger stays within the size of one that
\* gets a new element.
LEMMA OneMore ==
  ASSUME NEW s, NEW u, NEW t, NEW x, NEW y, IsFiniteSet(s), IsFiniteSet(t),
         u \subseteq s \cup {x}, y \notin t, AtMost(s, t)
  PROVE  AtMost(u, t \cup {y})
<1>1. IsFiniteSet(s \cup {x}) /\ Cardinality(s \cup {x}) <= Cardinality(s) + 1
  <2>1. Cardinality(s) \in Nat
    BY FS_CardinalityType
  <2>2. /\ IsFiniteSet(s \cup {x})
        /\ Cardinality(s \cup {x}) = IF x \in s THEN Cardinality(s) ELSE Cardinality(s) + 1
    BY FS_AddElement
  <2> QED
    BY <2>1, <2>2
<1>2. IsFiniteSet(u) /\ Cardinality(u) <= Cardinality(s \cup {x})
  BY <1>1, FS_Subset
<1>3. Cardinality(t \cup {y}) = Cardinality(t) + 1
  BY FS_AddElement
<1> QED
  BY <1>1, <1>2, <1>3, FS_CardinalityType DEF AtMost

LEMMA NoMore ==
  ASSUME NEW s, NEW u, NEW t, IsFiniteSet(s), IsFiniteSet(t), u \subseteq s, AtMost(s, t)
  PROVE  AtMost(u, t)
<1>1. IsFiniteSet(u) /\ Cardinality(u) <= Cardinality(s)
  BY FS_Subset
<1> QED
  BY <1>1, FS_CardinalityType DEF AtMost

LEMMA AppendKeeps ==
  ASSUME NEW seq \in Seq(Nat), Increasing(seq), NEW e \in Nat,
         \A i \in 1..Len(seq) : seq[i] < e
  PROVE  /\ Append(seq, e) \in Seq(Nat)
         /\ Increasing(Append(seq, e))
         /\ Elements(Append(seq, e)) = Elements(seq) \cup {e}
         /\ \A n \in Nat :
              /\ Passed(Append(seq, e), n) \subseteq Passed(seq, n) \cup {e}
              /\ Passed(seq, n) \subseteq Passed(Append(seq, e), n)
         /\ \A n \in Nat, s \in SUBSET Nat :
              Before(s, seq, n) /\ (\A x \in s : x < e) => Before(s, Append(seq, e), n)
<1> DEFINE t == Append(seq, e)
<1>1. /\ t \in Seq(Nat) /\ Len(t) = Len(seq) + 1
      /\ \A i \in 1..Len(seq) : t[i] = seq[i]
      /\ t[Len(seq) + 1] = e
  BY AppendNumber
<1> HIDE DEF t
<1>2. \A j \in 1..Len(t) :
        \/ j \in 1..Len(seq) /\ t[j] = seq[j]
        \/ j = Len(seq) + 1 /\ t[j] = e
  BY <1>1
<1>3. Increasing(t)
  <2> SUFFICES ASSUME NEW j \in 1..Len(t), NEW k \in 1..Len(t), j < k
               PROVE  t[j] < t[k]
    BY DEF Increasing
  <2>1. j \in 1..Len(seq) /\ t[j] = seq[j]
    BY <1>1, <1>2
  <2>2. CASE k \in 1..Len(seq)
    BY <1>1, <2>1, <2>2 DEF Increasing
  <2>3. CASE k = Len(seq) + 1
    BY <1>1, <2>1, <2>3
  <2> QED
    BY <1>2, <2>2, <2>3
<1>4. Elements(t) = Elements(seq) \cup {e}
  <2>1. Len(seq) + 1 \in 1..Len(t) /\ \A i \in 1..Len(seq) : i \in 1..Len(t)
    BY <1>1
  <2> QED
    BY <1>1, <1>2, <2>1 DEF Elements
<1>5. ASSUME NEW n \in Nat
      PROVE  /\ Passed(t, n) \subseteq Passed(seq, n) \cup {e}
             /\ Passed(seq, n) \subseteq Passed(t, n)
  <2>1. \A i \in 1..Len(seq) : i \in 1..Len(t)
    BY <1>1
  <2> QED
    BY <1>1, <1>2, <2>1 DEF Passed
<1>6. ASSUME NEW n \in Nat, NEW s \in SUBSET Nat, Before(s, seq, n), \A x \in s : x < e
      PROVE  Before(s, t, n)
  BY <1>2, <1>6 DEF Before
<1> QED
  BY <1>1, <1>3, <1>4, <1>5, <1>6 DEF t

\* What the gateway returns for page n: the records after the first
\* n * PageSize, PageSize of them or as many as there are.
LEMMA SliceProperties ==
  ASSUME records \in Seq(Nat), NEW n \in Nat
  PROVE  /\ Slice(n) \in Seq(Nat)
         /\ Len(Slice(n)) <= PageSize
         /\ \A i \in 1..Len(Slice(n)) :
              /\ n * PageSize + i \in 1..Len(records)
              /\ Slice(n)[i] = records[n * PageSize + i]
         /\ \A j \in 1..Len(records) :
              n * PageSize < j /\ j <= n * PageSize + PageSize =>
                \E i \in 1..Len(Slice(n)) : j = n * PageSize + i
         /\ Len(Slice(n)) < PageSize => Len(records) <= n * PageSize + PageSize
<1> DEFINE offset == n * PageSize
           first == offset + 1
           last == IF offset + PageSize <= Len(records)
                   THEN offset + PageSize ELSE Len(records)
<1>1. offset \in Nat /\ (n + 1) * PageSize = offset + PageSize
  BY NextOffset
<1>2. Slice(n) = SubSeq(records, first, last)
  BY <1>1 DEF Slice
<1> HIDE DEF offset
<1>3. first \in Int /\ last \in Int /\ Len(records) \in Nat /\ PageSize \in Nat \ {0}
  BY <1>1, PageSizeAssumption
<1>4. \A i \in first..last : records[i] \in Nat
  BY <1>1, <1>3
<1> DEFINE s == SubSeq(records, first, last)
<1>5. /\ s \in Seq(Nat)
      /\ Len(s) = IF first <= last THEN last - first + 1 ELSE 0
      /\ \A i \in 1..last - first + 1 : s[i] = records[first + i - 1]
  BY <1>3, <1>4, SubSeqOfNumbers
<1> HIDE DEF s
<1>6. /\ last <= Len(records) /\ last <= offset + PageSize
      /\ last < offset + PageSize => last = Len(records)
  BY <1>1, <1>3
<1> HIDE DEF last
<1>7. /\ offset < last => Len(s) = last - offset
      /\ ~(offset < last) => Len(s) = 0
  BY <1>1, <1>3, <1>5
<1>8. \A i \in 1..Len(s) : offset + i \in 1..Len(records) /\ s[i] = records[offset + i]
  <2> SUFFICES ASSUME NEW i \in 1..Len(s)
               PROVE  offset + i \in 1..Len(records) /\ s[i] = records[offset + i]
    OBVIOUS
  <2>1. i \in 1..last - first + 1 /\ first + i - 1 = offset + i /\ offset + i <= last
    BY <1>1, <1>3, <1>7
  <2> QED
    BY <1>1, <1>3, <1>5, <1>6, <2>1
<1>9. Len(s) <= PageSize /\ (Len(s) < PageSize => Len(records) <= offset + PageSize)
  BY <1>1, <1>3, <1>6, <1>7
<1>10. ASSUME NEW j \in 1..Len(records), offset < j, j <= offset + PageSize
       PROVE  \E i \in 1..Len(s) : j = offset + i
  <2>1. j - offset \in 1..Len(s) /\ j = offset + (j - offset)
    BY <1>1, <1>3, <1>6, <1>7, <1>10
  <2> QED
    BY <2>1
<1> QED
  BY <1>2, <1>5, <1>8, <1>9, <1>10 DEF offset, s
-----------------------------------------------------------------------------
(***************************************************************************)
(* The steps of the gateway                                                *)
(***************************************************************************)

LEMMA FiniteHistory ==
  ASSUME TypeOK, GatewayInv
  PROVE  /\ IsFiniteSet(removed) /\ IsFiniteSet(atStart)
         /\ \A n, s : IsFiniteSet(Unseen(atStart, records, n, s))
<1>1. IsFiniteSet(removed) /\ IsFiniteSet(atStart)
  BY FS_BoundedSetOfNaturals DEF TypeOK, GatewayInv
<1>2. \A n, s : Unseen(atStart, records, n, s) \subseteq atStart
  BY DEF Unseen
<1> QED
  BY <1>1, <1>2, FS_Subset

\* What a change of the records leaves true of every position of the frame.
KeepsPositions ==
  \A n \in Nat, s \in SUBSET Nat :
    /\ (\A x \in s : x <= born) /\ Before(s, records, n) => Before(s, records', n)
    /\ AtMost(Unseen(atStart, records, n, s), removed) =>
         AtMost(Unseen(atStart', records', n, s), removed')
    /\ atStart \ removed \subseteq Passed(records, n) =>
         atStart' \ removed' \subseteq Passed(records', n)

LEMMA AppendRecordStep ==
  ASSUME TypeOK, GatewayInv, AppendRecord
  PROVE  records' \in Seq(Nat) /\ GatewayInv' /\ KeepsPositions
<1> DEFINE e == born + 1
<1>1. /\ records \in Seq(Nat) /\ Increasing(records) /\ e \in Nat /\ born \in Nat
      /\ \A i \in 1..Len(records) : records[i] < e /\ records[i] \in Nat
      /\ records' = Append(records, e)
      /\ removed' = removed /\ atStart' = atStart /\ born' = e
      /\ removed \in SUBSET Nat /\ atStart \in SUBSET Nat
  BY DEF TypeOK, GatewayInv, AppendRecord
<1>2. \A r \in removed \cup atStart : r < e
  BY <1>1 DEF GatewayInv
<1>3. /\ records' \in Seq(Nat)
      /\ Increasing(records')
      /\ Elements(records') = Elements(records) \cup {e}
      /\ \A n \in Nat :
           /\ Passed(records', n) \subseteq Passed(records, n) \cup {e}
           /\ Passed(records, n) \subseteq Passed(records', n)
      /\ \A n \in Nat, s \in SUBSET Nat :
           Before(s, records, n) /\ (\A x \in s : x < e) => Before(s, records', n)
  BY <1>1, AppendKeeps
<1>4. GatewayInv'
  <2>1. \A i \in 1..Len(records') : records'[i] \in Elements(records) \cup {e}
    BY <1>3 DEF Elements
  <2>2. \A x \in Elements(records) : x <= e /\ x \notin removed
    BY <1>1 DEF Elements, GatewayInv
  <2>3. \A i \in 1..Len(records') : records'[i] <= born' /\ records'[i] \notin removed'
    BY <1>1, <1>2, <2>1, <2>2
  <2>4. \A r \in removed' \cup atStart' : r <= born'
    BY <1>1, <1>2
  <2> QED
    BY <1>1, <1>3, <2>3, <2>4 DEF GatewayInv
<1>5. ASSUME NEW n \in Nat, NEW s \in SUBSET Nat
      PROVE  /\ (\A x \in s : x <= born) /\ Before(s, records, n) => Before(s, records', n)
             /\ AtMost(Unseen(atStart, records, n, s), removed) =>
                  AtMost(Unseen(atStart', records', n, s), removed')
             /\ atStart \ removed \subseteq Passed(records, n) =>
                  atStart' \ removed' \subseteq Passed(records', n)
  <2>1. (\A x \in s : x <= born) => (\A x \in s : x < e)
    BY <1>1
  <2>2. Unseen(atStart', records', n, s) \subseteq Unseen(atStart, records, n, s)
    BY <1>1, <1>2, <1>3 DEF Unseen
  <2>3. AtMost(Unseen(atStart, records, n, s), removed) =>
          AtMost(Unseen(atStart', records', n, s), removed')
    BY <1>1, <2>2, NoMore, FiniteHistory
  <2> QED
    BY <1>1, <1>3, <2>1, <2>3
<1> QED
  BY <1>3, <1>4, <1>5 DEF KeepsPositions

LEMMA RemoveRecordStep ==
  ASSUME TypeOK, GatewayInv, NEW i \in 1..Len(records), RemoveRecord(i),
         gen = "new" => atStart = {} /\ removed = {}
  PROVE  records' \in Seq(Nat) /\ GatewayInv' /\ (gen # "new" => KeepsPositions)
<1> DEFINE e == records[i]
<1>1. /\ records \in Seq(Nat) /\ Increasing(records) /\ e \in Nat
      /\ e \in Elements(records) /\ e <= born /\ e \notin removed
      /\ records' = Without(records, i)
      /\ removed' = IF gen = "new" THEN removed ELSE removed \cup {e}
      /\ atStart' = atStart /\ born' = born
  BY DEF TypeOK, GatewayInv, RemoveRecord, Elements
<1>2. /\ records' \in Seq(Nat)
      /\ Increasing(records')
      /\ Elements(records') = Elements(records) \ {e}
      /\ \A n \in Nat :
           /\ Passed(records', n) \subseteq Passed(records, n) \cup {records[n + 1]}
           /\ Passed(records, n) \ {e} \subseteq Passed(records', n)
      /\ \A n \in Nat, s \in SUBSET Nat :
           Before(s, records, n) => Before(s, records', n)
  BY <1>1, WithoutProperties
<1> HIDE DEF e
<1>3. GatewayInv'
  <2>1. \A x \in Elements(records') : x <= born' /\ x \notin removed'
    <3>1. \A x \in Elements(records) : x <= born /\ x \notin removed
      BY DEF Elements, GatewayInv
    <3> QED
      BY <1>1, <1>2, <3>1
  <2>2. \A j \in 1..Len(records') : records'[j] \in Elements(records')
    BY DEF Elements
  <2>3. atStart' \ removed' \subseteq Elements(records')
    BY <1>1, <1>2 DEF GatewayInv
  <2>4. \A r \in removed' \cup atStart' : r <= born'
    BY <1>1 DEF GatewayInv
  <2> QED
    BY <1>2, <2>1, <2>2, <2>3, <2>4 DEF GatewayInv
<1>4. ASSUME gen # "new", NEW n \in Nat, NEW s \in SUBSET Nat
      PROVE  /\ Before(s, records, n) => Before(s, records', n)
             /\ AtMost(Unseen(atStart, records, n, s), removed) =>
                  AtMost(Unseen(atStart', records', n, s), removed')
             /\ atStart \ removed \subseteq Passed(records, n) =>
                  atStart' \ removed' \subseteq Passed(records', n)
  <2>1. removed' = removed \cup {e}
    BY <1>1, <1>4
  <2>2. Unseen(atStart', records', n, s) \subseteq
          Unseen(atStart, records, n, s) \cup {records[n + 1]}
    BY <1>1, <1>2 DEF Unseen
  <2>3. AtMost(Unseen(atStart, records, n, s), removed) =>
          AtMost(Unseen(atStart', records', n, s), removed')
    <3>1. /\ IsFiniteSet(Unseen(atStart, records, n, s))
          /\ IsFiniteSet(removed) /\ e \notin removed
      BY <1>1, FiniteHistory
    <3> QED
      BY <2>1, <2>2, <3>1, OneMore
  <2>4. atStart \ removed \subseteq Passed(records, n) =>
          atStart' \ removed' \subseteq Passed(records', n)
    BY <1>1, <1>2, <2>1
  <2> QED
    BY <1>2, <2>3, <2>4
<1> QED
  BY <1>2, <1>3, <1>4 DEF KeepsPositions

\* Whatever the records did, the frame's invariants hold where they held.
LEMMA RecordsStep ==
  ASSUME IInv, gen # "new" => KeepsPositions,
         UNCHANGED <<answer, frame, told, yielded, atStart, cut>>,
         records' \in Seq(Nat), born' \in Nat, born <= born', GatewayInv',
         removed \subseteq removed', removed' \in SUBSET Nat,
         gen = "new" => removed' = removed
  PROVE  IInv'
<1> USE DEF frame
<1>1. TypeOK'
  BY DEF IInv, TypeOK
<1>2. /\ Offset \in Nat /\ End \in Nat /\ Offset' = Offset /\ End' = End
      /\ Yielded \in SUBSET Nat /\ Yielded' = Yielded
  BY OffsetType DEF IInv, TypeOK, Offset, End, Yielded
<1>3. YieldedInv'
  <2>1. \A x \in Yielded : x <= born /\ x \in Nat /\ born \in Nat
    BY <1>2 DEF IInv, YieldedInv, TypeOK
  <2>2. \A x \in Yielded' : x <= born'
    BY <1>2, <2>1
  <2>3. YieldsInOrder'
    BY DEF IInv, YieldedInv, YieldsInOrder
  <2> QED
    BY <2>2, <2>3 DEF YieldedInv
<1>4. ASSUME NEW slice \in Seq(Nat), PageInv(slice), gen # "new"
      PROVE  /\ Before(Elements(slice), records', End')
             /\ AtMost(Unseen(atStart', records', End', Yielded' \cup Elements(slice)), removed')
             /\ IsLast(slice) => atStart' \ removed' \subseteq Passed(records', End')
             /\ \A x \in Elements(slice) : x <= born'
  <2>1. Elements(slice) \in SUBSET Nat /\ Yielded \cup Elements(slice) \in SUBSET Nat
    <3>1. \A i \in 1..Len(slice) : slice[i] \in Nat
      OBVIOUS
    <3> QED
      BY <1>2, <3>1 DEF Elements
  <2>2. \A x \in Elements(slice) : x <= born'
    <3>1. \A x \in Elements(slice) : x <= born /\ x \in Nat
      BY <1>4, <2>1 DEF PageInv
    <3>2. born \in Nat
      BY DEF IInv, TypeOK
    <3> QED
      BY <3>1, <3>2
  <2> QED
    BY <1>2, <1>4, <2>1, <2>2 DEF PageInv, KeepsPositions
<1>5. NewInv'
  BY DEF IInv, FrameInv, NewInv
<1>6. FetchingInv'
  <2>1. gen' # "fetching" => answer' = <<>>
    BY DEF IInv, FrameInv, FetchingInv
  <2>2. ASSUME gen = "fetching"
        PROVE  /\ Len(yielded') = Offset'
               /\ Before(Yielded', records', Offset')
               /\ AtMost(Unseen(atStart', records', Offset', Yielded'), removed')
    <3>1. \A x \in Yielded : x <= born
      BY DEF IInv, YieldedInv
    <3> QED
      BY <1>2, <2>2, <3>1 DEF IInv, FrameInv, FetchingInv, KeepsPositions
  <2>3. ASSUME gen = "fetching", answer # <<>>
        PROVE  PageInv(answer[1])' /\ \A x \in Yielded', y \in Elements(answer'[1]) : x < y
    <3>1. answer[1] \in Seq(Nat) /\ answer' = answer
      BY <2>3 DEF IInv, TypeOK
    <3>2. PageInv(answer[1]) /\ \A x \in Yielded, y \in Elements(answer[1]) : x < y
      BY <2>3 DEF IInv, FrameInv, FetchingInv
    <3>3. gen # "new"
      BY <2>3
    <3> QED
      BY <1>2, <1>4, <3>1, <3>2, <3>3 DEF PageInv, IsLast
  <2> QED
    BY <2>1, <2>2, <2>3 DEF FetchingInv
<1>7. SuspendedInv'
  <2>1. CASE gen = "suspended"
    <3>1. batch \in Seq(Nat) /\ batch' = batch
      BY DEF IInv, TypeOK
    <3>2. PageInv(batch) /\ \A x \in Yielded : x <= born
      BY <2>1 DEF IInv, FrameInv, SuspendedInv, YieldedInv
    <3>3. PageInv(batch)'
      BY <1>2, <1>4, <2>1, <3>1, <3>2 DEF PageInv, IsLast
    <3>4. Before(Yielded', records', End')
      BY <1>2, <2>1, <3>2 DEF IInv, FrameInv, SuspendedInv, KeepsPositions
    <3> QED
      BY <1>2, <2>1, <3>1, <3>3, <3>4 DEF IInv, FrameInv, SuspendedInv
  <2>2. CASE gen # "suspended"
    BY <2>2 DEF SuspendedInv
  <2> QED
    BY <2>1, <2>2
<1>8. CleanEndIsComplete'
  <2> SUFFICES ASSUME gen = "finished", ~cut
               PROVE  Cardinality(Missed') <= Cardinality(removed')
    BY DEF CleanEndIsComplete
  <2>1. Missed' \subseteq Missed
    BY <1>2 DEF Missed
  <2>2. IsFiniteSet(atStart) /\ IsFiniteSet(removed)
    BY FiniteHistory DEF IInv
  <2>3. IsFiniteSet(Missed)
    BY <2>2, FS_Subset DEF Missed
  <2>4. Cardinality(Missed') <= Cardinality(removed)
    BY <2>1, <2>2, <2>3, NoMore DEF AtMost, IInv, CleanEndIsComplete
  <2>5. IsFiniteSet(removed')
    BY <1>1, FiniteHistory, FS_BoundedSetOfNaturals DEF GatewayInv
  <2>6. IsFiniteSet(Missed')
    BY <2>1, <2>3, FS_Subset
  <2> QED
    <3>1. Cardinality(removed) <= Cardinality(removed')
      BY <2>5, FS_Subset
    <3>2. /\ Cardinality(removed) \in Nat /\ Cardinality(removed') \in Nat
          /\ Cardinality(Missed') \in Nat
      BY <2>2, <2>5, <2>6, FS_CardinalityType
    <3> QED
      BY <2>4, <3>1, <3>2
<1> QED
  BY <1>1, <1>3, <1>5, <1>6, <1>7, <1>8 DEF IInv, FrameInv
\* The page the gateway answers with.
LEMMA AnswerStep == IInv /\ GatewayAnswers => IInv'
<1> SUFFICES ASSUME IInv, GatewayAnswers
             PROVE  IInv'
  OBVIOUS
<1> USE DEF GatewayAnswers, gateway, frame
<1> DEFINE slice == Slice(page)
<1>1. /\ records \in Seq(Nat) /\ page \in Nat /\ answer' = <<slice>>
      /\ Offset \in Nat /\ Offset = page * PageSize /\ End = Offset + PageSize
  BY OffsetType DEF IInv, TypeOK, Offset, End
<1>2. /\ slice \in Seq(Nat)
      /\ Len(slice) <= PageSize
      /\ \A i \in 1..Len(slice) :
           Offset + i \in 1..Len(records) /\ slice[i] = records[Offset + i]
      /\ \A j \in 1..Len(records) :
           Offset < j /\ j <= End => \E i \in 1..Len(slice) : j = Offset + i
      /\ Len(slice) < PageSize => Len(records) <= End
  BY <1>1, SliceProperties
<1> HIDE DEF slice
<1>3. Increasing(slice)
  <2> SUFFICES ASSUME NEW i \in 1..Len(slice), NEW j \in 1..Len(slice), i < j
               PROVE  slice[i] < slice[j]
    BY DEF Increasing
  <2>1. Offset + i < Offset + j
    BY <1>1
  <2> QED
    BY <1>2, <2>1 DEF IInv, GatewayInv, Increasing
<1>4. \A x \in Elements(slice) : x <= born
  BY <1>2 DEF IInv, GatewayInv, Elements
<1>5. Before(Elements(slice), records, End)
  <2> SUFFICES ASSUME NEW i \in 1..Len(slice), NEW j \in 1..Len(records), End < j
               PROVE  slice[i] < records[j]
    BY DEF Before, Elements
  <2>1. Offset + i < j
    BY <1>1, <1>2, PageSizeAssumption
  <2> QED
    BY <1>2, <2>1 DEF IInv, GatewayInv, Increasing
<1>6. \A x \in Yielded, y \in Elements(slice) : x < y
  <2> SUFFICES ASSUME NEW x \in Yielded, NEW i \in 1..Len(slice)
               PROVE  x < slice[i]
    BY DEF Elements
  <2>1. Offset < Offset + i
    BY <1>1
  <2> QED
    BY <1>2, <2>1 DEF IInv, FrameInv, FetchingInv, Before
<1>7. AtMost(Unseen(atStart, records, End, Yielded \cup Elements(slice)), removed)
  <2>1. Passed(records, End) \subseteq Passed(records, Offset) \cup Elements(slice)
    <3> SUFFICES ASSUME NEW j \in 1..Len(records), j <= End, ~(j <= Offset)
                 PROVE  records[j] \in Elements(slice)
      BY DEF Passed
    <3>0. Offset < j
      BY <1>1
    <3>1. PICK i \in 1..Len(slice) : j = Offset + i
      BY <1>2, <3>0
    <3> QED
      BY <1>2, <3>1 DEF Elements
  <2>2. Unseen(atStart, records, End, Yielded \cup Elements(slice))
          \subseteq Unseen(atStart, records, Offset, Yielded)
    BY <2>1 DEF Unseen
  <2> QED
    BY <2>2, NoMore, FiniteHistory DEF IInv, FrameInv, FetchingInv
<1>8. IsLast(slice) => atStart \ removed \subseteq Passed(records, End)
  <2>1. Len(records) \in Nat /\ End \in Nat
    BY <1>1, PageSizeAssumption
  <2>2. Len(records) <= End => Elements(records) \subseteq Passed(records, End)
    BY <2>1 DEF Elements, Passed
  <2> QED
    BY <1>2, <2>2 DEF IsLast, IInv, GatewayInv
<1>9. TypeOK'
  <2>1. answer' \in Seq(Seq(Nat)) /\ Len(answer') <= 1
    BY <1>1, <1>2
  <2> QED
    BY <2>1 DEF IInv, TypeOK
<1>10. FetchingInv'
  <2>1. answer'[1] = slice
    BY <1>1
  <2>2. PageInv(slice)
    BY <1>2, <1>3, <1>4, <1>5, <1>7, <1>8 DEF PageInv
  <2>3. PageInv(slice) => PageInv(answer[1])'
    BY <2>1 DEF PageInv, Yielded, End, Offset, IsLast
  <2>4. Yielded' = Yielded /\ Offset' = Offset
    BY DEF Yielded, Offset
  <2> QED
    BY <1>6, <2>1, <2>2, <2>3, <2>4 DEF IInv, FrameInv, FetchingInv
<1> QED
  BY <1>9, <1>10
  DEF IInv, GatewayInv, YieldedInv, YieldsInOrder, Yielded, FrameInv, NewInv,
      SuspendedInv, CleanEndIsComplete

-----------------------------------------------------------------------------
(***************************************************************************)
(* The steps of the frame                                                  *)
(***************************************************************************)

\* Asking for page n when exactly the pages before it have been yielded.
LEMMA FetchStep ==
  ASSUME IInv, NEW c \in Consumers, NEW n \in Nat, Fetch(c, n),
         gen \in {"new", "suspended"},
         Len(yielded) = n * PageSize,
         Before(Yielded, records, n * PageSize),
         AtMost(Unseen(atStart', records, n * PageSize, Yielded), removed),
         GatewayInv', atStart' \in SUBSET Nat
  PROVE  IInv'
<1> USE DEF Fetch, gateway
<1>1. TypeOK'
  BY NoOneAssumption DEF IInv, TypeOK, GenStates, Tellings, Tell
<1>2. answer' = <<>>
  BY DEF IInv, FrameInv, FetchingInv
<1>3. Offset' = n * PageSize /\ Yielded' = Yielded
  BY DEF Offset, Yielded
<1>4. FrameInv'
  BY <1>2, <1>3 DEF FrameInv, NewInv, FetchingInv, SuspendedInv
<1>5. YieldedInv' /\ CleanEndIsComplete'
  BY <1>3 DEF IInv, YieldedInv, YieldsInOrder, CleanEndIsComplete
<1> QED
  BY <1>1, <1>4, <1>5 DEF IInv

LEMMA FirstNextStep ==
  ASSUME IInv, NEW c \in Consumers, FirstNext(c)
  PROVE  IInv'
<1>1. /\ yielded = <<>> /\ removed = {} /\ Fetch(c, 0)
      /\ atStart' = Elements(records) /\ records \in Seq(Nat)
  BY DEF FirstNext, IInv, FrameInv, NewInv, TypeOK, Elements, Records
<1>2. 0 * PageSize = 0 /\ Len(yielded) = 0 /\ Yielded = {}
  BY <1>1, PageSizeAssumption DEF Yielded
<1>3. Before(Yielded, records, 0) /\ Passed(records, 0) = {}
  BY <1>2 DEF Before, Passed
<1>4. AtMost(Unseen(atStart', records, 0, Yielded), removed)
  <2>1. Unseen(atStart', records, 0, Yielded) = {}
    BY <1>3 DEF Unseen
  <2>2. /\ Cardinality(Unseen(atStart', records, 0, Yielded)) = 0
        /\ Cardinality(removed) = 0
    BY <1>1, <2>1, FS_EmptySet
  <2> QED
    BY <2>2 DEF AtMost
<1>5. GatewayInv'
  <2>1. \A x \in Elements(records) : x <= born
    BY DEF IInv, GatewayInv, Elements
  <2> QED
    BY <1>1, <2>1 DEF IInv, GatewayInv, Fetch, gateway
<1>6. atStart' \in SUBSET Nat
  BY <1>1 DEF Elements
<1> QED
  BY <1>1, <1>2, <1>3, <1>4, <1>5, <1>6, FetchStep DEF FirstNext

LEMMA NextPageStep ==
  ASSUME IInv, NEW c \in Consumers, NextPage(c)
  PROVE  IInv'
<1> USE DEF NextPage
<1>1. /\ page \in Nat /\ atStart' = atStart /\ atStart \in SUBSET Nat
      /\ Len(yielded) = Offset + index /\ index = Len(batch) /\ PageInv(batch)
      /\ Before(Yielded, records, End) /\ batch \in Seq(Nat)
  BY DEF IInv, TypeOK, FrameInv, SuspendedInv
<1>2. Len(batch) = PageSize
  BY <1>1, PageSizeAssumption DEF PageInv, IsLast
<1>3. (page + 1) * PageSize = End /\ Len(yielded) = End /\ page + 1 \in Nat
  BY <1>1, <1>2, NextOffset DEF Offset, End
<1>4. Elements(batch) \subseteq Yielded
  BY <1>1 DEF IInv, FrameInv, SuspendedInv, Elements
<1>5. Yielded \cup Elements(batch) = Yielded
  BY <1>4
<1>6. AtMost(Unseen(atStart, records, End, Yielded), removed)
  BY <1>1, <1>5 DEF PageInv
<1>7. GatewayInv'
  BY <1>1 DEF IInv, GatewayInv, Fetch, gateway
<1> QED
  BY <1>1, <1>3, <1>6, <1>7, FetchStep

\* Yielding the k-th record of a page.
LEMMA YieldOne ==
  ASSUME IInv, NEW slice \in Seq(Nat), NEW k \in 1..Len(slice), PageInv(slice),
         \A i \in 1..Len(slice) :
           IF i < k THEN slice[i] \in Yielded ELSE \A x \in Yielded : x < slice[i],
         Before(Yielded, records, End),
         yielded' = Append(yielded, slice[k]), born' = born
  PROVE  /\ yielded' \in Seq(Nat)
         /\ Len(yielded') = Len(yielded) + 1
         /\ Yielded' \cup Elements(slice) = Yielded \cup Elements(slice)
         /\ YieldedInv'
         /\ Before(Yielded', records, End)
         /\ \A i \in 1..Len(slice) :
              IF i <= k THEN slice[i] \in Yielded' ELSE \A x \in Yielded' : x < slice[i]
<1> DEFINE e == slice[k]
<1>1. e \in Nat /\ e \in Elements(slice) /\ yielded \in Seq(Nat) /\ Len(yielded) \in Nat
  BY DEF Elements, IInv, TypeOK
<1>2. \A x \in Yielded : x < e
  OBVIOUS
<1>3. /\ yielded' \in Seq(Nat)
      /\ Len(yielded') = Len(yielded) + 1
      /\ \A i \in 1..Len(yielded) : yielded'[i] = yielded[i]
      /\ yielded'[Len(yielded) + 1] = e
  BY <1>1, AppendNumber
<1> HIDE DEF e
<1>4. Increasing(yielded) /\ Elements(yielded) = Yielded
  BY DEF Increasing, Elements, Yielded, IInv, YieldedInv, YieldsInOrder
<1>5. \A i \in 1..Len(yielded) : yielded[i] < e
  BY <1>2 DEF Yielded
<1>6. Increasing(yielded') /\ Elements(yielded') = Yielded \cup {e}
  BY <1>1, <1>4, <1>5, AppendKeeps DEF e
<1>7. Yielded' = Yielded \cup {e} /\ YieldsInOrder'
  BY <1>6 DEF Increasing, Elements, Yielded, YieldsInOrder
<1>8. YieldedInv'
  BY <1>1, <1>7 DEF YieldedInv, IInv, PageInv
<1>9. Before(Yielded', records, End)
  BY <1>1, <1>7 DEF Before, PageInv
<1>10. ASSUME NEW i \in 1..Len(slice)
       PROVE  IF i <= k THEN slice[i] \in Yielded' ELSE \A x \in Yielded' : x < slice[i]
  <2>1. CASE i < k
    BY <1>7, <2>1
  <2>2. CASE i = k
    BY <1>7, <2>2 DEF e
  <2>3. CASE i > k
    <3>1. e < slice[i] /\ \A x \in Yielded : x < slice[i]
      BY <2>3 DEF PageInv, Increasing, e
    <3> QED
      BY <1>7, <2>3, <3>1
  <2> QED
    BY <2>1, <2>2, <2>3
<1> QED
  BY <1>1, <1>3, <1>7, <1>8, <1>9, <1>10

LEMMA YieldStep ==
  ASSUME IInv, NEW c \in Consumers, YieldNext(c), told[c] # "waiting"
  PROVE  IInv'
<1> USE DEF YieldNext, gateway
<1> DEFINE k == index + 1
<1>1. /\ batch \in Seq(Nat) /\ index \in Nat /\ k \in 1..Len(batch)
      /\ Len(batch) \in Nat /\ PageInv(batch) /\ Before(Yielded, records, End)
      /\ Len(yielded) = Offset + index /\ Offset \in Nat
      /\ \A i \in 1..Len(batch) :
           IF i <= index THEN batch[i] \in Yielded ELSE \A x \in Yielded : x < batch[i]
  BY OffsetType DEF IInv, TypeOK, FrameInv, SuspendedInv
<1>2. \A i \in 1..Len(batch) :
        IF i < k THEN batch[i] \in Yielded ELSE \A x \in Yielded : x < batch[i]
  BY <1>1
<1>3. /\ yielded' \in Seq(Nat)
      /\ Len(yielded') = Len(yielded) + 1
      /\ Yielded' \cup Elements(batch) = Yielded \cup Elements(batch)
      /\ YieldedInv'
      /\ Before(Yielded', records, End)
      /\ \A i \in 1..Len(batch) :
           IF i <= k THEN batch[i] \in Yielded' ELSE \A x \in Yielded' : x < batch[i]
  BY <1>1, <1>2, YieldOne
<1>4. TypeOK'
  BY <1>1, <1>3, NoOneAssumption DEF IInv, TypeOK, Tell, Tellings
<1>5. Offset' = Offset /\ End' = End /\ index' = k
  BY DEF Offset, End
<1>6. SuspendedInv'
  <2>1. PageInv(batch)'
    BY <1>1, <1>3, <1>5 DEF PageInv, IsLast
  <2>2. Len(yielded') = Offset' + index'
    BY <1>1, <1>3, <1>5
  <2> QED
    BY <1>3, <1>5, <2>1, <2>2 DEF SuspendedInv
<1>7. NewInv' /\ FetchingInv' /\ CleanEndIsComplete'
  BY DEF IInv, FrameInv, NewInv, FetchingInv, CleanEndIsComplete
<1>8. GatewayInv'
  BY DEF IInv, GatewayInv
<1> QED
  BY <1>3, <1>4, <1>6, <1>7, <1>8 DEF IInv, FrameInv

LEMMA StopStep ==
  ASSUME IInv, NEW c \in Consumers, Stop(c), told[c] # "waiting"
  PROVE  IInv'
<1> USE DEF Stop, gateway
<1>1. TypeOK'
  BY NoOneAssumption DEF IInv, TypeOK, Tell, Tellings, GenStates
<1>2. GatewayInv' /\ YieldedInv' /\ FrameInv'
  BY DEF IInv, GatewayInv, YieldedInv, YieldsInOrder, Yielded, FrameInv, NewInv,
         FetchingInv, SuspendedInv
<1>3. ASSUME gen = "finished"
      PROVE  CleanEndIsComplete'
  <2>1. Missed' = Missed /\ removed' = removed /\ cut' = cut
    BY DEF Missed, Yielded
  <2>2. CleanEndIsComplete
    BY DEF IInv
  <2> QED
    BY <1>3, <2>1, <2>2 DEF CleanEndIsComplete
<1>4. ASSUME gen = "suspended", index = Len(batch), IsLast(batch)
      PROVE  CleanEndIsComplete'
  <2>1. PageInv(batch) /\ batch \in Seq(Nat)
    BY <1>4 DEF IInv, TypeOK, FrameInv, SuspendedInv
  <2>2. Elements(batch) \subseteq Yielded
    <3>1. \A i \in 1..Len(batch) : batch[i] \in Yielded
      BY <1>4, <2>1 DEF IInv, FrameInv, SuspendedInv
    <3> QED
      BY <3>1 DEF Elements
  <2>3. Missed \subseteq Unseen(atStart, records, End, Yielded \cup Elements(batch))
    BY <1>4, <2>1, <2>2 DEF PageInv, Missed, Unseen
  <2>4. AtMost(Missed, removed)
    BY <2>1, <2>3, NoMore, FiniteHistory DEF IInv, PageInv
  <2>5. Missed' = Missed /\ removed' = removed
    BY DEF Missed, Yielded
  <2> QED
    BY <2>4, <2>5 DEF AtMost, CleanEndIsComplete
<1> QED
  BY <1>1, <1>2, <1>3, <1>4 DEF IInv

LEMMA BusyStep ==
  ASSUME IInv, NEW c \in Consumers, AlreadyExecuting(c)
  PROVE  IInv'
<1> USE DEF AlreadyExecuting, gateway, frame
<1>1. TypeOK'
  BY NoOneAssumption DEF IInv, TypeOK, Tell, Tellings
<1>2. GatewayInv' /\ YieldedInv' /\ CleanEndIsComplete'
  BY DEF IInv, GatewayInv, YieldedInv, YieldsInOrder, Yielded, CleanEndIsComplete, Missed
<1>3. FrameInv'
  BY DEF IInv, FrameInv, NewInv, FetchingInv, SuspendedInv, PageInv, Yielded, Offset,
         End, IsLast
<1> QED
  BY <1>1, <1>2, <1>3 DEF IInv

LEMMA FetchReturnsStep ==
  ASSUME IInv, NEW c \in Consumers, FetchReturns(c)
  PROVE  IInv'
<1> USE DEF FetchReturns, TakePage, gateway
<1> DEFINE slice == answer[1]
<1>1. /\ slice \in Seq(Nat) /\ batch' = slice /\ answer' = <<>> /\ runner' = NoOne
      /\ PageInv(slice) /\ Len(yielded) = Offset /\ Before(Yielded, records, Offset)
      /\ \A x \in Yielded, y \in Elements(slice) : x < y
      /\ Offset \in Nat /\ End \in Nat /\ Offset <= End
      /\ Offset' = Offset /\ End' = End
  BY OffsetType DEF IInv, TypeOK, FrameInv, FetchingInv, Offset, End
<1> HIDE DEF slice
<1>2. GatewayInv'
  BY DEF IInv, GatewayInv
<1>3. Before(Yielded, records, End)
  BY <1>1 DEF Before
<1>4. CASE slice # <<>>
  <2>1. /\ Len(slice) \in Nat /\ 1 \in 1..Len(slice)
        /\ gen' = "suspended" /\ index' = 1 /\ told' = [told EXCEPT ![c] = "item"]
        /\ yielded' = Append(yielded, slice[1])
    BY <1>1, <1>4 DEF Tell
  <2>2. \A i \in 1..Len(slice) :
          IF i < 1 THEN slice[i] \in Yielded ELSE \A x \in Yielded : x < slice[i]
    <3>1. \A i \in 1..Len(slice) : slice[i] \in Elements(slice) /\ ~(i < 1)
      BY <2>1 DEF Elements
    <3> QED
      BY <1>1, <3>1
  <2>3. /\ yielded' \in Seq(Nat)
        /\ Len(yielded') = Len(yielded) + 1
        /\ Yielded' \cup Elements(slice) = Yielded \cup Elements(slice)
        /\ YieldedInv'
        /\ Before(Yielded', records, End)
        /\ \A i \in 1..Len(slice) :
             IF i <= 1 THEN slice[i] \in Yielded' ELSE \A x \in Yielded' : x < slice[i]
    BY <1>1, <1>3, <2>1, <2>2, YieldOne
  <2>4. TypeOK'
    <3>1. told' \in [Consumers -> Tellings]
      BY <2>1 DEF IInv, TypeOK, Tellings
    <3>2. \A d \in Consumers : told'[d] = "waiting" <=> runner' = d
      BY <1>1, <2>1, NoOneAssumption DEF IInv, TypeOK
    <3>3. index' \in 0..Len(batch')
      BY <1>1, <2>1
    <3>4. answer' \in Seq(Seq(Nat)) /\ Len(answer') <= 1
      BY <1>1
    <3> QED
      BY <1>1, <2>1, <2>3, <3>1, <3>2, <3>3, <3>4 DEF IInv, TypeOK, GenStates
  <2>5. SuspendedInv'
    <3>1. PageInv(batch)'
      BY <1>1, <2>3 DEF PageInv, IsLast
    <3> QED
      BY <1>1, <2>1, <2>3, <3>1 DEF SuspendedInv
  <2>6. NewInv' /\ FetchingInv' /\ CleanEndIsComplete'
    BY <1>1, <2>1 DEF NewInv, FetchingInv, CleanEndIsComplete
  <2> QED
    BY <1>2, <2>3, <2>4, <2>5, <2>6 DEF IInv, FrameInv
<1>5. CASE slice = <<>>
  <2>1. /\ Len(slice) = 0 /\ gen' = "finished" /\ index' = 0
        /\ told' = [told EXCEPT ![c] = "stop"] /\ yielded' = yielded
    BY <1>1, <1>5 DEF Tell
  <2>2. TypeOK'
    <3>1. told' \in [Consumers -> Tellings]
      BY <2>1 DEF IInv, TypeOK, Tellings
    <3>2. \A d \in Consumers : told'[d] = "waiting" <=> runner' = d
      BY <1>1, <2>1, NoOneAssumption DEF IInv, TypeOK
    <3>3. index' \in 0..Len(batch')
      BY <1>1, <2>1
    <3>4. answer' \in Seq(Seq(Nat)) /\ Len(answer') <= 1
      BY <1>1
    <3> QED
      BY <1>1, <2>1, <3>1, <3>2, <3>3, <3>4 DEF IInv, TypeOK, GenStates
  <2>3. CleanEndIsComplete'
    <3>1. IsLast(slice) /\ Elements(slice) = {}
      BY <2>1, PageSizeAssumption DEF IsLast, Elements
    <3>2. Missed \subseteq Unseen(atStart, records, End, Yielded \cup Elements(slice))
      BY <1>1, <3>1 DEF PageInv, Missed, Unseen
    <3>3. AtMost(Missed, removed)
      BY <1>1, <3>2, NoMore, FiniteHistory DEF IInv, PageInv
    <3>4. Missed' = Missed /\ removed' = removed
      BY <2>1 DEF Missed, Yielded
    <3> QED
      BY <3>3, <3>4 DEF AtMost, CleanEndIsComplete
  <2>4. YieldedInv' /\ FrameInv'
    BY <1>1, <2>1 DEF IInv, YieldedInv, YieldsInOrder, Yielded, FrameInv, NewInv,
                      FetchingInv, SuspendedInv
  <2> QED
    BY <1>2, <2>2, <2>3, <2>4 DEF IInv
<1> QED
  BY <1>4, <1>5

LEMMA FetchRaisesStep ==
  ASSUME IInv, NEW c \in Consumers, FetchRaises(c)
  PROVE  IInv'
<1> USE DEF FetchRaises, gateway
<1>1. TypeOK'
  BY NoOneAssumption DEF IInv, TypeOK, Tell, Tellings, GenStates
<1> QED
  BY <1>1 DEF IInv, GatewayInv, YieldedInv, YieldsInOrder, Yielded, FrameInv, NewInv,
              FetchingInv, SuspendedInv, CleanEndIsComplete

LEMMA CloseStep ==
  ASSUME IInv, Close
  PROVE  IInv'
<1> USE DEF Close, gateway
<1>1. TypeOK'
  BY DEF IInv, TypeOK, GenStates
<1> QED
  BY <1>1 DEF IInv, GatewayInv, YieldedInv, YieldsInOrder, Yielded, FrameInv, NewInv,
              FetchingInv, SuspendedInv, CleanEndIsComplete

-----------------------------------------------------------------------------
(***************************************************************************)
(* The theorems about Pagination                                           *)
(***************************************************************************)

LEMMA InductiveInit == Init => IInv
<1> SUFFICES ASSUME Init
             PROVE  IInv
  OBVIOUS
<1> USE DEF Init
<1>1. /\ records \in Seq(Nat) /\ Len(records) = born /\ born \in Nat
      /\ \A i \in 1..Len(records) : records[i] = i
  <2>1. born \in Nat /\ records = [i \in 1..born |-> i]
    BY MaxRecordsAssumption
  <2>2. records \in Seq(Nat) /\ Len(records) = born
    BY <2>1
  <2> QED
    BY <2>1, <2>2
<1>2. TypeOK
  <2>1. answer \in Seq(Seq(Nat)) /\ Len(answer) <= 1
    OBVIOUS
  <2>2. batch \in Seq(Nat) /\ yielded \in Seq(Nat) /\ index \in 0..Len(batch)
    OBVIOUS
  <2>3. /\ told \in [Consumers -> Tellings]
        /\ \A c \in Consumers : told[c] = "waiting" <=> runner = c
    BY NoOneAssumption DEF Tellings
  <2> QED
    BY <1>1, <2>1, <2>2, <2>3 DEF TypeOK, GenStates
<1>3. GatewayInv
  BY <1>1 DEF GatewayInv, Increasing
<1>4. YieldedInv
  BY DEF YieldedInv, YieldsInOrder, Yielded
<1>5. FrameInv /\ CleanEndIsComplete
  BY DEF FrameInv, NewInv, FetchingInv, SuspendedInv, CleanEndIsComplete
<1> QED
  BY <1>2, <1>3, <1>4, <1>5 DEF IInv

LEMMA StutterStep ==
  ASSUME IInv, UNCHANGED vars
  PROVE  IInv'
<1> USE DEF vars, gateway, frame
<1>1. TypeOK' /\ GatewayInv' /\ YieldedInv'
  BY DEF IInv, TypeOK, GatewayInv, YieldedInv, YieldsInOrder, Yielded
<1>2. FrameInv'
  BY DEF IInv, FrameInv, NewInv, FetchingInv, SuspendedInv, PageInv, Yielded, Offset,
         End, IsLast
<1>3. CleanEndIsComplete'
  BY DEF IInv, CleanEndIsComplete, Missed, Yielded
<1> QED
  BY <1>1, <1>2, <1>3 DEF IInv

LEMMA InductiveStep == IInv /\ [Next]_vars => IInv'
<1> SUFFICES ASSUME IInv, [Next]_vars
             PROVE  IInv'
  OBVIOUS
<1>1. CASE AppendRecord
  <2>1. records' \in Seq(Nat) /\ GatewayInv' /\ KeepsPositions
    BY <1>1, AppendRecordStep DEF IInv
  <2>2. /\ removed' = removed /\ removed \in SUBSET Nat
        /\ born' \in Nat /\ born <= born'
        /\ UNCHANGED <<answer, frame, told, yielded, atStart, cut>>
    BY <1>1 DEF AppendRecord, IInv, TypeOK
  <2> QED
    BY <2>1, <2>2, RecordsStep
<1>2. ASSUME NEW i \in 1..Len(records), RemoveRecord(i)
      PROVE  IInv'
  <2>1. gen = "new" => atStart = {} /\ removed = {}
    BY DEF IInv, FrameInv, NewInv
  <2>2. records' \in Seq(Nat) /\ GatewayInv' /\ (gen # "new" => KeepsPositions)
    BY <1>2, <2>1, RemoveRecordStep DEF IInv
  <2>3. records[i] \in Nat /\ removed \in SUBSET Nat /\ born \in Nat
    BY DEF IInv, TypeOK
  <2>4. /\ removed \subseteq removed' /\ removed' \in SUBSET Nat
        /\ gen = "new" => removed' = removed
        /\ born' \in Nat /\ born <= born'
    <3>1. /\ removed' = IF gen = "new" THEN removed ELSE removed \cup {records[i]}
          /\ born' = born
      BY <1>2 DEF RemoveRecord
    <3>2. removed \cup {records[i]} \in SUBSET Nat
      BY <2>3
    <3> QED
      BY <2>3, <3>1, <3>2
  <2>5. UNCHANGED <<answer, frame, told, yielded, atStart, cut>>
    BY <1>2 DEF RemoveRecord
  <2> QED
    BY <2>2, <2>4, <2>5, RecordsStep
<1>3. CASE GatewayAnswers
  BY <1>3, AnswerStep
<1>4. ASSUME NEW c \in Consumers, CallNext(c)
      PROVE  IInv'
  BY <1>4, FirstNextStep, YieldStep, NextPageStep, StopStep, BusyStep DEF CallNext
<1>5. ASSUME NEW c \in Consumers, FetchReturns(c) \/ FetchRaises(c)
      PROVE  IInv'
  BY <1>5, FetchReturnsStep, FetchRaisesStep
<1>6. CASE Close
  BY <1>6, CloseStep
<1>7. CASE UNCHANGED vars
  BY <1>7, StutterStep
<1> QED
  BY <1>1, <1>2, <1>3, <1>4, <1>5, <1>6, <1>7 DEF Next

\* The position of the frame and what it may have missed, at every moment.
THEOREM Invariance == Spec => []IInv
<1> QED
  BY InductiveInit, InductiveStep, PTL DEF Spec

\* Types, and who waits for what: the frame fetches only for a consumer that
\* waits, and every consumer that waits is the one it fetches for.
THEOREM TypeCorrect == Spec => []TypeOK
<1>1. IInv => TypeOK
  BY DEF IInv
<1> QED
  BY Invariance, <1>1, PTL

\* Whatever comes and goes between the pages, and whoever asks, the records
\* come out in order and none of them twice.
THEOREM OrderedYield == Spec => []YieldsInOrder
<1>1. IInv => YieldsInOrder
  BY DEF IInv, YieldedInv
<1> QED
  BY Invariance, <1>1, PTL

\* An iteration that ends by itself misses no more records than were removed
\* under way.
THEOREM Completeness == Spec => []CleanEndIsComplete
<1>1. IInv => CleanEndIsComplete
  BY DEF IInv
<1> QED
  BY Invariance, <1>1, PTL

\* A page is asked for when the pages before it have been yielded, not earlier.
THEOREM Laziness == Spec => []FetchesLazily
<1>1. IInv => FetchesLazily
  BY DEF IInv, FrameInv, FetchingInv, FetchesLazily, Offset
<1> QED
  BY Invariance, <1>1, PTL

-----------------------------------------------------------------------------
(***************************************************************************)
(* Sequences of elements                                                   *)
(***************************************************************************)

IsList(s) == Len(s) \in Nat /\ s = [i \in 1..Len(s) |-> s[i]]

LEMMA IsListOf ==
  ASSUME NEW s, NEW n \in Nat, s = [i \in 1..n |-> s[i]]
  PROVE  IsList(s) /\ Len(s) = n /\ DOMAIN s = 1..n
<1>1. DOMAIN s = 1..n
  OBVIOUS
<1>2. s \in Seq({s[i] : i \in 1..n})
  <2>1. s \in [1..n -> {s[i] : i \in 1..n}]
    OBVIOUS
  <2> QED
    BY <2>1, SeqDef
<1>3. Len(s) = n
  BY <1>1, <1>2, LenProperties
<1> QED
  BY <1>1, <1>3 DEF IsList

LEMMA ListsAreEqual ==
  ASSUME NEW s, NEW t, IsList(s), IsList(t), Len(s) = Len(t),
         \A i \in 1..Len(s) : s[i] = t[i]
  PROVE  s = t
  BY DEF IsList

LEMMA ConcatLists ==
  ASSUME NEW s, NEW t, IsList(s), IsList(t)
  PROVE  /\ IsList(s \o t)
         /\ Len(s \o t) = Len(s) + Len(t)
         /\ \A i \in 1..Len(s) : (s \o t)[i] = s[i]
         /\ \A i \in 1..Len(t) : (s \o t)[Len(s) + i] = t[i]
<1> DEFINE S == {s[i] : i \in 1..Len(s)} \cup {t[i] : i \in 1..Len(t)}
<1>1. s \in Seq(S) /\ t \in Seq(S)
  <2>1. s \in [1..Len(s) -> S] /\ t \in [1..Len(t) -> S]
    BY DEF IsList
  <2> QED
    BY <2>1, SeqDef DEF IsList
<1> HIDE DEF S
<1>2. /\ s \o t \in Seq(S)
      /\ Len(s \o t) = Len(s) + Len(t)
      /\ \A i \in 1..Len(s) + Len(t) :
           (s \o t)[i] = IF i <= Len(s) THEN s[i] ELSE t[i - Len(s)]
  BY <1>1, ConcatProperties
<1>3. IsList(s \o t)
  BY <1>2, LenProperties DEF IsList
<1>4. \A i \in 1..Len(s) : (s \o t)[i] = s[i]
  BY <1>2 DEF IsList
<1>5. ASSUME NEW i \in 1..Len(t)
      PROVE  (s \o t)[Len(s) + i] = t[i]
  <2>1. /\ Len(s) + i \in 1..Len(s) + Len(t)
        /\ ~(Len(s) + i <= Len(s)) /\ Len(s) + i - Len(s) = i
    BY DEF IsList
  <2> QED
    BY <1>2, <2>1
<1> QED
  BY <1>2, <1>3, <1>4, <1>5

LEMMA AscendingInterval ==
  ASSUME NEW lo \in Nat, NEW hi \in Int
  PROVE  /\ Cardinality(lo..hi) = IF lo > hi THEN 0 ELSE hi - lo + 1
         /\ Ascending(lo..hi) = [k \in 1..Cardinality(lo..hi) |-> lo + k - 1]
<1>1. Cardinality(lo..hi) = IF lo > hi THEN 0 ELSE hi - lo + 1
  BY FS_Interval
<1>2. ASSUME NEW i \in lo..hi
      PROVE  Cardinality({j \in lo..hi : j <= i}) = i - lo + 1
  <2>1. {j \in lo..hi : j <= i} = lo..i
    OBVIOUS
  <2>2. Cardinality(lo..i) = i - lo + 1
    BY FS_Interval
  <2> QED
    BY <2>1, <2>2
<1>3. ASSUME NEW k \in 1..Cardinality(lo..hi)
      PROVE  (CHOOSE i \in lo..hi : Cardinality({j \in lo..hi : j <= i}) = k) = lo + k - 1
  <2>1. lo + k - 1 \in lo..hi
    BY <1>1
  <2>2. \A i \in lo..hi : Cardinality({j \in lo..hi : j <= i}) = k <=> i = lo + k - 1
    BY <1>1, <1>2
  <2> QED
    BY <2>1, <2>2
<1> QED
  BY <1>1, <1>3 DEF Ascending

\* Where the children with a tag are.
At(element, tag) == {i \in DOMAIN element.kids : element.kids[i].tag = tag}

LEMMA ChildrenAre ==
  ASSUME NEW element, NEW tag, NEW lo \in Nat \ {0}, NEW n \in Nat,
         At(element, tag) = lo..(lo + n - 1)
  PROVE  /\ Children(element, tag) = [k \in 1..n |-> element.kids[lo + k - 1]]
         /\ IsList(Children(element, tag)) /\ Len(Children(element, tag)) = n
<1> DEFINE hi == lo + n - 1
<1>1. hi \in Int /\ (IF lo > hi THEN 0 ELSE hi - lo + 1) = n
  OBVIOUS
<1>2. Cardinality(lo..hi) = n /\ Ascending(lo..hi) = [k \in 1..n |-> lo + k - 1]
  <2> HIDE DEF hi
  <2> QED
    BY <1>1, AscendingInterval
<1>3. Children(element, tag) =
        [k \in 1..Cardinality(lo..hi) |-> element.kids[Ascending(lo..hi)[k]]]
  BY DEF Children, At
<1>4. Children(element, tag) = [k \in 1..n |-> element.kids[lo + k - 1]]
  BY <1>2, <1>3
<1> QED
  BY <1>4, IsListOf

\* They are the items of a list, after the first m children.
AreItems(element, tag, m, items) ==
  /\ \A i \in 1..Len(items) : /\ m + i \in DOMAIN element.kids
                              /\ element.kids[m + i] = items[i]
                              /\ items[i].tag = tag
  /\ \A j \in DOMAIN element.kids :
       j \in Nat /\ (element.kids[j].tag = tag => j - m \in 1..Len(items))

LEMMA ChildrenAreItems ==
  ASSUME NEW element, NEW tag, NEW m \in Nat, NEW items, IsList(items),
         AreItems(element, tag, m, items)
  PROVE  Children(element, tag) = items
<1> DEFINE n == Len(items)
           lo == m + 1
<1>1. /\ n \in Nat /\ lo \in Nat \ {0}
      /\ \A j \in Int : j \in lo..(lo + n - 1) <=> j - m \in 1..n
  BY DEF IsList
<1>2. \A j \in At(element, tag) : j \in lo..(lo + n - 1)
  BY <1>1 DEF At, AreItems
<1>3. \A j \in lo..(lo + n - 1) : j \in At(element, tag)
  <2> SUFFICES ASSUME NEW j \in lo..(lo + n - 1)
               PROVE  j \in At(element, tag)
    OBVIOUS
  <2>1. j - m \in 1..n /\ m + (j - m) = j
    BY <1>1
  <2> QED
    BY <2>1 DEF At, AreItems
<1>4. At(element, tag) = lo..(lo + n - 1)
  BY <1>2, <1>3
<1> HIDE DEF lo, n
<1>5. /\ Children(element, tag) = [k \in 1..n |-> element.kids[lo + k - 1]]
      /\ IsList(Children(element, tag)) /\ Len(Children(element, tag)) = n
  BY <1>1, <1>4, ChildrenAre
<1>6. \A k \in 1..n : element.kids[lo + k - 1] = items[k]
  <2> SUFFICES ASSUME NEW k \in 1..n
               PROVE  element.kids[lo + k - 1] = items[k]
    OBVIOUS
  <2>1. lo + k - 1 = m + k
    BY <1>1 DEF lo
  <2> QED
    BY <2>1 DEF n, AreItems
<1> QED
  BY <1>5, <1>6, ListsAreEqual DEF n

LEMMA NoChildren ==
  ASSUME NEW element, NEW tag, DOMAIN element.kids \subseteq Nat,
         \A i \in DOMAIN element.kids : element.kids[i].tag # tag
  PROVE  Children(element, tag) = <<>>
<1> DEFINE none == <<>>
<1>1. IsList(none) /\ Len(none) = 0
  BY DEF IsList
<1>2. \A j \in DOMAIN element.kids : j \in Nat /\ element.kids[j].tag # tag
  OBVIOUS
<1> HIDE DEF none
<1>3. AreItems(element, tag, 0, none)
  BY <1>1, <1>2 DEF AreItems
<1> QED
  BY <1>1, <1>3, ChildrenAreItems DEF none

LEMMA FlattenOne == ASSUME NEW s PROVE FlattenSeq(<<s>>) = s
<1> DEFINE IsFlat(f) ==
             f = [i \in 1..Len(<<s>>) |-> IF i = 1 THEN <<s>>[i] ELSE f[i - 1] \o <<s>>[i]]
<1>1. IsFlat([i \in 1..1 |-> s])
  OBVIOUS
<1>2. IsFlat(CHOOSE f : IsFlat(f))
  BY <1>1
<1>3. FlattenSeq(<<s>>) = (CHOOSE f : IsFlat(f))[1]
  BY DEF FlattenSeq
<1> QED
  BY <1>2, <1>3

Less == {p \in Nat \X Nat : p[1] < p[2]}

LEMMA SmallestExists ==
  ASSUME NEW S, S \subseteq Nat, S # {}
  PROVE  \E m \in S : \A k \in S : m <= k
<1>1. Less = OpToRel(<, Nat)
  BY DEF Less, OpToRel
<1>2. IsWellFoundedOn(Less, Nat)
  BY <1>1, NatLessThanWellFounded
<1>3. PICK m \in S : \A k \in S : ~(<<k, m>> \in Less)
  BY <1>2, WFMin, Zenon
<1>4. \A k \in S : k \in Nat /\ m \in Nat /\ ~(k < m)
  BY <1>3 DEF Less
<1> QED
  BY <1>3, <1>4

\* If one prefix were not empty, the smallest such would be.
LEMMA FlattenEmpties ==
  ASSUME NEW n \in Nat
  PROVE  FlattenSeq([i \in 1..n |-> <<>>]) = <<>>
<1> DEFINE s == [i \in 1..n |-> <<>>]
           IsFlat(f) == f = [i \in 1..n |-> IF i = 1 THEN s[i] ELSE f[i - 1] \o s[i]]
           flat == CHOOSE f : IsFlat(f)
<1>1. IsList(s) /\ Len(s) = n
  BY IsListOf
<1>2. CASE n = 0
  <2>1. FlattenSeq(s) = s
    BY <1>1, <1>2 DEF FlattenSeq
  <2> QED
    BY <1>2, <2>1
<1>3. CASE n # 0
  <2>1. <<>> \o <<>> = <<>>
    BY ConcatEmptySeq, EmptySeq
  <2>2. IsFlat(s)
    BY <2>1
  <2>3. IsFlat(flat)
    BY <2>2
  <2>4. \A i \in 1..n : flat[i] = IF i = 1 THEN <<>> ELSE flat[i - 1] \o <<>>
    BY <2>3
  <2> HIDE DEF flat
  <2> DEFINE bad == {i \in 1..n : flat[i] # <<>>}
  <2>5. bad = {}
    <3> SUFFICES ASSUME bad # {}
                 PROVE  FALSE
      OBVIOUS
    <3>1. PICK m \in bad : \A k \in bad : m <= k
      <4>1. bad \subseteq Nat
        OBVIOUS
      <4> HIDE DEF bad
      <4> QED
        BY <4>1, SmallestExists
    <3>2. m # 1 /\ m - 1 \in 1..n /\ m - 1 \notin bad
      BY <2>4, <3>1
    <3> QED
      BY <2>1, <2>4, <3>1, <3>2
  <2>6. FlattenSeq(s) = flat[n]
    BY <1>1, <1>3 DEF FlattenSeq, flat
  <2> QED
    BY <1>3, <2>5, <2>6
<1> QED
  BY <1>2, <1>3

\* The child with a tag, if there is one.
LEMMA OnlyChild ==
  ASSUME NEW element, NEW tag, NEW i \in Nat \ {0}, i \in DOMAIN element.kids,
         DOMAIN element.kids \subseteq Nat,
         \A j \in DOMAIN element.kids : element.kids[j].tag = tag <=> j = i
  PROVE  Last(Children(element, tag)) = element.kids[i]
<1> DEFINE kid == element.kids[i]
           only == <<kid>>
           m == i - 1
<1>1. IsList(only) /\ Len(only) = 1 /\ only[1] = kid /\ kid.tag = tag
  BY DEF IsList
<1>2. m \in Nat /\ m + 1 = i /\ i - m = 1
  OBVIOUS
<1> HIDE DEF only, m
<1>3. AreItems(element, tag, m, only)
  BY <1>1, <1>2 DEF AreItems
<1>4. Children(element, tag) = only
  BY <1>1, <1>2, <1>3, ChildrenAreItems
<1> QED
  BY <1>1, <1>4 DEF Last

LEMMA SetToSeqIs ==
  ASSUME NEW S, IsFiniteSet(S)
  PROVE  /\ IsList(SetToSeq(S)) /\ Len(SetToSeq(S)) = Cardinality(S)
         /\ DOMAIN SetToSeq(S) = 1..Len(SetToSeq(S))
         /\ \A i \in 1..Len(SetToSeq(S)) : SetToSeq(S)[i] \in S
         /\ \A i, j \in 1..Len(SetToSeq(S)) : SetToSeq(S)[i] = SetToSeq(S)[j] => i = j
         /\ \A x \in S : \E i \in 1..Len(SetToSeq(S)) : SetToSeq(S)[i] = x
<1> DEFINE n == Cardinality(S)
           s == SetToSeq(S)
<1>1. n \in Nat /\ ExistsBijection(1..n, S)
  BY FS_CardinalityType
<1>2. \E f \in [1..n -> S] : IsInjective(f)
  BY <1>1 DEF ExistsBijection, Bijection, Injection
<1>3. s \in [1..n -> S] /\ IsInjective(s)
  BY <1>2 DEF SetToSeq
<1>4. s \in Injection(1..n, S)
  BY <1>3 DEF Injection
<1>5. IsFiniteSet(1..n) /\ Cardinality(1..n) = n
  BY <1>1, FS_Interval
<1>6. s \in Surjection(1..n, S)
  BY <1>4, <1>5, FS_Injection
<1> HIDE DEF n, s
<1>7. IsList(s) /\ Len(s) = n
  BY <1>1, <1>3, IsListOf
<1>8. \A i, j \in 1..n : s[i] = s[j] => i = j
  BY <1>3 DEF IsInjective
<1>9. \A x \in S : \E i \in 1..n : s[i] = x
  BY <1>6 DEF Surjection
<1> QED
  BY <1>3, <1>7, <1>8, <1>9 DEF n, s

-----------------------------------------------------------------------------
(***************************************************************************)
(* What the gateway renders is parsed to what it was                       *)
(***************************************************************************)

LEMMA PartArrives ==
  ASSUME NEW tag, NEW fields, IsPart(fields)
  PROVE  /\ PartToRecord(RenderPart(tag, fields)) = fields
         /\ RenderPart(tag, fields).tag = tag
         /\ RenderPart(tag, fields).kids # <<>>
<1> DEFINE names == SetToSeq(DOMAIN fields)
           element == RenderPart(tag, fields)
           n == Len(names)
<1>1. /\ n \in Nat /\ n # 0 /\ DOMAIN names = 1..n
      /\ \A i \in 1..n : names[i] \in DOMAIN fields
      /\ \A i, j \in 1..n : names[i] = names[j] => i = j
      /\ \A x \in DOMAIN fields : \E i \in 1..n : names[i] = x
  <2>1. IsFiniteSet(DOMAIN fields) /\ DOMAIN fields # {}
    BY DEF IsPart
  <2>2. n = Cardinality(DOMAIN fields) /\ n \in Nat
    BY <2>1, SetToSeqIs DEF IsList
  <2>3. n # 0
    BY <2>1, <2>2, FS_EmptySet
  <2> QED
    BY <2>1, <2>2, <2>3, SetToSeqIs
<1>2. /\ element.kids = [i \in 1..n |-> Leaf(names[i], fields[names[i]].text)]
      /\ element.tag = tag
  BY <1>1 DEF RenderPart, Node
<1> HIDE DEF names, element, n
<1>3. /\ DOMAIN element.kids = 1..n
      /\ \A i \in 1..n : /\ element.kids[i].tag = names[i]
                          /\ element.kids[i].text = fields[names[i]].text
                          /\ element.kids[i].kids = <<>>
  BY <1>2 DEF Leaf
<1>4. {element.kids[i].tag : i \in DOMAIN element.kids} = DOMAIN fields
  <2>1. {element.kids[i].tag : i \in 1..n} = {names[i] : i \in 1..n}
    BY <1>3
  <2>2. {names[i] : i \in 1..n} \subseteq DOMAIN fields
    BY <1>1
  <2>3. DOMAIN fields \subseteq {names[i] : i \in 1..n}
    BY <1>1
  <2> QED
    BY <1>3, <2>1, <2>2, <2>3
<1>5. DOMAIN fields \cap RepeatedTags = {} /\ DOMAIN fields \ RepeatedTags = DOMAIN fields
  BY DEF IsPart
<1>6. ASSUME NEW f \in DOMAIN fields
      PROVE  /\ Last(Children(element, f)).kids = <<>>
             /\ Text(Last(Children(element, f)).text) = fields[f]
  <2>1. PICK i \in 1..n : names[i] = f
    BY <1>1
  <2>2. \A j \in DOMAIN element.kids : element.kids[j].tag = f <=> j = i
    BY <1>1, <1>3, <2>1
  <2>3. i \in Nat \ {0} /\ i \in DOMAIN element.kids /\ DOMAIN element.kids \subseteq Nat
    BY <1>1, <1>3
  <2>4. Last(Children(element, f)) = element.kids[i]
    BY <2>2, <2>3, OnlyChild
  <2>5. fields[f] = Text(fields[f].text)
    BY DEF IsPart
  <2> QED
    BY <1>3, <2>1, <2>4, <2>5
<1>7. PartToRecord(element) =
        [f \in DOMAIN fields |-> Text(Last(Children(element, f)).text)]
  BY <1>4, <1>5, <1>6 DEF PartToRecord, RecordOf
<1>8. PartToRecord(element) = fields
  BY <1>6, <1>7 DEF IsPart
<1>9. element.kids # <<>>
  BY <1>1, <1>3
<1> QED
  BY <1>2, <1>8, <1>9 DEF element

\* The items of a list are the children with its tag, in their order; a list
\* that is not there has no children.
LEMMA ItemsAre ==
  ASSUME NEW tag \in RepeatedTags, NEW fields, IsContent(fields)
  PROVE  LET name == Plural[tag]
             items == RenderItems(tag, fields)
             there == name \in DOMAIN fields /\ fields[name].kind = "list"
         IN  /\ IsList(items) /\ DOMAIN items = 1..Len(items)
             /\ Len(items) > 0 <=> there
             /\ \A i \in 1..Len(items) : items[i].tag = tag
             /\ there =>
                  fields[name] =
                    List([i \in 1..Len(items) |-> Record(PartToRecord(items[i]))])
<1> DEFINE name == Plural[tag]
           items == RenderItems(tag, fields)
           there == name \in DOMAIN fields /\ fields[name].kind = "list"
<1>1. CASE there
  <2> DEFINE sent == fields[name].items
             n == Len(sent)
  <2>1. /\ n \in Nat \ {0}
        /\ fields[name] = List([i \in 1..n |-> Record(sent[i].fields)])
        /\ \A i \in 1..n : IsPart(sent[i].fields)
    BY <1>1 DEF IsContent
  <2>2. items = [i \in 1..n |-> RenderPart(tag, sent[i].fields)]
    BY <1>1 DEF RenderItems
  <2> HIDE DEF items, sent, n, name
  <2>3. IsList(items) /\ Len(items) = n /\ DOMAIN items = 1..n
    BY <2>1, <2>2, IsListOf
  <2>4. \A i \in 1..n : items[i].tag = tag /\ PartToRecord(items[i]) = sent[i].fields
    BY <2>1, <2>2, PartArrives
  <2>5. [i \in 1..n |-> Record(sent[i].fields)] =
          [i \in 1..n |-> Record(PartToRecord(items[i]))]
    BY <2>4
  <2> QED
    BY <1>1, <2>1, <2>3, <2>4, <2>5 DEF items, name
<1>2. CASE ~there
  <2>1. items = <<>>
    BY <1>2 DEF RenderItems
  <2> QED
    BY <1>2, <2>1 DEF IsList
<1> QED
  BY <1>1, <1>2

LEMMA PluralIs ==
  /\ \A tag \in RepeatedTags : (CHOOSE t \in RepeatedTags : Plural[t] = Plural[tag]) = tag
  /\ Plural["action"] = "actions" /\ Plural["product"] = "products"
  /\ RepeatedTags = {"action", "product"}
<1>1. Plural["action"] = "actions" /\ Plural["product"] = "products"
  BY DEF Plural
<1>2. RepeatedTags = {"action", "product"}
  BY DEF RepeatedTags
<1>3. \A s, t \in RepeatedTags : Plural[s] = Plural[t] => s = t
  BY <1>1, <1>2
<1>4. \A tag \in RepeatedTags : (CHOOSE t \in RepeatedTags : Plural[t] = Plural[tag]) = tag
  BY <1>3
<1> QED
  BY <1>1, <1>2, <1>4

\* Where the children of a rendered record are: single values, actions, products.
KidsAre(kids, fields, single, acts, prods) ==
  /\ Len(single) \in Nat /\ Len(acts) \in Nat /\ Len(prods) \in Nat
  /\ IsList(kids) /\ DOMAIN kids = 1..Len(kids)
  /\ Len(kids) = Len(single) + Len(acts) + Len(prods)
  /\ \A i \in 1..Len(single) : kids[i] = RenderValue(single[i], fields[single[i]])
  /\ \A i \in 1..Len(acts) : kids[Len(single) + i] = acts[i]
  /\ \A i \in 1..Len(prods) : kids[Len(single) + Len(acts) + i] = prods[i]

LEMMA RenderedKids ==
  ASSUME NEW tag, NEW fields, IsContent(fields)
  PROVE  KidsAre(Render(tag, fields).kids, fields,
                 SetToSeq({f \in DOMAIN fields : fields[f].kind # "list"}),
                 RenderItems("action", fields), RenderItems("product", fields))
<1> DEFINE singles == {f \in DOMAIN fields : fields[f].kind # "list"}
           single == SetToSeq(singles)
           values == [i \in DOMAIN single |-> RenderValue(single[i], fields[single[i]])]
           acts == RenderItems("action", fields)
           prods == RenderItems("product", fields)
           kids == Render(tag, fields).kids
<1>1. kids = values \o acts \o prods
  BY DEF Render, Node
<1>2. IsFiniteSet(singles)
  BY FS_Subset DEF IsContent
<1> HIDE DEF singles
<1>3. IsList(single) /\ DOMAIN single = 1..Len(single)
  BY <1>2, SetToSeqIs
<1> HIDE DEF single
<1>4. IsList(values) /\ Len(values) = Len(single)
  <2>1. values = [i \in 1..Len(single) |-> values[i]]
    BY <1>3
  <2>2. Len(single) \in Nat
    BY <1>3 DEF IsList
  <2> HIDE DEF values
  <2> QED
    BY <2>1, <2>2, IsListOf
<1>5. \A i \in 1..Len(single) : values[i] = RenderValue(single[i], fields[single[i]])
  BY <1>3
<1>6. IsList(acts) /\ IsList(prods)
  BY ItemsAre, PluralIs
<1> HIDE DEF values, acts, prods
<1>7. /\ IsList(values \o acts) /\ Len(values \o acts) = Len(single) + Len(acts)
      /\ \A i \in 1..Len(single) : (values \o acts)[i] = values[i]
      /\ \A i \in 1..Len(acts) : (values \o acts)[Len(single) + i] = acts[i]
  BY <1>4, <1>6, ConcatLists
<1> DEFINE both == values \o acts
<1> HIDE DEF both
<1>8. /\ IsList(both \o prods) /\ Len(both \o prods) = Len(both) + Len(prods)
      /\ \A i \in 1..Len(both) : (both \o prods)[i] = both[i]
      /\ \A i \in 1..Len(prods) : (both \o prods)[Len(both) + i] = prods[i]
  BY <1>6, <1>7, ConcatLists DEF both
<1>9. /\ Len(single) \in Nat /\ Len(acts) \in Nat /\ Len(prods) \in Nat
  BY <1>3, <1>6 DEF IsList
<1>10. Len(both) = Len(single) + Len(acts) /\ kids = both \o prods
  BY <1>1, <1>7 DEF both
<1> HIDE DEF kids
<1>11. \A i \in 1..Len(single) : kids[i] = RenderValue(single[i], fields[single[i]])
  BY <1>5, <1>7, <1>8, <1>9, <1>10 DEF both
<1>12. \A i \in 1..Len(acts) : kids[Len(single) + i] = acts[i]
  <2> SUFFICES ASSUME NEW i \in 1..Len(acts)
               PROVE  kids[Len(single) + i] = acts[i]
    OBVIOUS
  <2>1. Len(single) + i \in 1..Len(both)
    BY <1>9, <1>10
  <2> QED
    BY <1>7, <1>8, <1>10, <2>1 DEF both
<1>13. IsList(kids) /\ DOMAIN kids = 1..Len(kids)
  BY <1>8, <1>10 DEF IsList
<1>14. KidsAre(kids, fields, single, acts, prods)
  BY <1>8, <1>9, <1>10, <1>11, <1>12, <1>13 DEF KidsAre
<1> QED
  BY <1>14 DEF singles, single, acts, prods, kids

\* Which tags they have, and which children a repeated tag has.
LEMMA RenderedTags ==
  ASSUME NEW tag, NEW fields, IsContent(fields)
  PROVE  LET singles == {f \in DOMAIN fields : fields[f].kind # "list"}
             element == Render(tag, fields)
             kids == element.kids
         IN  /\ element.tag = tag
             /\ \A i \in DOMAIN kids : kids[i].tag \in singles \cup RepeatedTags
             /\ \A f \in singles : \E i \in DOMAIN kids :
                  /\ i \in Nat \ {0}
                  /\ \A j \in DOMAIN kids : kids[j].tag = f <=> j = i
                  /\ kids[i] = RenderValue(f, fields[f])
             /\ \A t \in RepeatedTags :
                  /\ Children(element, t) = RenderItems(t, fields)
                  /\ (\E i \in DOMAIN kids : kids[i].tag = t) <=>
                       Len(RenderItems(t, fields)) > 0
<1> DEFINE singles == {f \in DOMAIN fields : fields[f].kind # "list"}
           element == Render(tag, fields)
           kids == element.kids
           single == SetToSeq(singles)
           acts == RenderItems("action", fields)
           prods == RenderItems("product", fields)
           n == Len(single)
           a == Len(acts)
           p == Len(prods)
<1>1. /\ n \in Nat /\ a \in Nat /\ p \in Nat
      /\ IsList(kids) /\ DOMAIN kids = 1..(n + a + p)
      /\ \A i \in 1..n : kids[i] = RenderValue(single[i], fields[single[i]])
      /\ \A i \in 1..a : kids[n + i] = acts[i]
      /\ \A i \in 1..p : kids[n + a + i] = prods[i]
  <2>1. KidsAre(kids, fields, single, acts, prods)
    BY RenderedKids
  <2> HIDE DEF kids, single, acts, prods
  <2> QED
    BY <2>1 DEF KidsAre
<1>2. element.tag = tag
  BY DEF Render, Node
<1>3. /\ \A i \in 1..n : single[i] \in singles
      /\ \A i, j \in 1..n : single[i] = single[j] => i = j
      /\ \A f \in singles : \E i \in 1..n : single[i] = f
  <2>1. IsFiniteSet(singles)
    BY FS_Subset DEF IsContent
  <2> HIDE DEF singles
  <2> QED
    BY <2>1, SetToSeqIs
<1>4. ASSUME NEW f \in singles
      PROVE  /\ f \in DOMAIN fields /\ f \notin RepeatedTags
             /\ RenderValue(f, fields[f]).tag = f
  <2>1. f \in DOMAIN fields /\ f \notin RepeatedTags
    BY DEF IsContent
  <2>2. \/ fields[f].kind = "text"
        \/ fields[f].kind = "record" /\ IsPart(fields[f].fields)
    BY DEF IsContent
  <2>3. CASE fields[f].kind = "text"
    BY <2>1, <2>3 DEF RenderValue, Leaf
  <2>4. CASE fields[f].kind = "record" /\ IsPart(fields[f].fields)
    BY <2>1, <2>4, PartArrives DEF RenderValue
  <2> QED
    BY <2>2, <2>3, <2>4
<1>5. /\ \A i \in 1..a : acts[i].tag = "action"
      /\ \A i \in 1..p : prods[i].tag = "product"
      /\ IsList(acts) /\ IsList(prods)
  BY ItemsAre, PluralIs
<1> HIDE DEF singles, element, single, acts, prods, n, a, p
<1>6. \A i \in 1..n : kids[i].tag = single[i] /\ single[i] \notin RepeatedTags
  BY <1>1, <1>3, <1>4
<1>7. \A i \in (n + 1)..(n + a) : kids[i].tag = "action"
  <2> SUFFICES ASSUME NEW i \in (n + 1)..(n + a)
               PROVE  kids[i].tag = "action"
    OBVIOUS
  <2>1. i - n \in 1..a /\ n + (i - n) = i
    BY <1>1
  <2> QED
    BY <1>1, <1>5, <2>1
<1>8. \A i \in (n + a + 1)..(n + a + p) : kids[i].tag = "product"
  <2> SUFFICES ASSUME NEW i \in (n + a + 1)..(n + a + p)
               PROVE  kids[i].tag = "product"
    OBVIOUS
  <2>1. i - (n + a) \in 1..p /\ n + a + (i - (n + a)) = i
    BY <1>1
  <2> QED
    BY <1>1, <1>5, <2>1
<1>9. \A i \in DOMAIN kids :
        i \in 1..n \/ i \in (n + 1)..(n + a) \/ i \in (n + a + 1)..(n + a + p)
  BY <1>1
<1>10. \A i \in DOMAIN kids : kids[i].tag \in singles \cup RepeatedTags
  BY <1>3, <1>6, <1>7, <1>8, <1>9, PluralIs
<1>11. ASSUME NEW f \in singles
       PROVE  \E i \in DOMAIN kids :
                /\ i \in Nat \ {0}
                /\ \A j \in DOMAIN kids : kids[j].tag = f <=> j = i
                /\ kids[i] = RenderValue(f, fields[f])
  <2>1. PICK i \in 1..n : single[i] = f
    BY <1>3
  <2>2. i \in DOMAIN kids /\ i \in Nat \ {0}
    BY <1>1
  <2>3. kids[i] = RenderValue(f, fields[f])
    BY <1>1, <2>1
  <2>4. \A j \in DOMAIN kids : kids[j].tag = f <=> j = i
    BY <1>3, <1>4, <1>6, <1>7, <1>8, <1>9, <2>1, PluralIs
  <2> QED
    BY <2>2, <2>3, <2>4
<1>12. Children(element, "action") = acts
  <2>1. \A i \in 1..a : /\ n + i \in DOMAIN kids /\ kids[n + i] = acts[i]
                       /\ acts[i].tag = "action"
    BY <1>1, <1>5
  <2>2. ASSUME NEW j \in DOMAIN kids
        PROVE  j \in Nat /\ (kids[j].tag = "action" => j - n \in 1..a)
    <3>1. j \in Nat
      BY <1>1
    <3>2. CASE j \in 1..n \/ j \in (n + a + 1)..(n + a + p)
      BY <1>6, <1>8, <3>1, <3>2, PluralIs
    <3>3. CASE j \in (n + 1)..(n + a)
      BY <1>1, <3>3
    <3> QED
      BY <1>9, <3>2, <3>3
  <2>3. AreItems(element, "action", n, acts)
    BY <2>1, <2>2 DEF AreItems, a, kids
  <2> QED
    BY <1>1, <1>5, <2>3, ChildrenAreItems
<1>13. Children(element, "product") = prods
  <2> DEFINE m == n + a
  <2>1. m \in Nat
    BY <1>1
  <2>2. \A i \in 1..p : /\ m + i \in DOMAIN kids /\ kids[m + i] = prods[i]
                       /\ prods[i].tag = "product"
    BY <1>1, <1>5
  <2>3. ASSUME NEW j \in DOMAIN kids
        PROVE  j \in Nat /\ (kids[j].tag = "product" => j - m \in 1..p)
    <3>1. j \in Nat
      BY <1>1
    <3>2. CASE j \in 1..n \/ j \in (n + 1)..(n + a)
      BY <1>6, <1>7, <3>1, <3>2, PluralIs
    <3>3. CASE j \in (n + a + 1)..(n + a + p)
      BY <1>1, <3>3
    <3> QED
      BY <1>9, <3>2, <3>3
  <2> HIDE DEF m
  <2>4. AreItems(element, "product", m, prods)
    BY <2>2, <2>3 DEF AreItems, p, kids
  <2> QED
    BY <1>5, <2>1, <2>4, ChildrenAreItems
<1>14. (\E i \in DOMAIN kids : kids[i].tag = "action") <=> a > 0
  <2>1. ASSUME a > 0
        PROVE  n + 1 \in DOMAIN kids /\ kids[n + 1].tag = "action"
    BY <1>1, <1>7, <2>1
  <2>2. ASSUME NEW i \in DOMAIN kids, kids[i].tag = "action"
        PROVE  i \in (n + 1)..(n + a)
    BY <1>6, <1>8, <1>9, <2>2, PluralIs
  <2> QED
    BY <1>1, <2>1, <2>2
<1>15. (\E i \in DOMAIN kids : kids[i].tag = "product") <=> p > 0
  <2>1. ASSUME p > 0
        PROVE  n + a + 1 \in DOMAIN kids /\ kids[n + a + 1].tag = "product"
    BY <1>1, <1>8, <2>1
  <2>2. ASSUME NEW i \in DOMAIN kids, kids[i].tag = "product"
        PROVE  i \in (n + a + 1)..(n + a + p)
    BY <1>6, <1>7, <1>9, <2>2, PluralIs
  <2> QED
    BY <1>1, <2>1, <2>2
<1> QED
  BY <1>1, <1>2, <1>10, <1>11, <1>12, <1>13, <1>14, <1>15, PluralIs
     DEF singles, element, acts, prods, a, p

\* A record arrives with every field, and every item of a list in its place.
LEMMA RecordArrives ==
  ASSUME NEW tag, NEW fields, IsContent(fields)
  PROVE  Render(tag, fields).tag = tag /\ ElementToRecord(Render(tag, fields)) = fields
<1> DEFINE singles == {f \in DOMAIN fields : fields[f].kind # "list"}
           lists == {f \in DOMAIN fields : fields[f].kind = "list"}
           element == Render(tag, fields)
           kids == element.kids
           tags == {element.kids[i].tag : i \in DOMAIN element.kids}
<1>1. /\ element.tag = tag
      /\ \A i \in DOMAIN kids : kids[i].tag \in singles \cup RepeatedTags
      /\ \A f \in singles : \E i \in DOMAIN kids :
           /\ i \in Nat \ {0}
           /\ \A j \in DOMAIN kids : kids[j].tag = f <=> j = i
           /\ kids[i] = RenderValue(f, fields[f])
      /\ \A t \in RepeatedTags :
           /\ Children(element, t) = RenderItems(t, fields)
           /\ (\E i \in DOMAIN kids : kids[i].tag = t) <=> Len(RenderItems(t, fields)) > 0
  BY RenderedTags
<1>2. DOMAIN kids \subseteq Nat
  <2>1. IsList(kids)
    BY RenderedKids DEF KidsAre
  <2> QED
    BY <2>1 DEF IsList
<1>3. DOMAIN fields \cap RepeatedTags = {} /\ fields = [f \in DOMAIN fields |-> fields[f]]
  BY DEF IsContent
<1> HIDE DEF element
<1>4. tags \ RepeatedTags = singles
  BY <1>1, <1>3
<1>5. \A f \in lists : \E t \in RepeatedTags : Plural[t] = f
  BY DEF IsContent
<1>6. \A t \in RepeatedTags :
        /\ t \in tags <=> Plural[t] \in lists
        /\ Plural[t] \in lists =>
             fields[Plural[t]] =
               List([i \in DOMAIN RenderItems(t, fields) |->
                       Record(PartToRecord(RenderItems(t, fields)[i]))])
  <2> SUFFICES ASSUME NEW t \in RepeatedTags
               PROVE  /\ t \in tags <=> Plural[t] \in lists
                      /\ Plural[t] \in lists =>
                           fields[Plural[t]] =
                             List([i \in DOMAIN RenderItems(t, fields) |->
                                     Record(PartToRecord(RenderItems(t, fields)[i]))])
    OBVIOUS
  <2> DEFINE items == RenderItems(t, fields)
  <2>1. /\ DOMAIN items = 1..Len(items)
        /\ Len(items) > 0 <=> Plural[t] \in lists
        /\ Plural[t] \in lists =>
             fields[Plural[t]] =
               List([i \in 1..Len(items) |-> Record(PartToRecord(items[i]))])
    BY ItemsAre
  <2>2. t \in tags <=> Len(items) > 0
    BY <1>1
  <2> HIDE DEF items, tags
  <2> QED
    BY <2>1, <2>2 DEF items
<1>7. {Plural[t] : t \in tags \cap RepeatedTags} = lists
  <2> HIDE DEF tags, lists
  <2> QED
    BY <1>5, <1>6
<1> DEFINE Collected(name) ==
             LET t == CHOOSE u \in RepeatedTags : Plural[u] = name
                 found == Repeated(element, t)
             IN  List([i \in DOMAIN found |-> Record(PartToRecord(found[i]))])
           Single(name) ==
             LET kid == Last(Children(element, name)) IN
             IF kid.kids = <<>> THEN Text(kid.text) ELSE Record(PartToRecord(kid))
<1>8. ASSUME NEW f \in lists
      PROVE  Collected(f) = fields[f]
  <2>1. PICK t \in RepeatedTags : Plural[t] = f
    BY <1>5
  <2> DEFINE chosen == CHOOSE u \in RepeatedTags : Plural[u] = f
             found == Repeated(element, chosen)
  <2>2. chosen = t
    BY <2>1, PluralIs
  <2>3. Collected(f) = List([i \in DOMAIN found |-> Record(PartToRecord(found[i]))])
    OBVIOUS
  <2> HIDE DEF chosen, lists, Collected
  <2>4. found = RenderItems(t, fields)
    BY <1>1, <2>2 DEF Repeated
  <2>5. fields[f] = List([i \in DOMAIN RenderItems(t, fields) |->
                            Record(PartToRecord(RenderItems(t, fields)[i]))])
    BY <1>6, <2>1
  <2> HIDE DEF found
  <2> QED
    BY <2>3, <2>4, <2>5
<1>9. ASSUME NEW f \in singles
      PROVE  Single(f) = fields[f]
  <2>1. PICK i \in DOMAIN kids : /\ i \in Nat \ {0}
                                 /\ \A j \in DOMAIN kids : kids[j].tag = f <=> j = i
                                 /\ kids[i] = RenderValue(f, fields[f])
    BY <1>1
  <2>2. Last(Children(element, f)) = RenderValue(f, fields[f])
    BY <1>2, <2>1, OnlyChild
  <2>3. \/ fields[f].kind = "text" /\ fields[f] = Text(fields[f].text)
        \/ /\ fields[f].kind = "record" /\ fields[f] = Record(fields[f].fields)
           /\ IsPart(fields[f].fields)
    BY DEF IsContent
  <2>4. CASE fields[f].kind = "text" /\ fields[f] = Text(fields[f].text)
    <3>1. RenderValue(f, fields[f]) = Leaf(f, fields[f].text)
      BY <2>4 DEF RenderValue
    <3>2. /\ Leaf(f, fields[f].text).kids = <<>>
          /\ Leaf(f, fields[f].text).text = fields[f].text
      BY DEF Leaf
    <3> QED
      BY <2>2, <2>4, <3>1, <3>2
  <2>5. CASE /\ fields[f].kind = "record" /\ fields[f] = Record(fields[f].fields)
             /\ IsPart(fields[f].fields)
    <3>1. RenderValue(f, fields[f]) = RenderPart(f, fields[f].fields)
      BY <2>5 DEF RenderValue
    <3>2. /\ RenderPart(f, fields[f].fields).kids # <<>>
          /\ PartToRecord(RenderPart(f, fields[f].fields)) = fields[f].fields
      BY <2>5, PartArrives
    <3> QED
      BY <2>2, <2>5, <3>1, <3>2
  <2> QED
    BY <2>3, <2>4, <2>5
<1>10. ElementToRecord(element) =
         [name \in singles \cup lists |->
            IF name \in lists THEN Collected(name) ELSE Single(name)]
  <2> DEFINE named == {Plural[t] : t \in tags \cap RepeatedTags}
  <2>1. ElementToRecord(element) =
          [name \in (tags \ RepeatedTags) \cup named |->
             IF name \in named THEN Collected(name) ELSE Single(name)]
    BY DEF ElementToRecord, RecordOf
  <2> HIDE DEF tags, singles, lists, Collected, Single, named
  <2> QED
    BY <1>4, <1>7, <2>1 DEF named
<1>11. /\ singles \cup lists = DOMAIN fields
       /\ \A f \in DOMAIN fields : f \notin lists => f \in singles
  OBVIOUS
<1> HIDE DEF singles, lists, Collected, Single, tags
<1>12. ElementToRecord(element) = fields
  BY <1>3, <1>8, <1>9, <1>10, <1>11
<1> QED
  BY <1>1, <1>12 DEF element

-----------------------------------------------------------------------------
(***************************************************************************)
(* Replies                                                                 *)
(***************************************************************************)

\* What parse_query_records finds below the root, with or without a wrapper: all
\* of the elements if they have the tag, and nothing otherwise, unless the tag is
\* that of the wrapper or of a field.
Found(root, tag) == Children(root, tag) \o Grandchildren(root, tag)

LEMMA ConcatNothing ==
  ASSUME NEW s, IsList(s)
  PROVE  s \o <<>> = s /\ <<>> \o s = s
<1> DEFINE none == <<>>
<1>1. IsList(none) /\ Len(none) = 0
  BY DEF IsList
<1> HIDE DEF none
<1>2. /\ IsList(s \o none) /\ Len(s \o none) = Len(s) + Len(none)
      /\ \A i \in 1..Len(s) : (s \o none)[i] = s[i]
  BY <1>1, ConcatLists
<1>3. /\ IsList(none \o s) /\ Len(none \o s) = Len(none) + Len(s)
      /\ \A i \in 1..Len(s) : (none \o s)[Len(none) + i] = s[i]
  BY <1>1, ConcatLists
<1>4. Len(s) \in Nat /\ \A i \in 1..Len(s) : Len(none) + i = i
  BY <1>1 DEF IsList
<1> DEFINE left == s \o none
           right == none \o s
<1>5. /\ IsList(left) /\ Len(left) = Len(s) /\ \A i \in 1..Len(left) : left[i] = s[i]
      /\ IsList(right) /\ Len(right) = Len(s) /\ \A i \in 1..Len(right) : right[i] = s[i]
  BY <1>1, <1>2, <1>3, <1>4
<1> HIDE DEF left, right
<1>6. left = s /\ right = s
  BY <1>5, ListsAreEqual
<1> QED
  BY <1>6 DEF none, left, right

LEMMA FoundIs ==
  ASSUME NEW elements, IsList(elements), NEW tag, tag # "report", NEW wrapped \in BOOLEAN,
         NEW found, IsList(found),
         \/ found = elements /\ \A i \in 1..Len(elements) : elements[i].tag = tag
         \/ found = <<>> /\ \A i \in 1..Len(elements) : elements[i].tag # tag,
         \A i \in 1..Len(elements) : Children(elements[i], tag) = <<>>
  PROVE  Found(Page(elements, wrapped), tag) = found
<1> DEFINE n == Len(elements)
           Holder(name) == Node(name, elements)
           none == <<>>
<1>1. n \in Nat /\ DOMAIN elements = 1..n
  BY DEF IsList
<1>2. ASSUME NEW name
      PROVE  Children(Holder(name), tag) = found
  <2> DEFINE holder == Holder(name)
  <2>1. holder.kids = elements
    BY DEF Node
  <2> HIDE DEF holder
  <2>2. CASE found = elements /\ \A i \in 1..Len(elements) : elements[i].tag = tag
    <3>1. AreItems(holder, tag, 0, elements)
      BY <1>1, <2>1, <2>2 DEF AreItems
    <3> QED
      BY <2>2, <3>1, ChildrenAreItems DEF holder
  <2>3. CASE found = <<>> /\ \A i \in 1..Len(elements) : elements[i].tag # tag
    <3>1. /\ DOMAIN holder.kids \subseteq Nat
          /\ \A i \in DOMAIN holder.kids : holder.kids[i].tag # tag
      BY <1>1, <2>1, <2>3
    <3> QED
      BY <2>3, <3>1, NoChildren DEF holder
  <2> QED
    BY <2>2, <2>3
<1>3. CASE ~wrapped
  <2> DEFINE root == Page(elements, wrapped)
  <2>1. root = Holder("nm_response") /\ root.kids = elements
    BY <1>3 DEF Page, Node
  <2> HIDE DEF root, Holder
  <2>2. [i \in DOMAIN root.kids |-> Children(root.kids[i], tag)] = [i \in 1..n |-> <<>>]
    BY <1>1, <2>1
  <2>3. Grandchildren(root, tag) = <<>>
    BY <1>1, <2>2, FlattenEmpties DEF Grandchildren
  <2>4. Children(root, tag) = found
    BY <1>2, <2>1
  <2> QED
    BY <2>3, <2>4, ConcatNothing DEF Found, root
<1>4. CASE wrapped
  <2> DEFINE root == Page(elements, wrapped)
             holder == Holder("report")
  <2>1. root.kids = <<holder>> /\ holder.tag = "report"
    BY <1>4 DEF Page, Node
  <2>2. Children(holder, tag) = found
    BY <1>2
  <2> HIDE DEF root, holder
  <2>3. [i \in DOMAIN root.kids |-> Children(root.kids[i], tag)] = <<found>>
    BY <2>1, <2>2
  <2>4. Grandchildren(root, tag) = found
    BY <2>3, FlattenOne DEF Grandchildren
  <2>5. Children(root, tag) = <<>>
    BY <2>1, NoChildren
  <2> QED
    BY <2>4, <2>5, ConcatNothing DEF Found, root
<1> QED
  BY <1>3, <1>4

\* A name that is not a field is not among the children of a record.
LEMMA NoField ==
  ASSUME NEW tag, NEW fields, IsContent(fields),
         NEW name, name \notin DOMAIN fields, name \notin RepeatedTags
  PROVE  Children(Render(tag, fields), name) = <<>>
<1> DEFINE element == Render(tag, fields)
           singles == {f \in DOMAIN fields : fields[f].kind # "list"}
<1>1. DOMAIN element.kids \subseteq Nat
  <2>1. IsList(element.kids)
    BY RenderedKids DEF KidsAre
  <2> QED
    BY <2>1 DEF IsList
<1>2. \A i \in DOMAIN element.kids : element.kids[i].tag \in singles \cup RepeatedTags
  BY RenderedTags
<1>3. name \notin singles \cup RepeatedTags
  OBVIOUS
<1> HIDE DEF element, singles
<1>4. \A i \in DOMAIN element.kids : element.kids[i].tag # name
  BY <1>2, <1>3
<1> QED
  BY <1>1, <1>4, NoChildren DEF element

IsSlice(slice) == IsList(slice) /\ \A i \in 1..Len(slice) : slice[i] \in 1..MaxRecords

PageBody(r, slice, wrapped) ==
  Xml(Page([i \in DOMAIN slice |-> Render(r, Content[r][slice[i]])], wrapped))

LEMMA PageParsed ==
  ASSUME NEW r \in Reports, NEW slice, IsSlice(slice), NEW wrapped \in BOOLEAN
  PROVE  ParseQueryRecords(PageBody(r, slice, wrapped), r) =
           [kind |-> "records", records |-> [i \in 1..Len(slice) |-> Content[r][slice[i]]]]
<1> DEFINE n == Len(slice)
           elements == [i \in DOMAIN slice |-> Render(r, Content[r][slice[i]])]
           root == Page(elements, wrapped)
           none == <<>>
           error == "error_response"
<1>1. n \in Nat /\ DOMAIN slice = 1..n /\ \A i \in 1..n : slice[i] \in 1..MaxRecords
  BY DEF IsSlice, IsList
<1>2. \A i \in 1..n : /\ IsContent(Content[r][slice[i]])
                       /\ r \notin DOMAIN Content[r][slice[i]]
                       /\ error \notin DOMAIN Content[r][slice[i]]
  BY <1>1, ContentAssumption
<1>3. elements = [i \in 1..n |-> Render(r, Content[r][slice[i]])]
  BY <1>1
<1>4. r # "report" /\ r # error /\ r \notin RepeatedTags /\ error \notin RepeatedTags
  BY DEF Reports, RepeatedTags
<1> HIDE DEF n, elements, root, error, none
<1>5. IsList(elements) /\ Len(elements) = n
  <2>1. elements = [i \in 1..n |-> elements[i]]
    BY <1>3
  <2> QED
    BY <1>1, <2>1, IsListOf
<1>6. \A i \in 1..n : /\ elements[i].tag = r
                       /\ ElementToRecord(elements[i]) = Content[r][slice[i]]
                       /\ Children(elements[i], r) = <<>>
                       /\ Children(elements[i], error) = <<>>
  BY <1>2, <1>3, <1>4, RecordArrives, NoField
<1>7. Found(root, r) = elements
  BY <1>4, <1>5, <1>6, FoundIs DEF root
<1>8. Found(root, error) = none
  <2>1. IsList(none)
    BY DEF IsList, none
  <2>2. error # "report"
    BY DEF error
  <2>3. \A i \in 1..Len(elements) : elements[i].tag # error
    BY <1>4, <1>5, <1>6
  <2> QED
    BY <1>5, <1>6, <2>1, <2>2, <2>3, FoundIs DEF root, none
<1>9. ErrorResponses(root) = <<>>
  BY <1>8 DEF ErrorResponses, Found, error, none
<1>10. ParseQueryRecords(PageBody(r, slice, wrapped), r) =
         [kind |-> "records",
          records |-> [i \in DOMAIN elements |-> ElementToRecord(elements[i])]]
  <2>1. PageBody(r, slice, wrapped) = Xml(root)
    BY DEF PageBody, root, elements
  <2>2. Xml(root).kind = "xml" /\ Xml(root).root = root
    BY DEF Xml
  <2>3. Children(root, r) \o Grandchildren(root, r) = elements
    BY <1>7 DEF Found
  <2> QED
    BY <1>9, <2>1, <2>2, <2>3 DEF ParseQueryRecords
<1>11. [i \in DOMAIN elements |-> ElementToRecord(elements[i])] =
         [i \in 1..n |-> Content[r][slice[i]]]
  BY <1>5, <1>6 DEF IsList
<1> QED
  BY <1>10, <1>11 DEF n

\* No proxy on the way answers with a page that happens to be XML: such a page
\* would be taken for an empty report (HttpErrorsAreTold).
NoXmlPages == ProxyBodies \subseteq {Malformed, Doctype}

LEMMA ErrorRaises ==
  ASSUME NoXmlPages, NEW r \in Reports, NEW reply \in ErrorReplies
  PROVE  /\ FetchPage(r, reply.body) = Raised(reply.class)
         /\ reply.class \in ReplyClasses
         /\ reply.body # NoBody
<1>1. ASSUME reply.body \in {Malformed, Doctype}, reply.class = "APIError"
      PROVE  FetchPage(r, reply.body) = Raised(reply.class) /\ reply.body # NoBody
  <2>1. reply.body.kind \in {"malformed", "doctype"}
    BY <1>1 DEF Malformed, Doctype
  <2>2. ParseQueryRecords(reply.body, r) = Raised("APIError")
    BY <2>1 DEF ParseQueryRecords
  <2>3. Raised("APIError").kind = "raised"
    BY DEF Raised
  <2>4. NoBody.kind = "no body"
    BY DEF NoBody
  <2> QED
    BY <1>1, <2>1, <2>2, <2>3, <2>4 DEF FetchPage
<1>2. ASSUME NEW text, NEW wrapped \in BOOLEAN,
             reply.body = Xml(Page(<<Leaf("error_response", text)>>, wrapped)),
             reply.class = RaiseErrorResponse(text)
      PROVE  FetchPage(r, reply.body) = Raised(reply.class) /\ reply.body # NoBody
  <2> DEFINE leaf == Leaf("error_response", text)
             elements == <<leaf>>
             root == Page(elements, wrapped)
             tag == "error_response"
  <2>1. leaf.tag = tag /\ leaf.text = text /\ leaf.kids = <<>>
    BY DEF Leaf
  <2>2. reply.body = Xml(root)
    BY <1>2
  <2>3. tag # "report"
    OBVIOUS
  <2> HIDE DEF leaf, root, tag
  <2>4. Children(leaf, tag) = <<>>
    <3>1. DOMAIN leaf.kids = {}
      BY <2>1
    <3> QED
      BY <3>1, NoChildren
  <2>5. IsList(elements) /\ Len(elements) = 1 /\ Head(elements) = leaf /\ elements # <<>>
        /\ \A i \in 1..Len(elements) : elements[i] = leaf
    BY DEF IsList
  <2> HIDE DEF elements
  <2>6. Found(root, tag) = elements
    BY <2>1, <2>3, <2>4, <2>5, FoundIs DEF root
  <2>7. ErrorResponses(root) = elements
    BY <2>6 DEF ErrorResponses, Found, tag
  <2>8. Xml(root).kind = "xml" /\ Xml(root).root = root
    BY DEF Xml
  <2>9. ParseQueryRecords(reply.body, r) = Raised(RaiseErrorResponse(text))
    BY <2>1, <2>2, <2>5, <2>7, <2>8 DEF ParseQueryRecords
  <2>10. Raised(reply.class).kind = "raised" /\ NoBody.kind = "no body"
    BY DEF Raised, NoBody
  <2> QED
    BY <1>2, <2>2, <2>8, <2>9, <2>10 DEF FetchPage
<1>3. ASSUME reply \in NoReplies
      PROVE  reply.body \in {Malformed, Doctype} /\ reply.class = "APIError"
  BY <1>3 DEF NoReplies, NoXmlPages
<1>4. ASSUME reply \in Refusals
      PROVE  \E text \in RefusalTexts, wrapped \in BOOLEAN :
               /\ reply.body = Xml(Page(<<Leaf("error_response", text)>>, wrapped))
               /\ reply.class = RaiseErrorResponse(text)
  <2>1. PICK text \in RefusalTexts, wrapped \in BOOLEAN : reply = Refusal(text, wrapped)
    BY <1>4 DEF Refusals
  <2> QED
    BY <2>1 DEF Refusal, RaiseErrorResponse
<1>5. \A text : RaiseErrorResponse(text) \in {"AuthenticationError", "InvalidRequestError"}
  BY DEF RaiseErrorResponse
<1> QED
  BY <1>1, <1>2, <1>3, <1>4, <1>5 DEF ErrorReplies, ReplyClasses

-----------------------------------------------------------------------------
(***************************************************************************)
(* Models                                                                  *)
(***************************************************************************)

\* The model has all of the record, and nothing else but defaults.
Whole(r, model, sent) ==
  /\ Declared(r) \subseteq DOMAIN model
  /\ Holds(model, sent)
  /\ \A f \in DOMAIN model \ DOMAIN sent : model[f] \in {None, List(<<>>)}

LEMMA ModelIsWhole ==
  ASSUME NEW r \in Reports, NEW sent, IsContent(sent), Accepts(r, sent)
  PROVE  Whole(r, ModelValidate(r, sent), sent)
<1> DEFINE model == ModelValidate(r, sent)
           lists == DOMAIN ListFields(r)
           nested == DOMAIN ModelFields(r)
<1>1. DOMAIN model = Declared(r) \cup DOMAIN sent
  BY DEF ModelValidate
<1>2. ASSUME NEW f \in DOMAIN model \ DOMAIN sent
      PROVE  model[f] \in {None, List(<<>>)}
  BY <1>1, <1>2 DEF ModelValidate
<1>3. \A m, fields : HoldsTexts(PartValidate(m, fields), fields)
  BY DEF HoldsTexts, PartValidate
<1>4. ASSUME NEW f \in DOMAIN sent, f \in lists
      PROVE  HoldsValue(model[f], sent[f])
  <2> DEFINE items == sent[f].items
             part == ListFields(r)[f]
             got == PartsValidate(part, items)
  <2>1. sent[f].kind = "list"
    BY <1>4 DEF Accepts
  <2>2. Len(items) \in Nat /\ DOMAIN items = 1..Len(items)
    <3>1. /\ Len(items) \in Nat
          /\ sent[f] = List([i \in 1..Len(items) |-> Record(items[i].fields)])
      BY <2>1 DEF IsContent
    <3>2. items = [i \in 1..Len(items) |-> Record(items[i].fields)]
      BY <3>1 DEF List
    <3> QED
      BY <3>1, <3>2
  <2>3. model[f] = List(got)
    <3>1. f \notin DOMAIN ModelFields(r)
      BY <1>4 DEF ListFields, ModelFields
    <3> QED
      BY <1>1, <1>4, <3>1 DEF ModelValidate
  <2>4. List(got).kind = "list" /\ List(got).items = got
    BY DEF List
  <2>5. \A i \in 1..Len(items) : HoldsTexts(got[i].fields, items[i].fields)
    BY <1>3, <2>2 DEF Record, PartsValidate
  <2>6. Len(got) = Len(items)
    <3>1. got = [i \in 1..Len(items) |-> got[i]]
      BY <2>2 DEF PartsValidate
    <3> HIDE DEF got, items
    <3> QED
      BY <2>2, <3>1, IsListOf
  <2> HIDE DEF got
  <2> QED
    BY <2>1, <2>3, <2>4, <2>5, <2>6 DEF HoldsValue
<1>5. ASSUME NEW f \in DOMAIN sent, f \notin lists, f \in nested
      PROVE  HoldsValue(model[f], sent[f])
  <2> DEFINE got == PartValidate(ModelFields(r)[f], sent[f].fields)
  <2>1. sent[f].kind = "record"
    BY <1>5 DEF Accepts
  <2>2. model[f] = Record(got)
    BY <1>1, <1>5 DEF ModelValidate
  <2>3. Record(got).kind = "record" /\ Record(got).fields = got
    BY DEF Record
  <2>4. HoldsTexts(got, sent[f].fields)
    BY <1>3
  <2> HIDE DEF got
  <2> QED
    BY <2>1, <2>2, <2>3, <2>4 DEF HoldsValue
<1>6. ASSUME NEW f \in DOMAIN sent, f \notin lists, f \notin nested
      PROVE  HoldsValue(model[f], sent[f])
  <2>1. model[f] = sent[f]
    BY <1>1, <1>6 DEF ModelValidate
  <2>2. \A fields : HoldsTexts(fields, fields)
    BY DEF HoldsTexts
  <2> QED
    BY <2>1, <2>2 DEF HoldsValue
<1>7. Holds(model, sent)
  BY <1>1, <1>4, <1>5, <1>6 DEF Holds
<1> QED
  BY <1>1, <1>2, <1>7 DEF Whole

\* A model tells the record it was built from.
LEMMA IdFieldKept ==
  ASSUME NEW r \in Reports, NEW fields, IdField[r] \in DOMAIN fields
  PROVE  ModelValidate(r, fields)[IdField[r]] = fields[IdField[r]]
<1> DEFINE id == IdField[r]
<1>1. id \notin DOMAIN ListFields(r) /\ id \notin DOMAIN ModelFields(r)
  BY DEF IdField, Reports, ListFields, ModelFields
<1> QED
  BY <1>1 DEF ModelValidate

ModelsOf(r, slice) == [i \in 1..Len(slice) |-> ModelValidate(r, Content[r][slice[i]])]

AllAccepted(r, slice) == \A i \in 1..Len(slice) : Accepts(r, Content[r][slice[i]])

LEMMA PageFetched ==
  ASSUME NEW r \in Reports, NEW slice, IsSlice(slice), NEW wrapped \in BOOLEAN
  PROVE  FetchPage(r, PageBody(r, slice, wrapped)) =
           IF AllAccepted(r, slice) THEN [kind |-> "page", models |-> ModelsOf(r, slice)]
           ELSE Raised("ValidationError")
<1> DEFINE parsed == ParseQueryRecords(PageBody(r, slice, wrapped), r)
           sent == [i \in 1..Len(slice) |-> Content[r][slice[i]]]
<1>1. parsed = [kind |-> "records", records |-> sent]
  BY PageParsed
<1> HIDE DEF parsed
<1>2. parsed.kind = "records" /\ parsed.records = sent
  BY <1>1
<1>3. (\E i \in DOMAIN parsed.records : ~Accepts(r, parsed.records[i])) <=>
        ~AllAccepted(r, slice)
  BY <1>2 DEF AllAccepted
<1>4. [i \in DOMAIN parsed.records |-> ModelValidate(r, parsed.records[i])] =
        ModelsOf(r, slice)
  BY <1>2 DEF ModelsOf
<1> QED
  BY <1>2, <1>3, <1>4 DEF FetchPage, parsed

-----------------------------------------------------------------------------
(***************************************************************************)
(* The invariant                                                           *)
(***************************************************************************)

\* The records have numbers that Content knows.
NumbersInv ==
  /\ born <= MaxRecords
  /\ \A i \in 1..Len(records) : records[i] \in 1..MaxRecords
  /\ answer # <<>> => \A i \in 1..Len(answer[1]) : answer[1][i] \in 1..MaxRecords

\* Every class a report can end with.
RaisedClasses ==
  ReplyClasses \cup TransportClasses \cup {"ValidationError"} \cup Uncaught \cup {"none"}

\* A reply is the page that was answered, or an error; an iteration raises once, at
\* its end; an error ends it with its class or with one from below the parser.
BodyInv ==
  /\ raised \in RaisedClasses
  /\ gen # "finished" => raised = "none"
  /\ gen = "fetching" =>
       \/ body = NoBody
       \/ \E reply \in ErrorReplies : body = reply.body
       \/ /\ answer # <<>>
          /\ \E wrapped \in BOOLEAN : body = PageBody(report, answer[1], wrapped)
  /\ gen \in {"new", "suspended"} => \A reply \in ErrorReplies : body # reply.body
  /\ GatewayErrorsAreTold

\* The models are those of the page that is yielded.
ModelsInv ==
  /\ \A i \in DOMAIN models : Declared(report) \subseteq DOMAIN models[i]
  /\ gen = "suspended" =>
       /\ IsSlice(batch)
       /\ AllAccepted(report, batch)
       /\ models = ModelsOf(report, batch)

ReportInv == IInv /\ report \in Reports /\ NumbersInv /\ BodyInv /\ ModelsInv

-----------------------------------------------------------------------------

LEMMA NumbersOf ==
  ASSUME NEW s \in Seq(Nat)
  PROVE  IsList(s)
  BY DEF IsList

LEMMA ReportInitial ==
  ASSUME NoXmlPages, ReportInit
  PROVE  ReportInv
<1> USE DEF ReportInit, Init
<1>1. IInv
  BY InductiveInit
<1>2. NumbersInv
  <2>1. born \in 0..MaxRecords /\ records = [i \in 1..born |-> i]
    OBVIOUS
  <2>2. Len(records) = born
    BY <2>1
  <2> QED
    BY <2>1, <2>2, MaxRecordsAssumption DEF NumbersInv
<1>3. BodyInv
  BY ErrorRaises DEF BodyInv, GatewayErrorsAreTold, RaisedClasses, ReplyClasses
<1>4. ModelsInv
  BY DEF ModelsInv
<1> QED
  BY <1>1, <1>2, <1>3, <1>4 DEF ReportInv

LEMMA NumbersStep ==
  ASSUME IInv, NumbersInv, [Next]_vars
  PROVE  NumbersInv'
<1> USE DEF NumbersInv
<1>1. /\ records \in Seq(Nat) /\ born \in Nat /\ page \in Nat
      /\ answer \in Seq(Seq(Nat)) /\ Len(answer) <= 1
  BY DEF IInv, TypeOK
<1>2. CASE AppendRecord
  <2>1. /\ born + 1 \in 1..MaxRecords /\ born' = born + 1 /\ answer' = answer
        /\ records' = Append(records, born + 1)
    BY <1>1, <1>2, MaxRecordsAssumption DEF AppendRecord
  <2> QED
    BY <1>1, <2>1
<1>3. ASSUME NEW i \in 1..Len(records), RemoveRecord(i)
      PROVE  NumbersInv'
  <2>1. records' = Without(records, i) /\ answer' = answer /\ born' = born
    BY <1>3 DEF RemoveRecord
  <2>2. /\ Len(records') = Len(records) - 1
        /\ \A j \in 1..Len(records) - 1 :
             records'[j] = records[IF j < i THEN j ELSE j + 1]
    <3>1. Len(records) - 1 \in Nat
      BY <1>1
    <3>2. records' = [j \in 1..Len(records) - 1 |-> records[IF j < i THEN j ELSE j + 1]]
      BY <2>1 DEF Without
    <3>3. Len(records') = Len(records) - 1
      <4>1. records' = [j \in 1..Len(records) - 1 |-> records'[j]]
        BY <3>2
      <4> QED
        BY <3>1, <4>1, IsListOf
    <3> QED
      BY <3>2, <3>3
  <2>3. \A j \in 1..Len(records) - 1 :
          (IF j < i THEN j ELSE j + 1) \in 1..Len(records)
    BY <1>1
  <2>4. \A j \in 1..Len(records') : records'[j] \in 1..MaxRecords
    BY <2>2, <2>3
  <2> QED
    BY <2>1, <2>4
<1>4. CASE GatewayAnswers
  <2>1. /\ answer' = <<Slice(page)>> /\ answer'[1] = Slice(page)
        /\ records' = records /\ born' = born
    BY <1>4 DEF GatewayAnswers, gateway
  <2>2. \A i \in 1..Len(Slice(page)) : /\ page * PageSize + i \in 1..Len(records)
                                      /\ Slice(page)[i] = records[page * PageSize + i]
    BY <1>1, SliceProperties
  <2> QED
    BY <2>1, <2>2
<1>5. ASSUME UNCHANGED gateway, answer' = answer \/ answer' = <<>>
      PROVE  NumbersInv'
  BY <1>5 DEF gateway
<1>6. ASSUME NEW c \in Consumers, CallNext(c) \/ FetchReturns(c) \/ FetchRaises(c)
      PROVE  UNCHANGED gateway /\ (answer' = answer \/ answer' = <<>>)
  BY <1>6 DEF CallNext, FirstNext, YieldNext, NextPage, Stop, AlreadyExecuting, Fetch,
              FetchReturns, TakePage, FetchRaises
<1>7. CASE Close
  BY <1>5, <1>7 DEF Close
<1>8. CASE UNCHANGED vars
  BY <1>5, <1>8 DEF vars
<1> QED
  BY <1>2, <1>3, <1>4, <1>5, <1>6, <1>7, <1>8 DEF Next

\* What does not touch the frame, and does not take the answer away, keeps the
\* rest.
LEMMA FrameKept ==
  ASSUME BodyInv, ModelsInv, UNCHANGED reportVars, gen' = gen, batch' = batch,
         answer' = answer
  PROVE  BodyInv' /\ ModelsInv'
  BY DEF BodyInv, ModelsInv, reportVars, GatewayErrorsAreTold

LEMMA SendPageStep ==
  ASSUME NoXmlPages, ReportInv, GatewaySendsPage
  PROVE  BodyInv' /\ ModelsInv'
<1>1. /\ gen = "fetching" /\ gen' = gen /\ batch' = batch /\ answer' # <<>>
      /\ UNCHANGED <<report, models, raised>>
      /\ \E wrapped \in BOOLEAN : body' = PageBody(report, answer'[1], wrapped)
  BY DEF GatewaySendsPage, GatewayAnswers, frame, PageBody
<1>2. BodyInv'
  BY <1>1 DEF ReportInv, BodyInv, GatewayErrorsAreTold, ReplyClasses
<1>3. ModelsInv'
  BY <1>1 DEF ReportInv, ModelsInv
<1> QED
  BY <1>2, <1>3

LEMMA SendErrorStep ==
  ASSUME ReportInv, GatewaySendsError
  PROVE  BodyInv' /\ ModelsInv'
<1>1. /\ gen = "fetching" /\ gen' = gen /\ batch' = batch /\ answer' = answer
      /\ UNCHANGED <<report, models, raised>>
      /\ \E reply \in ErrorReplies : body' = reply.body
  BY DEF GatewaySendsError, vars, frame
<1>2. BodyInv'
  BY <1>1 DEF ReportInv, BodyInv, GatewayErrorsAreTold, ReplyClasses
<1>3. ModelsInv'
  BY <1>1 DEF ReportInv, ModelsInv
<1> QED
  BY <1>2, <1>3

LEMMA AdvanceStep ==
  ASSUME NoXmlPages, ReportInv, NEW c \in Consumers, Advance(c)
  PROVE  BodyInv' /\ ModelsInv'
<1> USE DEF ReportInv, BodyInv
<1>1. /\ CallNext(c) /\ UNCHANGED <<report, models, raised>>
      /\ body' = IF gen # "fetching" /\ gen' = "fetching" THEN NoBody ELSE body
  BY DEF Advance
<1>2. batch' = batch /\ answer' = answer
  BY <1>1 DEF CallNext, FirstNext, YieldNext, NextPage, Stop, AlreadyExecuting, Fetch, frame
<1>3. \/ gen' = gen
      \/ gen \in {"new", "suspended"} /\ gen' = "fetching"
      \/ gen = "suspended" /\ gen' = "finished"
  BY <1>1 DEF CallNext, FirstNext, YieldNext, NextPage, Stop, AlreadyExecuting, Fetch, frame
<1>4. ModelsInv'
  BY <1>1, <1>2, <1>3 DEF ModelsInv
<1>5. CASE gen' = gen
  BY <1>1, <1>2, <1>4, <1>5 DEF GatewayErrorsAreTold
<1>6. CASE gen \in {"new", "suspended"} /\ gen' = "fetching"
  BY <1>1, <1>2, <1>4, <1>6 DEF GatewayErrorsAreTold, ReplyClasses
<1>7. CASE gen = "suspended" /\ gen' = "finished"
  BY <1>1, <1>2, <1>4, <1>7 DEF GatewayErrorsAreTold, ReplyClasses
<1> QED
  BY <1>3, <1>5, <1>6, <1>7

LEMMA NumberIs ==
  ASSUME report \in Reports, NEW n \in 1..MaxRecords
  PROVE  NumberOf(ModelValidate(report, Content[report][n])) = n
<1> DEFINE id == IdField[report]
           model == ModelValidate(report, Content[report][n])
<1>1. \A m \in 1..MaxRecords : Content[report][m][id] = Content[report][n][id] => m = n
  BY ContentAssumption
<1>2. model[id] = Content[report][n][id]
  BY ContentAssumption, IdFieldKept
<1> HIDE DEF model
<1>3. (CHOOSE m \in 1..MaxRecords : model[id] = Content[report][m][id]) = n
  BY <1>1, <1>2
<1> QED
  BY <1>3 DEF NumberOf, model

\* What fetch() makes of a reply to the current request.
LEMMA Fetched ==
  ASSUME NoXmlPages, ReportInv, gen = "fetching", body # NoBody
  PROVE  LET reply == FetchPage(report, body) IN
         \/ /\ reply.kind = "raised"
            /\ reply.class \in ReplyClasses \cup {"ValidationError"}
            /\ \A error \in ErrorReplies : body = error.body => reply.class = error.class
            /\ reply.class \in ReplyClasses => \E error \in ErrorReplies : body = error.body
         \/ /\ reply.kind = "page"
            /\ \A error \in ErrorReplies : body # error.body
            /\ answer # <<>> /\ IsSlice(answer[1]) /\ AllAccepted(report, answer[1])
            /\ reply.models = ModelsOf(report, answer[1])
<1>1. report \in Reports
  BY DEF ReportInv
<1>2. ASSUME NEW error \in ErrorReplies, body = error.body
      PROVE  /\ FetchPage(report, body) = Raised(error.class)
             /\ error.class \in ReplyClasses
  BY <1>1, <1>2, ErrorRaises
<1>3. \A class : Raised(class).kind = "raised" /\ Raised(class).class = class
  BY DEF Raised
<1>4. CASE \E error \in ErrorReplies : body = error.body
  BY <1>2, <1>3, <1>4
<1>5. CASE \A error \in ErrorReplies : body # error.body
  <2>1. PICK wrapped \in BOOLEAN :
          answer # <<>> /\ body = PageBody(report, answer[1], wrapped)
    BY <1>5 DEF ReportInv, BodyInv
  <2>2. IsSlice(answer[1])
    <3>1. answer[1] \in Seq(Nat)
      BY <2>1 DEF ReportInv, IInv, TypeOK
    <3> QED
      BY <2>1, <3>1, NumbersOf DEF ReportInv, NumbersInv, IsSlice
  <2>3. FetchPage(report, body) =
          IF AllAccepted(report, answer[1])
          THEN [kind |-> "page", models |-> ModelsOf(report, answer[1])]
          ELSE Raised("ValidationError")
    BY <1>1, <2>1, <2>2, PageFetched
  <2>4. CASE AllAccepted(report, answer[1])
    BY <1>5, <2>1, <2>2, <2>3, <2>4
  <2>5. CASE ~AllAccepted(report, answer[1])
    BY <1>3, <1>5, <2>3, <2>5 DEF ReplyClasses
  <2> QED
    BY <2>4, <2>5
<1> QED
  BY <1>4, <1>5

\* The models are taken for the page they were built from: a step of Pagination.
LEMMA ReturnsStep ==
  ASSUME NoXmlPages, ReportInv, NEW c \in Consumers, FetchReturnsModels(c)
  PROVE  FetchReturns(c) /\ BodyInv' /\ ModelsInv'
<1> DEFINE slice == answer[1]
           reply == FetchPage(report, body)
           numbers == [i \in DOMAIN models' |-> NumberOf(models'[i])]
<1>1. /\ body # NoBody /\ reply.kind = "page" /\ models' = reply.models
      /\ TakePage(c, numbers) /\ gen = "fetching" /\ UNCHANGED <<report, body, raised>>
  BY DEF FetchReturnsModels, TakePage
<1>2. /\ \A error \in ErrorReplies : body # error.body
      /\ answer # <<>> /\ IsSlice(slice) /\ AllAccepted(report, slice)
      /\ models' = ModelsOf(report, slice)
  BY <1>1, Fetched
<1>3. report \in Reports
  BY DEF ReportInv
<1>4. numbers = slice
  <2>1. /\ DOMAIN models' = 1..Len(slice)
        /\ \A i \in 1..Len(slice) :
             models'[i] = ModelValidate(report, Content[report][slice[i]])
    BY <1>2 DEF ModelsOf
  <2>2. \A i \in 1..Len(slice) : NumberOf(models'[i]) = slice[i]
    BY <1>2, <1>3, <2>1, NumberIs DEF IsSlice
  <2>3. numbers = [i \in 1..Len(slice) |-> slice[i]]
    BY <2>1, <2>2
  <2> QED
    BY <1>2, <2>3 DEF IsSlice, IsList
<1> HIDE DEF slice, numbers, reply
<1>5. TakePage(c, slice) /\ batch' = slice /\ gen' \in {"suspended", "finished"}
  BY <1>1, <1>4 DEF TakePage
<1>6. FetchReturns(c)
  BY <1>2, <1>5 DEF FetchReturns, slice
<1>7. BodyInv'
  BY <1>1, <1>2, <1>5 DEF ReportInv, BodyInv, GatewayErrorsAreTold, ReplyClasses
<1>8. ModelsInv'
  <2>1. \A i \in DOMAIN models' : Declared(report) \subseteq DOMAIN models'[i]
    BY <1>2 DEF ModelsOf, ModelValidate
  <2> QED
    BY <1>1, <1>2, <1>5, <2>1 DEF ModelsInv
<1> QED
  BY <1>6, <1>7, <1>8

LEMMA FailsStep ==
  ASSUME NoXmlPages, ReportInv, NEW c \in Consumers, FetchFails(c)
  PROVE  BodyInv' /\ ModelsInv'
<1>1. /\ gen = "fetching" /\ gen' = "finished" /\ batch' = batch
      /\ UNCHANGED <<report, body, models>>
  BY DEF FetchFails, FetchRaises
<1>2. \/ body # NoBody /\ FetchPage(report, body).kind = "raised"
           /\ raised' = FetchPage(report, body).class
      \/ raised' \in TransportClasses \cup Uncaught
  BY DEF FetchFails
<1>3. /\ raised' \in RaisedClasses
      /\ \A error \in ErrorReplies :
           body = error.body => raised' \in {error.class} \cup TransportClasses \cup Uncaught
      /\ raised' \in ReplyClasses =>
           \E error \in ErrorReplies : body = error.body /\ raised' = error.class
  <2>1. CASE body # NoBody /\ FetchPage(report, body).kind = "raised"
             /\ raised' = FetchPage(report, body).class
    BY <1>1, <2>1, Fetched DEF RaisedClasses
  <2>2. CASE raised' \in TransportClasses \cup Uncaught
    <3>1. raised' \notin ReplyClasses
      BY <2>2, UncaughtAssumption DEF TransportClasses, ReplyClasses
    <3> QED
      BY <2>2, <3>1 DEF RaisedClasses
  <2> QED
    BY <1>2, <2>1, <2>2
<1>4. BodyInv'
  BY <1>1, <1>3 DEF BodyInv, GatewayErrorsAreTold
<1>5. ModelsInv'
  BY <1>1 DEF ReportInv, ModelsInv
<1> QED
  BY <1>4, <1>5

\* Every step of a report is one of Pagination or a stutter.
LEMMA ReportInductive ==
  ASSUME NoXmlPages, ReportInv, [ReportNext]_allVars
  PROVE  ReportInv' /\ [Next]_vars
<1>1. BodyInv' /\ ModelsInv' /\ [Next]_vars
  <2> USE DEF ReportInv
  <2>1. CASE /\ \/ AppendRecord
                \/ \E i \in 1..Len(records) : RemoveRecord(i)
                \/ Close
             /\ UNCHANGED reportVars
    <3>1. Next
      BY <2>1 DEF Next
    <3>2. \/ gen' = gen /\ batch' = batch /\ answer' = answer
          \/ gen \in {"new", "suspended"} /\ gen' = "finished"
      BY <2>1 DEF AppendRecord, RemoveRecord, Close, frame
    <3>3. CASE gen' = gen /\ batch' = batch /\ answer' = answer
      BY <2>1, <3>1, <3>3, FrameKept
    <3>4. CASE gen \in {"new", "suspended"} /\ gen' = "finished"
      BY <2>1, <3>1, <3>4
      DEF BodyInv, ModelsInv, GatewayErrorsAreTold, ReplyClasses, reportVars
    <3> QED
      BY <3>2, <3>3, <3>4
  <2>2. CASE GatewaySendsPage
    BY <2>2, SendPageStep DEF GatewaySendsPage, Next
  <2>3. CASE GatewaySendsError
    BY <2>3, SendErrorStep DEF GatewaySendsError
  <2>4. ASSUME NEW c \in Consumers, Advance(c)
        PROVE  BodyInv' /\ ModelsInv' /\ [Next]_vars
    BY <2>4, AdvanceStep DEF Advance, Next
  <2>5. ASSUME NEW c \in Consumers, FetchReturnsModels(c)
        PROVE  BodyInv' /\ ModelsInv' /\ [Next]_vars
    BY <2>5, ReturnsStep DEF Next
  <2>6. ASSUME NEW c \in Consumers, FetchFails(c)
        PROVE  BodyInv' /\ ModelsInv' /\ [Next]_vars
    BY <2>6, FailsStep DEF FetchFails, Next
  <2>7. CASE UNCHANGED allVars
    BY <2>7, FrameKept DEF allVars, vars, frame
  <2> QED
    BY <2>1, <2>2, <2>3, <2>4, <2>5, <2>6, <2>7 DEF ReportNext
<1>2. IInv'
  BY <1>1, InductiveStep DEF ReportInv
<1>3. NumbersInv'
  BY <1>1, NumbersStep DEF ReportInv
<1>4. report' \in Reports
  BY DEF ReportInv, ReportNext, reportVars, GatewaySendsPage, GatewaySendsError, Advance,
         FetchReturnsModels, FetchFails, allVars
<1> QED
  BY <1>1, <1>2, <1>3, <1>4 DEF ReportInv

-----------------------------------------------------------------------------
(***************************************************************************)
(* The theorems about reports                                              *)
(***************************************************************************)

LEMMA ReportInvariance ==
  ASSUME NoXmlPages
  PROVE  ReportSpec => []ReportInv
<1>1. ReportInit => ReportInv
  BY ReportInitial
<1>2. ReportInv /\ [ReportNext]_allVars => ReportInv'
  BY ReportInductive
<1> QED
  BY <1>1, <1>2, PTL DEF ReportSpec

\* Types: a report ends with an exception of the SDK, pydantic's ValidationError,
\* one of whatever set the transport does not catch, or none, and every model has
\* the fields its class declares.
THEOREM ReportTypeCorrect ==
  ASSUME NoXmlPages
  PROVE  ReportSpec => []ReportTypeOK
<1>1. ReportInv => ReportTypeOK
  <2> SUFFICES ASSUME ReportInv
               PROVE  ReportTypeOK
    OBVIOUS
  <2>1. gen = "suspended" => Len(models) = Len(batch)
    <3> SUFFICES ASSUME gen = "suspended"
                 PROVE  Len(models) = Len(batch)
      OBVIOUS
    <3>1. Len(batch) \in Nat /\ models = ModelsOf(report, batch)
      BY DEF ReportInv, ModelsInv, IsSlice, IsList
    <3>2. models = [i \in 1..Len(batch) |-> models[i]]
      BY <3>1 DEF ModelsOf
    <3> QED
      BY <3>1, <3>2, IsListOf
  <2> QED
    BY <2>1 DEF ReportInv, BodyInv, ModelsInv, ReportTypeOK, RaisedClasses
<1> QED
  BY ReportInvariance, <1>1, PTL

\* A refusal of the gateway, or something that is no reply, is told: never taken
\* for the end of the report.  And no page is taken for a refusal.
THEOREM ErrorsAreTold ==
  ASSUME NoXmlPages
  PROVE  ReportSpec => []GatewayErrorsAreTold
<1>1. ReportInv => GatewayErrorsAreTold
  BY DEF ReportInv, BodyInv
<1> QED
  BY ReportInvariance, <1>1, PTL

\* Whatever the records are, each arrives with all its fields, actions, products
\* and its plan, in the model of its place on the page.
THEOREM RecordsAreWhole ==
  ASSUME NoXmlPages
  PROVE  ReportSpec => []RecordsArrive
<1>1. ReportInv => RecordsArrive
  <2> SUFFICES ASSUME ReportInv, gen = "suspended", NEW i \in 1..Len(batch)
               PROVE  Whole(report, models[i], Content[report][batch[i]])
    BY DEF RecordsArrive, Whole
  <2> DEFINE sent == Content[report][batch[i]]
  <2>1. /\ report \in Reports /\ batch[i] \in 1..MaxRecords
        /\ Accepts(report, sent) /\ models[i] = ModelValidate(report, sent)
    BY DEF ReportInv, ModelsInv, IsSlice, AllAccepted, ModelsOf
  <2>2. IsContent(sent)
    BY <2>1, ContentAssumption
  <2> HIDE DEF sent
  <2> QED
    BY <2>1, <2>2, ModelIsWhole DEF sent
<1> QED
  BY ReportInvariance, <1>1, PTL

\* A report over XML pages behaves like Pagination over pages of records.
THEOREM ReportImplementsPagination ==
  ASSUME NoXmlPages
  PROVE  ReportSpec => ImplementsPagination
<1>1. ReportInit => Init
  BY DEF ReportInit
<1>2. ReportInv /\ [ReportNext]_allVars => [Next]_vars
  BY ReportInductive
<1> QED
  BY ReportInvariance, <1>1, <1>2, PTL DEF ReportSpec, ImplementsPagination, Spec
=============================================================================
