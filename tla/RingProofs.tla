----------------------------- MODULE RingProofs -----------------------------
(* Proofs about RingGeneric, for any threads, values and size of the ring.  *)
EXTENDS RingGeneric, SequenceTheorems, TLAPS

-----------------------------------------------------------------------------
(* Sections of a circular store *)

\* How many slots lie from a up to, but without, b.
Distance(a, b) == IF a <= b THEN b - a ELSE b - a + Limit

\* The slot that lies k slots behind a.
Slot(a, k) == IF a + k <= MaxEntries THEN a + k ELSE a + k - Limit

Section(S, a, b) == [i \in 1..Distance(a, b) |-> S[Slot(a, i - 1)]]

Indices == 0..MaxEntries
Stores  == [Indices -> Values]

\* The remainders that the indices of a ring give.
LEMMA Remainders ==
    ASSUME NEW n \in Nat \ {0}
    PROVE  /\ \A x \in 0..(n - 1) : x % n = x
           /\ \A x \in n..(2 * n - 1) : x % n = x - n
           /\ \A x \in (-n)..(-1) : x % n = x + n
OBVIOUS

\* A section is a sequence of values, one for each slot.
LEMMA SectionType ==
    ASSUME NEW S \in Stores, NEW a \in Indices, NEW b \in Indices
    PROVE  /\ Distance(a, b) \in 0..MaxEntries
           /\ Section(S, a, b) \in Seq(Values)
           /\ Len(Section(S, a, b)) = Distance(a, b)
           /\ \A i \in 1..Distance(a, b) : Slot(a, i - 1) \in Indices \ {b}
<1> USE SizeAssumption DEF Limit, Indices
<1>1. Distance(a, b) \in 0..MaxEntries
  BY DEF Distance
<1>2. \A i \in 1..Distance(a, b) : Slot(a, i - 1) \in Indices \ {b}
  BY DEF Distance, Slot
<1>3. Section(S, a, b) \in [1..Distance(a, b) -> Values]
  BY <1>2 DEF Section, Stores
<1>4. Section(S, a, b) \in Seq(Values) /\ Len(Section(S, a, b)) = Distance(a, b)
  BY <1>1, <1>3
<1> QED BY <1>1, <1>2, <1>4

\* Only a section from a slot to itself is empty.
LEMMA SectionEmpty ==
    ASSUME NEW S \in Stores, NEW a \in Indices, NEW b \in Indices
    PROVE  Section(S, a, b) = <<>> <=> a = b
<1>1. Section(S, a, b) = <<>> <=> Distance(a, b) = 0
  BY SectionType, EmptySeq
<1>2. Distance(a, b) = 0 <=> a = b
  BY SizeAssumption DEF Distance, Limit, Indices
<1> QED BY <1>1, <1>2

\* The longest section ends just before it starts.
LEMMA SectionFull ==
    ASSUME NEW a \in Indices, NEW b \in Indices
    PROVE  Distance(a, b) = MaxEntries <=> Wrapped(b + 1) = a
BY SizeAssumption DEF Distance, Wrapped, Limit, Indices

\* The section that ends one slot further has one value more.
LEMMA SectionAppend ==
    ASSUME NEW S \in Stores, NEW a \in Indices, NEW b \in Indices, Wrapped(b + 1) # a
    PROVE  Section(S, a, Wrapped(b + 1)) = Append(Section(S, a, b), S[b])
<1> DEFINE s == Section(S, a, b)
           u == Section(S, a, Wrapped(b + 1))
<1>1. Wrapped(b + 1) \in Indices
  BY SizeAssumption DEF Wrapped, Limit, Indices
<1>2. Distance(a, Wrapped(b + 1)) = Distance(a, b) + 1
  BY SizeAssumption DEF Distance, Wrapped, Limit, Indices
<1>3. Slot(a, Distance(a, b)) = b
  BY SizeAssumption DEF Distance, Slot, Limit, Indices
<1>4. S[b] \in Values
  BY DEF Stores
<1>5. s \in Seq(Values) /\ u \in Seq(Values) /\ Len(u) = Len(s) + 1 /\ Len(s) = Distance(a, b)
  BY <1>1, <1>2, SectionType
<1>6. ASSUME NEW i \in 1..Len(u) PROVE u[i] = Append(s, S[b])[i]
  <2>1. u[i] = S[Slot(a, i - 1)]
    BY <1>2, <1>5 DEF Section
  <2>2. CASE i = Len(s) + 1
    BY <1>3, <1>4, <1>5, <2>1, <2>2
  <2>3. CASE i \in 1..Len(s)
    <3>1. s[i] = S[Slot(a, i - 1)]
      BY <1>5, <2>3 DEF Section
    <3> HIDE DEF s, u
    <3> QED BY <1>4, <1>5, <2>1, <2>3, <3>1
  <2> QED BY <1>5, <2>2, <2>3
<1>7. Append(s, S[b]) \in Seq(Values) /\ Len(Append(s, S[b])) = Len(u)
  BY <1>4, <1>5
<1> QED BY <1>5, <1>6, <1>7, SectionType, SeqEqual

\* The section that starts one slot further lacks the first value.
LEMMA SectionTail ==
    ASSUME NEW S \in Stores, NEW a \in Indices, NEW b \in Indices, a # b
    PROVE  /\ Head(Section(S, a, b)) = S[a]
           /\ Section(S, Wrapped(a + 1), b) = Tail(Section(S, a, b))
<1> DEFINE s == Section(S, a, b)
           u == Section(S, Wrapped(a + 1), b)
<1>1. Wrapped(a + 1) \in Indices
  BY SizeAssumption DEF Wrapped, Limit, Indices
<1>2. Distance(a, b) = Distance(Wrapped(a + 1), b) + 1
  BY SizeAssumption DEF Distance, Wrapped, Limit, Indices
<1>3. Slot(a, 0) = a
  BY SizeAssumption DEF Slot, Limit, Indices
<1>4. \A i \in 1..Distance(Wrapped(a + 1), b) : Slot(Wrapped(a + 1), i - 1) = Slot(a, i)
  BY <1>2, SizeAssumption DEF Slot, Distance, Wrapped, Limit, Indices
<1>5. /\ s \in Seq(Values) /\ Len(s) = Distance(a, b) /\ s # <<>>
      /\ u \in Seq(Values) /\ Len(u) = Distance(Wrapped(a + 1), b)
      /\ Distance(Wrapped(a + 1), b) \in Nat
  BY <1>1, SectionType, SectionEmpty
<1>6. /\ Tail(s) \in Seq(Values) /\ Len(Tail(s)) = Len(u)
      /\ \A i \in 1..Len(u) : Tail(s)[i] = s[i + 1]
  BY <1>2, <1>5, HeadTailProperties
<1>7. \A i \in 1..Len(u) : s[i + 1] = u[i]
  BY <1>2, <1>4, <1>5 DEF Section
<1>8. u = Tail(s)
  BY <1>5, <1>6, <1>7, SeqEqual
<1>9. Head(s) = S[a]
  BY <1>2, <1>3, <1>5 DEF Section
<1> QED BY <1>8, <1>9

\* What is stored in the slot behind a section is not in it.
LEMMA SectionStore ==
    ASSUME NEW S \in Stores, NEW a \in Indices, NEW b \in Indices, NEW v \in Values
    PROVE  Section([S EXCEPT ![b] = v], a, b) = Section(S, a, b)
BY SectionType DEF Section, Stores

\* The remainders of RingGeneric find the same section.
LEMMA SectionOfIndices ==
    ASSUME NEW S \in Stores, NEW x \in 0..Limit, NEW b \in Indices
    PROVE  /\ Wrapped(x) \in Indices
           /\ x % Limit = Wrapped(x)
           /\ (b - Wrapped(x)) % Limit = Distance(Wrapped(x), b)
           /\ [i \in 1..Distance(Wrapped(x), b) |-> S[(Wrapped(x) + i - 1) % Limit]]
                = Section(S, Wrapped(x), b)
<1> DEFINE a == Wrapped(x)
<1>1. Limit \in Nat \ {0} /\ MaxEntries = Limit - 1
  BY SizeAssumption DEF Limit
<1>2. /\ \A y \in 0..(Limit - 1) : y % Limit = y
      /\ \A y \in Limit..(2 * Limit - 1) : y % Limit = y - Limit
      /\ \A y \in (-Limit)..(-1) : y % Limit = y + Limit
  BY <1>1, Remainders
<1>3. a \in Indices
  BY <1>1 DEF Wrapped, Indices
<1>4. x % Limit = a
  <2>1. CASE x = Limit
    BY <1>1, <1>2, <2>1 DEF Wrapped
  <2>2. CASE x # Limit
    BY <1>1, <1>2, <2>2 DEF Wrapped
  <2> QED BY <2>1, <2>2
<1> HIDE DEF a
<1>5. (b - a) % Limit = Distance(a, b)
  <2>1. CASE a <= b
    BY <1>1, <1>2, <1>3, <2>1 DEF Distance, Indices
  <2>2. CASE b < a
    BY <1>1, <1>2, <1>3, <2>2 DEF Distance, Indices
  <2> QED BY <1>1, <1>3, <2>1, <2>2 DEF Indices
<1>6. ASSUME NEW i \in 1..Distance(a, b) PROVE (a + i - 1) % Limit = Slot(a, i - 1)
  <2>1. i \in 1..MaxEntries
    <3>1. Distance(a, b) \in 0..MaxEntries
      BY <1>3, SectionType
    <3> QED BY <1>1, <3>1
  <2>2. CASE a + (i - 1) <= MaxEntries
    BY <1>1, <1>2, <1>3, <2>1, <2>2 DEF Slot, Indices
  <2>3. CASE a + (i - 1) > MaxEntries
    BY <1>1, <1>2, <1>3, <2>1, <2>3 DEF Slot, Indices
  <2> QED BY <1>1, <1>3, <2>1, <2>2, <2>3 DEF Indices
<1>7. [i \in 1..Distance(a, b) |-> S[(a + i - 1) % Limit]] = Section(S, a, b)
  BY <1>6 DEF Section
<1> QED BY <1>3, <1>4, <1>5, <1>7 DEF a

-----------------------------------------------------------------------------
(* Type correctness *)

\* Who holds the Lock, and what its holder knows of the indices. A call is
\* made only by threads that may make it.
Holding == {"insWrap", "insTest", "extWrap", "flushInsert"}

HolderKnows(t) ==
    /\ Lock = t <=> pc[t] \in Holding
    /\ pc[t] = "insWrap" => NextInsert = OldNextInsert[t] + 1
    /\ pc[t] = "insTest" => NextInsert = Wrapped(OldNextInsert[t] + 1)
    /\ Inserting(t) => Storage[OldNextInsert[t]] = value[t]
    /\ pc[t] = "flushInsert" => NextExtract = 0

OwnCall(t) ==
    /\ pc[t] \in InsertSteps => t \in Inserters
    /\ pc[t] \in ExtractSteps => t \in Extractors

IInv == TypeOK /\ \A t \in Threads : HolderKnows(t) /\ OwnCall(t)

LEMMA InitIInv == Init => IInv
<1> SUFFICES ASSUME Init PROVE IInv
  OBVIOUS
<1>1. TypeOK
  <2>1. NextInsert # Limit /\ NextExtract # Limit
    BY SizeAssumption DEF Init, Limit
  <2>2. NextInsert \in 0..Limit /\ NextExtract \in 0..Limit /\ 0 \in 0..MaxEntries
    BY SizeAssumption DEF Init, Limit
  <2>3. /\ OldNextInsert \in [Threads -> 0..MaxEntries]
        /\ value \in [Threads -> Values \cup {None}]
        /\ result \in [Threads -> Results]
        /\ pc \in [Threads -> Steps]
    BY <2>2 DEF Init, Steps, Results
  <2> QED BY <2>1, <2>2, <2>3 DEF Init, TypeOK
<1>2. ASSUME NEW t \in Threads PROVE HolderKnows(t) /\ OwnCall(t)
  BY ThreadsAssumption
     DEF Init, HolderKnows, OwnCall, Holding, Inserting, InsertSteps, ExtractSteps
<1> QED BY <1>1, <1>2 DEF IInv

LEMMA CallIInv == IInv /\ Call => IInv'
<1> SUFFICES ASSUME IInv, Call PROVE IInv'
  OBVIOUS
<1> USE SizeAssumption, ThreadsAssumption
    DEF IInv, TypeOK, HolderKnows, OwnCall, Holding, Inserting, InsertSteps, ExtractSteps,
       FlushSteps, Steps, Results, Limit, Threads, Goto, Ends, Acquire, Release, ring
<1>1. ASSUME NEW t \in Inserters, NEW v \in Values, Insert(t, v) PROVE IInv'
  BY <1>1 DEF Insert
<1>2. ASSUME NEW t \in Extractors, Extract(t) PROVE IInv'
  BY <1>2 DEF Extract
<1>3. ASSUME NEW t \in Flushers, Flush(t) PROVE IInv'
  BY <1>3 DEF Flush
<1> QED BY <1>1, <1>2, <1>3 DEF Call

LEMMA AdvanceIInv == ASSUME NEW t \in Threads PROVE IInv /\ Advance(t) => IInv'
<1> SUFFICES ASSUME IInv, Advance(t) PROVE IInv'
  OBVIOUS
<1> USE SizeAssumption, ThreadsAssumption
    DEF IInv, TypeOK, HolderKnows, OwnCall, Holding, Inserting, InsertSteps, ExtractSteps,
       FlushSteps, Steps, Results, Limit, Goto, Ends, Acquire, Release, ring
<1>1. CASE InsStore(t)
  BY <1>1 DEF InsStore
<1>2. CASE InsWrap(t)
  BY <1>2 DEF InsWrap, Wrapped
<1>3. CASE InsTooMany(t)
  BY <1>3 DEF InsTooMany, Restore
<1>4. CASE InsDone(t)
  BY <1>4 DEF InsDone
<1>5. CASE InsSignal(t)
  BY <1>5 DEF InsSignal, Announce
<1>6. CASE ExtReset(t)
  BY <1>6 DEF ExtReset
<1>7. CASE ExtTest(t)
  BY <1>7 DEF ExtTest
<1>8. CASE ExtSignalled(t)
  BY <1>8 DEF ExtSignalled
<1>9. CASE ExtTimedOut(t)
  BY <1>9 DEF ExtTimedOut
<1>10. CASE ExtTake(t)
  BY <1>10 DEF ExtTake
<1>11. CASE ExtNothing(t)
  BY <1>11 DEF ExtNothing
<1>12. CASE ExtWrap(t)
  BY <1>12 DEF ExtWrap, Wrapped
<1>13. CASE FlushExtract(t)
  BY <1>13 DEF FlushExtract
<1>14. CASE FlushInsert(t)
  BY <1>14 DEF FlushInsert
<1> QED BY <1>1, <1>2, <1>3, <1>4, <1>5, <1>6, <1>7, <1>8, <1>9, <1>10, <1>11, <1>12,
           <1>13, <1>14 DEF Advance

LEMMA NextIInv == IInv /\ [Next]_vars => IInv'
<1>1. IInv /\ UNCHANGED vars => IInv'
  BY DEF IInv, TypeOK, HolderKnows, OwnCall, Inserting, vars, ring
<1> QED BY <1>1, CallIInv, AdvanceIInv DEF Next

LEMMA Inductive == Spec => []IInv
BY InitIInv, NextIInv, PTL DEF Spec

\* The variables of the ring have their types, and an index is out of its range
\* only while the thread that moved it on holds the Lock (ring_generic.cpp:53-121).
THEOREM TypeCorrect == Spec => []TypeOK
<1>1. IInv => TypeOK
  BY DEF IInv
<1> QED BY <1>1, Inductive, PTL

-----------------------------------------------------------------------------
(* The ring is a queue *)

InSection ==
    /\ EndIndex \in Indices
    /\ FirstIndex \in Indices
    /\ FirstIndex = Wrapped(NextExtract)
    /\ Storage \in Stores
    /\ Length = Distance(FirstIndex, EndIndex)
    /\ Contents = IF BeingFlushed THEN <<>> ELSE Section(Storage, FirstIndex, EndIndex)

\* The contents are the section of the store between the two indices.
LEMMA ContentsAreSection == IInv => InSection
<1> SUFFICES ASSUME IInv PROVE InSection
  OBVIOUS
<1>1. EndIndex \in Indices
  BY SizeAssumption, ThreadsAssumption
     DEF IInv, TypeOK, HolderKnows, Holding, Inserting, EndIndex, Indices, Limit
<1>2. Storage \in Stores /\ NextExtract \in 0..Limit
  BY DEF IInv, TypeOK, Stores, Indices
<1>3. FirstIndex = Wrapped(NextExtract) /\ FirstIndex \in Indices
  BY <1>1, <1>2, SectionOfIndices DEF FirstIndex
<1>4. Length = Distance(FirstIndex, EndIndex)
  BY <1>1, <1>2, <1>3, SectionOfIndices DEF Length
<1>5. [i \in 1..Length |-> Storage[(FirstIndex + i - 1) % Limit]]
        = Section(Storage, FirstIndex, EndIndex)
  <2>1. [i \in 1..Distance(Wrapped(NextExtract), EndIndex) |->
            Storage[(Wrapped(NextExtract) + i - 1) % Limit]]
          = Section(Storage, Wrapped(NextExtract), EndIndex)
    BY <1>1, <1>2, SectionOfIndices
  <2> QED BY <1>3, <1>4, <2>1
<1> QED BY <1>1, <1>2, <1>3, <1>4, <1>5 DEF InSection, Contents

\* The same after a step.
LEMMA ContentsAreSectionNext == IInv' => InSection'
BY ContentsAreSection, PTL

\* A step that leaves these alone leaves the contents alone.
LEMMA SameContents ==
    ASSUME InSection, InSection', BeingFlushed' = BeingFlushed,
           Wrapped(NextExtract') = Wrapped(NextExtract), EndIndex' = EndIndex,
           \/ Storage' = Storage
           \/ \E v \in Values : Storage' = [Storage EXCEPT ![EndIndex] = v]
    PROVE  Contents' = Contents
<1>1. FirstIndex' = FirstIndex
  BY DEF InSection, Wrapped, Limit
<1>2. Section(Storage', FirstIndex, EndIndex) = Section(Storage, FirstIndex, EndIndex)
  BY SectionStore DEF InSection
<1>3. Section(Storage', FirstIndex', EndIndex') = Section(Storage', FirstIndex, EndIndex)
  BY <1>1
<1> QED BY <1>2, <1>3 DEF InSection

StepFacts == IInv /\ IInv' /\ InSection /\ InSection'

\* Steps that change the contents for nobody.
Quiet(t) ==
    \/ InsStore(t) \/ InsWrap(t) \/ InsTooMany(t) \/ InsSignal(t)
    \/ ExtReset(t) \/ ExtTest(t) \/ ExtSignalled(t) \/ ExtTimedOut(t)
    \/ ExtNothing(t) \/ ExtWrap(t) \/ FlushInsert(t)

LEMMA QuietStep ==
    ASSUME StepFacts, NEW t \in Threads, Quiet(t)
    PROVE  Contents' = Contents
<1> USE SizeAssumption, ThreadsAssumption
    DEF StepFacts, IInv, TypeOK, HolderKnows, Holding, Inserting, Limit, Goto, Acquire, Release,
        ring, EndIndex, BeingFlushed
<1>1. CASE InsStore(t)
  BY <1>1, SameContents DEF InsStore
<1>2. CASE InsWrap(t)
  BY <1>2, SameContents DEF InsWrap
<1>3. CASE InsTooMany(t)
  BY <1>3, SameContents DEF InsTooMany, Restore
<1>4. CASE InsSignal(t)
  BY <1>4, SameContents DEF InsSignal
<1>5. CASE ExtReset(t)
  BY <1>5, SameContents DEF ExtReset
<1>6. CASE ExtTest(t)
  BY <1>6, SameContents DEF ExtTest
<1>7. CASE ExtSignalled(t)
  BY <1>7, SameContents DEF ExtSignalled
<1>8. CASE ExtTimedOut(t)
  BY <1>8, SameContents DEF ExtTimedOut
<1>9. CASE ExtNothing(t)
  BY <1>9, SameContents DEF ExtNothing
<1>10. CASE ExtWrap(t)
  BY <1>10, SameContents DEF ExtWrap, Wrapped
<1>11. CASE FlushInsert(t)
  BY <1>11, SectionEmpty DEF FlushInsert, InSection, Wrapped
<1> QED BY <1>1, <1>2, <1>3, <1>4, <1>5, <1>6, <1>7, <1>8, <1>9, <1>10, <1>11 DEF Quiet

\* The calls and the other steps of a queue, seen in the ring.
QueueResult == [t \in Threads |-> ResultOf(t)]

QueueEnds(t, r) == QueueResult' = [QueueResult EXCEPT ![t] = r]

\* Only the thread that steps has a new result in the queue.
LEMMA ResultStep ==
    ASSUME IInv, IInv', NEW t \in Threads, NEW to \in Steps, NEW r,
           pc' = [pc EXCEPT ![t] = to],
           \/ result' = [result EXCEPT ![t] = r]
           \/ result' = result /\ r = result[t]
    PROVE  QueueEnds(t, IF to = "flushInsert" THEN NoError ELSE r)
<1>1. ASSUME NEW u \in Threads \ {t} PROVE ResultOf(u)' = ResultOf(u)
  BY DEF IInv, TypeOK, ResultOf
<1>2. ResultOf(t)' = IF to = "flushInsert" THEN NoError ELSE r
  BY DEF IInv, TypeOK, ResultOf
<1> QED BY <1>1, <1>2 DEF QueueEnds, QueueResult

\* A value that finds room goes to the end of the queue.
LEMMA InsDoneStep ==
    ASSUME StepFacts, NEW t \in Threads, InsDone(t)
    PROVE  /\ value[t] \in Values
           /\ Len(Contents) < MaxEntries
           /\ Contents' = Append(Contents, value[t])
           /\ QueueEnds(t, NoError)
<1> USE SizeAssumption, ThreadsAssumption DEF StepFacts
<1> DEFINE a == FirstIndex
           b == EndIndex
<1>1. /\ pc[t] = "insTest" /\ Lock = t /\ Lock' = None
      /\ b = OldNextInsert[t] /\ NextInsert = Wrapped(b + 1) /\ Storage[b] = value[t]
      /\ ~BeingFlushed /\ ~BeingFlushed'
  BY DEF InsDone, IInv, HolderKnows, Holding, Inserting, Goto, Release, EndIndex, BeingFlushed
<1>2. /\ a \in Indices /\ b \in Indices /\ Storage \in Stores
      /\ Contents = Section(Storage, a, b)
  BY <1>1 DEF InSection
<1>3. Wrapped(b + 1) # a
  BY <1>1 DEF InsDone, IInv, TypeOK, InSection, Wrapped
<1>4. EndIndex' = Wrapped(b + 1) /\ FirstIndex' = a /\ Storage' = Storage
  BY <1>1 DEF InsDone, InSection, EndIndex, ring
<1>5. Contents' = Section(Storage, a, Wrapped(b + 1))
  BY <1>1, <1>4 DEF InSection
<1>6. Contents' = Append(Contents, value[t])
  BY <1>1, <1>2, <1>3, <1>5, SectionAppend
<1>7. Len(Contents) < MaxEntries
  BY <1>2, <1>3, SectionType, SectionFull
<1>8. value[t] \in Values
  BY <1>1, <1>2 DEF Stores
<1>9. QueueEnds(t, NoError)
  BY ResultStep DEF InsDone, Goto, Ends, Steps, InsertSteps
<1> QED BY <1>6, <1>7, <1>8, <1>9

\* A value is refused only if the queue is full.
LEMMA InsTooManyStep ==
    ASSUME StepFacts, NEW t \in Threads, InsTooMany(t)
    PROVE  /\ Len(Contents) = MaxEntries
           /\ Length = MaxEntries
           /\ QueueEnds(t, TooManyEntries)
<1> USE SizeAssumption, ThreadsAssumption DEF StepFacts
<1>1. /\ pc[t] = "insTest" /\ Lock = t /\ ~BeingFlushed
      /\ NextInsert = Wrapped(EndIndex + 1)
  BY DEF InsTooMany, IInv, HolderKnows, Holding, Inserting, Goto, Release, EndIndex, BeingFlushed
<1>2. Wrapped(EndIndex + 1) = FirstIndex
  BY <1>1 DEF InsTooMany, IInv, TypeOK, InSection, Wrapped
<1>3. Distance(FirstIndex, EndIndex) = MaxEntries
  BY <1>2, SectionFull DEF InSection
<1>4. QueueEnds(t, TooManyEntries)
  BY ResultStep DEF InsTooMany, Goto, Ends, Steps
<1> QED BY <1>1, <1>3, <1>4, SectionType DEF InSection

\* The value taken is the first of the queue.
LEMMA ExtTakeStep ==
    ASSUME StepFacts, NEW t \in Threads, ExtTake(t)
    PROVE  /\ Contents # <<>>
           /\ Contents' = Tail(Contents)
           /\ QueueEnds(t, Head(Contents))
<1> USE SizeAssumption, ThreadsAssumption DEF StepFacts
<1> DEFINE a == FirstIndex
           b == EndIndex
<1>1. /\ Lock = None /\ Lock' = t /\ pc[t] = "extLock" /\ pc'[t] = "extWrap"
      /\ ~BeingFlushed /\ ~BeingFlushed' /\ b = NextInsert
  BY DEF ExtTake, IInv, TypeOK, Goto, Acquire, EndIndex, BeingFlushed
<1>2. /\ a \in Indices /\ b \in Indices /\ Storage \in Stores
      /\ Contents = Section(Storage, a, b)
  BY <1>1 DEF InSection
<1>3. a = NextExtract /\ a # b
  BY <1>1 DEF ExtTake, IInv, TypeOK, InSection, Wrapped
<1>4. EndIndex' = b /\ Storage' = Storage /\ FirstIndex' = Wrapped(a + 1)
  BY <1>1, <1>3 DEF ExtTake, InSection, EndIndex, Inserting
<1>5. Contents' = Section(Storage, Wrapped(a + 1), b)
  BY <1>1, <1>4 DEF InSection
<1>6. Contents' = Tail(Contents) /\ Head(Contents) = Storage[a]
  BY <1>2, <1>3, <1>5, SectionTail
<1>7. Contents # <<>>
  BY <1>2, <1>3, SectionEmpty
<1>8. QueueEnds(t, Storage[NextExtract])
  BY ResultStep DEF ExtTake, Goto, Ends, Steps, ExtractSteps
<1> QED BY <1>3, <1>6, <1>7, <1>8

\* An extractor goes away with nothing only if the queue is empty.
LEMMA ExtNothingStep ==
    ASSUME StepFacts, NEW t \in Threads, ExtNothing(t)
    PROVE  Contents = <<>> /\ QueueEnds(t, NothingToGet)
<1> USE SizeAssumption, ThreadsAssumption DEF StepFacts
<1>1. FirstIndex = EndIndex /\ ~BeingFlushed
  BY DEF ExtNothing, IInv, TypeOK, InSection, EndIndex, BeingFlushed, Wrapped
<1>2. Contents = <<>>
  BY <1>1, SectionEmpty DEF InSection
<1>3. QueueEnds(t, NothingToGet)
  BY ResultStep DEF ExtNothing, Goto, Ends, Steps
<1> QED BY <1>2, <1>3

\* A flush empties the queue with its first step.
LEMMA FlushExtractStep ==
    ASSUME StepFacts, NEW t \in Threads, FlushExtract(t)
    PROVE  Contents' = <<>> /\ QueueEnds(t, NoError)
<1>1. BeingFlushed'
  BY ThreadsAssumption DEF StepFacts, FlushExtract, IInv, TypeOK, Goto, Acquire, BeingFlushed
<1>2. QueueEnds(t, NoError)
  BY ResultStep DEF StepFacts, FlushExtract, Goto, Steps, FlushSteps
<1> QED BY <1>1, <1>2 DEF StepFacts, InSection

\* A call leaves the contents alone; its outcome is open.
LEMMA CallStep ==
    ASSUME StepFacts, Call
    PROVE  Contents' = Contents /\ \E t \in Threads : QueueEnds(t, Unknown)
<1> USE ThreadsAssumption
    DEF StepFacts, IInv, TypeOK, HolderKnows, Holding, Inserting, Goto, Ends, ring, EndIndex,
        BeingFlushed
<1>1. ASSUME NEW t \in Inserters, NEW v \in Values, Insert(t, v)
      PROVE  Contents' = Contents /\ t \in Threads /\ QueueEnds(t, Unknown)
  BY <1>1, SameContents, ResultStep DEF Insert, Threads, Steps, InsertSteps
<1>2. ASSUME NEW t \in Extractors, Extract(t)
      PROVE  Contents' = Contents /\ t \in Threads /\ QueueEnds(t, Unknown)
  BY <1>2, SameContents, ResultStep DEF Extract, Threads, Steps, ExtractSteps
<1>3. ASSUME NEW t \in Flushers, Flush(t)
      PROVE  Contents' = Contents /\ t \in Threads /\ QueueEnds(t, Unknown)
  BY <1>3, SameContents, ResultStep DEF Flush, Threads, Steps, FlushSteps
<1> QED BY <1>1, <1>2, <1>3 DEF Call

\* The steps of a thread that no caller notices.
Hidden(t) ==
    \/ InsStore(t) \/ InsWrap(t) \/ InsSignal(t)
    \/ ExtReset(t) \/ ExtTest(t) \/ ExtSignalled(t) \/ ExtTimedOut(t) \/ ExtWrap(t)
    \/ FlushInsert(t)

LEMMA HiddenStep ==
    ASSUME StepFacts, NEW t \in Threads, Hidden(t)
    PROVE  Contents' = Contents /\ QueueResult' = QueueResult
<1>1. Contents' = Contents
  BY QuietStep DEF Hidden, Quiet
<1>2. ASSUME NEW u \in Threads PROVE ResultOf(u)' = ResultOf(u)
  BY DEF Hidden, StepFacts, IInv, TypeOK, ResultOf, Goto, Ends, InsStore, InsWrap, InsSignal,
         ExtReset, ExtTest, ExtSignalled, ExtTimedOut, ExtWrap, FlushInsert
<1> QED BY <1>1, <1>2 DEF QueueResult

LEMMA StepFactsHold == IInv /\ IInv' => StepFacts
BY ContentsAreSection, ContentsAreSectionNext DEF StepFacts

LEMMA QueueStep == IInv /\ IInv' /\ [Next]_vars => [Fifo!Next]_<<Contents, QueueResult>>
<1> SUFFICES ASSUME IInv, IInv', [Next]_vars
             PROVE  [Fifo!Next]_<<Contents, QueueResult>>
  OBVIOUS
<1>0. StepFacts
  BY StepFactsHold
<1> USE DEF Fifo!Next, Fifo!Ends, QueueEnds, QueueResult
<1>1. CASE UNCHANGED vars
  <2>1. Contents' = Contents
    BY <1>1 DEF vars, ring, Contents, BeingFlushed, Length, EndIndex, FirstIndex, Inserting
  <2>2. QueueResult' = QueueResult
    BY <1>1 DEF vars, ResultOf
  <2> QED BY <2>1, <2>2
<1>2. CASE Call
  BY <1>0, <1>2, CallStep DEF Fifo!Begin
<1>3. ASSUME NEW t \in Threads, Advance(t) PROVE [Fifo!Next]_<<Contents, QueueResult>>
  <2>1. CASE Hidden(t)
    BY <1>0, <2>1, HiddenStep
  <2>2. CASE InsTooMany(t)
    BY <1>0, <2>2, InsTooManyStep, QuietStep DEF Fifo!Reject, Quiet
  <2>3. CASE InsDone(t)
    BY <1>0, <2>3, InsDoneStep DEF Fifo!Put
  <2>4. CASE ExtTake(t)
    BY <1>0, <2>4, ExtTakeStep DEF Fifo!Get
  <2>5. CASE ExtNothing(t)
    BY <1>0, <2>5, ExtNothingStep, QuietStep DEF Fifo!Miss, Quiet
  <2>6. CASE FlushExtract(t)
    BY <1>0, <2>6, FlushExtractStep DEF Fifo!Clear
  <2> QED BY <1>3, <2>1, <2>2, <2>3, <2>4, <2>5, <2>6 DEF Advance, Hidden
<1> QED BY <1>1, <1>2, <1>3 DEF Next

LEMMA QueueInit == Init => Fifo!Init
<1> SUFFICES ASSUME Init PROVE Fifo!Init
  OBVIOUS
<1>1. InSection /\ EndIndex = 0 /\ FirstIndex = 0 /\ ~BeingFlushed
  BY InitIInv, ContentsAreSection, SizeAssumption
     DEF Init, EndIndex, BeingFlushed, InSection, Wrapped, Limit
<1>2. Contents = <<>>
  BY <1>1, SectionEmpty DEF InSection
<1>3. [t \in Threads |-> ResultOf(t)] = [t \in Threads |-> Unknown]
  BY DEF Init, ResultOf
<1> QED BY <1>2, <1>3 DEF Fifo!Init

\* The ring is a bounded first-in-first-out queue (ring_generic.cpp:53-121), for
\* any number of threads that insert, extract and flush: what InsDone adds is
\* what ExtTake finds, in this order, and only a full ring refuses a value.
THEOREM RingIsQueue == Spec => ImplementsFifo
<1>1. Init => Fifo!Init
  BY QueueInit
<1>2. IInv /\ IInv' /\ [Next]_vars => [Fifo!Next]_<<Contents, [t \in Threads |-> ResultOf(t)]>>
  BY QueueStep DEF QueueResult
<1> QED BY <1>1, <1>2, Inductive, PTL DEF Spec, ImplementsFifo, Fifo!Spec

-----------------------------------------------------------------------------
(* Waiting *)

\* As long as something is in the ring, and it is not being flushed, the
\* distance of the indices says how much.
LengthIsExact == Contents # <<>> => Len(Contents) = Length

LEMMA LengthOfContents == InSection => LengthIsExact
BY SectionType DEF InSection, LengthIsExact

\* The same after a step.
LEMMA LengthOfContentsNext == InSection' => LengthIsExact'
BY LengthOfContents, PTL

\* The test without the Lock sends an extractor to sleep only beside an empty or a
\* full ring: nobody but the extractor moves NextExtract out of its range.
LEMMA ExtTestStep ==
    ASSUME StepFacts, NEW t \in Extractors, ExtTest(t), pc'[t] = "extWait", Contents' # <<>>
    PROVE  Length' = MaxEntries
<1> USE SizeAssumption, ThreadsAssumption DEF StepFacts
<1>1. /\ pc[t] = "extTest" /\ t \in Threads /\ NextExtract = NextInsert
      /\ Contents' = Contents
  BY QuietStep DEF ExtTest, Goto, IInv, TypeOK, Threads, Quiet
<1>2. NextExtract # Limit
  BY <1>1, OneExtractor DEF IInv, TypeOK, OwnCall, ExtractSteps
<1>3. FirstIndex = NextInsert
  BY <1>1, <1>2 DEF InSection, Wrapped
<1>4. ~BeingFlushed /\ FirstIndex # EndIndex
  BY <1>1, SectionEmpty DEF InSection
<1>5. Lock # None /\ Inserting(Lock) /\ EndIndex = OldNextInsert[Lock] /\ Lock \in Threads
  BY <1>3, <1>4 DEF EndIndex, IInv, TypeOK
<1>6. Wrapped(EndIndex + 1) = FirstIndex
  BY <1>1, <1>2, <1>3, <1>5 DEF Inserting, IInv, HolderKnows, Wrapped
<1>7. Length = MaxEntries
  BY <1>6, SectionFull DEF InSection
<1>8. Len(Contents') = Length'
  BY LengthOfContentsNext DEF LengthIsExact
<1>9. Len(Contents) = Length
  BY <1>1, LengthOfContents DEF LengthIsExact
<1> QED BY <1>1, <1>7, <1>8, <1>9

\* An extractor that sleeps keeps its reason to: nobody else takes from the ring
\* or resets the event.
LEMMA OtherStep ==
    ASSUME StepFacts, [Next]_vars, NoLostWakeUp, NEW t \in Extractors,
           pc[t] = "extWait", ~Signal', Contents' # <<>>
    PROVE  \/ \E u \in Inserters : pc'[u] = "insSignal"
           \/ Length' = MaxEntries
<1> USE DEF StepFacts
<1>1. Length' = Len(Contents')
  BY LengthOfContentsNext DEF LengthIsExact
<1>2. ASSUME Contents' = Contents, ~Signal,
             \A u \in Inserters : pc[u] = "insSignal" => pc'[u] = "insSignal"
      PROVE  \/ \E u \in Inserters : pc'[u] = "insSignal"
             \/ Length' = MaxEntries
  BY <1>1, <1>2, LengthOfContents DEF NoLostWakeUp, LengthIsExact
<1>3. CASE UNCHANGED vars
  <2>1. Contents' = Contents
    BY <1>3 DEF vars, ring, Contents, BeingFlushed, Length, EndIndex, FirstIndex, Inserting
  <2> QED BY <1>2, <1>3, <2>1 DEF vars
<1>4. CASE Call
  <2>1. Contents' = Contents
    BY <1>4, CallStep
  <2>2. ~Signal /\ \A u \in Inserters : pc[u] = "insSignal" => pc'[u] = "insSignal"
    BY <1>4 DEF Call, Insert, Extract, Flush, Goto, IInv, TypeOK, Threads
  <2> QED BY <1>2, <2>1, <2>2
<1>5. ASSUME NEW u \in Threads, Advance(u)
      PROVE  \/ \E w \in Inserters : pc'[w] = "insSignal"
             \/ Length' = MaxEntries
  <2>1. CASE InsDone(u)
    BY <2>1 DEF InsDone, Goto, IInv, TypeOK, OwnCall, InsertSteps
  <2>2. ~InsSignal(u)
    BY DEF InsSignal, Announce
  <2>3. ~ExtReset(u) /\ ~ExtTake(u)
    BY OneExtractor DEF ExtReset, ExtTake, Goto, IInv, OwnCall, ExtractSteps
  <2>4. CASE FlushExtract(u)
    BY <2>4, FlushExtractStep
  <2>5. CASE Quiet(u)
    <3>1. Contents' = Contents
      BY <2>5, QuietStep
    <3>2. ~Signal /\ \A w \in Inserters : pc[w] = "insSignal" => pc'[w] = "insSignal"
      BY <2>2, <2>3, <2>5
         DEF Quiet, InsStore, InsWrap, InsTooMany, ExtTest, ExtSignalled, ExtTimedOut, ExtNothing,
             ExtWrap, FlushInsert, Goto, IInv, TypeOK, Threads
    <3> QED BY <1>2, <3>1, <3>2
  <2> QED BY <1>5, <2>1, <2>2, <2>3, <2>4, <2>5 DEF Advance, Quiet
<1> QED BY <1>3, <1>4, <1>5 DEF Next

LEMMA WakeUpStep == NoLostWakeUp /\ IInv /\ IInv' /\ [Next]_vars => NoLostWakeUp'
<1> SUFFICES ASSUME NoLostWakeUp, IInv, IInv', [Next]_vars,
                    NEW t \in Extractors, pc'[t] = "extWait", ~Signal', Contents' # <<>>
             PROVE  \/ \E u \in Inserters : pc'[u] = "insSignal"
                    \/ Length' = MaxEntries
  BY DEF NoLostWakeUp
<1>1. StepFacts
  BY StepFactsHold
<1>2. CASE pc[t] = "extWait"
  BY <1>1, <1>2, OtherStep
<1>3. CASE pc[t] # "extWait"
  <2>1. ExtTest(t)
    BY <1>3 DEF Next, Call, Advance, Insert, Extract, Flush, InsStore, InsWrap, InsTooMany,
       InsDone, InsSignal, ExtReset, ExtTest, ExtSignalled, ExtTimedOut, ExtTake, ExtNothing,
       ExtWrap, FlushExtract, FlushInsert, Goto, vars, IInv, TypeOK, Threads
  <2> QED BY <1>1, <2>1, ExtTestStep
<1> QED BY <1>2, <1>3

\* With one extractor, as the ring assumes (ring_generic.h:27), no wake up is
\* lost: an extractor that sleeps on a reset event beside a value is about to be
\* signalled, or the ring is full and the next value will be refused.
THEOREM WakeUpNotLost == Spec => []NoLostWakeUp
<1>1. Init => NoLostWakeUp
  BY DEF Init, NoLostWakeUp, Threads
<1> QED BY <1>1, WakeUpStep, Inductive, PTL DEF Spec
=============================================================================
