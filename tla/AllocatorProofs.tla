-------------------------- MODULE AllocatorProofs ---------------------------
(***************************************************************************)
(* The allocator for any memory, any table and any number of threads:      *)
(*                                                                         *)
(*  - a collator never sleeps beside memory that would do, and the         *)
(*    destructor waits for whoever it finds in Allocate (first half);      *)
(*  - no byte is in two places, no extent crosses a boundary, extents that *)
(*    touch are joined, and, as long as calls of Free do not overlap and   *)
(*    the table has room, no byte is lost (second half).                   *)
(*                                                                         *)
(* The second half looks at the memory as a set of pieces: the extents of  *)
(* the table, those the buffers hold, and those on their way back. Every   *)
(* step exchanges some pieces for others. What the loop of Free (Scan)     *)
(* makes of the table is proved by induction over its turns.               *)
(***************************************************************************)
EXTENDS AllocatorSimple, WellFoundedInduction, FiniteSetTheorems, TLAPS

-----------------------------------------------------------------------------
(* Numbers *)

\* A set of natural numbers that is not empty has a least one, and a set that
\* holds 0 and the successor of whatever it holds has them all.
LEMMA Least ==
    ASSUME NEW S \in SUBSET Nat, S # {}
    PROVE  \E m \in S : \A n \in S : m <= n
<1> DEFINE R == OpToRel(<, Nat)
<1>1. IsWellFoundedOn(R, Nat)
  BY NatLessThanWellFounded
<1>2. \E m \in S : \A n \in S : <<n, m>> \notin R
  <2> HIDE DEF R
  <2> QED BY <1>1, WFMin
<1>3. \A m, n \in Nat : <<n, m>> \notin R => m <= n
  BY DEF OpToRel
<1> QED BY <1>2, <1>3

LEMMA SetInduction ==
    ASSUME NEW S, 0 \in S, \A n \in Nat : n \in S => n + 1 \in S
    PROVE  Nat \subseteq S
<1> SUFFICES ASSUME Nat \ S # {} PROVE FALSE
  OBVIOUS
<1>1. PICK m \in Nat \ S : \A n \in Nat \ S : m <= n
  BY Least
<1>2. m # 0 /\ m - 1 \in Nat /\ m - 1 \in S
  BY <1>1
<1> QED BY <1>1, <1>2

LEMMA MinOf ==
    ASSUME NEW S \in SUBSET Nat, S # {}
    PROVE  Min(S) \in S /\ \A n \in S : Min(S) <= n
BY Least DEF Min

LEMMA MinOfTwo ==
    ASSUME NEW a \in Int, NEW b \in Int
    PROVE  Min({a, b}) = IF a <= b THEN a ELSE b
<1> DEFINE m == IF a <= b THEN a ELSE b
<1>1. m \in {a, b} /\ \A y \in {a, b} : m <= y
  OBVIOUS
<1>2. \A x \in {a, b} : (\A y \in {a, b} : x <= y) => x = m
  OBVIOUS
<1> QED
  BY <1>1, <1>2 DEF Min

LEMMA MaxOf ==
    ASSUME NEW b \in Nat, NEW S \in SUBSET (0..b), S # {}
    PROVE  Max(S) \in S /\ \A n \in S : n <= Max(S)
<1> DEFINE T == {b - n : n \in S}
<1>0. \A n \in S : n \in Int /\ b - n \in Nat /\ b - n \in T
  OBVIOUS
<1>1. T \in SUBSET Nat /\ T # {}
  <2>1. T \subseteq Nat
    BY <1>0
  <2> QED
    BY <1>0, <2>1
<1>2. PICK m \in T : \A n \in T : m <= n
  <2> HIDE DEF T
  <2> QED
    BY <1>1, Least
<1>3. PICK x \in S : m = b - x
  BY <1>2
<1>4. \A n \in S : n <= x
  <2> TAKE n \in S
  <2>1. m <= b - n
    BY <1>0, <1>2
  <2>2. n \in Int /\ x \in Int
    BY <1>0
  <2> QED
    BY <1>3, <2>1, <2>2
<1> QED
  BY <1>4 DEF Max

LEMMA MaxOfTwo ==
    ASSUME NEW a \in Nat, NEW b \in Nat
    PROVE  Max({a, b}) = IF a <= b THEN b ELSE a
<1> DEFINE m == IF a <= b THEN b ELSE a
<1>1. m \in {a, b} /\ \A y \in {a, b} : m >= y
  OBVIOUS
<1>2. \A x \in {a, b} : (\A y \in {a, b} : x >= y) => x = m
  OBVIOUS
<1> QED
  BY <1>1, <1>2 DEF Max

\* Allocate and ShrinkMemoryBlock round up to the allocation unit.
LEMMA RoundUpBounds ==
    ASSUME NEW n \in Nat
    PROVE  RoundUp(n) \in Nat /\ n <= RoundUp(n) /\ (n = 0 => RoundUp(n) = 0)
<1> DEFINE A == AllocationUnit
           x == n + A - 1
<1>1. A \in Nat \ {0} /\ x \in Nat
  BY SizesAssumption
<1>2. x \div A \in Nat /\ x % A \in 0..A - 1 /\ x = A * (x \div A) + (x % A)
  BY <1>1
<1>3. n = 0 => x \div A = 0
  BY <1>1, <1>2
<1>4. RoundUp(n) = A * (x \div A)
  BY <1>2, <1>1 DEF RoundUp
<1>5. A * (x \div A) \in Nat /\ n <= A * (x \div A)
  BY <1>1, <1>2
<1> QED
  BY <1>1, <1>3, <1>4, <1>5

\* A number strictly between two multiples is none.
LEMMA BetweenMultiples ==
    ASSUME NEW B \in Nat \ {0}, NEW k \in Int, NEW x \in Nat, k * B < x, x < (k + 1) * B
    PROVE  x % B # 0
<1> SUFFICES ASSUME x % B = 0 PROVE FALSE
  OBVIOUS
<1> DEFINE q == x \div B
<1>1. q \in Int /\ x = B * q
  OBVIOUS
<1> HIDE DEF q
<1>2. k * B < q * B /\ q * B < (k + 1) * B
  BY <1>1
<1>3. k < q
  <2> SUFFICES ASSUME q <= k PROVE q * B <= k * B
    BY <1>1, <1>2
  <2> QED
    BY <1>1
<1>4. q < k + 1
  <2> SUFFICES ASSUME k + 1 <= q PROVE (k + 1) * B <= q * B
    BY <1>1, <1>2
  <2> QED
    BY <1>1
<1> QED
  BY <1>1, <1>3, <1>4

-----------------------------------------------------------------------------
(* Waking up, and the end *)

Waits      == {"firstWait", "largestWait"}
Searches   == {"first", "largest"}
AllocSteps == Searches \cup Waits
EndSteps == {"deleteEnd", "gone"}
DeleteSteps == {"deleteSignal", "deleteWait"} \cup EndSteps

\* The tables of the threads and of the records are functions.
Shape ==
    /\ Blocks = [i \in Indices |-> Blocks[i]]
    /\ pc = [t \in Threads |-> pc[t]]
    /\ size = [t \in Threads |-> size[t]]

\* Only an allocator is in Allocate, and the flag says so.
InsideKnown == \A t \in Threads : pc[t] \in AllocSteps => t \in Allocators /\ InAllocate

\* A destructor has said that it started.
EndKnown == \A t \in Threads : pc[t] \in DeleteSteps => BeingDeleted

IInv == Shape /\ InsideKnown /\ EndKnown /\ SleepsForAReason

\* A thread that goes on leaves the others where they are.
LEMMA Going ==
    ASSUME Shape, NEW t \in Threads, NEW l, pc' = [pc EXCEPT ![t] = l]
    PROVE  /\ pc' = [u \in Threads |-> pc'[u]]
           /\ pc'[t] = l
           /\ \A u \in Threads \ {t} : pc'[u] = pc[u]
BY DEF Shape

LEMMA InitInvariant == Init => IInv
BY ThreadsAssumption
DEF Init, IInv, Shape, InsideKnown, EndKnown, SleepsForAReason, AllocSteps, Searches,
    Waits, DeleteSteps, EndSteps

\* Records that are taken out of the table or cut let no request fit that did
\* not fit before.
LEMMA TakenFitsNoMore ==
    ASSUME Shape, NEW i, NEW n, UNCHANGED HighestUsedBlockIndex,
           Blocks' = [Blocks EXCEPT ![i] = Empty], Fitting(n) = {}
    PROVE  Fitting(n)' = {}
<1>1. \A j \in Indices : Blocks'[j].InUse => Blocks'[j] = Blocks[j]
  BY DEF Shape, Empty, Record
<1>2. Used' \subseteq Used
  BY <1>1 DEF Used, Indices
<1> QED
  BY <1>1, <1>2 DEF Fitting, Used, Indices

-----------------------------------------------------------------------------
(* A thread outside Allocate: the event is not reset and no record is made *)
(* that the event does not tell of.                                        *)

LEMMA Outside ==
    ASSUME IInv, NEW t \in Threads, NEW l,
           pc[t] \notin AllocSteps, l \notin AllocSteps,
           pc' = [pc EXCEPT ![t] = l],
           l \in DeleteSteps => BeingDeleted',
           BeingDeleted => BeingDeleted',
           UNCHANGED <<InAllocate, size>>,
           Blocks' = [i \in Indices |-> Blocks'[i]],
           \/ EntryFreed' = TRUE
           \/ UNCHANGED <<table, EntryFreed>>
    PROVE  IInv'
<1>1. /\ pc' = [u \in Threads |-> pc'[u]]
      /\ pc'[t] = l
      /\ \A u \in Threads \ {t} : pc'[u] = pc[u]
  BY Going DEF IInv
<1>2. Shape' /\ InsideKnown' /\ EndKnown'
  BY <1>1 DEF IInv, Shape, InsideKnown, EndKnown
<1>3. SleepsForAReason'
  <2>1. CASE EntryFreed' = TRUE
    BY <2>1 DEF SleepsForAReason
  <2>2. CASE UNCHANGED <<table, EntryFreed>>
    <3>1. \A n : Fitting(n)' = Fitting(n)
      BY <2>2 DEF Fitting, Used, table
    <3> QED
      BY <1>1, <2>2, <3>1, ThreadsAssumption DEF IInv, SleepsForAReason, AllocSteps, Waits
  <2> QED
    BY <2>1, <2>2
<1> QED
  BY <1>2, <1>3 DEF IInv

LEMMA KeepFree ==
    ASSUME IInv, NEW t \in Threads, NEW e,
           \/ DeAllocateMemoryBlock(t, e)
           \/ \E n \in 0..e.Size : ShrinkMemoryBlock(t, e, n)
    PROVE  IInv'
<1>1. /\ pc[t] = "idle" /\ pc' = [pc EXCEPT ![t] = "free"]
      /\ UNCHANGED <<table, EntryFreed, BeingDeleted, InAllocate, size>>
  BY DEF DeAllocateMemoryBlock, ShrinkMemoryBlock, FreeExtent, Goto
<1>2. Blocks' = [i \in Indices |-> Blocks'[i]]
  BY <1>1 DEF IInv, Shape, table
<1> QED
  BY <1>1, <1>2, Outside DEF AllocSteps, Searches, Waits, DeleteSteps, EndSteps

LEMMA KeepFreeLocked ==
    ASSUME IInv, NEW t \in Threads, FreeLocked(t)
    PROVE  IInv'
<1>1. /\ pc[t] = "free" /\ pc' = [pc EXCEPT ![t] = "idle"]
      /\ EntryFreed' = TRUE
      /\ UNCHANGED <<BeingDeleted, InAllocate, size>>
  BY DEF FreeLocked, Goto, SignalFreed
<1>2. PICK f, i, r : \/ Blocks' = [j \in Indices |-> f[j]]
                     \/ Blocks' = [[j \in Indices |-> f[j]] EXCEPT ![i] = r]
  <2> DEFINE s == Scan(extent[t], LowestFreeBlock[t])
             b == [i \in Indices |-> IF i \in s.Taken THEN Empty ELSE Blocks[i]]
  <2>1. Blocks' = b \/ Blocks' = [b EXCEPT ![s.Lowest] = Record(TRUE, s.Base, s.Size)]
    BY DEF FreeLocked
  <2>2. b = [j \in Indices |-> b[j]]
    OBVIOUS
  <2> QED
    BY <2>1, <2>2
<1>3. Blocks' = [j \in Indices |-> Blocks'[j]]
  BY <1>2
<1> QED
  BY <1>1, <1>3, Outside DEF AllocSteps, Searches, Waits, DeleteSteps, EndSteps

LEMMA KeepDelete ==
    ASSUME IInv, NEW t \in Threads, Delete(t) \/ Destroy(t)
    PROVE  IInv'
<1>1. Blocks' = [i \in Indices |-> Blocks'[i]]
  BY DEF IInv, Shape, Delete, Destroy, DeleteSignal, DeleteTest, DeleteEnd, table
<1>2. CASE Delete(t)
  BY <1>1, <1>2, Outside DEF Delete, Goto, AllocSteps, Searches, Waits, DeleteSteps
<1>3. CASE Destroy(t)
  <2>1. BeingDeleted
    BY <1>3 DEF IInv, EndKnown, Destroy, DeleteSignal, DeleteTest, DeleteEnd, Goto,
                DeleteSteps, EndSteps
  <2>2. /\ pc[t] \in DeleteSteps
        /\ \E l \in DeleteSteps : pc' = [pc EXCEPT ![t] = l]
        /\ UNCHANGED <<BeingDeleted, InAllocate, size>>
        /\ EntryFreed' = TRUE \/ UNCHANGED <<table, EntryFreed>>
    BY <1>3 DEF Destroy, DeleteSignal, DeleteTest, DeleteEnd, Goto, DeleteSteps, EndSteps
  <2> QED
    BY <1>1, <2>1, <2>2, Outside DEF AllocSteps, Searches, Waits, DeleteSteps, EndSteps
<1> QED
  BY <1>2, <1>3

\* Nobody moves, and the table only loses.
LEMMA KeepExtend ==
    ASSUME IInv, NEW t \in Threads, NEW e, ExtendToLargest(t, e)
    PROVE  IInv'
<1>1. /\ UNCHANGED <<pc, size, HighestUsedBlockIndex, EntryFreed, BeingDeleted, InAllocate>>
      /\ \E i : Blocks' = [Blocks EXCEPT ![i] = Empty]
  BY DEF ExtendToLargest, call
<1>2. Shape' /\ InsideKnown' /\ EndKnown'
  BY <1>1 DEF IInv, Shape, InsideKnown, EndKnown
<1>3. \A n : Fitting(n) = {} => Fitting(n)' = {}
  BY <1>1, TakenFitsNoMore DEF IInv
<1>4. SleepsForAReason'
  BY <1>1, <1>3 DEF IInv, SleepsForAReason
<1> QED
  BY <1>2, <1>4 DEF IInv

LEMMA KeepNothing ==
    ASSUME IInv, UNCHANGED <<table, EntryFreed, BeingDeleted, InAllocate, pc, size>>
    PROVE  IInv'
<1>1. \A n : Fitting(n)' = Fitting(n)
  BY DEF Fitting, Used, table
<1>2. Shape' /\ InsideKnown' /\ EndKnown'
  BY DEF IInv, Shape, InsideKnown, EndKnown, table
<1>3. SleepsForAReason'
  BY <1>1 DEF IInv, SleepsForAReason
<1> QED
  BY <1>2, <1>3 DEF IInv

-----------------------------------------------------------------------------
(* The thread in Allocate, the only one there *)

LEMMA Alone ==
    ASSUME IInv, NEW t \in Threads, pc[t] \in AllocSteps
    PROVE  /\ t \in Allocators
           /\ Allocators = {t}
           /\ InAllocate
           /\ \A u \in Threads \ {t} : pc[u] \notin AllocSteps
<1>1. t \in Allocators /\ InAllocate
  BY DEF IInv, InsideKnown
<1>2. Allocators = {t}
  BY <1>1, OneAllocator
<1>3. \A u \in Threads \ {t} : pc[u] \notin AllocSteps
  BY <1>2 DEF IInv, InsideKnown
<1> QED
  BY <1>1, <1>2, <1>3

\* It returns, whatever it took from the table.
LEMMA Leaving ==
    ASSUME IInv, NEW t \in Threads, pc[t] \in AllocSteps, pc' = [pc EXCEPT ![t] = "idle"],
           NEW n, size' = [size EXCEPT ![t] = n],
           Blocks' = [i \in Indices |-> Blocks'[i]],
           UNCHANGED BeingDeleted
    PROVE  IInv'
<1>1. /\ pc' = [u \in Threads |-> pc'[u]]
      /\ pc'[t] = "idle"
      /\ \A u \in Threads \ {t} : pc'[u] = pc[u]
  BY Going DEF IInv
<1>2. /\ Allocators = {t}
      /\ \A u \in Threads \ {t} : pc[u] \notin AllocSteps
  BY Alone
<1>3. \A u \in Threads : pc'[u] \notin AllocSteps
  BY <1>1, <1>2 DEF AllocSteps, Searches, Waits
<1>4. Shape' /\ InsideKnown' /\ EndKnown'
  BY <1>1, <1>3 DEF IInv, Shape, InsideKnown, EndKnown, DeleteSteps, EndSteps
<1>5. SleepsForAReason'
  BY <1>3, ThreadsAssumption DEF SleepsForAReason, AllocSteps, Searches, Waits
<1> QED
  BY <1>4, <1>5 DEF IInv

LEMMA KeepLeaving ==
    ASSUME IInv, NEW t \in Threads,
           AllocBreak(t) \/ AllocFirst(t) \/ AllocLargest(t) \/ AllocFail(t)
    PROVE  IInv'
<1>1. /\ pc[t] \in AllocSteps /\ pc' = [pc EXCEPT ![t] = "idle"]
      /\ size' = [size EXCEPT ![t] = 0] /\ UNCHANGED BeingDeleted
  BY DEF AllocBreak, AllocFirst, AllocLargest, AllocFail, Goto, AllocSteps, Searches, Waits
<1>2. \/ UNCHANGED Blocks
      \/ \E i, r : Blocks' = [Blocks EXCEPT ![i] = r]
  BY DEF AllocBreak, AllocFirst, AllocLargest, AllocFail, table
<1>3. Blocks' = [i \in Indices |-> Blocks'[i]]
  BY <1>2 DEF IInv, Shape
<1> QED
  BY <1>1, <1>3, Leaving

\* It goes to sleep with nothing that fits, or wakes up to look again.
LEMMA KeepWaiting ==
    ASSUME IInv, NEW t \in Threads, AllocSleep(t) \/ AllocWake(t)
    PROVE  IInv'
<1>1. PICK l \in AllocSteps : pc' = [pc EXCEPT ![t] = l]
  BY DEF AllocSleep, AllocWake, Goto, AllocSteps, Searches, Waits
<1>2. /\ pc[t] \in AllocSteps
      /\ UNCHANGED <<table, BeingDeleted, InAllocate, size>>
  BY DEF AllocSleep, AllocWake, Goto, AllocSteps, Searches, Waits
<1>3. /\ pc' = [u \in Threads |-> pc'[u]]
      /\ pc'[t] = l
      /\ \A u \in Threads \ {t} : pc'[u] = pc[u]
  BY <1>1, Going DEF IInv
<1>4. /\ t \in Allocators /\ Allocators = {t} /\ InAllocate
      /\ \A u \in Threads \ {t} : pc[u] \notin AllocSteps
  BY <1>2, Alone
<1>5. Shape' /\ InsideKnown'
  BY <1>2, <1>3, <1>4 DEF IInv, Shape, InsideKnown, table
<1>6. EndKnown'
  BY <1>2, <1>3 DEF IInv, EndKnown, AllocSteps, Searches, Waits, DeleteSteps, EndSteps
<1>7. SleepsForAReason'
  <2>1. \A n : Fitting(n)' = Fitting(n)
    BY <1>2 DEF Fitting, Used, table
  <2>2. CASE AllocSleep(t)
    BY <1>2, <1>4, <2>1, <2>2 DEF AllocSleep, SleepsForAReason
  <2>3. CASE AllocWake(t)
    BY <2>3 DEF AllocWake, SleepsForAReason
  <2> QED
    BY <2>2, <2>3
<1> QED
  BY <1>5, <1>6, <1>7 DEF IInv

LEMMA KeepAllocate ==
    ASSUME IInv, NEW t \in Allocators, NEW n, Allocate(t, n)
    PROVE  IInv'
<1>1. /\ pc[t] = "idle" /\ InAllocate' = TRUE
      /\ size' = [size EXCEPT ![t] = RoundUp(n)]
      /\ UNCHANGED <<table, EntryFreed, BeingDeleted>>
  BY DEF Allocate, Goto
<1>2. PICK l \in Searches : pc' = [pc EXCEPT ![t] = l]
  BY DEF Allocate, Goto, Searches
<1>3. t \in Threads
  BY ThreadsAssumption
<1>4. /\ pc' = [u \in Threads |-> pc'[u]]
      /\ pc'[t] = l
      /\ \A u \in Threads \ {t} : pc'[u] = pc[u]
  BY <1>2, <1>3, Going DEF IInv
<1>5. Shape' /\ InsideKnown' /\ EndKnown'
  BY <1>1, <1>4 DEF IInv, Shape, InsideKnown, EndKnown, table, Searches, DeleteSteps, EndSteps
<1>6. SleepsForAReason'
  <2>1. Allocators = {t}
    BY OneAllocator
  <2>2. pc'[t] \notin Waits
    BY <1>4 DEF Searches, Waits
  <2> QED
    BY <2>1, <2>2 DEF SleepsForAReason, Waits
<1> QED
  BY <1>5, <1>6 DEF IInv

-----------------------------------------------------------------------------
LEMMA CallInvariant ==
    ASSUME IInv, NEW t \in Threads, Call(t)
    PROVE  IInv'
<1>1. CASE t \in Allocators /\ \E n \in RequestSizes : Allocate(t, n)
  BY <1>1, KeepAllocate
<1>2. ASSUME NEW e, DeAllocateMemoryBlock(t, e) \/ \E n \in 0..e.Size : ShrinkMemoryBlock(t, e, n)
      PROVE  IInv'
  BY <1>2, KeepFree
<1>3. ASSUME NEW e, ExtendToLargest(t, e)
      PROVE  IInv'
  BY <1>3, KeepExtend
<1>4. ASSUME NEW e, NEW n, PartitionBuffer(t, e, n)
      PROVE  IInv'
  BY <1>4, KeepNothing DEF PartitionBuffer, call
<1>5. CASE Delete(t)
  BY <1>5, KeepDelete
<1> QED
  BY <1>1, <1>2, <1>3, <1>4, <1>5 DEF Call

LEMMA AdvanceInvariant ==
    ASSUME IInv, NEW t \in Threads, Advance(t)
    PROVE  IInv'
<1>1. CASE InAllocation(t)
  BY <1>1, KeepLeaving, KeepWaiting DEF InAllocation
<1>2. CASE InFree(t)
  BY <1>2, KeepFreeLocked DEF InFree
<1>3. CASE Destroy(t)
  BY <1>3, KeepDelete
<1> QED
  BY <1>1, <1>2, <1>3 DEF Advance

LEMMA NextInvariant == IInv /\ [Next]_vars => IInv'
<1> SUFFICES ASSUME IInv, [Next]_vars PROVE IInv'
  OBVIOUS
<1>1. CASE UNCHANGED vars
  BY <1>1, KeepNothing DEF vars, call
<1>2. CASE Next
  BY <1>2, CallInvariant, AdvanceInvariant DEF Next
<1> QED
  BY <1>1, <1>2

\* A collator that sleeps in Allocate, without limit (allocator_simple.cpp:135),
\* has reason to: nothing fits, or the event is already set. For any memory, any
\* requests and any number of threads that give memory back.
THEOREM WakeUpNotLost == Spec => []SleepsForAReason
<1>1. IInv => SleepsForAReason
  BY DEF IInv
<1> QED
  BY <1>1, InitInvariant, NextInvariant, PTL DEF Spec

-----------------------------------------------------------------------------
(* The destructor past its test *)

\* Only the test of InAllocate takes a thread past it, when nobody is inside.
LEMMA PastTheTest ==
    ASSUME IInv, NEW t \in Threads, Call(t) \/ Advance(t),
           NEW u \in Threads, pc'[u] \in EndSteps
    PROVE  pc[u] \in EndSteps \/ InsideAllocate' = {}
<1>1. CASE Call(t)
  <2>1. PICK l \in Searches \cup {"free", "deleteSignal"} :
            UNCHANGED pc \/ pc' = [pc EXCEPT ![t] = l]
    BY <1>1 DEF Call, Allocate, DeAllocateMemoryBlock, ShrinkMemoryBlock, FreeExtent,
                ExtendToLargest, PartitionBuffer, Delete, call, Goto, Searches
  <2> QED
    BY <2>1, Going DEF IInv, Searches, EndSteps
<1>2. CASE InAllocation(t) \/ InFree(t)
  <2>1. PICK l \in AllocSteps \cup {"idle"} : pc' = [pc EXCEPT ![t] = l]
    BY <1>2 DEF InAllocation, InFree, AllocBreak, AllocFirst, AllocLargest, AllocSleep,
                AllocWake, AllocFail, FreeLocked, Goto, AllocSteps, Searches, Waits
  <2> QED
    BY <2>1, Going DEF IInv, AllocSteps, Searches, Waits, EndSteps
<1>3. CASE DeleteSignal(t) \/ DeleteEnd(t)
  BY <1>3, Going DEF IInv, DeleteSignal, DeleteEnd, Goto, EndSteps
<1>4. CASE DeleteTest(t)
  <2>1. pc' = [pc EXCEPT ![t] = "deleteEnd"] /\ ~InAllocate
    BY <1>4 DEF DeleteTest, Goto, Inside
  <2>2. \A v \in Threads : pc'[v] \notin AllocSteps
    BY <2>1, Going DEF IInv, InsideKnown, AllocSteps, Searches, Waits
  <2> QED
    BY <2>2 DEF InsideAllocate, AllocSteps, Searches, Waits
<1> QED
  BY <1>1, <1>2, <1>3, <1>4 DEF Advance, Destroy

\* Whoever comes in after that comes in late.
LEMMA EarlierStep == IInv /\ EarlierCallsLeft /\ [Next]_vars => EarlierCallsLeft'
<1> SUFFICES ASSUME IInv, EarlierCallsLeft, [Next]_vars PROVE EarlierCallsLeft'
  OBVIOUS
<1>1. CASE UNCHANGED vars
  BY <1>1 DEF vars, call, EarlierCallsLeft, InsideAllocate
<1>2. CASE Next
  <2> SUFFICES ASSUME NEW u \in Threads, pc'[u] \in EndSteps
               PROVE  InsideAllocate' \subseteq late'
    BY DEF EarlierCallsLeft, EndSteps
  <2>1. CASE pc[u] \in EndSteps
    <3>1. BeingDeleted
      BY <2>1 DEF IInv, EndKnown, DeleteSteps
    <3>2. InsideAllocate \subseteq late
      BY <2>1 DEF EarlierCallsLeft, EndSteps
    <3> QED
      BY <1>2, <3>1, <3>2 DEF Next, Observe
  <2>2. CASE InsideAllocate' = {}
    BY <2>2
  <2> QED
    BY <1>2, <2>1, <2>2, PastTheTest DEF Next
<1> QED
  BY <1>1, <1>2

\* The destructor terminates the event and the Lock only when whoever was in
\* Allocate when it started has left (allocator_simple.cpp:58-69), although calls
\* of Allocate may start while it runs (allocator_simple.cpp:84).
THEOREM DestructorWaits == Spec => []EarlierCallsLeft
<1>1. Init => EarlierCallsLeft
  BY DEF Init, EarlierCallsLeft
<1> QED
  BY <1>1, InitInvariant, NextInvariant, EarlierStep, PTL DEF Spec

-----------------------------------------------------------------------------
(* The memory as pieces *)

\* The extents with the places they are in: a record, a buffer, a call of Free.
FreePieces == {<<"free", i, Extent(Blocks[i].Base, Blocks[i].Size)>> : i \in Used}
HeldPieces == {<<"held", e, e>> : e \in allocated}
BackPieces == {<<"back", t, extent[t]>> : t \in Freeing}
Pieces     == FreePieces \cup HeldPieces \cup BackPieces

\* Extents that share no byte; a byte of an extent; an extent with no boundary
\* inside; one that may be in some place.
Apart(e, f)  == e.Base + e.Size <= f.Base \/ f.Base + f.Size <= e.Base
ByteOf(o, e) == e.Base <= o /\ o < e.Base + e.Size
Solid(e)     == \A o \in Nat : e.Base < o /\ o < e.Base + e.Size => ~On64MBBoundary(o)
Fits(e)      == /\ e = Extent(e.Base, e.Size)
                /\ e.Base \in Nat /\ e.Size \in Nat \ {0} /\ e.Base + e.Size <= BufferSize
                /\ Solid(e)

PiecesFit   == \A x \in Pieces : Fits(x[3])
PiecesApart == \A x, y \in Pieces : x # y => Apart(x[3], y[3])

\* The pieces D become the pieces N: all is well if each of N fits and is apart
\* from the others and from what stays.
Exchanged(D, N) == Pieces' = (Pieces \ D) \cup N

LEMMA Rearranged ==
    ASSUME PiecesFit, PiecesApart, NEW D, NEW N, Exchanged(D, N),
           \A x \in N : Fits(x[3]),
           \A x \in N, y \in Pieces \ D : Apart(x[3], y[3]),
           \A x, y \in N : x # y => Apart(x[3], y[3])
    PROVE  PiecesFit' /\ PiecesApart'
<1>1. \A x \in Pieces' : Fits(x[3])
  BY DEF PiecesFit, Exchanged
<1>2. \A e : Fits(e)' = Fits(e)
  BY DEF Fits, Solid, On64MBBoundary
<1>3. \A e, f : Apart(e, f) <=> Apart(f, e)
  BY DEF Apart
<1>4. \A x, y \in Pieces' : x # y => Apart(x[3], y[3])
  BY <1>3 DEF PiecesApart, Exchanged
<1> QED
  BY <1>1, <1>2, <1>4 DEF PiecesFit, PiecesApart, Apart

\* A part of a piece.
LEMMA PartFits ==
    ASSUME NEW e, Fits(e), NEW b \in Nat, NEW n \in Nat \ {0},
           e.Base <= b, b + n <= e.Base + e.Size
    PROVE  Fits(Extent(b, n))
<1>1. e.Base \in Nat /\ e.Size \in Nat /\ e.Base + e.Size <= BufferSize /\ BufferSize \in Nat
  BY SizesAssumption DEF Fits
<1>2. Solid(Extent(b, n))
  BY <1>1 DEF Fits, Solid, Extent
<1> QED
  BY <1>1, <1>2 DEF Fits, Extent

LEMMA PartApart ==
    ASSUME NEW e, Fits(e), NEW f, Fits(f), Apart(e, f), NEW b \in Nat, NEW n \in Nat \ {0},
           e.Base <= b, b + n <= e.Base + e.Size
    PROVE  Apart(Extent(b, n), f)
BY DEF Fits, Apart, Extent

\* Two pieces that touch, not at a boundary.
LEMMA JoinFits ==
    ASSUME NEW e, Fits(e), NEW f, Fits(f),
           e.Base + e.Size = f.Base, ~On64MBBoundary(f.Base)
    PROVE  /\ Fits(Extent(e.Base, e.Size + f.Size))
           /\ \A g : Fits(g) /\ Apart(e, g) /\ Apart(f, g) => Apart(Extent(e.Base, e.Size + f.Size), g)
<1>1. /\ e.Base \in Nat /\ e.Size \in Nat \ {0} /\ f.Size \in Nat \ {0} /\ f.Base \in Nat
      /\ f.Base + f.Size <= BufferSize /\ BufferSize \in Nat
  BY SizesAssumption DEF Fits
<1>2. Solid(Extent(e.Base, e.Size + f.Size))
  <2> SUFFICES ASSUME NEW o \in Nat, e.Base < o, o < e.Base + (e.Size + f.Size)
               PROVE  ~On64MBBoundary(o)
    BY DEF Solid, Extent
  <2>1. CASE o < f.Base
    BY <1>1, <2>1 DEF Fits, Solid
  <2>2. CASE f.Base = o
    BY <2>2
  <2>3. CASE f.Base < o
    BY <1>1, <2>3 DEF Fits, Solid
  <2> QED
    BY <1>1, <2>1, <2>2, <2>3
<1>3. Fits(Extent(e.Base, e.Size + f.Size))
  BY <1>1, <1>2 DEF Fits, Extent
<1>4. ASSUME NEW g, Fits(g), Apart(e, g), Apart(f, g)
      PROVE  Apart(Extent(e.Base, e.Size + f.Size), g)
  <2>1. g.Base \in Nat /\ g.Size \in Nat \ {0}
    BY <1>4 DEF Fits
  <2>2. e.Base + (e.Size + f.Size) = f.Base + f.Size
    BY <1>1
  <2>3. \/ e.Base + (e.Size + f.Size) <= g.Base
        \/ g.Base + g.Size <= e.Base
    BY <1>1, <1>4, <2>1, <2>2 DEF Apart
  <2> QED
    BY <2>3 DEF Apart, Extent
<1> QED
  BY <1>3, <1>4
-----------------------------------------------------------------------------
(* The loop of Free *)

\* The records have their types.
TableTyped ==
    /\ \A i \in Indices :
          Blocks[i] \in [InUse : BOOLEAN, Base : 0..BufferSize, Size : 0..BufferSize]
    /\ HighestUsedBlockIndex \in Indices

\* What the loop starts with.
First(e, lowest) == [Base |-> e.Base, Size |-> e.Size, Taken |-> {}, Lowest |-> lowest, Highest |-> 0]

\* The loop is a function of the number of turns.
LEMMA ScanIsLoop ==
    ASSUME TableTyped, NEW e, NEW lowest
    PROVE  \E loop :
              /\ loop[0] = First(e, lowest)
              /\ \A n \in 0..HighestUsedBlockIndex : loop[n + 1] = Absorb(loop[n], n)
              /\ Scan(e, lowest) = loop[HighestUsedBlockIndex + 1]
<1> DEFINE K == HighestUsedBlockIndex + 1
           f0 == First(e, lowest)
           IsLoop(g, m) == g = [n \in 0..m |-> IF n = 0 THEN f0 ELSE Absorb(g[n - 1], n - 1)]
           S == {m \in Nat : \E g : IsLoop(g, m)}
<1>0. K \in Nat /\ HighestUsedBlockIndex \in Nat
  BY DEF TableTyped, Indices
<1>1. 0 \in S
  <2> DEFINE g == [n \in 0..0 |-> f0]
  <2>1. IsLoop(g, 0)
    <3> HIDE DEF f0
    <3> QED
      OBVIOUS
  <2> QED
    BY <2>1
<1>2. \A m \in Nat : m \in S => m + 1 \in S
  <2> SUFFICES ASSUME NEW m \in Nat, NEW g, IsLoop(g, m)
               PROVE  \E h : IsLoop(h, m + 1)
    OBVIOUS
  <2> DEFINE h == [n \in 0..m + 1 |-> IF n = m + 1 THEN Absorb(g[m], m) ELSE g[n]]
  <2> HIDE DEF f0
  <2>1. \A n \in 0..m : h[n] = g[n]
    OBVIOUS
  <2>2. \A n \in 0..m : g[n] = IF n = 0 THEN f0 ELSE Absorb(g[n - 1], n - 1)
    OBVIOUS
  <2>3. \A n \in 0..m + 1 : h[n] = IF n = 0 THEN f0 ELSE Absorb(h[n - 1], n - 1)
    <3> TAKE n \in 0..m + 1
    <3>1. CASE n = m + 1
      BY <2>1, <3>1
    <3>2. CASE n \in 0..m
      BY <2>1, <2>2, <3>2
    <3> QED
      BY <3>1, <3>2
  <2>4. h = [n \in 0..m + 1 |-> h[n]]
    OBVIOUS
  <2> HIDE DEF h
  <2>5. IsLoop(h, m + 1)
    BY <2>3, <2>4
  <2> QED
    BY <2>5
<1>3. K \in S
  <2> HIDE DEF S
  <2> QED
    BY <1>0, <1>1, <1>2, SetInduction
<1>4. \E g : IsLoop(g, K)
  BY <1>3
<1> DEFINE loop == CHOOSE g : IsLoop(g, K)
<1>5. IsLoop(loop, K)
  <2> HIDE DEF IsLoop
  <2> QED
    BY <1>4
<1>6. Scan(e, lowest) = loop[K]
  BY DEF Scan, First
<1> HIDE DEF loop
<1>7. loop[0] = f0 /\ \A n \in 0..HighestUsedBlockIndex : loop[n + 1] = Absorb(loop[n], n)
  <2> HIDE DEF f0
  <2>1. \A n \in 0..K : loop[n] = IF n = 0 THEN f0 ELSE Absorb(loop[n - 1], n - 1)
    BY <1>5
  <2>2. \A n \in 0..HighestUsedBlockIndex : n + 1 \in 0..K /\ n + 1 # 0 /\ n + 1 - 1 = n
    BY <1>0
  <2> QED
    BY <1>0, <2>1, <2>2
<1> QED
  BY <1>6, <1>7

\* What the first n turns leave: an extent made of the one that is freed and
\* of the records taken in, the lowest record that can have it, and the highest
\* record that stays in use.
Spared(T, t) ==
    Pieces \ ({<<"back", t, extent[t]>>} \cup
              {<<"free", i, Extent(Blocks[i].Base, Blocks[i].Size)>> : i \in T})

Scanned(s, n, t, lowest) ==
    /\ Fits(Extent(s.Base, s.Size))
    /\ s.Taken \subseteq {i \in Used : i < n}
    /\ \A y \in Spared(s.Taken, t) : Apart(Extent(s.Base, s.Size), y[3])
    /\ \A o \in Nat :
          ByteOf(o, extent[t]) \/ (\E i \in s.Taken : ByteOf(o, Blocks[i]))
              => ByteOf(o, Extent(s.Base, s.Size))
    /\ s.Lowest \in 0..lowest
    /\ \/ s.Lowest = lowest
       \/ s.Lowest < n /\ s.Lowest \in Indices /\ (~Blocks[s.Lowest].InUse \/ s.Lowest \in s.Taken)
    /\ s.Highest \in 0..HighestUsedBlockIndex
    /\ \A i \in Used : i < n /\ i \notin s.Taken => i <= s.Highest

\* It holds before the first turn, every turn keeps it, and so it holds at the end.
LEMMA ScanStarts ==
    ASSUME TableTyped, PiecesFit, PiecesApart, NEW t \in Freeing, NEW lowest \in 0..MaxBlocks
    PROVE  Scanned(First(extent[t], lowest), 0, t, lowest)
<1> DEFINE e == extent[t]
           x == <<"back", t, e>>
           s == First(e, lowest)
<1>1. x \in Pieces
  BY DEF Pieces, BackPieces
<1>2. Fits(e) /\ e = Extent(s.Base, s.Size)
  <2>1. x[3] = e
    OBVIOUS
  <2>2. Fits(e)
    BY <1>1, <2>1 DEF PiecesFit
  <2> QED
    BY <2>2 DEF Fits, First, Extent
<1>3. \A y \in Pieces : y # x => Apart(e, y[3])
  <2>1. x[3] = e
    OBVIOUS
  <2> QED
    BY <1>1, <2>1 DEF PiecesApart
<1>4. \A y \in Spared({}, t) : Apart(e, y[3])
  BY <1>3 DEF Spared
<1>5. s.Taken = {} /\ s.Lowest = lowest /\ s.Highest = 0
  BY DEF First
<1>6. HighestUsedBlockIndex \in Nat /\ \A i \in Used : ~(i < 0)
  BY DEF TableTyped, Indices, Used
<1> HIDE DEF s, e
<1>7. lowest \in 0..lowest /\ 0 \in 0..HighestUsedBlockIndex
  BY <1>6
<1>8. Scanned(s, 0, t, lowest)
  BY <1>2, <1>4, <1>5, <1>6, <1>7 DEF Scanned, e
<1> QED
  BY <1>8 DEF s, e

LEMMA ScanGoesOn ==
    ASSUME TableTyped, PiecesFit, PiecesApart, NEW t \in Freeing, NEW lowest \in 0..MaxBlocks,
           NEW n \in 0..HighestUsedBlockIndex, NEW s, Scanned(s, n, t, lowest)
    PROVE  Scanned(Absorb(s, n), n + 1, t, lowest)
<1> DEFINE b == Blocks[n]
           r == Absorb(s, n)
           j == b.InUse /\ (Precedes(s, b) \/ Follows(s, b))
           x == <<"free", n, Extent(b.Base, b.Size)>>
<1>1. /\ n \in Indices /\ n \in Nat /\ HighestUsedBlockIndex \in Nat
      /\ n \notin s.Taken
      /\ \A i \in Used : i \in Indices /\ i \in Nat /\ Blocks[i].InUse
      /\ b.InUse => n \in Used
  BY SizesAssumption DEF TableTyped, Indices, Used, Scanned
<1>2. ASSUME b.InUse
      PROVE  Fits(Extent(b.Base, b.Size)) /\ Apart(Extent(s.Base, s.Size), Extent(b.Base, b.Size))
  <2>1. x \in Pieces
    BY <1>1, <1>2 DEF Pieces, FreePieces
  <2>2. x \in Spared(s.Taken, t)
    BY <1>1, <2>1 DEF Spared
  <2>3. x[3] = Extent(b.Base, b.Size)
    OBVIOUS
  <2> QED
    BY <2>1, <2>2, <2>3 DEF PiecesFit, Scanned
<1>3. /\ Fits(Extent(s.Base, s.Size)) /\ s.Base \in Nat /\ s.Size \in Nat \ {0}
      /\ \A y \in Spared(s.Taken, t) : Apart(Extent(s.Base, s.Size), y[3])
      /\ s.Lowest \in Nat /\ s.Lowest <= lowest
      /\ s.Highest \in Nat /\ s.Highest <= HighestUsedBlockIndex
      /\ lowest \in Nat
  BY DEF Scanned, Fits, Extent
<1>4. /\ r.Base = IF j /\ ~Precedes(s, b) THEN b.Base ELSE s.Base
      /\ r.Size = IF j THEN s.Size + b.Size ELSE s.Size
      /\ r.Taken = IF j THEN s.Taken \cup {n} ELSE s.Taken
      /\ r.Lowest = IF ~b.InUse \/ j THEN (IF s.Lowest <= n THEN s.Lowest ELSE n) ELSE s.Lowest
      /\ r.Highest = IF ~b.InUse \/ j THEN s.Highest ELSE n
  BY <1>1, <1>3, MinOfTwo DEF Absorb
<1> HIDE DEF r
<1>5. r.Taken \subseteq {i \in Used : i < n + 1}
  BY <1>1, <1>4 DEF Scanned
<1>6. /\ r.Lowest \in 0..lowest
      /\ \/ r.Lowest = lowest
         \/ r.Lowest < n + 1 /\ r.Lowest \in Indices /\ (~Blocks[r.Lowest].InUse \/ r.Lowest \in r.Taken)
  BY <1>1, <1>3, <1>4 DEF Scanned
<1>7. /\ r.Highest \in 0..HighestUsedBlockIndex
      /\ \A i \in Used : i < n + 1 /\ i \notin r.Taken => i <= r.Highest
  BY <1>1, <1>3, <1>4 DEF Scanned
<1>8. CASE ~j
  <2>1. Extent(r.Base, r.Size) = Extent(s.Base, s.Size) /\ r.Taken = s.Taken
    BY <1>4, <1>8
  <2> QED
    BY <1>5, <1>6, <1>7, <2>1 DEF Scanned, r
<1>9. CASE j
  <2> DEFINE es == Extent(s.Base, s.Size)
             eb == Extent(b.Base, b.Size)
             er == Extent(r.Base, r.Size)
  <2>1. Fits(es) /\ Fits(eb) /\ b.Base \in Nat /\ b.Size \in Nat \ {0}
    BY <1>2, <1>3, <1>9 DEF Fits, Extent
  <2>2. Fits(er) /\ \A g : Fits(g) /\ Apart(es, g) /\ Apart(eb, g) => Apart(er, g)
    <3>0. es.Base = s.Base /\ es.Size = s.Size /\ eb.Base = b.Base /\ eb.Size = b.Size
      BY DEF Extent
    <3>1. CASE Precedes(s, b)
      <4>1. er = Extent(s.Base, s.Size + b.Size)
        BY <1>4, <1>9, <3>1
      <4>2. s.Base + s.Size = b.Base /\ ~On64MBBoundary(b.Base)
        BY <3>1 DEF Precedes
      <4> HIDE DEF es, eb, er
      <4> QED
        BY <2>1, <3>0, <4>1, <4>2, JoinFits
    <3>2. CASE ~Precedes(s, b)
      <4>1. er = Extent(b.Base, b.Size + s.Size)
        BY <1>3, <1>4, <1>9, <2>1, <3>2
      <4>2. b.Base + b.Size = s.Base /\ ~On64MBBoundary(s.Base)
        BY <1>9, <3>2 DEF Follows
      <4> HIDE DEF es, eb, er
      <4> QED
        BY <2>1, <3>0, <4>1, <4>2, JoinFits
    <3> QED
      BY <3>1, <3>2
  <2>3. \A y \in Spared(r.Taken, t) : Apart(er, y[3])
    <3> TAKE y \in Spared(r.Taken, t)
    <3>1. y \in Pieces /\ y \in Spared(s.Taken, t) /\ y # x
      BY <1>4, <1>9 DEF Spared
    <3>2. x \in Pieces /\ x[3] = eb
      BY <1>1, <1>9 DEF Pieces, FreePieces
    <3>3. Fits(y[3]) /\ Apart(es, y[3]) /\ Apart(eb, y[3])
      BY <1>3, <3>1, <3>2 DEF PiecesFit, PiecesApart
    <3> QED
      BY <2>2, <3>3
  <2>4. \A o \in Nat : ByteOf(o, es) \/ ByteOf(o, b) => ByteOf(o, er)
    <3>1. \/ b.Base = s.Base + s.Size /\ r.Base = s.Base /\ r.Size = s.Size + b.Size
          \/ s.Base = b.Base + b.Size /\ r.Base = b.Base /\ r.Size = s.Size + b.Size
      BY <1>4, <1>9 DEF Precedes, Follows
    <3> QED
      BY <1>3, <2>1, <3>1 DEF ByteOf, Extent
  <2>5. \A o \in Nat :
           ByteOf(o, extent[t]) \/ (\E i \in r.Taken : ByteOf(o, Blocks[i])) => ByteOf(o, er)
    BY <1>4, <1>9, <2>4 DEF Scanned
  <2> QED
    BY <1>5, <1>6, <1>7, <2>2, <2>3, <2>5 DEF Scanned, r
<1> QED
  BY <1>8, <1>9

LEMMA ScanEnds ==
    ASSUME TableTyped, PiecesFit, PiecesApart, NEW t \in Freeing, NEW lowest \in 0..MaxBlocks
    PROVE  Scanned(Scan(extent[t], lowest), HighestUsedBlockIndex + 1, t, lowest)
<1>1. PICK loop : /\ loop[0] = First(extent[t], lowest)
                  /\ \A n \in 0..HighestUsedBlockIndex : loop[n + 1] = Absorb(loop[n], n)
                  /\ Scan(extent[t], lowest) = loop[HighestUsedBlockIndex + 1]
  BY ScanIsLoop
<1> DEFINE K == HighestUsedBlockIndex + 1
           S == {n \in Nat : n <= K => Scanned(loop[n], n, t, lowest)}
<1>2. K \in Nat /\ HighestUsedBlockIndex \in Nat
  BY DEF TableTyped, Indices
<1>3. 0 \in S
  BY <1>1, ScanStarts
<1>4. \A n \in Nat : n \in S => n + 1 \in S
  <2> SUFFICES ASSUME NEW n \in Nat, n \in S, n + 1 <= K
               PROVE  Scanned(loop[n + 1], n + 1, t, lowest)
    OBVIOUS
  <2>1. n \in 0..HighestUsedBlockIndex /\ n <= K
    BY <1>2
  <2> QED
    BY <1>1, <2>1, ScanGoesOn
<1>5. K \in S
  <2> HIDE DEF S, K
  <2> QED
    BY <1>2, <1>3, <1>4, SetInduction
<1> QED
  BY <1>1, <1>2, <1>5

-----------------------------------------------------------------------------
(* How the pieces follow the variables *)

Locals ==
    /\ extent = [t \in Threads |-> extent[t]]
    /\ LowestFreeBlock = [t \in Threads |-> LowestFreeBlock[t]]

FreePiece(i, r) == <<"free", i, Extent(r.Base, r.Size)>>
HeldPiece(e)    == <<"held", e, e>>
BackPiece(t, e) == <<"back", t, e>>

\* A record is overwritten.
FreeAfter(i, r) == (FreePieces \ {FreePiece(i, Blocks[i])}) \cup
                       (IF r.InUse THEN {FreePiece(i, r)} ELSE {})

Written(i, r) == Blocks' = [Blocks EXCEPT ![i] = r] /\ UNCHANGED HighestUsedBlockIndex

LEMMA RecordWritten ==
    ASSUME Shape, TableTyped, NEW i \in Used, NEW r, r.InUse \in BOOLEAN, Written(i, r)
    PROVE  FreePieces' = FreeAfter(i, r)
<1>1. i \in Indices /\ Blocks'[i] = r /\ \A j \in Indices \ {i} : Blocks'[j] = Blocks[j]
  BY DEF Shape, Used, Written
<1>2. Used' = IF r.InUse THEN Used ELSE Used \ {i}
  BY <1>1 DEF Used, Indices, Written
<1>3. \A j \in Used \ {i} : FreePiece(j, Blocks[j])' = FreePiece(j, Blocks[j])
  BY <1>1 DEF FreePiece, Used, Extent
<1>4. FreePieces = {FreePiece(j, Blocks[j]) : j \in Used}
  BY DEF FreePieces, FreePiece
<1>5. FreePieces' = {FreePiece(j, Blocks'[j]) : j \in Used'}
  BY DEF FreePieces, FreePiece, Extent
<1>6. \A j, k, q, s : FreePiece(j, q) = FreePiece(k, s) => j = k
  BY DEF FreePiece
<1>7. \A j \in Used \ {i} : Blocks'[j] = Blocks[j]
  BY <1>1 DEF Used
<1> HIDE DEF FreePiece
<1> QED
  BY <1>1, <1>2, <1>4, <1>5, <1>6, <1>7 DEF FreeAfter

\* A buffer's block is replaced; a block is given out.
LEMMA HeldChanged ==
    ASSUME NEW e \in allocated, NEW B, allocated' = (allocated \ {e}) \cup B
    PROVE  HeldPieces' = (HeldPieces \ {HeldPiece(e)}) \cup {HeldPiece(f) : f \in B}
<1>1. \A f, g : HeldPiece(f) = HeldPiece(g) => f = g
  BY DEF HeldPiece
<1>2. HeldPieces = {HeldPiece(f) : f \in allocated} /\ HeldPieces' = {HeldPiece(f) : f \in allocated'}
  BY DEF HeldPieces, HeldPiece
<1> HIDE DEF HeldPiece
<1> QED
  BY <1>1, <1>2

LEMMA HeldAdded ==
    ASSUME NEW e, allocated' = allocated \cup {e}
    PROVE  HeldPieces' = HeldPieces \cup {HeldPiece(e)}
BY DEF HeldPieces, HeldPiece

\* A thread outside Free goes on; one starts to give an extent back; it is back.
LEMMA BackSame ==
    ASSUME Shape, NEW t \in Threads, NEW l, pc' = [pc EXCEPT ![t] = l],
           pc[t] # "free", l # "free", UNCHANGED extent
    PROVE  Freeing' = Freeing /\ BackPieces' = BackPieces
<1>1. Freeing' = Freeing
  BY Going DEF Freeing
<1> QED
  BY <1>1 DEF BackPieces

LEMMA BackAdded ==
    ASSUME Shape, Locals, NEW t \in Threads, NEW e, FreeExtent(t, e)
    PROVE  /\ Freeing' = Freeing \cup {t} /\ t \notin Freeing
           /\ BackPieces' = BackPieces \cup {BackPiece(t, e)}
<1>1. pc[t] = "idle" /\ pc' = [pc EXCEPT ![t] = "free"] /\ extent' = [extent EXCEPT ![t] = e]
  BY DEF FreeExtent, Goto
<1>2. Freeing' = Freeing \cup {t} /\ t \notin Freeing
  BY <1>1, Going DEF Freeing
<1>3. extent'[t] = e /\ \A u \in Freeing : extent'[u] = extent[u]
  BY <1>1, <1>2 DEF Locals, Freeing
<1> QED
  BY <1>2, <1>3 DEF BackPieces, BackPiece

LEMMA BackRemoved ==
    ASSUME Shape, Locals, NEW t \in Threads, pc[t] = "free", pc' = [pc EXCEPT ![t] = "idle"],
           extent' = [extent EXCEPT ![t] = None]
    PROVE  Freeing' = Freeing \ {t} /\ BackPieces' = BackPieces \ {BackPiece(t, extent[t])}
<1>1. Freeing' = Freeing \ {t}
  BY Going DEF Freeing
<1>2. \A u \in Freeing \ {t} : extent'[u] = extent[u]
  BY DEF Locals, Freeing
<1>3. \A u, v, e, f : BackPiece(u, e) = BackPiece(v, f) => u = v
  BY DEF BackPiece
<1>4. BackPieces = {BackPiece(u, extent[u]) : u \in Freeing} /\ BackPieces' = {BackPiece(u, extent'[u]) : u \in Freeing'}
  BY DEF BackPieces, BackPiece
<1> HIDE DEF BackPiece
<1> QED
  BY <1>1, <1>2, <1>3, <1>4

\* The three sets have nothing in common.
LEMMA KindsDiffer ==
    /\ \A x \in FreePieces : x[1] = "free"
    /\ \A x \in HeldPieces : x[1] = "held"
    /\ \A x \in BackPieces : x[1] = "back"
BY DEF FreePieces, HeldPieces, BackPieces

LEMMA FreePiecesAre ==
    FreePieces = {FreePiece(j, Blocks[j]) : j \in Used}
BY DEF FreePieces, FreePiece

-----------------------------------------------------------------------------
(* What every step keeps *)

AllBytes    == 0..BufferSize - 1
NothingGone == \A o \in AllBytes : \E x \in Pieces : ByteOf(o, x[3])

PartOf(f, e) ==
    /\ f = Extent(f.Base, f.Size) /\ f.Base \in Nat /\ f.Size \in Nat \ {0}
    /\ e.Base <= f.Base /\ f.Base + f.Size <= e.Base + e.Size

\* The pieces N hold every byte that the pieces D held.
Covered(D, N) == \A x \in D, o \in Nat : ByteOf(o, x[3]) => \E y \in N : ByteOf(o, y[3])

LEMMA Kept ==
    ASSUME NothingGone, NEW D, NEW N, Exchanged(D, N), Covered(D, N)
    PROVE  NothingGone'
<1>1. \A e, o : ByteOf(o, e)' = ByteOf(o, e)
  BY DEF ByteOf
<1>2. AllBytes' = AllBytes /\ AllBytes \subseteq Nat
  BY DEF AllBytes
<1>3. ASSUME NEW o \in AllBytes
      PROVE  \E x \in Pieces' : ByteOf(o, x[3])
  <2>1. PICK x \in Pieces : ByteOf(o, x[3])
    BY DEF NothingGone
  <2>2. CASE x \in D
    BY <1>2, <2>1, <2>2 DEF Exchanged, Covered
  <2>3. CASE x \notin D
    BY <2>1, <2>3 DEF Exchanged
  <2> QED
    BY <2>2, <2>3
<1> QED
  BY <1>1, <1>2, <1>3 DEF NothingGone, ByteOf

\* A piece is replaced by parts of itself.
LEMMA Split ==
    ASSUME PiecesFit, PiecesApart, NEW x \in Pieces, NEW N, Exchanged({x}, N),
           \A y \in N : PartOf(y[3], x[3]),
           \A y, z \in N : y # z => Apart(y[3], z[3])
    PROVE  PiecesFit' /\ PiecesApart'
<1>1. \A y \in N : Fits(y[3])
  BY PartFits DEF PiecesFit, PartOf
<1>2. \A y \in N, z \in Pieces \ {x} : Apart(y[3], z[3])
  BY PartApart DEF PiecesFit, PiecesApart, PartOf
<1> QED
  BY <1>1, <1>2, Rearranged

\* The variables, apart from where the memory is.
Variables ==
    /\ Shape
    /\ Locals
    /\ TableTyped
    /\ {EntryFreed, BeingDeleted, InAllocate, LockKept} \subseteq BOOLEAN
    /\ \A t \in Threads : LowestFreeBlock[t] \in 0..MaxBlocks
    /\ \A t \in Threads : pc[t] \in AllocSteps => size[t] \in Nat \ {0}

\* No record beyond the highest one is in use, though LowestFreeBlock may point there.
AboveUnused == \A i \in Indices : i > HighestUsedBlockIndex => ~Blocks[i].InUse

MInv == Variables /\ AboveUnused /\ PiecesFit /\ PiecesApart

\* What a step does to the memory: it leaves every piece inside the bytes, and loses none.
Safe == MInv' /\ (NothingGone => NothingGone')

LEMMA UsedFits ==
    ASSUME MInv, NEW i \in Used
    PROVE  /\ FreePiece(i, Blocks[i]) \in Pieces
           /\ FreePiece(i, Blocks[i])[3] = Extent(Blocks[i].Base, Blocks[i].Size)
           /\ Fits(Extent(Blocks[i].Base, Blocks[i].Size))
           /\ i \in Indices /\ Blocks[i].InUse
           /\ Blocks[i].Base \in Nat /\ Blocks[i].Size \in Nat \ {0}
           /\ Blocks[i].Base + Blocks[i].Size <= BufferSize
           /\ Blocks[i] = Record(TRUE, Blocks[i].Base, Blocks[i].Size)
<1>1. FreePiece(i, Blocks[i]) \in Pieces
  BY FreePiecesAre DEF Pieces
<1>2. FreePiece(i, Blocks[i])[3] = Extent(Blocks[i].Base, Blocks[i].Size)
  BY DEF FreePiece
<1>3. Fits(Extent(Blocks[i].Base, Blocks[i].Size))
  BY <1>1, <1>2 DEF MInv, PiecesFit
<1>4. i \in Indices /\ Blocks[i].InUse
  BY DEF Used
<1>5. Blocks[i] \in [InUse : BOOLEAN, Base : 0..BufferSize, Size : 0..BufferSize]
  BY <1>4 DEF MInv, Variables, TableTyped
<1> QED
  BY <1>1, <1>2, <1>3, <1>4, <1>5 DEF Fits, Extent, Record

LEMMA HeldFits ==
    ASSUME MInv, NEW e \in allocated
    PROVE  /\ HeldPiece(e) \in Pieces /\ HeldPiece(e)[3] = e
           /\ Fits(e) /\ e.Base \in Nat /\ e.Size \in Nat \ {0}
<1>1. HeldPiece(e) \in Pieces /\ HeldPiece(e)[3] = e
  BY DEF HeldPiece, HeldPieces, Pieces
<1> QED
  BY <1>1 DEF MInv, PiecesFit, Fits

\* Nothing moves.
LEMMA KeepMemory ==
    ASSUME MInv, Variables', UNCHANGED <<table, allocated>>, BackPieces' = BackPieces
    PROVE  Safe
<1>1. FreePieces' = FreePieces /\ HeldPieces' = HeldPieces
  BY DEF FreePieces, HeldPieces, Used, table
<1>2. Pieces' = Pieces
  BY <1>1 DEF Pieces
<1>3. PiecesFit' /\ PiecesApart'
  BY <1>2 DEF MInv, PiecesFit, PiecesApart, Fits, Solid, On64MBBoundary, Apart
<1>4. AboveUnused'
  BY DEF MInv, AboveUnused, table
<1>5. NothingGone => NothingGone'
  BY <1>2 DEF NothingGone, ByteOf, AllBytes
<1> QED
  BY <1>3, <1>4, <1>5 DEF Safe, MInv

\* A block is cut from the lower end of a free extent, or is all of it.
LEMMA KeepTaken ==
    ASSUME MInv, NEW t \in Threads, NEW i \in Used, NEW n \in Nat \ {0}, n <= Blocks[i].Size,
           pc[t] \in Searches, pc' = [pc EXCEPT ![t] = "idle"], size' = [size EXCEPT ![t] = 0],
           Written(i, Cut(Blocks[i], n)),
           allocated' = allocated \cup {Extent(Blocks[i].Base, n)},
           EntryFreed' = FALSE, InAllocate' = FALSE,
           UNCHANGED <<BeingDeleted, LockKept, extent, LowestFreeBlock>>
    PROVE  Safe
<1> DEFINE b == Blocks[i]
           r == Cut(b, n)
           e == Extent(b.Base, n)
           x == FreePiece(i, b)
<1>1. n \in Nat \ {0}
  OBVIOUS
<1>2. i \in Used /\ n <= b.Size
  OBVIOUS
<1>3. /\ x \in Pieces /\ x[3] = Extent(b.Base, b.Size) /\ Fits(Extent(b.Base, b.Size))
      /\ i \in Indices /\ b.Base \in Nat /\ b.Size \in Nat \ {0} /\ b.Base + b.Size <= BufferSize
  BY <1>2, UsedFits
<1>4. Blocks' = [Blocks EXCEPT ![i] = r] /\ UNCHANGED HighestUsedBlockIndex
  BY DEF Written
<1>5. r \in [InUse : BOOLEAN, Base : 0..BufferSize, Size : 0..BufferSize]
  BY <1>1, <1>2, <1>3, SizesAssumption DEF Cut, Empty, Record
<1>6. Variables'
  <2>1. Shape' /\ Locals'
    BY <1>4 DEF MInv, Variables, Shape, Locals
  <2>2. TableTyped'
    BY <1>3, <1>4, <1>5 DEF MInv, Variables, Shape, TableTyped, Indices
  <2>3. \A u \in Threads : pc'[u] \in AllocSteps => size'[u] \in Nat \ {0}
    BY DEF MInv, Variables, Shape, AllocSteps, Searches, Waits
  <2> QED
    BY <1>4, <2>1, <2>2, <2>3 DEF MInv, Variables, AllocSteps, Searches, Waits
<1>7. AboveUnused'
  BY <1>2, <1>3, <1>4, <1>5 DEF MInv, Variables, Shape, AboveUnused, Used, Indices
<1> DEFINE N == (IF r.InUse THEN {FreePiece(i, r)} ELSE {}) \cup {HeldPiece(e)}
<1>8. Exchanged({x}, N)
  <2>1. FreePieces' = FreeAfter(i, r)
    <3>1. /\ r.InUse \in BOOLEAN /\ Shape /\ TableTyped /\ i \in Used
          /\ Written(i, r)
      BY <1>2, <1>4, <1>5 DEF MInv, Variables, Written
    <3> HIDE DEF r
    <3> QED
      BY <3>1, RecordWritten
  <2>2. HeldPieces' = HeldPieces \cup {HeldPiece(e)}
    BY HeldAdded
  <2>3. BackPieces' = BackPieces
    BY BackSame DEF MInv, Variables, Searches
  <2>4. x \notin HeldPieces /\ x \notin BackPieces
    BY KindsDiffer DEF FreePiece
  <2> HIDE DEF r, e
  <2> QED
    BY <2>1, <2>2, <2>3, <2>4 DEF Pieces, Exchanged, FreeAfter
<1>9. /\ HeldPiece(e)[3] = e
      /\ r.InUse => /\ FreePiece(i, r)[3] = Extent(b.Base + n, b.Size - n)
                    /\ b.Size - n \in Nat \ {0}
      /\ ~r.InUse => n = b.Size
  BY <1>1, <1>2, <1>3 DEF HeldPiece, FreePiece, Cut, Record, Empty
<1> HIDE DEF b, r
<1>10. \A y \in N : PartOf(y[3], x[3])
  BY <1>1, <1>2, <1>3, <1>9 DEF PartOf, Extent
<1>11. \A y, z \in N : y # z => Apart(y[3], z[3])
  BY <1>1, <1>2, <1>3, <1>9 DEF Apart, Extent
<1>12. Covered({x}, N)
  BY <1>1, <1>2, <1>3, <1>9 DEF ByteOf, Extent, Covered
<1> HIDE DEF N, x
<1> QED
  BY <1>3, <1>6, <1>7, <1>8, <1>10, <1>11, <1>12, Split, Kept DEF Safe, MInv

\* Allocate: the first that is large enough; AllocateLargest: the first of the
\* largest ones.
LEMMA KeepFirst ==
    ASSUME MInv, NEW t \in Threads, AllocFirst(t)
    PROVE  Safe
<1> DEFINE n == size[t]
           i == Min(Fitting(n))
<1>1. n \in Nat \ {0}
  BY DEF AllocFirst, Goto, MInv, Variables, AllocSteps, Searches
<1>2. i \in Fitting(n)
  BY MinOf DEF AllocFirst, Fitting, Used, Indices
<1>3. i \in Used /\ n <= Blocks[i].Size
  BY <1>1, <1>2, UsedFits DEF Fitting
<1>4. Written(i, Cut(Blocks[i], n))
  <2>1. \A j \in Indices : [Blocks EXCEPT ![j] = Cut(@, n)] = [Blocks EXCEPT ![j] = Cut(Blocks[j], n)]
    BY DEF MInv, Variables, Shape
  <2> QED
    BY <1>3, <2>1 DEF AllocFirst, Written, Used
<1>5. /\ allocated' = allocated \cup {Extent(Blocks[i].Base, n)}
      /\ pc[t] \in Searches /\ pc' = [pc EXCEPT ![t] = "idle"] /\ size' = [size EXCEPT ![t] = 0]
      /\ EntryFreed' = FALSE /\ InAllocate' = FALSE
      /\ UNCHANGED <<BeingDeleted, LockKept, extent, LowestFreeBlock>>
  BY DEF AllocFirst, Goto, LeaveAllocate, Searches
<1> HIDE DEF i, n
<1> QED
  BY <1>1, <1>3, <1>4, <1>5, KeepTaken

LEMMA KeepLargest ==
    ASSUME MInv, NEW t \in Threads, AllocLargest(t)
    PROVE  Safe
<1> DEFINE i == LargestFreeBlock
           n == Blocks[i].Size
           L == {j \in Used : \A k \in Used : Blocks[k].Size <= Blocks[j].Size}
           sizes == {Blocks[j].Size : j \in Used}
<1>1. \A j \in Used : Blocks[j].Size \in Nat \ {0} /\ Blocks[j].Size \in 0..BufferSize /\ j \in Nat
  <2> TAKE j \in Used
  <2>1. Blocks[j].Base \in Nat /\ Blocks[j].Size \in Nat \ {0} /\ Blocks[j].Base + Blocks[j].Size <= BufferSize
    BY UsedFits
  <2>2. j \in Nat /\ BufferSize \in Nat
    BY SizesAssumption DEF Used, Indices
  <2> QED
    BY <2>1, <2>2
<1>2. Used # {}
  BY DEF AllocLargest, Fitting
<1>3. Max(sizes) \in sizes /\ \A m \in sizes : m <= Max(sizes)
  <2>1. sizes \in SUBSET (0..BufferSize) /\ sizes # {} /\ BufferSize \in Nat
    BY <1>1, <1>2, SizesAssumption
  <2> HIDE DEF sizes
  <2> QED
    BY <2>1, MaxOf
<1>4. L # {} /\ L \in SUBSET Nat
  BY <1>1, <1>3
<1>5. i \in L
  <2>1. i = Min(L)
    BY DEF LargestFreeBlock
  <2> HIDE DEF L
  <2> QED
    BY <1>4, <2>1, MinOf
<1>6. i \in Used /\ n \in Nat \ {0} /\ n <= Blocks[i].Size
  BY <1>1, <1>5
<1>7. Written(i, Cut(Blocks[i], n))
  BY DEF AllocLargest, Written, Cut
<1>8. /\ allocated' = allocated \cup {Extent(Blocks[i].Base, n)}
      /\ pc[t] \in Searches /\ pc' = [pc EXCEPT ![t] = "idle"] /\ size' = [size EXCEPT ![t] = 0]
      /\ EntryFreed' = FALSE /\ InAllocate' = FALSE
      /\ UNCHANGED <<BeingDeleted, LockKept, extent, LowestFreeBlock>>
  BY DEF AllocLargest, Goto, LeaveAllocate, Searches
<1> HIDE DEF i, n
<1> QED
  BY <1>6, <1>7, <1>8, KeepTaken

-----------------------------------------------------------------------------
(* Buffers that grow, are cut in two, or give memory back *)

\* A held block takes over a free neighbour.
LEMMA KeepJoined ==
    ASSUME MInv, NEW e \in allocated, NEW i \in Used, NEW f,
           \/ /\ e.Base + e.Size = Blocks[i].Base /\ ~On64MBBoundary(Blocks[i].Base)
              /\ f = Extent(e.Base, e.Size + Blocks[i].Size)
           \/ /\ Blocks[i].Base + Blocks[i].Size = e.Base /\ ~On64MBBoundary(e.Base)
              /\ f = Extent(Blocks[i].Base, Blocks[i].Size + e.Size),
           Written(i, Empty), allocated' = (allocated \ {e}) \cup {f},
           Variables', BackPieces' = BackPieces
    PROVE  Safe
<1> DEFINE b == Blocks[i]
           eb == Extent(b.Base, b.Size)
           x == FreePiece(i, b)
           h == HeldPiece(e)
           D == {x, h}
           N == {HeldPiece(f)}
<1>1. /\ x \in Pieces /\ x[3] = eb /\ Fits(eb) /\ i \in Indices
      /\ eb.Base = b.Base /\ eb.Size = b.Size /\ b.Base \in Nat /\ b.Size \in Nat \ {0}
  BY UsedFits DEF Extent
<1>2. /\ h \in Pieces /\ h[3] = e /\ Fits(e) /\ e = Extent(e.Base, e.Size)
      /\ e.Base \in Nat /\ e.Size \in Nat \ {0}
  BY HeldFits DEF Fits
<1>3. /\ Fits(f)
      /\ \A g : Fits(g) /\ Apart(e, g) /\ Apart(eb, g) => Apart(f, g)
      /\ \A o \in Nat : ByteOf(o, e) \/ ByteOf(o, eb) => ByteOf(o, f)
  <2>1. CASE e.Base + e.Size = b.Base /\ ~On64MBBoundary(b.Base) /\ f = Extent(e.Base, e.Size + b.Size)
    <3>1. f = Extent(e.Base, e.Size + eb.Size) /\ e.Base + e.Size = eb.Base /\ ~On64MBBoundary(eb.Base)
      BY <1>1, <2>1
    <3> HIDE DEF eb
    <3>2. \A o \in Nat : ByteOf(o, e) \/ ByteOf(o, eb) => ByteOf(o, f)
      BY <1>1, <1>2, <3>1 DEF ByteOf, Extent
    <3> QED
      BY <1>1, <1>2, <3>1, <3>2, JoinFits
  <2>2. CASE b.Base + b.Size = e.Base /\ ~On64MBBoundary(e.Base) /\ f = Extent(b.Base, b.Size + e.Size)
    <3>1. f = Extent(eb.Base, eb.Size + e.Size) /\ eb.Base + eb.Size = e.Base /\ ~On64MBBoundary(e.Base)
      BY <1>1, <2>2
    <3> HIDE DEF eb
    <3>2. \A o \in Nat : ByteOf(o, e) \/ ByteOf(o, eb) => ByteOf(o, f)
      BY <1>1, <1>2, <3>1 DEF ByteOf, Extent
    <3> QED
      BY <1>1, <1>2, <3>1, <3>2, JoinFits
  <2> QED
    BY <2>1, <2>2
<1>4. HeldPiece(f)[3] = f
  BY DEF HeldPiece
<1>5. Exchanged(D, N)
  <2>1. FreePieces' = FreePieces \ {x}
    <3>1. ~Empty.InUse /\ Empty.InUse \in BOOLEAN
      BY DEF Empty, Record
    <3>2. FreePieces' = FreeAfter(i, Empty)
      BY <3>1, RecordWritten DEF MInv, Variables
    <3> QED
      BY <3>1, <3>2 DEF FreeAfter
  <2>2. HeldPieces' = (HeldPieces \ {h}) \cup {HeldPiece(f)}
    <3> DEFINE B == {f}
    <3>1. allocated' = (allocated \ {e}) \cup B
      OBVIOUS
    <3>2. HeldPieces' = (HeldPieces \ {HeldPiece(e)}) \cup {HeldPiece(g) : g \in B}
      <4> HIDE DEF B
      <4> QED
        BY <3>1, HeldChanged
    <3> QED
      BY <3>2
  <2>3. x \notin HeldPieces /\ x \notin BackPieces /\ h \notin FreePieces /\ h \notin BackPieces
    BY KindsDiffer DEF FreePiece, HeldPiece
  <2> HIDE DEF x, h
  <2> QED
    BY <2>1, <2>2, <2>3 DEF Pieces, Exchanged
<1> HIDE DEF eb
<1>6. \A y \in N, z \in Pieces \ D : Apart(y[3], z[3])
  <2> SUFFICES ASSUME NEW z \in Pieces, z # x, z # h
               PROVE  Apart(f, z[3])
    BY <1>4
  <2>1. Fits(z[3]) /\ Apart(eb, z[3]) /\ Apart(e, z[3])
    BY <1>1, <1>2 DEF MInv, PiecesFit, PiecesApart
  <2> QED
    BY <1>3, <2>1
<1>7. /\ \A y \in N : Fits(y[3])
      /\ \A y, z \in N : y # z => Apart(y[3], z[3])
      /\ Covered(D, N)
  BY <1>1, <1>2, <1>3, <1>4 DEF Covered
<1>8. AboveUnused'
  BY <1>1 DEF MInv, Variables, Shape, AboveUnused, Written, Empty, Record, Indices
<1> HIDE DEF D, N
<1> QED
  BY <1>5, <1>6, <1>7, <1>8, Rearranged, Kept DEF Safe, MInv

LEMMA KeepExtendToLargest ==
    ASSUME MInv, NEW t \in Threads, NEW e \in allocated, ExtendToLargest(t, e)
    PROVE  Safe
<1>1. PICK i \in ExtendUpwards(e) \cup ExtendDownwards(e) :
         /\ Blocks' = [Blocks EXCEPT ![i] = Empty]
         /\ allocated' = (allocated \ {e}) \cup
               {Extent(Min({e.Base, Blocks[i].Base}), e.Size + Blocks[i].Size)}
  BY DEF ExtendToLargest
<1> DEFINE f == Extent(Min({e.Base, Blocks[i].Base}), e.Size + Blocks[i].Size)
<1>2. /\ i \in Used /\ i \in Indices
      /\ Blocks[i].Base \in Nat /\ Blocks[i].Size \in Nat \ {0}
      /\ e.Base \in Nat /\ e.Size \in Nat \ {0}
  BY UsedFits, HeldFits DEF ExtendUpwards, ExtendDownwards
<1>3. \/ /\ e.Base + e.Size = Blocks[i].Base /\ ~On64MBBoundary(Blocks[i].Base)
         /\ f = Extent(e.Base, e.Size + Blocks[i].Size)
      \/ /\ Blocks[i].Base + Blocks[i].Size = e.Base /\ ~On64MBBoundary(e.Base)
         /\ f = Extent(Blocks[i].Base, Blocks[i].Size + e.Size)
  <2>1. Min({e.Base, Blocks[i].Base}) = IF e.Base <= Blocks[i].Base THEN e.Base ELSE Blocks[i].Base
    BY <1>2, MinOfTwo
  <2>2. CASE i \in ExtendUpwards(e)
    BY <1>2, <2>1, <2>2 DEF ExtendUpwards
  <2>3. CASE i \in ExtendDownwards(e)
    BY <1>2, <2>1, <2>3 DEF ExtendDownwards
  <2> QED
    BY <2>2, <2>3
<1>4. /\ UNCHANGED <<EntryFreed, BeingDeleted, InAllocate, LockKept, pc, extent, size, LowestFreeBlock>>
      /\ Written(i, Empty)
  BY <1>1 DEF ExtendToLargest, Written, call
<1>5. Variables'
  <2>1. Empty \in [InUse : BOOLEAN, Base : 0..BufferSize, Size : 0..BufferSize]
    BY SizesAssumption DEF Empty, Record
  <2> QED
    BY <1>2, <1>4, <2>1 DEF MInv, Variables, Shape, Locals, TableTyped, Written, Indices
<1>6. BackPieces' = BackPieces
  BY <1>4 DEF BackPieces, Freeing
<1> HIDE DEF f
<1> QED
  BY <1>1, <1>2, <1>3, <1>4, <1>5, <1>6, KeepJoined DEF f

\* A held block becomes two.
LEMMA KeepPartition ==
    ASSUME MInv, NEW t \in Threads, NEW e \in allocated, NEW n \in 1..e.Size, PartitionBuffer(t, e, n)
    PROVE  Safe
<1> DEFINE h == HeldPiece(e)
           f == Extent(e.Base, n)
           g == SecondPart(e, n)
           B == {f, g}
           N == {HeldPiece(f), HeldPiece(g)}
<1>1. h \in Pieces /\ h[3] = e /\ Fits(e) /\ e.Base \in Nat /\ e.Size \in Nat \ {0}
  BY HeldFits
<1>2. n \in Nat \ {0} /\ n < e.Size
  BY <1>1 DEF PartitionBuffer
<1>3. /\ UNCHANGED <<table, EntryFreed, BeingDeleted, InAllocate, LockKept, pc, extent, size, LowestFreeBlock>>
      /\ allocated' = (allocated \ {e}) \cup B
  BY DEF PartitionBuffer, call
<1>4. Variables' /\ AboveUnused'
  BY <1>3 DEF MInv, Variables, Shape, Locals, TableTyped, AboveUnused, table
<1>5. Exchanged({h}, N)
  <2>1. FreePieces' = FreePieces /\ BackPieces' = BackPieces
    BY <1>3 DEF FreePieces, BackPieces, Used, Freeing, table
  <2>2. HeldPieces' = (HeldPieces \ {h}) \cup {HeldPiece(k) : k \in B}
    <3> HIDE DEF B
    <3> QED
      BY <1>3, HeldChanged
  <2>3. {HeldPiece(k) : k \in B} = N
    OBVIOUS
  <2>4. h \notin FreePieces /\ h \notin BackPieces
    BY KindsDiffer DEF HeldPiece
  <2> HIDE DEF h, B, N
  <2> QED
    BY <2>1, <2>2, <2>3, <2>4 DEF Pieces, Exchanged
<1>6. HeldPiece(f)[3] = f /\ HeldPiece(g)[3] = g
  BY DEF HeldPiece
<1>7. \A y \in N : PartOf(y[3], h[3])
  BY <1>1, <1>2, <1>6 DEF PartOf, Extent, SecondPart
<1>8. \A y, z \in N : y # z => Apart(y[3], z[3])
  BY <1>1, <1>2, <1>6 DEF Apart, Extent, SecondPart
<1>9. Covered({h}, N)
  BY <1>1, <1>2, <1>6 DEF ByteOf, Extent, SecondPart, Covered
<1> HIDE DEF N, h
<1> QED
  BY <1>1, <1>4, <1>5, <1>7, <1>8, <1>9, Split, Kept DEF Safe, MInv

\* A held block is cut, and its upper end, or all of it, is on its way back.
LEMMA KeepGiven ==
    ASSUME MInv, NEW t \in Threads, NEW e \in allocated, NEW k \in Nat, k < e.Size,
           FreeExtent(t, Extent(e.Base + k, e.Size - k)),
           allocated' = (allocated \ {e}) \cup (IF k = 0 THEN {} ELSE {Extent(e.Base, k)}),
           UNCHANGED <<table, EntryFreed, BeingDeleted, InAllocate, LockKept, size>>
    PROVE  Safe
<1> DEFINE h == HeldPiece(e)
           f == Extent(e.Base, k)
           g == Extent(e.Base + k, e.Size - k)
           B == IF k = 0 THEN {} ELSE {f}
           N == (IF k = 0 THEN {} ELSE {HeldPiece(f)}) \cup {BackPiece(t, g)}
<1>1. h \in Pieces /\ h[3] = e /\ Fits(e) /\ e.Base \in Nat /\ e.Size \in Nat \ {0}
  BY HeldFits
<1>2. e.Size - k \in Nat \ {0}
  BY <1>1
<1>3. Variables'
  <2>1. NextUnused \in 0..MaxBlocks
    BY SizesAssumption DEF MInv, Variables, TableTyped, Indices, NextUnused
  <2>2. LowestFreeBlock' = [LowestFreeBlock EXCEPT ![t] = NextUnused]
    BY DEF FreeExtent
  <2>3. pc' = [pc EXCEPT ![t] = "free"] /\ extent' = [extent EXCEPT ![t] = g]
    BY DEF FreeExtent, Goto
  <2>4. Shape' /\ Locals' /\ TableTyped'
    BY <2>2, <2>3 DEF MInv, Variables, Shape, Locals, TableTyped, table
  <2>5. \A u \in Threads : LowestFreeBlock'[u] \in 0..MaxBlocks
    BY <2>1, <2>2 DEF MInv, Variables, Locals
  <2>6. \A u \in Threads : pc'[u] \in AllocSteps => size'[u] \in Nat \ {0}
    BY <2>3 DEF MInv, Variables, Shape, AllocSteps, Searches, Waits
  <2> QED
    BY <2>4, <2>5, <2>6 DEF MInv, Variables
<1>4. AboveUnused'
  BY DEF MInv, AboveUnused, table
<1>5. Exchanged({h}, N)
  <2>1. FreePieces' = FreePieces
    BY DEF FreePieces, Used, table
  <2>2. HeldPieces' = (HeldPieces \ {h}) \cup {HeldPiece(q) : q \in B}
    <3> HIDE DEF B
    <3> QED
      BY HeldChanged DEF B
  <2>3. {HeldPiece(q) : q \in B} = IF k = 0 THEN {} ELSE {HeldPiece(f)}
    OBVIOUS
  <2>4. BackPieces' = BackPieces \cup {BackPiece(t, g)}
    <3> HIDE DEF g
    <3> QED
      BY BackAdded DEF MInv, Variables, g
  <2>5. h \notin FreePieces /\ h \notin BackPieces
    BY KindsDiffer DEF HeldPiece
  <2> HIDE DEF h, B, f, g
  <2> QED
    BY <2>1, <2>2, <2>3, <2>4, <2>5 DEF Pieces, Exchanged
<1>6. HeldPiece(f)[3] = f /\ BackPiece(t, g)[3] = g
  BY DEF HeldPiece, BackPiece
<1>7. \A y \in N : PartOf(y[3], h[3])
  BY <1>1, <1>2, <1>6 DEF PartOf, Extent
<1>8. \A y, z \in N : y # z => Apart(y[3], z[3])
  BY <1>1, <1>2, <1>6 DEF Apart, Extent
<1>9. Covered({h}, N)
  BY <1>1, <1>2, <1>6 DEF ByteOf, Extent, Covered
<1> HIDE DEF N, h
<1> QED
  BY <1>1, <1>3, <1>4, <1>5, <1>7, <1>8, <1>9, Split, Kept DEF Safe, MInv

LEMMA KeepShrink ==
    ASSUME MInv, NEW t \in Threads, NEW e \in allocated, NEW n \in 0..e.Size, ShrinkMemoryBlock(t, e, n)
    PROVE  Safe
<1> DEFINE k == RoundUp(n)
<1>1. e.Base \in Nat /\ e.Size \in Nat \ {0}
  BY HeldFits
<1>2. n \in Nat
  BY <1>1
<1>3. k \in Nat /\ k < e.Size /\ (n = 0 <=> k = 0)
  <2>1. k \in Nat /\ n <= k /\ (n = 0 => k = 0)
    BY <1>2, RoundUpBounds
  <2> QED
    BY <1>2, <2>1 DEF ShrinkMemoryBlock
<1>4. /\ FreeExtent(t, Extent(e.Base + k, e.Size - k))
      /\ allocated' = (allocated \ {e}) \cup (IF k = 0 THEN {} ELSE {Extent(e.Base, k)})
      /\ UNCHANGED <<table, EntryFreed, BeingDeleted, InAllocate, LockKept, size>>
  BY <1>3 DEF ShrinkMemoryBlock
<1> HIDE DEF k
<1> QED
  BY <1>3, <1>4, KeepGiven

LEMMA KeepDeAllocate ==
    ASSUME MInv, NEW t \in Threads, NEW e \in allocated, DeAllocateMemoryBlock(t, e)
    PROVE  Safe
<1>1. Fits(e) /\ e.Base \in Nat /\ e.Size \in Nat \ {0}
  BY HeldFits
<1>2. Extent(e.Base + 0, e.Size - 0) = e
  BY <1>1 DEF Fits
<1>3. /\ FreeExtent(t, Extent(e.Base + 0, e.Size - 0))
      /\ allocated' = (allocated \ {e}) \cup (IF 0 = 0 THEN {} ELSE {Extent(e.Base, 0)})
      /\ UNCHANGED <<table, EntryFreed, BeingDeleted, InAllocate, LockKept, size>>
  BY <1>2 DEF DeAllocateMemoryBlock
<1>4. 0 \in Nat /\ 0 < e.Size
  BY <1>1
<1> QED
  BY <1>3, <1>4, KeepGiven

\* The extent comes back: it replaces the neighbours that are taken in and what
\* the record that is chosen had, which is nothing when that record was chosen
\* by a call that ran alone.
Chosen(t)  == Scan(extent[t], LowestFreeBlock[t])
Returned(t) ==
    LET s == Chosen(t) IN s.Lowest # MaxBlocks /\ s.Lowest \notin Used \ s.Taken

LEMMA KeepReturned ==
    ASSUME MInv, NEW t \in Threads, FreeLocked(t)
    PROVE  MInv' /\ (Returned(t) /\ NothingGone => NothingGone')
<1> DEFINE s == Chosen(t)
           H == HighestUsedBlockIndex
           b == [i \in Indices |-> IF i \in s.Taken THEN Empty ELSE Blocks[i]]
           k == BackPiece(t, extent[t])
           r == Record(TRUE, s.Base, s.Size)
           es == Extent(s.Base, s.Size)
           full == s.Lowest = MaxBlocks
           G == s.Taken \cup (IF full THEN {} ELSE {s.Lowest})
           D == {k} \cup {FreePiece(i, Blocks[i]) : i \in G \cap Used}
           N == IF full THEN {} ELSE {FreePiece(s.Lowest, r)}
<1>1. /\ pc[t] = "free" /\ pc' = [pc EXCEPT ![t] = "idle"] /\ t \in Freeing
      /\ extent' = [extent EXCEPT ![t] = None]
      /\ LowestFreeBlock' = [LowestFreeBlock EXCEPT ![t] = 0]
      /\ UNCHANGED <<BeingDeleted, InAllocate, LockKept, allocated, size>>
      /\ EntryFreed' = TRUE
      /\ full => Blocks' = b /\ UNCHANGED HighestUsedBlockIndex
      /\ ~full => /\ Blocks' = [b EXCEPT ![s.Lowest] = r]
                  /\ HighestUsedBlockIndex' = Max({s.Lowest, s.Highest})
  BY DEF FreeLocked, Goto, SignalFreed, Chosen, Freeing
<1>2. Scanned(s, H + 1, t, LowestFreeBlock[t])
  BY <1>1, ScanEnds DEF MInv, Variables, Chosen
<1>3. H \in Indices /\ H \in Nat /\ MaxBlocks \in Nat /\ LowestFreeBlock[t] \in 0..MaxBlocks
  BY SizesAssumption DEF MInv, Variables, TableTyped, Indices
<1> HIDE DEF s
<1>4. /\ s.Taken \subseteq Used
      /\ s.Lowest \in 0..MaxBlocks /\ (~full => s.Lowest \in Indices)
      /\ s.Highest \in 0..H
      /\ \A i \in Used \ s.Taken : i <= s.Highest
      /\ Fits(es) /\ s.Base \in Nat /\ s.Size \in Nat \ {0} /\ s.Base + s.Size <= BufferSize
      /\ \A y \in Spared(s.Taken, t) : Apart(es, y[3])
  <2>1. \A i \in Used : i < H + 1
    BY <1>3 DEF Used, Indices
  <2>2. s.Lowest \in 0..MaxBlocks /\ s.Taken \subseteq Used
    BY <1>2, <1>3 DEF Scanned
  <2>3. ~full => s.Lowest \in Indices
    BY <2>2, <1>3 DEF Indices
  <2> QED
    BY <1>2, <2>1, <2>2, <2>3 DEF Scanned, Fits, Extent
<1>5. ~full => /\ HighestUsedBlockIndex' \in Indices
               /\ HighestUsedBlockIndex' >= s.Lowest /\ HighestUsedBlockIndex' >= s.Highest
  <2> SUFFICES ASSUME ~full
               PROVE  /\ HighestUsedBlockIndex' \in Indices
                      /\ HighestUsedBlockIndex' >= s.Lowest /\ HighestUsedBlockIndex' >= s.Highest
    OBVIOUS
  <2>1. s.Lowest \in Nat /\ s.Highest \in Nat /\ s.Highest \in Indices /\ s.Lowest \in Indices
    BY <1>3, <1>4 DEF Indices
  <2>2. HighestUsedBlockIndex' = IF s.Lowest <= s.Highest THEN s.Highest ELSE s.Lowest
    BY <1>1, <2>1, MaxOfTwo
  <2> QED
    BY <2>1, <2>2
<1>6. \A i \in Indices : /\ i \in s.Taken /\ ~(~full /\ i = s.Lowest) => Blocks'[i] = Empty
                         /\ i \notin s.Taken /\ ~(~full /\ i = s.Lowest) => Blocks'[i] = Blocks[i]
                         /\ ~full /\ i = s.Lowest => Blocks'[i] = r
  BY <1>1
<1>7. ~Empty.InUse /\ r.InUse /\ r.Base = s.Base /\ r.Size = s.Size
      /\ Empty \in [InUse : BOOLEAN, Base : 0..BufferSize, Size : 0..BufferSize]
      /\ r \in [InUse : BOOLEAN, Base : 0..BufferSize, Size : 0..BufferSize]
  BY <1>4, SizesAssumption DEF Empty, Record
<1>8. Used' = (Used \ G) \cup (IF full THEN {} ELSE {s.Lowest})
  <2>1. ASSUME NEW i \in Indices, i \notin G
        PROVE  i \in Used' <=> i \in Used
    <3>1. Blocks'[i] = Blocks[i]
      BY <1>6, <2>1
    <3>2. i \in Used => i <= HighestUsedBlockIndex'
      <4> SUFFICES ASSUME i \in Used PROVE i <= HighestUsedBlockIndex'
        OBVIOUS
      <4>1. i <= s.Highest /\ i \in Nat /\ s.Highest \in Nat /\ s.Highest <= H
        BY <1>3, <1>4, <2>1 DEF Indices
      <4> QED
        BY <1>1, <1>3, <1>5, <4>1 DEF Indices
    <3>3. Blocks[i].InUse => i <= H
      BY <1>3 DEF MInv, AboveUnused, Indices
    <3> QED
      BY <3>1, <3>2, <3>3 DEF Used, Indices
  <2>2. ASSUME NEW i \in s.Taken, ~(~full /\ i = s.Lowest)
        PROVE  i \notin Used'
    BY <1>4, <1>6, <1>7, <2>2 DEF Used, Indices
  <2>3. ~full => s.Lowest \in Used'
    BY <1>4, <1>5, <1>6, <1>7 DEF Used, Indices
  <2>4. Used \subseteq Indices /\ Used' \subseteq Indices
    BY DEF Used, Indices
  <2> HIDE DEF full
  <2> QED
    BY <2>1, <2>2, <2>3, <2>4
<1>9. FreePieces' = (FreePieces \ D) \cup N
  <2>1. FreePieces = {FreePiece(i, Blocks[i]) : i \in Used} /\ FreePieces' = {FreePiece(i, Blocks'[i]) : i \in Used'}
    BY DEF FreePieces, FreePiece, Extent
  <2>2. \A i, j, p, q : FreePiece(i, p) = FreePiece(j, q) => i = j
    BY DEF FreePiece
  <2>3. \A i, p : FreePiece(i, p) # k
    BY DEF FreePiece, BackPiece
  <2>4. \A i \in Used \ G : Blocks'[i] = Blocks[i]
    BY <1>6 DEF Used
  <2>5. ~full => Blocks'[s.Lowest] = r
    BY <1>4, <1>6
  <2> HIDE DEF full, k, r
  <2> QED
    BY <1>8, <2>1, <2>2, <2>3, <2>4, <2>5
<1>10. Exchanged(D, N)
  <2>1. BackPieces' = BackPieces \ {k} /\ HeldPieces' = HeldPieces
    BY <1>1, BackRemoved DEF MInv, Variables, HeldPieces
  <2>2. \A i, p : FreePiece(i, p) \notin HeldPieces \cup BackPieces
    BY KindsDiffer DEF FreePiece
  <2>3. k \notin HeldPieces
    BY KindsDiffer DEF BackPiece
  <2> HIDE DEF k, r, full
  <2> QED
    BY <1>9, <2>1, <2>2, <2>3 DEF Pieces, Exchanged
<1>11. FreePiece(s.Lowest, r)[3] = es
  BY <1>7 DEF FreePiece
<1>12. /\ \A y \in N : Fits(y[3])
       /\ \A y, z \in N : y # z => Apart(y[3], z[3])
       /\ \A y \in N, z \in Pieces \ D : Apart(y[3], z[3])
  <2>1. Pieces \ D \subseteq Spared(s.Taken, t)
    BY <1>4 DEF Spared, FreePiece, BackPiece
  <2> HIDE DEF es, D, full
  <2> QED
    BY <1>4, <1>11, <2>1
<1>13. PiecesFit' /\ PiecesApart'
  <2> HIDE DEF D, N
  <2> QED
    BY <1>10, <1>12, Rearranged DEF MInv
<1>14. Variables'
  <2>1. \A i \in Indices : Blocks'[i] \in [InUse : BOOLEAN, Base : 0..BufferSize, Size : 0..BufferSize]
    BY <1>6, <1>7 DEF MInv, Variables, TableTyped
  <2>2. Blocks' = [i \in Indices |-> Blocks'[i]]
    BY <1>1
  <2>3. TableTyped'
    BY <1>1, <1>3, <1>5, <2>1 DEF TableTyped, Indices
  <2>4. Shape' /\ Locals'
    BY <1>1, <2>2 DEF MInv, Variables, Shape, Locals, Indices
  <2>5. \A u \in Threads : LowestFreeBlock'[u] \in 0..MaxBlocks
    BY <1>1, <1>3 DEF MInv, Variables, Locals
  <2>6. \A u \in Threads : pc'[u] \in AllocSteps => size'[u] \in Nat \ {0}
    BY <1>1 DEF MInv, Variables, Shape, AllocSteps, Searches, Waits
  <2> QED
    BY <1>1, <2>3, <2>4, <2>5, <2>6 DEF MInv, Variables
<1>15. AboveUnused'
  <2> SUFFICES ASSUME NEW i \in Indices, i > HighestUsedBlockIndex', Blocks'[i].InUse
               PROVE  FALSE
    BY DEF AboveUnused, Indices
  <2>0. ~(~full /\ i = s.Lowest)
    <3> SUFFICES ASSUME ~full, i = s.Lowest PROVE FALSE
      OBVIOUS
    <3>1. i \in Int /\ HighestUsedBlockIndex' \in Int /\ HighestUsedBlockIndex' >= i
      BY <1>5 DEF Indices
    <3> QED
      BY <3>1
  <2>1. i \notin G /\ Blocks'[i] = Blocks[i]
    <3>1. i \notin s.Taken
      BY <1>6, <1>7, <2>0
    <3> QED
      BY <1>6, <2>0, <3>1
  <2>2. i \in Used
    BY <1>3, <2>1 DEF MInv, AboveUnused, Used, Indices
  <2>3. i <= s.Highest /\ s.Highest <= H
    BY <1>4, <2>1, <2>2
  <2> QED
    BY <1>1, <1>3, <1>4, <1>5, <2>3 DEF Indices
<1>16. ASSUME Returned(t), NothingGone
       PROVE  NothingGone'
  <2>1. ~full /\ G \cap Used = s.Taken
    BY <1>4, <1>16 DEF Returned, s
  <2>2. ASSUME NEW y \in D, NEW o \in Nat, ByteOf(o, y[3])
        PROVE  ByteOf(o, es)
    <3>1. k[3] = extent[t] /\ \A i : FreePiece(i, Blocks[i])[3] = Extent(Blocks[i].Base, Blocks[i].Size)
      BY DEF BackPiece, FreePiece
    <3>2. CASE y = k
      BY <1>2, <2>2, <3>1, <3>2 DEF Scanned
    <3>3. ASSUME NEW i \in s.Taken, y = FreePiece(i, Blocks[i])
          PROVE  ByteOf(o, es)
      <4> HIDE DEF k, D
      <4>0. y[3] = Extent(Blocks[i].Base, Blocks[i].Size)
        BY <3>1, <3>3
      <4>1. ByteOf(o, Blocks[i])
        BY <2>2, <4>0 DEF ByteOf, Extent
      <4> QED
        BY <1>2, <4>1 DEF Scanned
    <3> QED
      BY <2>1, <2>2, <3>2, <3>3
  <2>3. Covered(D, N)
    BY <1>11, <2>1, <2>2 DEF Covered
  <2> HIDE DEF D, N
  <2> QED
    BY <1>10, <1>16, <2>3, Kept
<1> QED
  BY <1>13, <1>14, <1>15, <1>16 DEF MInv

-----------------------------------------------------------------------------
(* Steps that move no memory *)

LEMMA KeepQuiet ==
    ASSUME MInv, NEW t \in Threads, NEW l, pc[t] # "free", l # "free",
           pc' = [pc EXCEPT ![t] = l],
           UNCHANGED <<table, allocated, extent, LowestFreeBlock>>,
           {EntryFreed', BeingDeleted', InAllocate', LockKept'} \subseteq BOOLEAN,
           size' = [u \in Threads |-> size'[u]],
           \A u \in Threads \ {t} : size'[u] = size[u],
           l \in AllocSteps => size'[t] \in Nat \ {0}
    PROVE  Safe /\ UNCHANGED <<Freeing, HighestUsedBlockIndex, LowestFreeBlock>>
<1>1. /\ pc' = [u \in Threads |-> pc'[u]] /\ pc'[t] = l
      /\ \A u \in Threads \ {t} : pc'[u] = pc[u]
  BY Going DEF MInv, Variables
<1>2. Freeing' = Freeing /\ BackPieces' = BackPieces
  BY BackSame DEF MInv, Variables
<1>3. Shape' /\ Locals' /\ TableTyped'
  BY <1>1 DEF MInv, Variables, Shape, Locals, TableTyped, table
<1>4. \A u \in Threads : pc'[u] \in AllocSteps => size'[u] \in Nat \ {0}
  BY <1>1 DEF MInv, Variables
<1>5. Variables'
  BY <1>3, <1>4 DEF MInv, Variables
<1> QED
  BY <1>2, <1>5, KeepMemory DEF table

LEMMA KeepAllocating ==
    ASSUME MInv, NEW t \in Allocators, NEW n \in RequestSizes, Allocate(t, n)
    PROVE  Safe /\ UNCHANGED <<Freeing, HighestUsedBlockIndex, LowestFreeBlock>>
<1>1. RoundUp(n) \in Nat \ {0}
  <2>1. n \in Nat \ {0}
    BY SizesAssumption
  <2>2. RoundUp(n) \in Nat /\ n <= RoundUp(n)
    BY <2>1, RoundUpBounds
  <2> QED
    BY <2>1, <2>2
<1>2. t \in Threads
  BY ThreadsAssumption
<1>3. PICK l \in Searches : pc' = [pc EXCEPT ![t] = l]
  BY DEF Allocate, Goto, Searches
<1>4. /\ pc[t] # "free" /\ l # "free" /\ size' = [size EXCEPT ![t] = RoundUp(n)] /\ InAllocate' = TRUE
      /\ UNCHANGED <<table, allocated, extent, LowestFreeBlock, EntryFreed, BeingDeleted, LockKept>>
  BY DEF Allocate, Goto, Searches
<1>5. /\ size' = [u \in Threads |-> size'[u]] /\ size'[t] = RoundUp(n)
      /\ \A u \in Threads \ {t} : size'[u] = size[u]
  BY <1>2, <1>4 DEF MInv, Variables, Shape
<1>6. {EntryFreed', BeingDeleted', InAllocate', LockKept'} \subseteq BOOLEAN
  BY <1>4 DEF MInv, Variables
<1> QED
  BY <1>1, <1>2, <1>3, <1>4, <1>5, <1>6, KeepQuiet

LEMMA KeepFailing ==
    ASSUME MInv, NEW t \in Threads, AllocBreak(t) \/ AllocFail(t)
    PROVE  Safe /\ UNCHANGED <<Freeing, HighestUsedBlockIndex, LowestFreeBlock>>
<1>1. /\ pc[t] # "free" /\ pc' = [pc EXCEPT ![t] = "idle"] /\ size' = [size EXCEPT ![t] = 0]
      /\ UNCHANGED <<table, allocated, extent, LowestFreeBlock>>
  BY DEF AllocBreak, AllocFail
<1>2. {EntryFreed', BeingDeleted', InAllocate', LockKept'} \subseteq BOOLEAN
  BY DEF AllocBreak, AllocFail, LeaveAllocate, MInv, Variables
<1>3. size' = [u \in Threads |-> size'[u]] /\ \A u \in Threads \ {t} : size'[u] = size[u]
  BY <1>1 DEF MInv, Variables, Shape
<1>4. "idle" \notin AllocSteps
  BY DEF AllocSteps, Searches, Waits
<1> QED
  BY <1>1, <1>2, <1>3, <1>4, KeepQuiet

LEMMA KeepWaitingMemory ==
    ASSUME MInv, NEW t \in Threads, AllocSleep(t) \/ AllocWake(t)
    PROVE  Safe /\ UNCHANGED <<Freeing, HighestUsedBlockIndex, LowestFreeBlock>>
<1>1. PICK l \in AllocSteps : pc' = [pc EXCEPT ![t] = l]
  BY DEF AllocSleep, AllocWake, Goto, AllocSteps, Searches, Waits
<1>2. /\ pc[t] \in AllocSteps /\ pc[t] # "free" /\ l # "free"
      /\ UNCHANGED <<table, allocated, extent, size, LowestFreeBlock>>
  BY DEF AllocSleep, AllocWake, Goto, AllocSteps, Searches, Waits
<1>3. {EntryFreed', BeingDeleted', InAllocate', LockKept'} \subseteq BOOLEAN
  BY DEF AllocSleep, AllocWake, MInv, Variables
<1>4. size' = [u \in Threads |-> size'[u]] /\ \A u \in Threads : size'[u] = size[u]
  BY <1>2 DEF MInv, Variables, Shape
<1>5. size[t] \in Nat \ {0}
  BY <1>2 DEF MInv, Variables
<1> QED
  BY <1>1, <1>2, <1>3, <1>4, <1>5, KeepQuiet

LEMMA KeepDeleting ==
    ASSUME MInv, NEW t \in Threads, Delete(t) \/ Destroy(t)
    PROVE  Safe /\ UNCHANGED <<Freeing, HighestUsedBlockIndex, LowestFreeBlock>>
<1>1. PICK l \in DeleteSteps : pc' = [pc EXCEPT ![t] = l]
  BY DEF Delete, Destroy, DeleteSignal, DeleteTest, DeleteEnd, Goto, DeleteSteps, EndSteps
<1>2. /\ pc[t] # "free" /\ l # "free" /\ l \notin AllocSteps
      /\ UNCHANGED <<table, allocated, extent, size, LowestFreeBlock>>
  BY DEF Delete, Destroy, DeleteSignal, DeleteTest, DeleteEnd, Goto, DeleteSteps, EndSteps,
         AllocSteps, Searches, Waits
<1>3. {EntryFreed', BeingDeleted', InAllocate', LockKept'} \subseteq BOOLEAN
  BY DEF Delete, Destroy, DeleteSignal, DeleteTest, DeleteEnd, MInv, Variables
<1>4. size' = [u \in Threads |-> size'[u]] /\ \A u \in Threads : size'[u] = size[u]
  BY <1>2 DEF MInv, Variables, Shape
<1> QED
  BY <1>1, <1>2, <1>3, <1>4, KeepQuiet

\* What any step does to the memory and to the calls of Free: it leaves the
\* calls alone, starts one, or ends one.
Starts(t) ==
    /\ Freeing' = Freeing \cup {t} /\ t \notin Freeing
    /\ LowestFreeBlock'[t] = HighestUsedBlockIndex + 1
    /\ \A u \in Freeing : LowestFreeBlock'[u] = LowestFreeBlock[u]
    /\ UNCHANGED HighestUsedBlockIndex

LEMMA FreeStarts ==
    ASSUME MInv, NEW t \in Threads, NEW e, FreeExtent(t, e), UNCHANGED HighestUsedBlockIndex
    PROVE  Starts(t)
<1>1. Freeing' = Freeing \cup {t} /\ t \notin Freeing
  BY BackAdded DEF MInv, Variables
<1>2. LowestFreeBlock' = [LowestFreeBlock EXCEPT ![t] = HighestUsedBlockIndex + 1]
  BY DEF FreeExtent, NextUnused
<1> QED
  BY <1>1, <1>2 DEF MInv, Variables, Locals, Starts, Freeing

LEMMA Steps ==
    ASSUME MInv, [Next]_vars
    PROVE  \/ Safe /\ UNCHANGED <<Freeing, HighestUsedBlockIndex, LowestFreeBlock>>
           \/ Safe /\ \E t \in Threads : Starts(t)
           \/ \E t \in Freeing : FreeLocked(t)
<1>1. CASE UNCHANGED vars
  <2>1. Variables' /\ BackPieces' = BackPieces /\ Freeing' = Freeing
    BY <1>1 DEF vars, table, call, MInv, Variables, Shape, Locals, TableTyped, BackPieces, Freeing
  <2> QED
    BY <1>1, <2>1, KeepMemory DEF vars, table, call
<1>2. ASSUME NEW t \in Threads, Call(t)
      PROVE  \/ Safe /\ UNCHANGED <<Freeing, HighestUsedBlockIndex, LowestFreeBlock>>
             \/ Safe /\ \E u \in Threads : Starts(u)
  <2>1. CASE t \in Allocators /\ \E n \in RequestSizes : Allocate(t, n)
    BY <2>1, KeepAllocating
  <2>2. ASSUME NEW e \in allocated, DeAllocateMemoryBlock(t, e)
        PROVE  Safe /\ Starts(t)
    <3>1. FreeExtent(t, e) /\ UNCHANGED HighestUsedBlockIndex
      BY <2>2 DEF DeAllocateMemoryBlock, table
    <3> QED
      BY <2>2, <3>1, KeepDeAllocate, FreeStarts
  <2>3. ASSUME NEW e \in allocated, NEW n \in 0..e.Size, ShrinkMemoryBlock(t, e, n)
        PROVE  Safe /\ Starts(t)
    <3>1. (\E f : FreeExtent(t, f)) /\ UNCHANGED HighestUsedBlockIndex
      BY <2>3 DEF ShrinkMemoryBlock, table
    <3> QED
      BY <2>3, <3>1, KeepShrink, FreeStarts
  <2>4. ASSUME NEW e \in allocated, ExtendToLargest(t, e) \/ \E n \in 1..e.Size : PartitionBuffer(t, e, n)
        PROVE  Safe /\ UNCHANGED <<Freeing, HighestUsedBlockIndex, LowestFreeBlock>>
    <3>1. UNCHANGED <<pc, HighestUsedBlockIndex, LowestFreeBlock>>
      BY <2>4 DEF ExtendToLargest, PartitionBuffer, call, table
    <3>2. Freeing' = Freeing
      BY <3>1 DEF Freeing
    <3> QED
      BY <2>4, <3>1, <3>2, KeepExtendToLargest, KeepPartition
  <2>5. CASE Delete(t)
    BY <2>5, KeepDeleting
  <2> QED
    BY <1>2, <2>1, <2>2, <2>3, <2>4, <2>5 DEF Call
<1>3. ASSUME NEW t \in Threads, AllocFirst(t) \/ AllocLargest(t)
      PROVE  Safe /\ UNCHANGED <<Freeing, HighestUsedBlockIndex, LowestFreeBlock>>
  <2>1. /\ pc[t] # "free" /\ pc' = [pc EXCEPT ![t] = "idle"]
        /\ UNCHANGED <<extent, HighestUsedBlockIndex, LowestFreeBlock>>
    BY <1>3 DEF AllocFirst, AllocLargest, Goto
  <2>2. Freeing' = Freeing
    BY <2>1, BackSame DEF MInv, Variables
  <2> QED
    BY <1>3, <2>1, <2>2, KeepFirst, KeepLargest
<1>4. ASSUME NEW t \in Threads, Advance(t)
      PROVE  \/ Safe /\ UNCHANGED <<Freeing, HighestUsedBlockIndex, LowestFreeBlock>>
             \/ t \in Freeing /\ FreeLocked(t)
  <2>1. CASE InAllocation(t)
    BY <1>3, <2>1, KeepFailing, KeepWaitingMemory DEF InAllocation
  <2>2. CASE InFree(t)
    BY <2>2 DEF InFree, FreeLocked, Goto, Freeing
  <2>3. CASE Destroy(t)
    BY <2>3, KeepDeleting
  <2> QED
    BY <1>4, <2>1, <2>2, <2>3 DEF Advance
<1> QED
  BY <1>1, <1>2, <1>4 DEF Next

LEMMA MemoryStep == MInv /\ [Next]_vars => MInv'
BY Steps, KeepReturned DEF Safe, Freeing

-----------------------------------------------------------------------------
(* The memory as the constructor cuts it *)

\* The regions between two boundaries follow each other, with none inside.
LEMMA StartAdvances ==
    ASSUME NEW i \in Nat
    PROVE  /\ Start(i) \in Nat /\ Start(i + 1) \in Nat /\ Start(i) < Start(i + 1)
           /\ Start(0) = 0
           /\ \A o \in Nat : Start(i) < o /\ o < Start(i + 1) => ~On64MBBoundary(o)
<1> DEFINE B == Boundary
           P == PhysicalAddress
           q == P \div B
           m == P % B
<1>1. /\ B \in Nat \ {0} /\ P \in Nat /\ q \in Nat /\ m \in 0..B - 1 /\ P = B * q + m
  BY SizesAssumption
<1>2. FirstSize = B - m
  BY DEF FirstSize
<1> HIDE DEF B, P, q, m
<1>3. /\ Start(i) = IF i = 0 THEN 0 ELSE B - m + (i - 1) * B
      /\ Start(i + 1) = B - m + i * B
      /\ Start(0) = 0
  BY <1>2 DEF Start, B
<1>4. i # 0 => (i - 1) * B \in Nat /\ i * B = (i - 1) * B + B
  BY <1>1
<1>5. i * B \in Nat /\ (i = 0 => i * B = 0)
  BY <1>1
<1>6. Start(i) \in Nat /\ Start(i + 1) \in Nat /\ Start(i) < Start(i + 1)
  BY <1>1, <1>3, <1>4, <1>5
<1>7. ASSUME NEW o \in Nat, Start(i) < o, o < Start(i + 1)
      PROVE  ~On64MBBoundary(o)
  <2>1. (q + i) * B = B * q + i * B /\ (q + i + 1) * B = B * q + i * B + B
    BY <1>1
  <2>2. B * q \in Nat
    BY <1>1
  <2>3. (q + i) * B < o + P
    BY <1>1, <1>3, <1>4, <1>5, <1>7, <2>1, <2>2
  <2>4. o + P < (q + i + 1) * B
    BY <1>1, <1>3, <1>5, <1>7, <2>1, <2>2
  <2>5. (o + P) % B # 0
    <3>1. q + i \in Int /\ o + P \in Nat
      BY <1>1
    <3> QED
      BY <1>1, <2>3, <2>4, <3>1, BetweenMultiples
  <2> QED
    BY <2>5 DEF On64MBBoundary, B, P
<1> QED
  BY <1>3, <1>6, <1>7

LEMMA StartRises ==
    ASSUME NEW i \in Nat, NEW j \in Nat, i < j
    PROVE  Start(i + 1) <= Start(j)
<1> DEFINE S == {k \in Nat : Start(i + 1) <= Start(i + 1 + k)}
<1>1. 0 \in S
  BY StartAdvances
<1>2. \A k \in Nat : k \in S => k + 1 \in S
  <2> SUFFICES ASSUME NEW k \in Nat, Start(i + 1) <= Start(i + 1 + k)
               PROVE  Start(i + 1) <= Start(i + 1 + (k + 1))
    OBVIOUS
  <2>1. i + 1 + k \in Nat /\ (i + 1 + k) + 1 = i + 1 + (k + 1)
    OBVIOUS
  <2>2. /\ Start(i + 1 + k) \in Nat /\ Start((i + 1 + k) + 1) \in Nat
        /\ Start(i + 1 + k) < Start((i + 1 + k) + 1)
    BY <2>1, StartAdvances
  <2>3. Start(i + 1) \in Nat
    BY StartAdvances
  <2> QED
    BY <2>1, <2>2, <2>3
<1>3. j - (i + 1) \in S
  <2>1. j - (i + 1) \in Nat
    OBVIOUS
  <2> HIDE DEF S
  <2> QED
    BY <1>1, <1>2, <2>1, SetInduction
<1>4. i + 1 + (j - (i + 1)) = j
  OBVIOUS
<1> QED
  BY <1>3, <1>4

\* The record of a region, which the end of the memory may cut.
RecordOf(i, n) ==
    /\ Start(i) \in Nat /\ Start(i + 1) \in Nat
    /\ Blocks[i] = Record(TRUE, Start(i), n)
    /\ Start(i) + n <= BufferSize /\ Start(i) + n <= Start(i + 1)
    /\ Start(i) + n = BufferSize \/ Start(i) + n = Start(i + 1)

LEMMA InitRecord ==
    ASSUME Init, NEW i \in Indices, Start(i) < BufferSize
    PROVE  \E n \in Nat \ {0} : RecordOf(i, n)
<1> DEFINE n == Min({Start(i + 1), BufferSize}) - Start(i)
<1>1. i \in Nat /\ BufferSize \in Nat
  BY SizesAssumption DEF Indices
<1>2. Start(i) \in Nat /\ Start(i + 1) \in Nat /\ Start(i) < Start(i + 1)
  BY <1>1, StartAdvances
<1>3. Min({Start(i + 1), BufferSize}) = IF Start(i + 1) <= BufferSize THEN Start(i + 1) ELSE BufferSize
  BY <1>1, <1>2, MinOfTwo
<1>4. Blocks[i] = Record(TRUE, Start(i), n)
  BY DEF Init, InitialBlock
<1>5. n \in Nat \ {0} /\ RecordOf(i, n)
  <2> HIDE DEF n
  <2> QED
    BY <1>1, <1>2, <1>3, <1>4 DEF n, RecordOf
<1> QED
  BY <1>5

LEMMA InitUsed ==
    ASSUME Init, NEW i \in Indices, Start(i) < BufferSize
    PROVE  /\ Blocks[i].InUse
           /\ Blocks[i] \in [InUse : BOOLEAN, Base : 0..BufferSize, Size : 0..BufferSize]
           /\ Blocks[i].Base = Start(i) /\ Fits(Extent(Blocks[i].Base, Blocks[i].Size))
           /\ Blocks[i].Base + Blocks[i].Size <= Start(i + 1)
           /\ \A o \in AllBytes : Start(i) <= o /\ o < Start(i + 1) => ByteOf(o, Blocks[i])
<1>1. PICK n \in Nat \ {0} : RecordOf(i, n)
  BY InitRecord
<1>2. BufferSize \in Nat /\ i \in Nat
  BY SizesAssumption DEF Indices
<1>3. /\ Start(i) \in Nat /\ Start(i + 1) \in Nat
      /\ Start(i) + n <= BufferSize /\ Start(i) + n <= Start(i + 1)
      /\ Start(i) + n = BufferSize \/ Start(i) + n = Start(i + 1)
      /\ Blocks[i].InUse /\ Blocks[i].Base = Start(i) /\ Blocks[i].Size = n
  BY <1>1 DEF RecordOf, Record
<1>4. Blocks[i] \in [InUse : BOOLEAN, Base : 0..BufferSize, Size : 0..BufferSize]
  <2>1. Start(i) \in 0..BufferSize /\ n \in 0..BufferSize
    BY <1>2, <1>3
  <2> QED
    BY <1>1, <2>1 DEF RecordOf, Record
<1>5. \A o \in Nat : Start(i) < o /\ o < Start(i + 1) => ~On64MBBoundary(o)
  BY <1>2, StartAdvances
<1>6. Solid(Extent(Start(i), n))
  BY <1>3, <1>5 DEF Solid, Extent
<1>7. Fits(Extent(Start(i), n))
  BY <1>2, <1>3, <1>6 DEF Fits, Extent
<1>8. \A o \in AllBytes : Start(i) <= o /\ o < Start(i + 1) => ByteOf(o, Blocks[i])
  BY <1>2, <1>3 DEF ByteOf, AllBytes
<1> QED
  BY <1>3, <1>4, <1>7, <1>8

LEMMA InitUnused ==
    ASSUME Init, NEW i \in Indices, ~(Start(i) < BufferSize)
    PROVE  /\ ~Blocks[i].InUse
           /\ Blocks[i] \in [InUse : BOOLEAN, Base : 0..BufferSize, Size : 0..BufferSize]
BY SizesAssumption DEF Init, InitialBlock, Empty, Record

LEMMA InitTable ==
    ASSUME Init
    PROVE  /\ TableTyped /\ AboveUnused
           /\ Used = {i \in Indices : Start(i) < BufferSize}
<1> DEFINE T == {i \in Indices : Start(i) < BufferSize}
           M == MaxBlocks - 1
<1>1. M \in Nat /\ Indices = 0..M /\ 0 \in T
  BY SizesAssumption, StartAdvances DEF Indices
<1>2. HighestUsedBlockIndex \in T /\ \A i \in T : i <= HighestUsedBlockIndex
  <2>1. T \in SUBSET (0..M) /\ T # {} /\ HighestUsedBlockIndex = Max(T)
    BY <1>1 DEF Init
  <2> HIDE DEF T, M
  <2> QED
    BY <1>1, <2>1, MaxOf
<1>3. TableTyped
  BY <1>2, InitUsed, InitUnused DEF TableTyped
<1>4. \A i \in Indices : i \in T <=> Blocks[i].InUse
  BY InitUsed, InitUnused
<1>5. AboveUnused
  BY <1>1, <1>2, <1>4 DEF AboveUnused
<1>6. Used = T
  <2> HIDE DEF T
  <2>1. T \subseteq Indices
    BY DEF T
  <2> QED
    BY <1>2, <1>4, <2>1 DEF Used
<1> QED
  BY <1>3, <1>5, <1>6

LEMMA InitMemory == Init => MInv
<1> SUFFICES ASSUME Init PROVE MInv
  OBVIOUS
<1>1. Variables
  <2>1. Shape /\ Locals
    BY DEF Init, Shape, Locals
  <2>2. \A t \in Threads : LowestFreeBlock[t] \in 0..MaxBlocks
    BY SizesAssumption DEF Init
  <2>3. \A t \in Threads : pc[t] \notin AllocSteps
    BY DEF Init, AllocSteps, Searches, Waits
  <2>4. {EntryFreed, BeingDeleted, InAllocate, LockKept} \subseteq BOOLEAN
    BY DEF Init
  <2> QED
    BY <2>1, <2>2, <2>3, <2>4, InitTable DEF Variables
<1>2. Pieces = {FreePiece(i, Blocks[i]) : i \in Used}
  <2>1. HeldPieces = {} /\ BackPieces = {}
    BY DEF Init, HeldPieces, BackPieces, Freeing
  <2> QED
    BY <2>1, FreePiecesAre DEF Pieces
<1>3. \A i \in Used : FreePiece(i, Blocks[i])[3] = Extent(Blocks[i].Base, Blocks[i].Size)
  BY DEF FreePiece
<1>4. PiecesFit
  BY <1>2, <1>3, InitTable, InitUsed DEF PiecesFit
<1>5. ASSUME NEW i \in Used, NEW j \in Used, i < j
      PROVE  /\ Apart(Extent(Blocks[i].Base, Blocks[i].Size), Extent(Blocks[j].Base, Blocks[j].Size))
             /\ Apart(Extent(Blocks[j].Base, Blocks[j].Size), Extent(Blocks[i].Base, Blocks[i].Size))
  <2>1. i \in Nat /\ j \in Nat
    BY DEF Used, Indices
  <2>2. Start(i + 1) <= Start(j) /\ Start(i + 1) \in Nat /\ Start(j) \in Nat
    BY <1>5, <2>1, StartRises, StartAdvances
  <2>3. /\ Blocks[i].Base + Blocks[i].Size <= Start(i + 1) /\ Blocks[j].Base = Start(j)
        /\ Fits(Extent(Blocks[i].Base, Blocks[i].Size))
    BY InitTable, InitUsed
  <2>4. Blocks[i].Base \in Nat /\ Blocks[i].Size \in Nat
    BY <2>3 DEF Fits, Extent
  <2> QED
    BY <2>2, <2>3, <2>4 DEF Apart, Extent
<1>6. PiecesApart
  <2>1. \A i, j \in Used : i # j => i < j \/ j < i
    BY DEF Used, Indices
  <2> QED
    BY <1>2, <1>3, <1>5, <2>1 DEF PiecesApart
<1> QED
  BY <1>1, <1>4, <1>6, InitTable DEF MInv

\* The table has a record for every region between two boundaries.
RegionsFit == BufferSize <= Start(MaxBlocks)

\* The region that a byte is in.
LEMMA RegionOf ==
    ASSUME RegionsFit, NEW o \in AllBytes
    PROVE  \E m \in Indices : /\ m \in Nat /\ Start(m) \in Nat /\ Start(m + 1) \in Nat
                              /\ Start(m) <= o /\ o < Start(m + 1) /\ Start(m) < BufferSize
<1> DEFINE S == {i \in Nat : o < Start(i + 1)}
<1>1. o \in Nat /\ o < BufferSize /\ BufferSize \in Nat /\ MaxBlocks \in Nat \ {0}
  BY SizesAssumption DEF AllBytes
<1>2. MaxBlocks - 1 \in S
  <2>1. (MaxBlocks - 1) + 1 = MaxBlocks /\ MaxBlocks - 1 \in Nat
    BY <1>1
  <2>2. Start((MaxBlocks - 1) + 1) \in Nat
    BY <2>1, StartAdvances
  <2>3. o < Start((MaxBlocks - 1) + 1)
    BY <1>1, <2>1, <2>2 DEF RegionsFit
  <2> QED
    BY <2>1, <2>3
<1>3. PICK m \in S : \A n \in S : m <= n
  <2>1. S \in SUBSET Nat /\ S # {}
    BY <1>2
  <2> HIDE DEF S
  <2> QED
    BY <2>1, Least
<1>4. m \in Nat /\ o < Start(m + 1) /\ m \in Indices
  BY <1>1, <1>2, <1>3 DEF Indices
<1>5. Start(m) \in Nat /\ Start(m + 1) \in Nat
  BY <1>4, StartAdvances
<1>6. Start(m) <= o
  <2>1. CASE m = 0
    BY <1>1, <2>1, StartAdvances
  <2>2. CASE m # 0
    <3>1. m - 1 \in Nat /\ (m - 1) + 1 = m /\ m - 1 \notin S
      BY <1>3, <1>4, <2>2
    <3> QED
      BY <1>1, <1>5, <3>1
  <2> QED
    BY <2>1, <2>2
<1> QED
  BY <1>1, <1>4, <1>5, <1>6

LEMMA InitComplete ==
    ASSUME Init, RegionsFit
    PROVE  NothingGone
<1> SUFFICES ASSUME NEW o \in AllBytes
             PROVE  \E x \in Pieces : ByteOf(o, x[3])
  BY DEF NothingGone
<1>1. PICK m \in Indices : /\ m \in Nat /\ Start(m) \in Nat /\ Start(m + 1) \in Nat
                           /\ Start(m) <= o /\ o < Start(m + 1) /\ Start(m) < BufferSize
  BY RegionOf
<1>2. m \in Used
  BY <1>1, InitTable
<1>3. ByteOf(o, Blocks[m])
  BY <1>1, <1>2, InitTable, InitUsed
<1>4. FreePiece(m, Blocks[m]) \in Pieces /\ ByteOf(o, FreePiece(m, Blocks[m])[3])
  BY <1>2, <1>3, FreePiecesAre DEF Pieces, FreePiece, ByteOf, Extent
<1> QED
  BY <1>4

-----------------------------------------------------------------------------
(* Nothing is lost while calls of Free do not overlap *)

FreeAlone == \A t, u \in Freeing : t = u
FreeFresh == \A t \in Freeing : LowestFreeBlock[t] = HighestUsedBlockIndex + 1

LInv == ~overlapped => FreeAlone /\ FreeFresh /\ NothingGone

LEMMA NotOverlapped ==
    ASSUME [Next]_vars, ~overlapped', LInv
    PROVE  ~overlapped /\ FreeAlone'
<1>1. CASE UNCHANGED vars
  BY <1>1 DEF vars, call, Freeing, LInv, FreeAlone
<1>2. CASE Next
  <2>1. ~overlapped /\ ~(Cardinality(Freeing') > 1)
    BY <1>2 DEF Next, Observe
  <2>2. ASSUME NEW t \in Freeing', NEW u \in Freeing', t # u
        PROVE  FALSE
    <3>1. IsFiniteSet(Freeing')
      <4>1. Freeing' \in SUBSET Threads
        BY DEF Freeing
      <4> QED
        BY <4>1, FS_Subset, ThreadsAssumption
    <3>2. Cardinality({t, u}) <= Cardinality(Freeing') /\ Cardinality(Freeing') \in Nat
      <4>1. {t, u} \in SUBSET Freeing'
        BY <2>2
      <4> QED
        BY <3>1, <4>1, FS_Subset, FS_CardinalityType
    <3>3. Cardinality({t, u}) = 2
      <4>1. IsFiniteSet({t}) /\ Cardinality({t}) = 1
        BY FS_Singleton
      <4>2. Cardinality({t} \cup {u}) = Cardinality({t}) + 1
        BY <2>2, <4>1, FS_AddElement
      <4>3. {t} \cup {u} = {t, u}
        OBVIOUS
      <4> QED
        BY <4>1, <4>2, <4>3
    <3> QED
      BY <2>1, <3>2, <3>3
  <2> QED
    BY <2>1, <2>2 DEF FreeAlone
<1> QED
  BY <1>1, <1>2

\* A call that runs alone finds the record it set out with unused.
LEMMA AloneReturns ==
    ASSUME MInv, FreeFresh, RoomInTable, NEW t \in Freeing
    PROVE  Returned(t)
<1> DEFINE s == Chosen(t)
           H == HighestUsedBlockIndex
<1>1. LowestFreeBlock[t] = H + 1 /\ LowestFreeBlock[t] \in 0..MaxBlocks
  BY DEF FreeFresh, MInv, Variables, Freeing
<1>2. Scanned(s, H + 1, t, LowestFreeBlock[t])
  BY <1>1, ScanEnds DEF MInv, Variables, Chosen
<1>3. s.Lowest # MaxBlocks
  BY DEF RoomInTable, Chosen
<1>4. H + 1 \notin Used
  BY DEF Used, MInv, Variables, TableTyped, Indices
<1>5. \/ s.Lowest = H + 1
      \/ s.Lowest \in Indices /\ (~Blocks[s.Lowest].InUse \/ s.Lowest \in s.Taken)
  BY <1>1, <1>2 DEF Scanned
<1> QED
  BY <1>3, <1>4, <1>5 DEF Returned, Used

LEMMA LostStep == LInv /\ MInv /\ (overlapped \/ RoomInTable) /\ [Next]_vars => LInv'
<1> SUFFICES ASSUME LInv, MInv, overlapped \/ RoomInTable, [Next]_vars, ~overlapped'
             PROVE  FreeFresh' /\ NothingGone'
  BY NotOverlapped DEF LInv
<1>1. ~overlapped /\ FreeAlone' /\ FreeAlone /\ FreeFresh /\ NothingGone /\ RoomInTable
  BY NotOverlapped DEF LInv
<1>2. CASE Safe /\ UNCHANGED <<Freeing, HighestUsedBlockIndex, LowestFreeBlock>>
  BY <1>1, <1>2 DEF Safe, FreeFresh
<1>3. ASSUME Safe, NEW t \in Threads, Starts(t)
      PROVE  FreeFresh' /\ NothingGone'
  BY <1>1, <1>3 DEF Safe, Starts, FreeFresh
<1>4. ASSUME NEW t \in Freeing, FreeLocked(t)
      PROVE  FreeFresh' /\ NothingGone'
  <2>1. Freeing' = Freeing \ {t}
    BY <1>4, BackRemoved DEF FreeLocked, Goto, MInv, Variables, Freeing
  <2>2. Freeing' = {}
    BY <1>1, <2>1 DEF FreeAlone
  <2>3. NothingGone'
    BY <1>1, <1>4, AloneReturns, KeepReturned DEF Freeing
  <2> QED
    BY <2>2, <2>3 DEF FreeFresh
<1> QED
  BY <1>2, <1>3, <1>4, Steps

LEMMA InitLost == RegionsFit /\ Init => LInv
<1> SUFFICES ASSUME RegionsFit, Init PROVE LInv
  OBVIOUS
<1>1. Freeing = {}
  BY DEF Init, Freeing
<1> QED
  BY <1>1, InitComplete DEF LInv, FreeAlone, FreeFresh

-----------------------------------------------------------------------------
\* The places where memory is are the pieces.
LEMMA PlacesArePieces ==
    /\ \A e \in FreeExtents \cup allocated \cup Returning : \E x \in Pieces : x[3] = e
    /\ \A x \in Pieces : x[3] \in FreeExtents \cup allocated \cup Returning
<1>1. \A e \in FreeExtents : \E x \in FreePieces : x[3] = e
  <2> TAKE e \in FreeExtents
  <2>1. PICK i \in Used : e = Extent(Blocks[i].Base, Blocks[i].Size)
    BY DEF FreeExtents
  <2>2. FreePiece(i, Blocks[i]) \in FreePieces /\ FreePiece(i, Blocks[i])[3] = e
    BY <2>1 DEF FreePieces, FreePiece
  <2> QED
    BY <2>2
<1>2. \A e \in allocated : \E x \in HeldPieces : x[3] = e
  <2> TAKE e \in allocated
  <2>1. HeldPiece(e) \in HeldPieces /\ HeldPiece(e)[3] = e
    BY DEF HeldPieces, HeldPiece
  <2> QED
    BY <2>1
<1>3. \A e \in Returning : \E x \in BackPieces : x[3] = e
  <2> TAKE e \in Returning
  <2>1. PICK t \in Freeing : e = extent[t]
    BY DEF Returning
  <2>2. BackPiece(t, e) \in BackPieces /\ BackPiece(t, e)[3] = e
    BY <2>1 DEF BackPieces, BackPiece
  <2> QED
    BY <2>2
<1>4. /\ \A x \in FreePieces : x[3] \in FreeExtents
      /\ \A x \in HeldPieces : x[3] \in allocated
      /\ \A x \in BackPieces : x[3] \in Returning
  BY DEF FreeExtents, FreePieces, HeldPieces, Returning, BackPieces
<1> QED
  BY <1>1, <1>2, <1>3, <1>4 DEF Pieces

LEMMA ApartBytes ==
    ASSUME NEW e, NEW f, Fits(e), Fits(f), Apart(e, f)
    PROVE  Bytes(e) \cap Bytes(f) = {}
<1> SUFFICES ASSUME NEW o \in Bytes(e), o \in Bytes(f) PROVE FALSE
  OBVIOUS
<1>1. e.Base \in Nat /\ e.Size \in Nat /\ f.Base \in Nat /\ f.Size \in Nat
  BY DEF Fits
<1> QED
  BY <1>1 DEF Bytes, Apart

LEMMA BytesAre ==
    ASSUME NEW e, Fits(e)
    PROVE  Bytes(e) = {o \in AllBytes : ByteOf(o, e)}
<1>1. e.Base \in Nat /\ e.Size \in Nat \ {0} /\ e.Base + e.Size <= BufferSize /\ BufferSize \in Nat
  BY SizesAssumption DEF Fits
<1> QED
  BY <1>1 DEF Bytes, ByteOf, AllBytes

\* The table and the extents keep their types, and no extent is empty or leaves
\* the memory (allocator_simple.cpp:240-395), however the calls interleave.
THEOREM MemoryTyped == Spec => []TypeOK
<1>1. MInv => TypeOK
  <2> SUFFICES ASSUME MInv PROVE TypeOK
    OBVIOUS
  <2>1. \A e \in FreeExtents \cup allocated \cup Returning : Fits(e)
    BY PlacesArePieces DEF MInv, PiecesFit
  <2>2. ASSUME NEW e, Fits(e)
        PROVE  e.Size > 0 /\ Bytes(e) \subseteq 0..BufferSize - 1
    BY <2>2, BytesAre DEF Fits, AllBytes
  <2> QED
    BY <2>1, <2>2 DEF MInv, Variables, TableTyped, TypeOK
<1> QED
  BY <1>1, InitMemory, MemoryStep, PTL DEF Spec

\* No byte is in two places: no two buffers share memory, and none that a buffer
\* holds is free or on its way back (allocator_simple.cpp:105-117,333-389), not
\* even when calls of Free overlap and one starts from a record that has since
\* been used.
THEOREM MemoryNotShared == Spec => []NoOverlap
<1>1. MInv => NoOverlap
  <2> SUFFICES ASSUME MInv PROVE NoOverlap
    OBVIOUS
  <2>1. ASSUME NEW i \in Used, NEW j \in Used, i # j
        PROVE  Bytes(Blocks[i]) \cap Bytes(Blocks[j]) = {}
    <3> DEFINE x == FreePiece(i, Blocks[i])
               y == FreePiece(j, Blocks[j])
    <3>1. x \in Pieces /\ y \in Pieces /\ x # y
      <4>1. x # y
        BY <2>1 DEF FreePiece
      <4> QED
        BY <4>1, UsedFits
    <3>2. /\ x[3] = Extent(Blocks[i].Base, Blocks[i].Size) /\ Fits(x[3])
          /\ y[3] = Extent(Blocks[j].Base, Blocks[j].Size) /\ Fits(y[3])
      BY UsedFits
    <3>3. Bytes(x[3]) \cap Bytes(y[3]) = {}
      BY <3>1, <3>2, ApartBytes DEF MInv, PiecesApart
    <3>4. Bytes(x[3]) = Bytes(Blocks[i]) /\ Bytes(y[3]) = Bytes(Blocks[j])
      BY <3>2 DEF Bytes, Extent
    <3> QED
      BY <3>3, <3>4
  <2>2. ASSUME NEW e \in FreeExtents \cup allocated \cup Returning,
               NEW f \in FreeExtents \cup allocated \cup Returning, e # f
        PROVE  Bytes(e) \cap Bytes(f) = {}
    <3>1. PICK x \in Pieces : x[3] = e
      BY PlacesArePieces
    <3>2. PICK y \in Pieces : y[3] = f
      BY PlacesArePieces
    <3> QED
      BY <2>2, <3>1, <3>2, ApartBytes DEF MInv, PiecesFit, PiecesApart
  <2> QED
    BY <2>1, <2>2 DEF NoOverlap
<1> QED
  BY <1>1, InitMemory, MemoryStep, PTL DEF Spec

\* No extent that is free or held crosses a 64MB boundary
\* (allocator_simple.h:31-32), whatever is cut, extended or joined.
THEOREM BoundaryKept == Spec => []NeverCrosses
<1>1. MInv => NeverCrosses
  <2> SUFFICES ASSUME MInv, NEW e \in FreeExtents \cup allocated, NEW o \in Bytes(e), o # e.Base
               PROVE  ~On64MBBoundary(o)
    BY DEF NeverCrosses
  <2>1. Fits(e)
    BY PlacesArePieces DEF MInv, PiecesFit
  <2>2. e.Base \in Nat /\ e.Size \in Nat \ {0} /\ Solid(e)
    BY <2>1 DEF Fits
  <2>3. o \in Nat /\ e.Base < o /\ o < e.Base + e.Size
    BY <2>2 DEF Bytes
  <2> QED
    BY <2>2, <2>3 DEF Solid
<1> QED
  BY <1>1, InitMemory, MemoryStep, PTL DEF Spec

-----------------------------------------------------------------------------
(* Holes that touch are joined *)

\* The end of an extent, and two that do not touch but at a boundary.
End(e)      == e.Base + e.Size
Clear(e, f) == End(e) = f.Base => On64MBBoundary(f.Base)

Joined == \A i, j \in Used : Clear(Blocks[i], Blocks[j])

\* What the first n turns of the loop leave does not touch the records that they
\* passed: a turn moves one end of the extent to that of the record taken in. And
\* they found the first record that is not in use.
ScanClear(s, n) ==
    \A j \in Used : j < n /\ j \notin s.Taken => Clear(s, Blocks[j]) /\ Clear(Blocks[j], s)

ScanLowest(s, n) == \A j \in Indices : j < n /\ ~Blocks[j].InUse => s.Lowest <= j

LEMMA ClearGoesOn ==
    ASSUME MInv, Joined, NEW t \in Freeing, NEW lowest \in 0..MaxBlocks,
           NEW n \in 0..HighestUsedBlockIndex, NEW s, Scanned(s, n, t, lowest), ScanClear(s, n)
    PROVE  ScanClear(Absorb(s, n), n + 1)
<1> DEFINE b == Blocks[n]
           j == b.InUse /\ (Precedes(s, b) \/ Follows(s, b))
<1>0. PICK r : r = Absorb(s, n)
  OBVIOUS
<1> SUFFICES ScanClear(r, n + 1)
  BY <1>0
<1>1. /\ n \in Nat /\ n \in Indices
      /\ \A i \in Used : i \in Nat /\ Blocks[i].Base \in Nat /\ Blocks[i].Size \in Nat \ {0}
      /\ b.InUse <=> n \in Used
      /\ s.Base \in Nat /\ s.Size \in Nat \ {0}
  <2>1. \A i \in Used : i \in Nat /\ Blocks[i].Base \in Nat /\ Blocks[i].Size \in Nat \ {0}
    <3>1. \A i \in Indices : i \in Nat
      BY SizesAssumption DEF Indices
    <3> QED
      BY <3>1, UsedFits
  <2>2. Fits(Extent(s.Base, s.Size))
    BY DEF Scanned
  <2>3. n \in Nat /\ n \in Indices /\ (b.InUse <=> n \in Used)
    BY SizesAssumption DEF MInv, Variables, TableTyped, Indices, Used
  <2> QED
    BY <2>1, <2>2, <2>3 DEF Fits, Extent
<1>2. CASE ~j
  <2>1. r.Base = s.Base /\ r.Size = s.Size /\ r.Taken = s.Taken
    BY <1>0, <1>2 DEF Absorb
  <2>2. b.InUse => Clear(s, b) /\ Clear(b, s)
    BY <1>2 DEF Clear, End, Precedes, Follows
  <2>3. SUFFICES ASSUME NEW i \in Used, i < n + 1, i \notin r.Taken
                 PROVE  Clear(r, Blocks[i]) /\ Clear(Blocks[i], r)
    BY DEF ScanClear
  <2>4. Clear(s, Blocks[i]) /\ Clear(Blocks[i], s)
    BY <1>1, <2>1, <2>2, <2>3 DEF ScanClear
  <2> QED
    BY <2>1, <2>4 DEF Clear, End
<1>3. CASE j
  <2>1. /\ r.Base = IF Precedes(s, b) THEN s.Base ELSE b.Base
        /\ r.Size = s.Size + b.Size /\ r.Taken = s.Taken \cup {n}
        /\ n \in Used
    BY <1>0, <1>1, <1>3 DEF Absorb
  <2>2. /\ r.Base = s.Base \/ r.Base = b.Base
        /\ End(r) = End(s) \/ End(r) = End(b)
    <3>1. CASE Precedes(s, b)
      <4>1. r.Base = s.Base /\ End(s) = b.Base
        BY <2>1, <3>1 DEF Precedes, End
      <4>2. b.Base \in Nat /\ b.Size \in Nat
        BY <1>1, <2>1
      <4> HIDE DEF b
      <4> QED
        BY <1>1, <2>1, <4>1, <4>2 DEF End
    <3>2. CASE ~Precedes(s, b)
      <4>1. r.Base = b.Base /\ s.Base = End(b)
        BY <1>3, <2>1, <3>2 DEF Follows, End
      <4>2. b.Base \in Nat /\ b.Size \in Nat
        BY <1>1, <2>1
      <4> HIDE DEF b
      <4> QED
        BY <1>1, <2>1, <4>1, <4>2 DEF End
    <3> QED
      BY <3>1, <3>2
  <2> HIDE DEF j
  <2>3. SUFFICES ASSUME NEW i \in Used, i < n + 1, i \notin r.Taken
                 PROVE  Clear(r, Blocks[i]) /\ Clear(Blocks[i], r)
    BY DEF ScanClear
  <2>4. i < n /\ i \notin s.Taken
    BY <1>1, <2>1, <2>3
  <2>5. Clear(s, Blocks[i]) /\ Clear(Blocks[i], s)
    BY <2>4 DEF ScanClear
  <2>6. Clear(b, Blocks[i]) /\ Clear(Blocks[i], b)
    BY <2>1 DEF Joined
  <2> HIDE DEF b
  <2> QED
    BY <2>2, <2>5, <2>6 DEF Clear
<1> QED
  BY <1>2, <1>3

LEMMA LowestGoesOn ==
    ASSUME MInv, NEW t \in Freeing, NEW lowest \in 0..MaxBlocks,
           NEW n \in 0..HighestUsedBlockIndex, NEW s, Scanned(s, n, t, lowest), ScanLowest(s, n)
    PROVE  ScanLowest(Absorb(s, n), n + 1)
<1>1. PICK r : r = Absorb(s, n)
  OBVIOUS
<1>2. /\ n \in Nat /\ s.Lowest \in Nat
      /\ \A i \in Indices : i \in Nat
  BY SizesAssumption DEF MInv, Variables, TableTyped, Indices, Scanned
<1>3. r.Lowest = s.Lowest \/ r.Lowest = Min({s.Lowest, n})
  BY <1>1 DEF Absorb
<1>4. Min({s.Lowest, n}) = IF s.Lowest <= n THEN s.Lowest ELSE n
  BY <1>2, MinOfTwo
<1>5. ~Blocks[n].InUse => r.Lowest = Min({s.Lowest, n})
  BY <1>1 DEF Absorb
<1>6. r.Lowest \in Nat /\ r.Lowest <= s.Lowest /\ (~Blocks[n].InUse => r.Lowest <= n)
  BY <1>2, <1>3, <1>4, <1>5
<1>7. SUFFICES ASSUME NEW i \in Indices, i < n + 1, ~Blocks[i].InUse
               PROVE  r.Lowest <= i
  BY <1>1 DEF ScanLowest
<1>8. CASE i = n
  BY <1>6, <1>7, <1>8
<1>9. CASE i # n
  <2>1. i < n /\ i \in Nat
    BY <1>2, <1>7, <1>9
  <2> QED
    BY <1>2, <1>6, <1>7, <2>1 DEF ScanLowest
<1> QED
  BY <1>8, <1>9

LEMMA ClearEnds ==
    ASSUME MInv, Joined, NEW t \in Freeing, NEW lowest \in 0..MaxBlocks
    PROVE  /\ ScanClear(Scan(extent[t], lowest), HighestUsedBlockIndex + 1)
           /\ ScanLowest(Scan(extent[t], lowest), HighestUsedBlockIndex + 1)
<1>0. TableTyped /\ PiecesFit /\ PiecesApart
  BY DEF MInv, Variables
<1>1. PICK loop : /\ loop[0] = First(extent[t], lowest)
                  /\ \A n \in 0..HighestUsedBlockIndex : loop[n + 1] = Absorb(loop[n], n)
                  /\ Scan(extent[t], lowest) = loop[HighestUsedBlockIndex + 1]
  BY <1>0, ScanIsLoop
<1> DEFINE K == HighestUsedBlockIndex + 1
           S == {n \in Nat : n <= K => Scanned(loop[n], n, t, lowest) /\ ScanClear(loop[n], n) /\ ScanLowest(loop[n], n)}
<1>2. K \in Nat /\ HighestUsedBlockIndex \in Nat
  BY <1>0 DEF TableTyped, Indices
<1>3. 0 \in S
  <2>1. ScanClear(loop[0], 0) /\ ScanLowest(loop[0], 0)
    BY SizesAssumption DEF ScanClear, ScanLowest, Used, Indices
  <2> QED
    BY <1>0, <1>1, <2>1, ScanStarts
<1>4. \A n \in Nat : n \in S => n + 1 \in S
  <2> SUFFICES ASSUME NEW n \in Nat, n \in S, n + 1 <= K
               PROVE  /\ Scanned(loop[n + 1], n + 1, t, lowest)
                      /\ ScanClear(loop[n + 1], n + 1) /\ ScanLowest(loop[n + 1], n + 1)
    OBVIOUS
  <2>1. n \in 0..HighestUsedBlockIndex /\ n <= K
    BY <1>2
  <2> QED
    BY <1>0, <1>1, <2>1, ScanGoesOn, ClearGoesOn, LowestGoesOn
<1>5. K \in S
  <2> HIDE DEF S, K
  <2> QED
    BY <1>2, <1>3, <1>4, SetInduction
<1> QED
  BY <1>1, <1>2, <1>5

\* A record that is used after Free was used before it and not taken in, or has
\* the result.
LEMMA JoinedReturned ==
    ASSUME MInv, Joined, NEW t \in Freeing, FreeLocked(t)
    PROVE  Joined'
<1> DEFINE s == Chosen(t)
           H == HighestUsedBlockIndex
           b == [i \in Indices |-> IF i \in s.Taken THEN Empty ELSE Blocks[i]]
           r == Record(TRUE, s.Base, s.Size)
           full == s.Lowest = MaxBlocks
<1>1. /\ full => Blocks' = b
      /\ ~full => Blocks' = [b EXCEPT ![s.Lowest] = r]
  BY DEF FreeLocked, Chosen
<1>2. H \in Indices /\ LowestFreeBlock[t] \in 0..MaxBlocks
  BY DEF MInv, Variables, TableTyped, Freeing
<1>3. Scanned(s, H + 1, t, LowestFreeBlock[t]) /\ ScanClear(s, H + 1)
  BY <1>2, ScanEnds, ClearEnds DEF MInv, Variables, Chosen
<1> HIDE DEF s
<1>4. s.Base \in Nat /\ s.Size \in Nat \ {0}
  BY <1>3 DEF Scanned, Fits, Extent
<1>5. ASSUME NEW i \in Indices, Blocks'[i].InUse
      PROVE  \/ i \in Used /\ i \notin s.Taken /\ Blocks'[i] = Blocks[i]
             \/ i = s.Lowest /\ Blocks'[i].Base = s.Base /\ Blocks'[i].Size = s.Size
  <2>1. CASE ~full /\ i = s.Lowest
    BY <1>1, <2>1 DEF Record
  <2>2. CASE full \/ i # s.Lowest
    <3>1. Blocks'[i] = IF i \in s.Taken THEN Empty ELSE Blocks[i]
      BY <1>1, <2>2
    <3>2. i \notin s.Taken /\ Blocks'[i] = Blocks[i]
      BY <1>5, <3>1 DEF Empty, Record
    <3>3. i <= H
      BY <1>2, <1>5, <3>2 DEF MInv, AboveUnused, Indices
    <3> QED
      BY <1>5, <3>2, <3>3 DEF Used
  <2> QED
    BY <2>1, <2>2
<1>6. \A i \in Used : i < H + 1 /\ i \in Nat
  BY <1>2 DEF Used, Indices
<1>7. SUFFICES ASSUME NEW i \in Used', NEW j \in Used'
               PROVE  Clear(Blocks'[i], Blocks'[j])
  BY DEF Joined, Clear, End, On64MBBoundary
<1>8. i \in Indices /\ j \in Indices /\ Blocks'[i].InUse /\ Blocks'[j].InUse
  BY DEF Used, Indices
<1>9. CASE i \in Used /\ i \notin s.Taken /\ Blocks'[i] = Blocks[i]
  <2>1. CASE j \in Used /\ j \notin s.Taken /\ Blocks'[j] = Blocks[j]
    BY <1>9, <2>1 DEF Joined
  <2>2. CASE Blocks'[j].Base = s.Base /\ Blocks'[j].Size = s.Size
    BY <1>3, <1>6, <1>9, <2>2 DEF ScanClear, Clear, End
  <2> QED
    BY <1>5, <1>8, <2>1, <2>2
<1>10. CASE Blocks'[i].Base = s.Base /\ Blocks'[i].Size = s.Size
  <2>1. CASE j \in Used /\ j \notin s.Taken /\ Blocks'[j] = Blocks[j]
    BY <1>3, <1>6, <1>10, <2>1 DEF ScanClear, Clear, End
  <2>2. CASE Blocks'[j].Base = s.Base /\ Blocks'[j].Size = s.Size
    <3>1. s.Base + s.Size # s.Base
      BY <1>4
    <3> QED
      BY <1>10, <2>2, <3>1 DEF Clear, End
  <2> QED
    BY <1>5, <1>8, <2>1, <2>2
<1>11. \/ i \in Used /\ i \notin s.Taken /\ Blocks'[i] = Blocks[i]
       \/ Blocks'[i].Base = s.Base /\ Blocks'[i].Size = s.Size
  BY <1>5, <1>8
<1> QED
  BY <1>9, <1>10, <1>11

\* No other step makes a hole, but one may cut a hole at its lower end.
LEMMA JoinedFirst ==
    ASSUME MInv, Joined, NEW t \in Threads, AllocFirst(t)
    PROVE  Joined'
<1>1. PICK n : n = size[t]
  OBVIOUS
<1>2. PICK i : i = Min(Fitting(n))
  OBVIOUS
<1>3. n \in Nat \ {0}
  BY <1>1 DEF AllocFirst, Goto, MInv, Variables, AllocSteps, Searches
<1>4. i \in Fitting(n)
  BY <1>1, <1>2, MinOf DEF AllocFirst, Fitting, Used, Indices
<1>5. i \in Used /\ i \in Indices /\ Blocks[i].Base \in Nat /\ Blocks[i].Size \in Nat \ {0} /\ n <= Blocks[i].Size
  BY <1>3, <1>4, UsedFits DEF Fitting
<1>6. /\ Blocks'[i] = Cut(Blocks[i], n)
      /\ \A j \in Indices \ {i} : Blocks'[j] = Blocks[j]
      /\ UNCHANGED HighestUsedBlockIndex
  BY <1>1, <1>2, <1>5 DEF AllocFirst, MInv, Variables, Shape
<1>7. Used' \subseteq Used
  BY <1>5, <1>6 DEF Used, Indices
<1>8. i \in Used' => Blocks'[i].Base = Blocks[i].Base + n /\ End(Blocks'[i]) = End(Blocks[i])
  <2>1. i \in Used' => Blocks'[i].InUse
    BY DEF Used
  <2> QED
    BY <1>3, <1>5, <1>6, <2>1 DEF Cut, Empty, Record, End
<1>9. SUFFICES ASSUME NEW j \in Used', NEW k \in Used'
               PROVE  Clear(Blocks'[j], Blocks'[k])
  BY DEF Joined, Clear, End, On64MBBoundary
<1>10. /\ j \in Used /\ k \in Used /\ j \in Indices /\ k \in Indices
       /\ Clear(Blocks[j], Blocks[k])
  BY <1>7 DEF Used, Joined
<1>11. CASE k # i
  <2>1. Blocks'[k] = Blocks[k] /\ End(Blocks'[j]) = End(Blocks[j])
    BY <1>6, <1>8, <1>10, <1>11 DEF End
  <2> QED
    BY <1>10, <2>1 DEF Clear
<1>12. CASE k = i /\ j = i
  <2>1. n # Blocks[i].Size => /\ End(Blocks[i]) = Blocks[i].Base + Blocks[i].Size
                              /\ Blocks[i].Base + Blocks[i].Size # Blocks[i].Base + n
    BY <1>3, <1>5 DEF End
  <2>2. n # Blocks[i].Size
    BY <1>6, <1>12 DEF Cut, Empty, Record, Used
  <2> QED
    BY <1>8, <1>12, <2>1, <2>2 DEF Clear
<1>13. CASE k = i /\ j # i
  <2>1. /\ Blocks[j].Base \in Nat /\ Blocks[j].Size \in Nat \ {0}
        /\ FreePiece(j, Blocks[j]) \in Pieces /\ FreePiece(i, Blocks[i]) \in Pieces
        /\ FreePiece(j, Blocks[j])[3] = Extent(Blocks[j].Base, Blocks[j].Size)
        /\ FreePiece(i, Blocks[i])[3] = Extent(Blocks[i].Base, Blocks[i].Size)
    BY <1>5, <1>10, UsedFits
  <2>2. FreePiece(j, Blocks[j]) # FreePiece(i, Blocks[i])
    BY <1>13 DEF FreePiece
  <2>3. Apart(Extent(Blocks[j].Base, Blocks[j].Size), Extent(Blocks[i].Base, Blocks[i].Size))
    BY <2>1, <2>2 DEF MInv, PiecesApart
  <2>4. n # Blocks[i].Size
    BY <1>6, <1>13 DEF Cut, Empty, Record, Used
  <2>5. Blocks[j].Base + Blocks[j].Size # Blocks[i].Base + n
    BY <1>3, <1>5, <2>1, <2>3, <2>4 DEF Apart, Extent
  <2>6. Blocks'[j] = Blocks[j]
    BY <1>6, <1>10, <1>13
  <2> QED
    BY <1>8, <1>13, <2>5, <2>6 DEF Clear, End
<1> QED
  BY <1>11, <1>12, <1>13

LEMMA JoinedKept ==
    ASSUME Joined, \A j \in Used' : j \in Used /\ Blocks'[j] = Blocks[j]
    PROVE  Joined'
BY DEF Joined, Clear, End, On64MBBoundary

LEMMA JoinedStep == MInv /\ Joined /\ [Next]_vars => Joined'
<1> SUFFICES ASSUME MInv, Joined, [Next]_vars PROVE Joined'
  OBVIOUS
<1>1. CASE UNCHANGED table
  BY <1>1, JoinedKept DEF table, Used
<1>2. ASSUME NEW i \in Indices, Blocks' = [Blocks EXCEPT ![i] = Empty], UNCHANGED HighestUsedBlockIndex
      PROVE  Joined'
  <2>1. \A j \in Used' : j \in Used /\ Blocks'[j] = Blocks[j]
    BY <1>2 DEF MInv, Variables, Shape, Used, Indices, Empty, Record
  <2> QED
    BY <2>1, JoinedKept
<1>3. ASSUME NEW t \in Threads, NEW e \in allocated, ExtendToLargest(t, e)
      PROVE  Joined'
  <2>1. PICK i \in ExtendUpwards(e) \cup ExtendDownwards(e) : Blocks' = [Blocks EXCEPT ![i] = Empty]
    BY <1>3 DEF ExtendToLargest
  <2>2. i \in Indices /\ UNCHANGED HighestUsedBlockIndex
    BY <1>3 DEF ExtendToLargest, ExtendUpwards, ExtendDownwards, Used
  <2> QED
    BY <1>2, <2>1, <2>2
<1>4. ASSUME NEW t \in Threads, AllocLargest(t)
      PROVE  Joined'
  <2>1. PICK i : i = LargestFreeBlock
    OBVIOUS
  <2>2. Blocks' = [Blocks EXCEPT ![i] = Empty] /\ UNCHANGED HighestUsedBlockIndex
    BY <1>4, <2>1 DEF AllocLargest
  <2>3. CASE i \in Indices
    BY <1>2, <2>2, <2>3
  <2>4. CASE i \notin Indices
    <3>1. \A j \in Used' : j \in Used /\ Blocks'[j] = Blocks[j]
      BY <2>2, <2>4 DEF MInv, Variables, Shape, Used, Indices
    <3> QED
      BY <3>1, JoinedKept
  <2> QED
    BY <2>3, <2>4
<1>5. ASSUME NEW t \in Threads, Call(t)
      PROVE  Joined'
  <2>1. CASE t \in Allocators /\ \E n \in RequestSizes : Allocate(t, n)
    BY <1>1, <2>1 DEF Allocate
  <2>2. CASE \E e \in allocated : DeAllocateMemoryBlock(t, e) \/ \E n \in 0..e.Size : ShrinkMemoryBlock(t, e, n)
    BY <1>1, <2>2 DEF DeAllocateMemoryBlock, ShrinkMemoryBlock
  <2>3. CASE \E e \in allocated : \E n \in 1..e.Size : PartitionBuffer(t, e, n)
    BY <1>1, <2>3 DEF PartitionBuffer
  <2>4. CASE Delete(t)
    BY <1>1, <2>4 DEF Delete
  <2> QED
    BY <1>3, <1>5, <2>1, <2>2, <2>3, <2>4 DEF Call
<1>6. ASSUME NEW t \in Threads, Advance(t)
      PROVE  Joined'
  <2>1. CASE AllocBreak(t) \/ AllocSleep(t) \/ AllocWake(t) \/ AllocFail(t)
    BY <1>1, <2>1 DEF AllocBreak, AllocSleep, AllocWake, AllocFail
  <2>2. CASE AllocFirst(t) \/ AllocLargest(t)
    BY <1>4, <2>2, JoinedFirst
  <2>3. CASE InFree(t)
    <3>1. t \in Freeing /\ FreeLocked(t)
      BY <2>3 DEF InFree, FreeLocked, Goto, Freeing
    <3> QED
      BY <3>1, JoinedReturned
  <2>4. CASE Destroy(t)
    BY <1>1, <2>4 DEF Destroy, DeleteSignal, DeleteTest, DeleteEnd
  <2> QED
    BY <1>6, <2>1, <2>2, <2>3, <2>4 DEF Advance, InAllocation
<1> QED
  BY <1>1, <1>5, <1>6 DEF Next, vars

-----------------------------------------------------------------------------
(* and so there are not more of them than blocks *)

Regions == {i \in Indices : Start(i) < BufferSize}

\* At the end of a hole begins a block, one that a call of Free gives back, or a
\* region; or the memory ends there.
LEMMA HoleEnds ==
    ASSUME MInv, NothingGone, Joined, NEW i \in Used
    PROVE  \/ \E e \in allocated \cup Returning : e.Base = End(Blocks[i])
           \/ End(Blocks[i]) = BufferSize
           \/ On64MBBoundary(End(Blocks[i]))
<1> DEFINE f == Blocks[i]
           p == FreePiece(i, f)
<1>1. /\ f.Base \in Nat /\ f.Size \in Nat \ {0} /\ f.Base + f.Size <= BufferSize
      /\ p \in Pieces /\ p[3] = Extent(f.Base, f.Size) /\ BufferSize \in Nat
  BY UsedFits, SizesAssumption
<1> HIDE DEF p
<1> SUFFICES ASSUME End(f) # BufferSize
             PROVE  (\E e \in allocated \cup Returning : e.Base = End(f)) \/ On64MBBoundary(End(f))
  OBVIOUS
<1>2. End(f) \in AllBytes /\ End(f) \in Nat /\ End(f) = f.Base + f.Size
  BY <1>1 DEF AllBytes, End
<1>3. PICK x \in Pieces : ByteOf(End(f), x[3])
  BY <1>2 DEF NothingGone
<1>4. x[3].Base \in Nat /\ x[3].Size \in Nat
  BY DEF MInv, PiecesFit, Fits
<1>5. x # p
  BY <1>1, <1>2, <1>3 DEF ByteOf, Extent
<1>6. Apart(x[3], Extent(f.Base, f.Size))
  BY <1>1, <1>5 DEF MInv, PiecesApart
<1>7. x[3].Base = End(f)
  BY <1>1, <1>2, <1>3, <1>4, <1>6 DEF Apart, ByteOf, Extent
<1>8. CASE x[3] \in allocated \cup Returning
  BY <1>7, <1>8
<1>9. CASE x[3] \in FreeExtents
  <2>1. PICK j \in Used : x[3] = Extent(Blocks[j].Base, Blocks[j].Size)
    BY <1>9 DEF FreeExtents
  <2>2. Blocks[j].Base = End(f)
    BY <1>7, <2>1 DEF Extent
  <2> QED
    BY <2>2 DEF Joined, Clear
<1> QED
  BY <1>8, <1>9, PlacesArePieces

\* Two holes do not end at the same byte.
LEMMA EndsDiffer ==
    ASSUME MInv, NEW i \in Used, NEW j \in Used, End(Blocks[i]) = End(Blocks[j])
    PROVE  i = j
<1> SUFFICES ASSUME i # j PROVE FALSE
  OBVIOUS
<1>1. /\ Blocks[j].Base \in Nat /\ Blocks[j].Size \in Nat \ {0}
      /\ Blocks[i].Base \in Nat /\ Blocks[i].Size \in Nat \ {0}
      /\ FreePiece(j, Blocks[j]) \in Pieces /\ FreePiece(i, Blocks[i]) \in Pieces
      /\ FreePiece(j, Blocks[j])[3] = Extent(Blocks[j].Base, Blocks[j].Size)
      /\ FreePiece(i, Blocks[i])[3] = Extent(Blocks[i].Base, Blocks[i].Size)
  BY UsedFits
<1>2. FreePiece(j, Blocks[j]) # FreePiece(i, Blocks[i])
  BY DEF FreePiece
<1>3. Apart(Extent(Blocks[j].Base, Blocks[j].Size), Extent(Blocks[i].Base, Blocks[i].Size))
  BY <1>1, <1>2 DEF MInv, PiecesApart
<1> QED
  BY <1>1, <1>3 DEF Apart, Extent, End

LEMMA HolesCounted ==
    ASSUME RegionsFit, MInv, NothingGone, Joined
    PROVE  /\ IsFiniteSet(Used) /\ IsFiniteSet(allocated \cup Returning) /\ IsFiniteSet(Regions)
           /\ Cardinality(Used) <= Cardinality(allocated \cup Returning) + Cardinality(Regions)
<1>1. PICK A : A = allocated \cup Returning
  OBVIOUS
<1>2. PICK U : U = {i \in Used : \E e \in A : e.Base = End(Blocks[i])}
  OBVIOUS
<1>3. PICK W : W = Used \ U
  OBVIOUS
<1>4. IsFiniteSet(Indices) /\ BufferSize \in Nat
  <2>1. 0 \in Int /\ MaxBlocks - 1 \in Int
    BY SizesAssumption
  <2> QED
    BY <2>1, FS_Interval, SizesAssumption DEF Indices
<1>5. IsFiniteSet(Used) /\ IsFiniteSet(Regions) /\ IsFiniteSet(U) /\ IsFiniteSet(W)
  <2>1. /\ Used \in SUBSET Indices /\ Regions \in SUBSET Indices
        /\ U \in SUBSET Indices /\ W \in SUBSET Indices
    BY <1>2, <1>3 DEF Used, Regions
  <2> QED
    BY <1>4, <2>1, FS_Subset
<1>6. IsFiniteSet(A)
  <2>1. PICK g : g = [e \in A |-> e.Base]
    OBVIOUS
  <2>2. \A e \in A : Fits(e) /\ e.Base \in 0..BufferSize
    <3>1. \A e \in A : Fits(e)
      BY <1>1, PlacesArePieces DEF MInv, PiecesFit
    <3> QED
      BY <1>4, <3>1 DEF Fits
  <2>3. \A e, f \in A : e # f => e.Base # f.Base
    <3>1. SUFFICES ASSUME NEW e \in A, NEW f \in A, e # f, e.Base = f.Base
                   PROVE  FALSE
      OBVIOUS
    <3>2. PICK x \in Pieces : x[3] = e
      BY <1>1, PlacesArePieces
    <3>3. PICK y \in Pieces : y[3] = f
      BY <1>1, PlacesArePieces
    <3>4. Apart(e, f)
      BY <3>1, <3>2, <3>3 DEF MInv, PiecesApart
    <3> QED
      BY <2>2, <3>1, <3>4 DEF Apart, Fits
  <2>4. g \in Injection(A, 0..BufferSize)
    BY <2>1, <2>2, <2>3 DEF Injection, IsInjective
  <2>5. IsFiniteSet(0..BufferSize)
    BY <1>4, FS_Interval
  <2> QED
    BY <2>4, <2>5, FS_Injection
<1>7. Cardinality(U) <= Cardinality(A)
  <2>1. PICK g : g = [i \in U |-> CHOOSE e \in A : e.Base = End(Blocks[i])]
    OBVIOUS
  <2>2. \A i \in U : g[i] \in A /\ g[i].Base = End(Blocks[i])
    BY <1>2, <2>1
  <2>3. \A i, j \in U : g[i] = g[j] => i = j
    BY <1>2, <2>2, EndsDiffer
  <2>4. g \in Injection(U, A)
    BY <2>1, <2>2, <2>3 DEF Injection, IsInjective
  <2> QED
    BY <1>6, <2>4, FS_Injection
<1>8. Cardinality(W) <= Cardinality(Regions)
  <2> DEFINE Ends(i, m) == End(Blocks[i]) = IF Start(m + 1) <= BufferSize THEN Start(m + 1) ELSE BufferSize
  <2>1. ASSUME NEW i \in W
        PROVE  \E m \in Regions : Ends(i, m)
    <3>1. /\ i \in Used /\ Blocks[i].Base \in Nat /\ Blocks[i].Size \in Nat \ {0}
          /\ Blocks[i].Base + Blocks[i].Size <= BufferSize
      BY <1>3, UsedFits
    <3>2. PICK n : n = End(Blocks[i])
      OBVIOUS
    <3>3. n \in Nat /\ n - 1 \in AllBytes /\ n <= BufferSize
      BY <1>4, <3>1, <3>2 DEF End, AllBytes
    <3>4. n = BufferSize \/ On64MBBoundary(n)
      BY <1>1, <1>2, <1>3, <3>1, <3>2, HoleEnds
    <3>5. PICK m \in Indices : /\ m \in Nat /\ Start(m) \in Nat /\ Start(m + 1) \in Nat
                               /\ Start(m) <= n - 1 /\ n - 1 < Start(m + 1) /\ Start(m) < BufferSize
      BY <3>3, RegionOf
    <3>6. On64MBBoundary(n) => n = Start(m + 1)
      <4>1. \A o \in Nat : Start(m) < o /\ o < Start(m + 1) => ~On64MBBoundary(o)
        BY <3>5, StartAdvances
      <4> QED
        BY <3>3, <3>5, <4>1
    <3>7. Ends(i, m)
      BY <1>4, <3>2, <3>3, <3>4, <3>5, <3>6
    <3> HIDE DEF Ends
    <3> QED
      BY <3>5, <3>7 DEF Regions
  <2>2. PICK g : g = [i \in W |-> CHOOSE m \in Regions : Ends(i, m)]
    OBVIOUS
  <2>3. \A i \in W : g[i] \in Regions /\ Ends(i, g[i])
    <3> HIDE DEF Ends
    <3> QED
      BY <2>1, <2>2
  <2>4. \A i, j \in W : g[i] = g[j] => i = j
    BY <1>3, <2>3, EndsDiffer
  <2> HIDE DEF Ends
  <2>5. g \in Injection(W, Regions)
    BY <2>2, <2>3, <2>4 DEF Injection, IsInjective
  <2> QED
    BY <1>5, <2>5, FS_Injection
<1>9. Cardinality(Used) = Cardinality(U) + Cardinality(W)
  <2>1. U \cap W = {} /\ U \cup W = Used
    BY <1>2, <1>3
  <2>2. Cardinality(U \cap W) = 0
    BY <2>1, FS_EmptySet
  <2>3. /\ Cardinality(U \cup W) = Cardinality(U) + Cardinality(W) - Cardinality(U \cap W)
        /\ Cardinality(U) \in Nat /\ Cardinality(W) \in Nat
    BY <1>5, FS_Union, FS_CardinalityType
  <2>4. Cardinality(U \cup W) = Cardinality(Used)
    BY <2>1
  <2> QED
    BY <2>2, <2>3, <2>4
<1>10. /\ Cardinality(U) \in Nat /\ Cardinality(W) \in Nat
       /\ Cardinality(A) \in Nat /\ Cardinality(Regions) \in Nat
  BY <1>5, <1>6, FS_CardinalityType
<1> QED
  BY <1>1, <1>5, <1>6, <1>7, <1>8, <1>9, <1>10

\* As long as the table has more records than there are blocks and regions, there
\* are too few holes to fill it, and a call of Free finds a record.
EnoughRecords == Cardinality(allocated \cup Returning) + Cardinality(Regions) < MaxBlocks

LEMMA RecordFound ==
    ASSUME RegionsFit, MInv, Joined, FreeFresh, NothingGone, EnoughRecords
    PROVE  RoomInTable
<1> SUFFICES ASSUME NEW t \in Freeing, Scan(extent[t], LowestFreeBlock[t]).Lowest = MaxBlocks
             PROVE  FALSE
  BY DEF RoomInTable
<1>1. PICK s : s = Scan(extent[t], LowestFreeBlock[t])
  OBVIOUS
<1>2. /\ LowestFreeBlock[t] = HighestUsedBlockIndex + 1 /\ LowestFreeBlock[t] \in 0..MaxBlocks
      /\ HighestUsedBlockIndex \in Indices /\ MaxBlocks \in Nat \ {0}
  BY SizesAssumption DEF FreeFresh, MInv, Variables, TableTyped, Freeing
<1>3. /\ Scanned(s, HighestUsedBlockIndex + 1, t, LowestFreeBlock[t])
      /\ ScanLowest(s, HighestUsedBlockIndex + 1)
  BY <1>1, <1>2, ScanEnds, ClearEnds DEF MInv, Variables
<1>4. HighestUsedBlockIndex + 1 = MaxBlocks
  BY <1>1, <1>2, <1>3 DEF Scanned, Indices
<1>5. \A i \in Indices : Blocks[i].InUse
  <2>1. \A i \in Indices : i \in Nat /\ i < MaxBlocks
    BY <1>2 DEF Indices
  <2> QED
    BY <1>1, <1>2, <1>3, <1>4, <2>1 DEF ScanLowest
<1>6. Used = 0..MaxBlocks - 1
  BY <1>2, <1>4, <1>5 DEF Used, Indices
<1>7. Cardinality(Used) = MaxBlocks
  <2>1. 0 \in Int /\ MaxBlocks - 1 \in Int /\ ~(0 > MaxBlocks - 1) /\ MaxBlocks - 1 - 0 + 1 = MaxBlocks
    BY <1>2
  <2> QED
    BY <1>6, <2>1, FS_Interval
<1>8. /\ Cardinality(Used) <= Cardinality(allocated \cup Returning) + Cardinality(Regions)
      /\ Cardinality(allocated \cup Returning) \in Nat /\ Cardinality(Regions) \in Nat
  BY HolesCounted, FS_CardinalityType
<1> QED
  BY <1>2, <1>7, <1>8 DEF EnoughRecords

\* Every region but the first begins at a boundary.
LEMMA StartOnBoundary ==
    ASSUME NEW i \in Nat
    PROVE  On64MBBoundary(Start(i + 1))
<1> DEFINE B == Boundary
           P == PhysicalAddress
           q == P \div B
           m == P % B
<1>1. /\ B \in Nat \ {0} /\ P \in Nat /\ q \in Nat /\ m \in 0..B - 1 /\ P = B * q + m
  BY SizesAssumption
<1>2. FirstSize = B - m
  BY DEF FirstSize
<1> HIDE DEF B, P, q, m
<1>3. Start(i + 1) = B - m + i * B
  BY <1>2 DEF Start, B
<1>4. Start(i + 1) + P = (i + q + 1) * B
  BY <1>1, <1>3
<1>5. i + q + 1 \in Nat
  BY <1>1
<1>6. \A k \in Nat : (k * B) % B = 0
  BY <1>1
<1> QED
  BY <1>4, <1>5, <1>6 DEF On64MBBoundary, B, P

LEMMA InitJoined == Init => Joined
<1> SUFFICES ASSUME Init, NEW i \in Used, NEW j \in Used, End(Blocks[i]) = Blocks[j].Base
             PROVE  On64MBBoundary(Blocks[j].Base)
  BY DEF Joined, Clear
<1>1. /\ i \in Indices /\ j \in Indices /\ i \in Nat /\ j \in Nat
      /\ Start(i) < BufferSize /\ Start(j) < BufferSize /\ BufferSize \in Nat
  BY InitTable, SizesAssumption DEF Indices
<1>2. PICK n \in Nat \ {0} : RecordOf(i, n)
  BY <1>1, InitRecord
<1>3. /\ End(Blocks[i]) = Start(i) + n /\ Start(i) \in Nat /\ Start(i + 1) \in Nat
      /\ Start(i) + n = BufferSize \/ Start(i) + n = Start(i + 1)
  BY <1>2 DEF RecordOf, Record, End
<1>4. Blocks[j].Base = Start(j) /\ Start(j) \in Nat
  BY <1>1, InitUsed, StartAdvances
<1>5. Start(i + 1) = Start(j)
  <2>1. Start(i) + n = Start(j)
    BY <1>3, <1>4
  <2> QED
    BY <1>1, <1>3, <1>4, <2>1
<1> QED
  BY <1>1, <1>4, <1>5, StartOnBoundary DEF On64MBBoundary

-----------------------------------------------------------------------------
\* Free extents that touch are joined, unless at a 64MB boundary
\* (allocator_simple.cpp:327-360), whatever the table has room for and however
\* calls of Free overlap: what a call joins it with touches nothing else.
THEOREM HolesAreJoined == Spec => []Joined
BY InitMemory, MemoryStep, InitJoined, JoinedStep, PTL DEF Spec

\* Until two calls of Free have overlapped, there are not more free extents than
\* blocks and regions, and a call of Free finds a record for what it returns
\* (allocator_simple.cpp:364), if the table is larger than that.
THEOREM HolesFitTable ==
    ASSUME RegionsFit
    PROVE  Spec /\ [](overlapped \/ EnoughRecords) => []Coalesced
<1>1. MInv /\ LInv /\ Joined /\ (overlapped \/ EnoughRecords) => overlapped \/ RoomInTable
  BY RecordFound DEF LInv
<1>2. MInv /\ LInv /\ Joined /\ (overlapped \/ EnoughRecords) => Coalesced
  BY <1>1, HolesCounted DEF LInv, Coalesced, Joined, Clear, End, Regions
<1> QED
  BY <1>1, <1>2, InitMemory, InitLost, InitJoined, MemoryStep, LostStep, JoinedStep, PTL DEF Spec

\* Every byte is in some place (allocator_simple.cpp:327-331), until two calls of
\* Free have overlapped, if the table has a record for each region when it is
\* made and more records than blocks and regions later. Without a record memory
\* is given up with a report (allocator_simple.cpp:364-379).
THEOREM MemoryReturns ==
    ASSUME RegionsFit
    PROVE  Spec /\ [](overlapped \/ EnoughRecords) => []NothingLost
<1>1. MInv /\ LInv => NothingLost
  <2> SUFFICES ASSUME MInv, NothingGone PROVE Everywhere = 0..BufferSize - 1
    BY DEF LInv, NothingLost
  <2>1. \A e \in FreeExtents \cup allocated \cup Returning : Fits(e)
    BY PlacesArePieces DEF MInv, PiecesFit
  <2>2. Everywhere \subseteq AllBytes
    BY <2>1, BytesAre DEF Everywhere
  <2>3. ASSUME NEW o \in AllBytes
        PROVE  o \in Everywhere
    <3>1. PICK x \in Pieces : ByteOf(o, x[3])
      BY DEF NothingGone
    <3>2. x[3] \in FreeExtents \cup allocated \cup Returning /\ o \in Bytes(x[3])
      BY <2>1, <3>1, PlacesArePieces, BytesAre
    <3> QED
      BY <3>2 DEF Everywhere
  <2> QED
    BY <2>2, <2>3 DEF AllBytes
<1>2. MInv /\ LInv /\ Joined /\ (overlapped \/ EnoughRecords) => overlapped \/ RoomInTable
  BY RecordFound DEF LInv
<1> QED
  BY <1>1, <1>2, InitMemory, InitLost, InitJoined, MemoryStep, LostStep, JoinedStep, PTL DEF Spec
====
