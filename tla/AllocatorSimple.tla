--------------------------- MODULE AllocatorSimple ---------------------------
(***************************************************************************)
(* AllocatorSimple_c of player2_191: the memory of a pool of coded or      *)
(* transcoded frames, kept as a table of records of free extents, with the *)
(* calls that the buffers of the pool make of it (allocate, shrink, extend *)
(* or partition a block, free it). The pool passes a segment size of 1.    *)
(*                                                                         *)
(* Every call works on the table under the Lock, and so in one step, but   *)
(* Free reads HighestUsedBlockIndex before it takes the Lock. Calls may    *)
(* start while the destructor runs, up to its end.                         *)
(***************************************************************************)
EXTENDS Integers, FiniteSets, FiniteSetsExt

CONSTANTS
    Threads,
    Allocators,        \* threads that get memory: the collator of the stream
    Freers,            \* threads that shrink, extend or free blocks
    BufferSize,
    PhysicalAddress,
    Boundary,          \* 64MB
    MaxBlocks,         \* ALLOCATOR_SIMPLE_MAX_BLOCKS
    AllocationUnit,    \* AllocationUnitSize of the buffer type
    Collators,         \* kinds of collator: TRUE for one that asks for the largest
                       \* block, extends and partitions it (collator2), FALSE for
                       \* one that has a block cut to size (collator)
    RequestSizes,      \* sizes asked for
    None

ASSUME SizesAssumption ==
    /\ BufferSize \in Nat \ {0} /\ Boundary \in Nat \ {0} /\ AllocationUnit \in Nat \ {0}
    /\ PhysicalAddress \in Nat /\ PhysicalAddress >= BufferSize
    /\ MaxBlocks \in Nat \ {0}
    /\ RequestSizes \subseteq 1..BufferSize

ASSUME ThreadsAssumption ==
    /\ Allocators \cup Freers \subseteq Threads
    /\ IsFiniteSet(Threads)
    /\ Collators \subseteq BOOLEAN

\* The event has one flag, which every thread in Allocate resets: with a second
\* one the wake up of the first could be lost. A stream has one collator.
ASSUME OneAllocator == \A t, u \in Allocators : t = u

VARIABLES
    Collator2,               \* the kind of the collator of this stream
    Blocks,                  \* the table of free extents
    HighestUsedBlockIndex,
    EntryFreed,              \* Valid flag of the event
    BeingDeleted,
    InAllocate,
    LockKept,                \* a call returned without giving up the Lock
    allocated,               \* the extents that buffers hold
    pc,
    extent,                  \* the extent a call of Free gives back
    size,                    \* the size a call of Allocate asks for
    LowestFreeBlock,         \* local of Free
    overlapped,              \* history: two calls of Free have overlapped
    late                     \* history: threads in Allocate that came in after
                             \* the destructor had started

table == <<Blocks, HighestUsedBlockIndex>>
call  == <<pc, extent, size, LowestFreeBlock>>
vars  == <<Collator2, table, EntryFreed, BeingDeleted, InAllocate, LockKept, allocated, call, overlapped, late>>

Extent(b, n)      == [Base |-> b, Size |-> n]
Record(u, b, n)   == [InUse |-> u, Base |-> b, Size |-> n]
Empty             == Record(FALSE, 0, 0)     \* what an unused record holds is never read
Indices           == 0..MaxBlocks - 1
Used              == {i \in Indices : i <= HighestUsedBlockIndex /\ Blocks[i].InUse}
On64MBBoundary(o) == (o + PhysicalAddress) % Boundary = 0
RoundUp(n)        == ((n + AllocationUnit - 1) \div AllocationUnit) * AllocationUnit

-----------------------------------------------------------------------------
(* Free(): the memory, cut at the 64MB boundaries *)

FirstSize == Boundary - (PhysicalAddress % Boundary)
Start(i)  == IF i = 0 THEN 0 ELSE FirstSize + (i - 1) * Boundary

InitialBlock(i) ==
    IF Start(i) < BufferSize
    THEN Record(TRUE, Start(i), Min({Start(i + 1), BufferSize}) - Start(i))
    ELSE Empty

Init ==
    /\ Collator2 \in Collators
    /\ Blocks = [i \in Indices |-> InitialBlock(i)]
    /\ HighestUsedBlockIndex = Max({i \in Indices : Start(i) < BufferSize})
    /\ EntryFreed = TRUE
    /\ BeingDeleted = FALSE
    /\ InAllocate = FALSE
    /\ LockKept = FALSE
    /\ allocated = {}
    /\ pc = [t \in Threads |-> "idle"]
    /\ extent = [t \in Threads |-> None]
    /\ size = [t \in Threads |-> 0]
    /\ LowestFreeBlock = [t \in Threads |-> 0]
    /\ overlapped = FALSE
    /\ late = {}

-----------------------------------------------------------------------------
Goto(t, from, to) == pc[t] = from /\ pc' = [pc EXCEPT ![t] = to]

(* Allocate and AllocateLargest, as AllocateMemoryBlock calls them for the *)
(* collator of the stream *)

Allocate(t, n) ==
    /\ Goto(t, "idle", IF Collator2 THEN "largest" ELSE "first")
    /\ InAllocate' = TRUE
    /\ size' = [size EXCEPT ![t] = RoundUp(n)]
    /\ UNCHANGED <<table, EntryFreed, BeingDeleted, LockKept, allocated, extent, LowestFreeBlock>>

\* Variant: the call returns without clearing the flag.
StayInside == UNCHANGED InAllocate

LeaveAllocate == InAllocate' = FALSE

\* The destructor has started: the loop is left, with the Lock still held.
AllocBreak(t) ==
    /\ pc[t] \in {"first", "largest"}
    /\ ~LockKept
    /\ BeingDeleted
    /\ EntryFreed' = FALSE
    /\ pc' = [pc EXCEPT ![t] = "idle"]
    /\ LockKept' = TRUE
    /\ LeaveAllocate
    /\ size' = [size EXCEPT ![t] = 0]
    /\ UNCHANGED <<table, BeingDeleted, allocated, extent, LowestFreeBlock>>

Fitting(n) == {i \in Used : Blocks[i].Size >= n}

\* Variant: the rest keeps its place.
CutSizeOnly(r, n) == IF r.Size = n THEN Empty ELSE Record(TRUE, r.Base, r.Size - n)

Cut(r, n) == IF r.Size = n THEN Empty ELSE Record(TRUE, r.Base + n, r.Size - n)

\* Allocate cuts the block from the first free extent that is large enough ...
AllocFirst(t) ==
    LET n == size[t]
        i == Min(Fitting(n)) IN
    /\ Goto(t, "first", "idle")
    /\ ~LockKept /\ ~BeingDeleted
    /\ Fitting(n) # {}
    /\ Blocks' = [Blocks EXCEPT ![i] = Cut(@, n)]
    /\ allocated' = allocated \cup {Extent(Blocks[i].Base, n)}
    /\ EntryFreed' = FALSE
    /\ LeaveAllocate
    /\ size' = [size EXCEPT ![t] = 0]
    /\ UNCHANGED <<HighestUsedBlockIndex, BeingDeleted, LockKept, extent, LowestFreeBlock>>

LargestFreeBlock ==
    Min({i \in Used : \A j \in Used : Blocks[j].Size <= Blocks[i].Size})

\* ... AllocateLargest takes the whole of the first of the largest ones.
AllocLargest(t) ==
    LET i == LargestFreeBlock IN
    /\ Goto(t, "largest", "idle")
    /\ ~LockKept /\ ~BeingDeleted
    /\ Fitting(size[t]) # {}
    /\ Blocks' = [Blocks EXCEPT ![i] = Empty]
    /\ allocated' = allocated \cup {Extent(Blocks[i].Base, Blocks[i].Size)}
    /\ EntryFreed' = FALSE
    /\ LeaveAllocate
    /\ size' = [size EXCEPT ![t] = 0]
    /\ UNCHANGED <<HighestUsedBlockIndex, BeingDeleted, LockKept, extent, LowestFreeBlock>>

\* Nothing fits: the Lock is given up and the event waited for, without limit.
AllocSleep(t) ==
    /\ \/ Goto(t, "first", "firstWait")
       \/ Goto(t, "largest", "largestWait")
    /\ ~LockKept /\ ~BeingDeleted
    /\ Fitting(size[t]) = {}
    /\ EntryFreed' = FALSE
    /\ UNCHANGED <<table, BeingDeleted, InAllocate, LockKept, allocated, extent, size, LowestFreeBlock>>

AllocWake(t) ==
    /\ EntryFreed
    /\ ~BeingDeleted
    /\ \/ Goto(t, "firstWait", "first")
       \/ Goto(t, "largestWait", "largest")
    /\ UNCHANGED <<table, EntryFreed, BeingDeleted, InAllocate, LockKept, allocated,
                   extent, size, LowestFreeBlock>>

\* The loop ends after the wait when the allocator is being deleted.
AllocFail(t) ==
    /\ EntryFreed
    /\ BeingDeleted
    /\ pc[t] \in {"firstWait", "largestWait"}
    /\ pc' = [pc EXCEPT ![t] = "idle"]
    /\ LeaveAllocate
    /\ size' = [size EXCEPT ![t] = 0]
    /\ UNCHANGED <<table, EntryFreed, BeingDeleted, LockKept, allocated, extent, LowestFreeBlock>>

-----------------------------------------------------------------------------
(* ExtendToLargest, ShrinkMemoryBlock and PartitionBuffer *)

\* A block takes over the free extent that follows or precedes it.
ExtendUpwards(e) == {i \in Used : /\ Blocks[i].Base = e.Base + e.Size
                                  /\ ~On64MBBoundary(Blocks[i].Base)}
ExtendDownwards(e) == {i \in Used : /\ Blocks[i].Base + Blocks[i].Size = e.Base
                                    /\ ~On64MBBoundary(e.Base)}

ExtendToLargest(t, e) ==
    /\ Collator2
    /\ pc[t] = "idle"
    /\ ~LockKept
    /\ \E i \in ExtendUpwards(e) \cup ExtendDownwards(e) :
          /\ Blocks' = [Blocks EXCEPT ![i] = Empty]
          /\ allocated' = (allocated \ {e}) \cup
                {Extent(Min({e.Base, Blocks[i].Base}), e.Size + Blocks[i].Size)}
    /\ UNCHANGED <<HighestUsedBlockIndex, EntryFreed, BeingDeleted, InAllocate, LockKept, call>>

\* Variant: the second block keeps the whole size.
WholeSecondPart(e, leave) == Extent(e.Base + leave, e.Size)

SecondPart(e, leave) == Extent(e.Base + leave, e.Size - leave)

\* One block becomes two, of any sizes.
PartitionBuffer(t, e, leave) ==
    /\ Collator2
    /\ pc[t] = "idle"
    /\ leave < e.Size
    /\ allocated' = (allocated \ {e}) \cup
          {Extent(e.Base, leave), SecondPart(e, leave)}
    /\ UNCHANGED <<table, EntryFreed, BeingDeleted, InAllocate, LockKept, call>>

-----------------------------------------------------------------------------
(* Free(Size, Block) *)

\* Variant: the record chosen in advance is one too low.
HighestUsed == HighestUsedBlockIndex

NextUnused == HighestUsedBlockIndex + 1

\* The local variable is set before the Lock is taken.
FreeExtent(t, e) ==
    /\ Goto(t, "idle", "free")
    /\ extent' = [extent EXCEPT ![t] = e]
    /\ LowestFreeBlock' = [LowestFreeBlock EXCEPT ![t] = NextUnused]

\* ShrinkMemoryBlock frees the tail of a block. Partitioned blocks are only
\* shrunk to nothing (player_process_parse_to_decode.cpp:355).
ShrinkMemoryBlock(t, e, n) ==
    /\ n < e.Size
    /\ Collator2 => n = 0
    /\ RoundUp(n) < e.Size
    /\ FreeExtent(t, Extent(e.Base + RoundUp(n), e.Size - RoundUp(n)))
    /\ allocated' = (allocated \ {e}) \cup
          (IF n = 0 THEN {} ELSE {Extent(e.Base, RoundUp(n))})
    /\ UNCHANGED <<table, EntryFreed, BeingDeleted, InAllocate, LockKept, size>>

DeAllocateMemoryBlock(t, e) ==
    /\ FreeExtent(t, e)
    /\ allocated' = allocated \ {e}
    /\ UNCHANGED <<table, EntryFreed, BeingDeleted, InAllocate, LockKept, size>>

\* Variant: an extent below the freed one is not taken in.
NeverFollows(s, b) == FALSE

\* Variant: the boundary is forgotten.
Touches(s, b) == s.Base + s.Size = b.Base

Follows(s, b) == s.Base = b.Base + b.Size /\ ~On64MBBoundary(s.Base)

Precedes(s, b) == s.Base + s.Size = b.Base /\ ~On64MBBoundary(b.Base)

\* One turn of the loop of Free: record i is taken into the extent that is
\* being freed, or stays in use; a record that is not in use may take the result.
Absorb(s, i) ==
    LET b    == Blocks[i]
        join == b.InUse /\ (Precedes(s, b) \/ Follows(s, b))
        free == ~b.InUse \/ join
    IN  [Base  |-> IF join /\ ~Precedes(s, b) THEN b.Base ELSE s.Base,
         Size  |-> IF join THEN s.Size + b.Size ELSE s.Size,
         Taken |-> IF join THEN s.Taken \cup {i} ELSE s.Taken,
         Lowest  |-> IF free THEN Min({s.Lowest, i}) ELSE s.Lowest,
         Highest |-> IF free THEN s.Highest ELSE i]

\* The whole loop, from the value that LowestFreeBlock had.
Scan(e, lowest) ==
    LET loop[n \in 0..HighestUsedBlockIndex + 1] ==
          IF n = 0
          THEN [Base |-> e.Base, Size |-> e.Size, Taken |-> {}, Lowest |-> lowest, Highest |-> 0]
          ELSE Absorb(loop[n - 1], n - 1)
    IN  loop[HighestUsedBlockIndex + 1]

\* Variant: nobody is told.
TellNobody == UNCHANGED EntryFreed

SignalFreed == EntryFreed' = TRUE

\* The record is written, unless the table is full.
FreeLocked(t) ==
    LET s == Scan(extent[t], LowestFreeBlock[t])
        b == [i \in Indices |-> IF i \in s.Taken THEN Empty ELSE Blocks[i]]
    IN
    /\ Goto(t, "free", "idle")
    /\ ~LockKept
    /\ IF s.Lowest = MaxBlocks
       THEN Blocks' = b /\ UNCHANGED HighestUsedBlockIndex
       ELSE /\ Blocks' = [b EXCEPT ![s.Lowest] = Record(TRUE, s.Base, s.Size)]
            /\ HighestUsedBlockIndex' = Max({s.Lowest, s.Highest})
    /\ SignalFreed
    /\ extent' = [extent EXCEPT ![t] = None]
    /\ LowestFreeBlock' = [LowestFreeBlock EXCEPT ![t] = 0]
    /\ UNCHANGED <<BeingDeleted, InAllocate, LockKept, allocated, size>>

-----------------------------------------------------------------------------
(* The destructor, which the pool calls once *)

Delete(t) ==
    /\ ~BeingDeleted
    /\ Goto(t, "idle", "deleteSignal")
    /\ BeingDeleted' = TRUE
    /\ UNCHANGED <<table, EntryFreed, InAllocate, LockKept, allocated, extent, size, LowestFreeBlock>>

DeleteSignal(t) ==
    /\ Goto(t, "deleteSignal", "deleteWait")
    /\ EntryFreed' = TRUE
    /\ UNCHANGED <<table, BeingDeleted, InAllocate, LockKept, allocated, extent, size, LowestFreeBlock>>

\* Variant: the destructor does not look.
NeverInside == FALSE

Inside == InAllocate

DeleteTest(t) ==
    /\ ~Inside
    /\ Goto(t, "deleteWait", "deleteEnd")
    /\ UNCHANGED <<table, EntryFreed, BeingDeleted, InAllocate, LockKept, allocated,
                   extent, size, LowestFreeBlock>>

\* The event and the Lock are terminated: nothing is said of what follows.
DeleteEnd(t) ==
    /\ Goto(t, "deleteEnd", "gone")
    /\ UNCHANGED <<table, EntryFreed, BeingDeleted, InAllocate, LockKept, allocated,
                   extent, size, LowestFreeBlock>>

Gone == \E t \in Threads : pc[t] = "gone"

-----------------------------------------------------------------------------
Call(t) ==
    /\ ~Gone
    /\ \/ /\ t \in Allocators
          /\ \E n \in RequestSizes : Allocate(t, n)
       \/ t \in Freers /\ \E e \in allocated :
             \/ DeAllocateMemoryBlock(t, e) \/ ExtendToLargest(t, e)
             \/ \E n \in 1..e.Size : PartitionBuffer(t, e, n)
             \/ \E n \in 0..e.Size : ShrinkMemoryBlock(t, e, n)
       \/ t \notin Allocators /\ Delete(t)

InAllocation(t) ==
    /\ ~Gone
    /\ \/ AllocBreak(t) \/ AllocFirst(t) \/ AllocLargest(t)
       \/ AllocSleep(t) \/ AllocWake(t) \/ AllocFail(t)

InFree(t) == ~Gone /\ FreeLocked(t)

Destroy(t) == DeleteSignal(t) \/ DeleteTest(t) \/ DeleteEnd(t)

Advance(t) == InAllocation(t) \/ InFree(t) \/ Destroy(t)

InsideAllocate == {t \in Threads : pc[t] \in {"first", "largest", "firstWait", "largestWait"}}

Freeing == {t \in Threads : pc[t] = "free"}

Observe ==
    /\ overlapped' = (overlapped \/ Cardinality(Freeing') > 1)
    /\ late' = {t \in InsideAllocate' : t \in late \/ (BeingDeleted /\ t \notin InsideAllocate)}
    /\ UNCHANGED Collator2

Next == (\E t \in Threads : Call(t) \/ Advance(t)) /\ Observe

Spec == Init /\ [][Next]_vars

\* Threads in Allocate and in the destructor are scheduled; nobody has to make
\* a call.
FairSpec ==
    /\ Spec
    /\ \A t \in Threads : WF_vars(InAllocation(t) /\ Observe)
                                /\ WF_vars(Destroy(t) /\ Observe)

-----------------------------------------------------------------------------
(* Safety *)

\* Extents that are free, held by a buffer, or on their way back.
FreeExtents  == {Extent(Blocks[i].Base, Blocks[i].Size) : i \in Used}
Returning    == {extent[t] : t \in Freeing}
Bytes(e)     == e.Base..(e.Base + e.Size - 1)

\* The table and the extents have their types.
TypeOK ==
    /\ \A i \in Indices :
          Blocks[i] \in [InUse : BOOLEAN, Base : 0..BufferSize, Size : 0..BufferSize]
    /\ HighestUsedBlockIndex \in Indices
    /\ {EntryFreed, BeingDeleted, InAllocate, LockKept} \subseteq BOOLEAN
    /\ \A e \in FreeExtents \cup allocated \cup Returning :
          e.Size > 0 /\ Bytes(e) \subseteq 0..BufferSize - 1
    /\ \A t \in Threads : LowestFreeBlock[t] \in 0..MaxBlocks

\* No byte is in two places: no two buffers share memory and no memory a buffer
\* holds is free (allocator_simple.cpp:105-117,333-389), whatever calls overlap.
NoOverlap ==
    /\ \A i, j \in Used : i # j => Bytes(Blocks[i]) \cap Bytes(Blocks[j]) = {}
    /\ \A e, f \in FreeExtents \cup allocated \cup Returning :
          e # f => Bytes(e) \cap Bytes(f) = {}

\* Every byte is in some place: what a buffer gives back can be allocated again
\* (allocator_simple.cpp:327-331), as long as no two calls of Free overlap.
Everywhere == UNION {Bytes(e) : e \in FreeExtents \cup allocated \cup Returning}
NothingLost == ~overlapped => Everywhere = 0..BufferSize - 1

\* The same whatever calls overlap. Does not hold (see the README).
NothingEverLost == Everywhere = 0..BufferSize - 1

\* A call of Free finds a record for what it returns.
RoomInTable == \A t \in Freeing : Scan(extent[t], LowestFreeBlock[t]).Lowest # MaxBlocks

\* Free extents that touch are joined, unless at a 64MB boundary, so that a
\* request fails only for want of a large enough hole; and there are at most as
\* many records as blocks given out, and so never too many for the table: a call
\* of Free finds a record. An overlap of two calls of Free costs this, too.
Coalesced ==
    ~overlapped =>
        /\ \A i, j \in Used :
              Blocks[i].Base + Blocks[i].Size = Blocks[j].Base => On64MBBoundary(Blocks[j].Base)
        /\ Cardinality(Used) <= Cardinality(allocated \cup Returning)
                                  + Cardinality({i \in Indices : Start(i) < BufferSize})
        /\ RoomInTable

\* "this implementation will not return a block of memory that crosses a 64Mb
\* physical address boundary" (allocator_simple.h:31-32).
NeverCrosses ==
    \A e \in FreeExtents \cup allocated :
        \A o \in Bytes(e) : o # e.Base => ~On64MBBoundary(o)

\* Whoever sleeps in Allocate has reason to: nothing fits, or the event is set.
\* The wait has no limit (allocator_simple.cpp:135), so one lost wake-up would
\* stop the collator for good.
SleepsForAReason ==
    \A t \in Allocators :
        (pc[t] \in {"firstWait", "largestWait"} /\ ~EntryFreed) => Fitting(size[t]) = {}

\* Whoever was in Allocate when the destructor started has left before the event
\* and the Lock are terminated (allocator_simple.cpp:65-69).
EarlierCallsLeft ==
    (\E t \in Threads : pc[t] \in {"deleteEnd", "gone"}) => InsideAllocate \subseteq late

\* The same of later calls, too. Does not hold (see the README).
GoneIsUnused == Gone => InsideAllocate = {}

-----------------------------------------------------------------------------
(* Liveness *)

\* A call of Allocate that started after the destructor waits for the Lock, which
\* the one before it left held (allocator_simple.cpp:98-99), with InAllocate set.
LateCallStuck == LockKept /\ \E t \in late : pc[t] \in {"first", "largest"}

\* The destructor ends, even if a thread sleeps in Allocate when it starts or calls
\* come while it runs (allocator_simple.cpp:63-66), unless a second one of these
\* finds the Lock left held.
DeleteCompletes == BeingDeleted ~> (Gone \/ LateCallStuck)

\* Without this exception. Does not hold (see the README).
DeleteAlwaysCompletes == BeingDeleted ~> Gone
=============================================================================
