----------------------------- MODULE RingGeneric -----------------------------
(***************************************************************************)
(* RingGeneric_c of player2_191: the ring that carries buffers between the *)
(* threads of a stream and holds the free buffers of a pool. Insertion is  *)
(* protected; extraction looks at the indices before it takes the Lock and *)
(* may sleep on an event, and assumes one extractor (ring_generic.h:27).   *)
(* One action is one access to what the threads share.                     *)
(***************************************************************************)
EXTENDS Integers, Sequences

CONSTANTS
    Inserters,       \* threads that call Insert
    Extractors,      \* threads that call Extract
    Flushers,        \* threads that call Flush
    Values,
    MaxEntries,
    NoError, TooManyEntries, NothingToGet, Unknown,   \* results of calls
    None

ASSUME SizeAssumption == MaxEntries \in Nat \ {0}

ASSUME DistinctAssumption ==
    Values \cap {NoError, TooManyEntries, NothingToGet, Unknown, None} = {}

Threads == Inserters \cup Extractors \cup Flushers

ASSUME ThreadsAssumption == None \notin Threads

\* "Assumes one extractor" (ring_generic.h:27).
ASSUME OneExtractor == \A t, u \in Extractors : t = u

Results == Values \cup {NoError, TooManyEntries, NothingToGet, Unknown}
Limit   == MaxEntries + 1

VARIABLES
    Storage, NextInsert, NextExtract,
    Lock,              \* the thread that holds the mutex, or None
    Signal,            \* Valid flag of the event
    pc,
    OldNextInsert,     \* local of Insert
    value,             \* argument of Insert
    result             \* how the last call of each thread ended

ring == <<Storage, NextInsert, NextExtract>>
vars == <<ring, Lock, Signal, pc, OldNextInsert, value, result>>

InsertSteps  == {"insStore", "insWrap", "insTest", "insSignal"}
ExtractSteps == {"extReset", "extTest", "extWait", "extLock", "extWrap"}
FlushSteps   == {"flushLock", "flushInsert"}
Steps        == {"idle"} \cup InsertSteps \cup ExtractSteps \cup FlushSteps

Init ==
    /\ Storage \in [0..MaxEntries -> Values]    \* allocated, not initialised
    /\ NextInsert = 0
    /\ NextExtract = 0
    /\ Lock = None
    /\ Signal = FALSE
    /\ pc = [t \in Threads |-> "idle"]
    /\ OldNextInsert = [t \in Threads |-> 0]
    /\ value = [t \in Threads |-> None]
    /\ result = [t \in Threads |-> Unknown]

Goto(t, from, to) == pc[t] = from /\ pc' = [pc EXCEPT ![t] = to]
Ends(t, r)        == result' = [result EXCEPT ![t] = r]
Acquire(t)        == Lock = None /\ Lock' = t
Release(t)        == Lock = t /\ Lock' = None

\* Variant: an index runs on past the last slot.
Unwrapped(n) == n

Wrapped(n) == IF n = Limit THEN 0 ELSE n

-----------------------------------------------------------------------------
(* Insert *)

Insert(t, v) ==
    /\ Goto(t, "idle", "insStore")
    /\ value' = [value EXCEPT ![t] = v]
    /\ Ends(t, Unknown)
    /\ UNCHANGED <<ring, Lock, Signal, OldNextInsert>>

\* The slot is filled and the index moved on, with the Lock held from here to
\* InsTest. Extract sees the index before it is wrapped and tested.
InsStore(t) ==
    /\ Goto(t, "insStore", "insWrap")
    /\ Acquire(t)
    /\ OldNextInsert' = [OldNextInsert EXCEPT ![t] = NextInsert]
    /\ Storage' = [Storage EXCEPT ![NextInsert] = value[t]]
    /\ NextInsert' = NextInsert + 1
    /\ UNCHANGED <<NextExtract, Signal, value, result>>

InsWrap(t) ==
    /\ Goto(t, "insWrap", "insTest")
    /\ NextInsert' = Wrapped(NextInsert)
    /\ UNCHANGED <<Storage, NextExtract, Lock, Signal, OldNextInsert, value, result>>

\* Variant: the index of a full ring is not put back.
KeepIndex(t) == UNCHANGED NextInsert

Restore(t) == NextInsert' = OldNextInsert[t]

\* There is no room: the index is put back and nobody is signalled ...
InsTooMany(t) ==
    /\ NextInsert = NextExtract
    /\ Goto(t, "insTest", "idle")
    /\ Restore(t)
    /\ Release(t)
    /\ Ends(t, TooManyEntries)
    /\ UNCHANGED <<Storage, NextExtract, Signal, OldNextInsert, value>>

\* ... or the value is in.
InsDone(t) ==
    /\ NextInsert # NextExtract
    /\ Goto(t, "insTest", "insSignal")
    /\ Release(t)
    /\ Ends(t, NoError)
    /\ UNCHANGED <<ring, Signal, OldNextInsert, value>>

\* Variant: only a value that comes into an empty ring is announced.
AnnounceFirst == Signal' = (Signal \/ (NextInsert - NextExtract) % Limit = 1)

Announce == Signal' = TRUE

InsSignal(t) ==
    /\ Goto(t, "insSignal", "idle")
    /\ Announce
    /\ UNCHANGED <<ring, Lock, OldNextInsert, value, result>>

-----------------------------------------------------------------------------
(* Extract *)

Extract(t) ==
    /\ Goto(t, "idle", "extReset")
    /\ Ends(t, Unknown)
    /\ UNCHANGED <<ring, Lock, Signal, OldNextInsert, value>>

ExtReset(t) ==
    /\ Goto(t, "extReset", "extTest")
    /\ Signal' = FALSE
    /\ UNCHANGED <<ring, Lock, OldNextInsert, value, result>>

\* The test is made without the Lock. A call that may not block does not wait.
ExtTest(t) ==
    /\ \/ NextExtract = NextInsert /\ Goto(t, "extTest", "extWait")
       \/ Goto(t, "extTest", "extLock")
    /\ UNCHANGED <<ring, Lock, Signal, OldNextInsert, value, result>>

ExtSignalled(t) ==
    /\ Signal
    /\ Goto(t, "extWait", "extLock")
    /\ UNCHANGED <<ring, Lock, Signal, OldNextInsert, value, result>>

\* Variant: a wait without limit (OS_INFINITE).
WaitForever(t) == FALSE

\* The blocking period is over.
ExtTimedOut(t) ==
    /\ Goto(t, "extWait", "extLock")
    /\ UNCHANGED <<ring, Lock, Signal, OldNextInsert, value, result>>

ExtTake(t) ==
    /\ NextExtract # NextInsert
    /\ Goto(t, "extLock", "extWrap")
    /\ Acquire(t)
    /\ Ends(t, Storage[NextExtract])
    /\ NextExtract' = NextExtract + 1
    /\ UNCHANGED <<Storage, NextInsert, Signal, OldNextInsert, value>>

ExtNothing(t) ==
    /\ NextExtract = NextInsert
    /\ Lock = None
    /\ Goto(t, "extLock", "idle")
    /\ Ends(t, NothingToGet)
    /\ UNCHANGED <<ring, Lock, Signal, OldNextInsert, value>>

ExtWrap(t) ==
    /\ Goto(t, "extWrap", "idle")
    /\ NextExtract' = Wrapped(NextExtract)
    /\ Release(t)
    /\ UNCHANGED <<Storage, NextInsert, Signal, OldNextInsert, value, result>>

-----------------------------------------------------------------------------
(* Flush *)

Flush(t) ==
    /\ Goto(t, "idle", "flushLock")
    /\ Ends(t, Unknown)
    /\ UNCHANGED <<ring, Lock, Signal, OldNextInsert, value>>

FlushExtract(t) ==
    /\ Goto(t, "flushLock", "flushInsert")
    /\ Acquire(t)
    /\ NextExtract' = 0
    /\ UNCHANGED <<Storage, NextInsert, Signal, OldNextInsert, value, result>>

FlushInsert(t) ==
    /\ Goto(t, "flushInsert", "idle")
    /\ NextInsert' = 0
    /\ Release(t)
    /\ Ends(t, NoError)
    /\ UNCHANGED <<Storage, NextExtract, Signal, OldNextInsert, value>>

-----------------------------------------------------------------------------
Call ==
    \/ \E t \in Inserters, v \in Values : Insert(t, v)
    \/ \E t \in Extractors : Extract(t)
    \/ \E t \in Flushers : Flush(t)

Advance(t) ==
    \/ InsStore(t) \/ InsWrap(t) \/ InsTooMany(t) \/ InsDone(t) \/ InsSignal(t)
    \/ ExtReset(t) \/ ExtTest(t) \/ ExtSignalled(t) \/ ExtTimedOut(t)
    \/ ExtTake(t) \/ ExtNothing(t) \/ ExtWrap(t)
    \/ FlushExtract(t) \/ FlushInsert(t)

Next == Call \/ \E t \in Threads : Advance(t)

Spec == Init /\ [][Next]_vars

\* Threads are scheduled, the wait ends at the latest with its period, and the
\* mutex is a semaphore that serves its waiters in order.
FairSpec == Spec /\ \A t \in Threads : SF_vars(Advance(t))

-----------------------------------------------------------------------------
(* Type correctness *)

\* Every variable has its type; an index equals Limit only until it is wrapped.
TypeOK ==
    /\ Storage \in [0..MaxEntries -> Values]
    /\ NextInsert \in 0..Limit
    /\ NextExtract \in 0..Limit
    /\ Lock \in Threads \cup {None}
    /\ Signal \in BOOLEAN
    /\ pc \in [Threads -> Steps]
    /\ OldNextInsert \in [Threads -> 0..MaxEntries]
    /\ value \in [Threads -> Values \cup {None}]
    /\ result \in [Threads -> Results]
    /\ \A t \in Threads : pc[t] = "insStore" => value[t] \in Values
    /\ NextInsert = Limit => Lock # None /\ pc[Lock] = "insWrap"
    /\ NextExtract = Limit => Lock # None /\ pc[Lock] = "extWrap"

-----------------------------------------------------------------------------
(* What is in the ring *)

Inserting(t)  == pc[t] \in {"insWrap", "insTest"}
FirstIndex    == NextExtract % Limit
\* The end of the ring as far as insertions have been completed.
EndIndex      == IF Lock # None /\ Inserting(Lock) THEN OldNextInsert[Lock] ELSE NextInsert
Length        == (EndIndex - FirstIndex) % Limit
BeingFlushed  == Lock # None /\ pc[Lock] = "flushInsert"

Contents ==
    IF BeingFlushed THEN <<>>
    ELSE [i \in 1..Length |-> Storage[(FirstIndex + i - 1) % Limit]]

\* The flush takes effect with its first assignment, but has no result yet.
ResultOf(t) == IF pc[t] = "flushInsert" THEN NoError ELSE result[t]

Fifo == INSTANCE BoundedFifo WITH
            queue <- Contents, result <- [t \in Threads |-> ResultOf(t)]

\* The ring is a bounded first-in-first-out queue (ring_generic.cpp:53-121):
\* no value is lost, doubled or overtaken, only a full ring refuses one and
\* only an empty ring has none, whatever unlocked tests and partial updates
\* of the indices overlap.
ImplementsFifo == Fifo!Spec

-----------------------------------------------------------------------------
(* Waiting *)

\* "If there is nothing in the ring we wait" (ring_generic.cpp:86): an extractor
\* that sleeps on a reset event beside a value has an inserter about to set the
\* event, or the ring is full. (In a full ring the index of an insertion that
\* will be refused looks like that of an empty one for a moment.)
NoLostWakeUp ==
    \A t \in Extractors :
        (pc[t] = "extWait" /\ ~Signal /\ Contents # <<>>) =>
            \/ \E u \in Inserters : pc[u] = "insSignal"
            \/ Length = MaxEntries

\* A call of Extract with a period ends, whoever else resets the event.
ExtractEnds == \A t \in Extractors : (pc[t] \in ExtractSteps) ~> (pc[t] = "idle")
=============================================================================
