----------------------------- MODULE BufferPool -----------------------------
(***************************************************************************)
(* The buffer manager of player2_191: fixed-size pools                     *)
(* (BufferPool_Generic_c) of reference counted buffers (Buffer_Generic_c). *)
(* Several threads of a stream get buffers, share them, attach one buffer  *)
(* to another and drop their references; whoever drops the last reference  *)
(* of a buffer releases it to its pool, and with it its attachments.       *)
(*                                                                         *)
(* An action is what a thread does between two points where another thread *)
(* may interfere: a section under a mutex is one action unless it waits or *)
(* calls into another buffer while it holds the mutex.                     *)
(***************************************************************************)
EXTENDS Integers, Sequences, FiniteSets

CONSTANTS
    Threads,             \* the processes that own references
    NonBlockingThreads,  \* those whose GetBuffer calls pass NonBlocking
    Pools,               \* the BufferPool_Generic_c instances
    Buffers,             \* the Buffer_Generic_c instances
    PoolOf,              \* the Pool member of every buffer
    Level,               \* attachment goes from a higher pool to a lower one
    MaxAttached,         \* MAX_ATTACHED_BUFFERS
    MayAbort,            \* threads that call AbortBlockingGetBuffer
    FailingPools,        \* pools whose buffers get OS or device memory each time
    None                 \* "no value"

ASSUME ThreadsAssumption ==
    /\ NonBlockingThreads \subseteq Threads
    /\ MayAbort \subseteq Threads
    /\ IsFiniteSet(Threads)

ASSUME BuffersAssumption ==
    /\ PoolOf \in [Buffers -> Pools]
    /\ Level \in [Pools -> Nat]
    /\ FailingPools \subseteq Pools
    /\ MaxAttached \in Nat \ {0}
    /\ IsFiniteSet(Buffers)

ASSUME NamesAssumption ==
    /\ Threads \cap Buffers = {}
    /\ Threads \cap Pools = {}
    /\ Buffers \cap Pools = {}
    /\ None \notin Threads \cup Buffers \cup Pools

VARIABLES
    FreeBuffer,               \* the ring of free buffers of each pool
    Lock,                     \* the thread that keeps a pool's Lock over a step
    BufferReleaseSignal,      \* Valid flag of the pool's event
    AbortGetBuffer,
    PoolReferenceCount,       \* BufferPool_Generic_c::ReferenceCount
    CountOfReferencedBuffers,
    ReferenceCount,           \* Buffer_Generic_c::ReferenceCount
    AttachedBuffers,          \* the buffers in the attachment table
    held,                     \* the references each thread owns
    pc,                       \* where each thread is in the code
    buf,                      \* the buffer its current call works on
    arg,                      \* the call's other argument
    chain                     \* enclosing ReleaseBuffer calls, outermost first

poolVars   == <<FreeBuffer, Lock, BufferReleaseSignal, AbortGetBuffer,
                PoolReferenceCount, CountOfReferencedBuffers>>
bufferVars == <<ReferenceCount, AttachedBuffers>>
threadVars == <<held, pc, buf, arg, chain>>
vars       == <<poolVars, bufferVars, threadVars>>

Idle         == "idle"
GetSteps     == {"getTry", "getTest", "getWait", "getRelock"}
NewSteps     == {"getInit", "getCount"}
IncSteps     == {"incPool", "incBuf"}
DecSteps     == {"decPool", "decBuf"}
ReleaseSteps == {"relLock", "relDetach", "relFree"}
Steps        == {Idle, "abortSet"} \cup GetSteps \cup NewSteps
                  \cup IncSteps \cup DecSteps \cup ReleaseSteps

Owners(b)    == {t \in Threads : b \in held[t]}
Elements(s)  == {s[i] : i \in DOMAIN s}

\* A release of b by t, at the top of its call stack or further down.
Releasing(t, b) ==
    \/ pc[t] \in ReleaseSteps /\ buf[t] = b
    \/ b \in Elements(chain[t])

\* The mutex of b is held over more than one step only by ReleaseBuffer, from
\* relLock until its attachments are gone.
BufferLocked(b) ==
    \E t \in Threads : \/ pc[t] = "relDetach" /\ buf[t] = b
                       \/ b \in Elements(chain[t])

-----------------------------------------------------------------------------
(* The constructor creates the buffers and puts all of them on the ring;   *)
(* the order of the ring is left open.                                     *)
InPool(p) == {b \in Buffers : PoolOf[b] = p}

Init ==
    /\ FreeBuffer \in [Pools -> UNION {[1..n -> Buffers] : n \in 0..Cardinality(Buffers)}]
    /\ \A p \in Pools :
          /\ Elements(FreeBuffer[p]) = InPool(p)
          /\ \A i, j \in DOMAIN FreeBuffer[p] :
                FreeBuffer[p][i] = FreeBuffer[p][j] => i = j
    /\ Lock = [p \in Pools |-> None]
    /\ BufferReleaseSignal = [p \in Pools |-> FALSE]
    /\ AbortGetBuffer = [p \in Pools |-> FALSE]
    /\ PoolReferenceCount = [p \in Pools |-> 0]
    /\ CountOfReferencedBuffers = [p \in Pools |-> 0]
    /\ ReferenceCount = [b \in Buffers |-> 0]
    /\ AttachedBuffers = [b \in Buffers |-> {}]
    /\ held = [t \in Threads |-> {}]
    /\ pc = [t \in Threads |-> Idle]
    /\ buf = [t \in Threads |-> None]
    /\ arg = [t \in Threads |-> None]
    /\ chain = [t \in Threads |-> <<>>]

-----------------------------------------------------------------------------
(* Control flow of a thread *)

At(t, step) == pc[t] = step

Goto(t, step, b, x) ==
    /\ pc' = [pc EXCEPT ![t] = step]
    /\ buf' = [buf EXCEPT ![t] = b]
    /\ arg' = [arg EXCEPT ![t] = x]

\* Variant: a nested release forgets the loop it was called from.
ReturnToCaller(t) ==
    /\ Goto(t, Idle, None, None)
    /\ UNCHANGED chain

\* The end of DecrementReferenceCount or ReleaseBuffer: back to the loop of the
\* enclosing ReleaseBuffer, or to the caller.
Return(t) ==
    IF chain[t] = <<>>
    THEN /\ Goto(t, Idle, None, None)
         /\ UNCHANGED chain
    ELSE /\ Goto(t, "relDetach", chain[t][Len(chain[t])], None)
         /\ chain' = [chain EXCEPT ![t] = SubSeq(chain[t], 1, Len(chain[t]) - 1)]

-----------------------------------------------------------------------------
(* BufferPool_Generic_c::GetBuffer *)

\* Entry: the abort flag is cleared without the Lock.
GetBuffer(t, p) ==
    /\ At(t, Idle)
    /\ AbortGetBuffer' = [AbortGetBuffer EXCEPT ![p] = FALSE]
    /\ Goto(t, "getTry", None, p)
    /\ UNCHANGED <<FreeBuffer, Lock, BufferReleaseSignal, PoolReferenceCount,
                   CountOfReferencedBuffers, bufferVars, held, chain>>

\* One turn of the loop: reset the event and take a buffer if there is one. A
\* blocking caller that sees no abort gives up the Lock to wait.
GetTry(t) ==
    LET p == arg[t] IN
    /\ At(t, "getTry")
    /\ Lock[p] = None
    /\ BufferReleaseSignal' = [BufferReleaseSignal EXCEPT ![p] = FALSE]
    /\ \/ /\ FreeBuffer[p] # <<>>
          /\ FreeBuffer' = [FreeBuffer EXCEPT ![p] = Tail(@)]
          /\ Goto(t, "getInit", Head(FreeBuffer[p]), None)
          /\ UNCHANGED Lock
       \/ /\ FreeBuffer[p] = <<>>
          /\ t \in NonBlockingThreads
          /\ Goto(t, Idle, None, None)
          /\ UNCHANGED <<FreeBuffer, Lock>>
       \/ /\ FreeBuffer[p] = <<>>
          /\ t \notin NonBlockingThreads
          /\ ~AbortGetBuffer[p]
          /\ Goto(t, "getWait", None, p)
          /\ UNCHANGED <<FreeBuffer, Lock>>
       \/ /\ FreeBuffer[p] = <<>>
          /\ t \notin NonBlockingThreads
          /\ AbortGetBuffer[p]
          /\ Lock' = [Lock EXCEPT ![p] = t]
          /\ Goto(t, "getTest", None, p)
          /\ UNCHANGED FreeBuffer
    /\ UNCHANGED <<AbortGetBuffer, PoolReferenceCount, CountOfReferencedBuffers,
                   bufferVars, held, chain>>

\* OS_WaitForEvent returns because the event is set ...
GetSignalled(t) ==
    /\ At(t, "getWait")
    /\ BufferReleaseSignal[arg[t]]
    /\ Goto(t, "getRelock", None, arg[t])
    /\ UNCHANGED <<poolVars, bufferVars, held, chain>>

\* Variant: the wait has no limit.
WaitForever(t) == FALSE

\* ... or after BUFFER_MAXIMUM_EVENT_WAIT.
GetTimedOut(t) ==
    /\ At(t, "getWait")
    /\ Goto(t, "getRelock", None, arg[t])
    /\ UNCHANGED <<poolVars, bufferVars, held, chain>>

GetRelock(t) ==
    /\ At(t, "getRelock")
    /\ Lock[arg[t]] = None
    /\ Lock' = [Lock EXCEPT ![arg[t]] = t]
    /\ Goto(t, "getTest", None, arg[t])
    /\ UNCHANGED <<FreeBuffer, BufferReleaseSignal, AbortGetBuffer, PoolReferenceCount,
                   CountOfReferencedBuffers, bufferVars, held, chain>>

\* Variant: a return with the Lock held.
KeepLock(p) == UNCHANGED Lock

UnLock(p) == Lock' = [Lock EXCEPT ![p] = None]

\* The loop condition reads the abort flag once more, with the Lock held: the
\* next turn, or BufferNoFreeBufferAvailable.
GetTest(t) ==
    LET p == arg[t] IN
    /\ At(t, "getTest")
    /\ UnLock(p)
    /\ IF AbortGetBuffer[p] THEN Goto(t, Idle, None, None)
                            ELSE Goto(t, "getTry", None, p)
    /\ UNCHANGED <<FreeBuffer, BufferReleaseSignal, AbortGetBuffer, PoolReferenceCount,
                   CountOfReferencedBuffers, bufferVars, held, chain>>

\* AllocateMemoryBlock found no memory: the error is returned as it is.
GetFail(t) ==
    /\ At(t, "getInit")
    /\ PoolOf[buf[t]] \in FailingPools
    /\ Goto(t, Idle, None, None)
    /\ UNCHANGED <<poolVars, bufferVars, held, chain>>

\* The buffer is initialised for its first owner, without any lock.
GetInit(t) ==
    LET b == buf[t] IN
    /\ At(t, "getInit")
    /\ ReferenceCount' = [ReferenceCount EXCEPT ![b] = 1]
    /\ AttachedBuffers' = [AttachedBuffers EXCEPT ![b] = {}]
    /\ held' = [held EXCEPT ![t] = @ \cup {b}]
    /\ Goto(t, "getCount", b, None)
    /\ UNCHANGED <<poolVars, chain>>

GetCount(t) ==
    LET p == PoolOf[buf[t]] IN
    /\ At(t, "getCount")
    /\ Lock[p] = None
    /\ PoolReferenceCount' = [PoolReferenceCount EXCEPT ![p] = @ + 1]
    /\ CountOfReferencedBuffers' = [CountOfReferencedBuffers EXCEPT ![p] = @ + 1]
    /\ Goto(t, Idle, None, None)
    /\ UNCHANGED <<FreeBuffer, Lock, BufferReleaseSignal, AbortGetBuffer,
                   bufferVars, held, chain>>

-----------------------------------------------------------------------------
(* BufferPool_Generic_c::AbortBlockingGetBuffer: the flag, then the event *)

AbortBlockingGetBuffer(t, p) ==
    /\ t \in MayAbort
    /\ At(t, Idle)
    /\ AbortGetBuffer' = [AbortGetBuffer EXCEPT ![p] = TRUE]
    /\ Goto(t, "abortSet", None, p)
    /\ UNCHANGED <<FreeBuffer, Lock, BufferReleaseSignal, PoolReferenceCount,
                   CountOfReferencedBuffers, bufferVars, held, chain>>

AbortSetEvent(t) ==
    /\ At(t, "abortSet")
    /\ BufferReleaseSignal' = [BufferReleaseSignal EXCEPT ![arg[t]] = TRUE]
    /\ Goto(t, Idle, None, None)
    /\ UNCHANGED <<FreeBuffer, Lock, AbortGetBuffer, PoolReferenceCount,
                   CountOfReferencedBuffers, bufferVars, held, chain>>

-----------------------------------------------------------------------------
(* Buffer_Generic_c::IncrementReferenceCount, AttachBuffer, and            *)
(* TransferOwnership with the hand-over that goes with it.                 *)

\* An increment on behalf of x has not reached the buffer's count yet.
Promised(b, x) == \E v \in Threads : pc[v] \in IncSteps /\ buf[v] = b /\ arg[v] = x

\* An owner identifier stands for one reference: u gets one if it has none.
MayOwn(u, b) == b \notin held[u] /\ ~Promised(b, u)

IncrementReferenceCount(t, b, u) ==
    /\ At(t, Idle)
    /\ b \in held[t]
    /\ MayOwn(u, b)
    /\ Goto(t, "incPool", b, u)
    /\ UNCHANGED <<poolVars, bufferVars, held, chain>>

\* t works on the attachment table of a buffer that it alone owns.
SoleOwner(t, a) == Owners(a) = {t}

\* Variant: an attachment is not a reference.
AttachOnly(t, a, b) == UNCHANGED <<pc, buf, arg>>

CountAttachment(t, a, b) == Goto(t, "incPool", b, a)

\* The slot is filled under the mutex of a, the count raised afterwards.
AttachBuffer(t, a, b) ==
    /\ At(t, Idle)
    /\ SoleOwner(t, a)
    /\ \/ b \in held[t]
       \/ \E c \in held[t] : b \in AttachedBuffers[c]
    /\ Level[PoolOf[a]] > Level[PoolOf[b]]
    /\ b \notin AttachedBuffers[a]
    /\ Cardinality(AttachedBuffers[a]) < MaxAttached
    /\ ~BufferLocked(a)
    /\ AttachedBuffers' = [AttachedBuffers EXCEPT ![a] = @ \cup {b}]
    /\ CountAttachment(t, a, b)
    /\ UNCHANGED <<poolVars, ReferenceCount, held, chain>>

IncPool(t) ==
    LET p == PoolOf[buf[t]] IN
    /\ At(t, "incPool")
    /\ Lock[p] = None
    /\ PoolReferenceCount' = [PoolReferenceCount EXCEPT ![p] = @ + 1]
    /\ Goto(t, "incBuf", buf[t], arg[t])
    /\ UNCHANGED <<FreeBuffer, Lock, BufferReleaseSignal, AbortGetBuffer,
                   CountOfReferencedBuffers, bufferVars, held, chain>>

IncBuf(t) ==
    LET b == buf[t] IN
    /\ At(t, "incBuf")
    /\ ~BufferLocked(b)
    /\ ReferenceCount' = [ReferenceCount EXCEPT ![b] = @ + 1]
    /\ held' = [u \in Threads |-> IF u = arg[t] THEN held[u] \cup {b} ELSE held[u]]
    /\ Goto(t, Idle, None, None)
    /\ UNCHANGED <<poolVars, AttachedBuffers, chain>>

TransferOwnership(t, b, u) ==
    /\ At(t, Idle)
    /\ b \in held[t]
    /\ MayOwn(u, b)
    /\ held' = [held EXCEPT ![t] = @ \ {b}, ![u] = @ \cup {b}]
    /\ UNCHANGED <<poolVars, bufferVars, pc, buf, arg, chain>>

-----------------------------------------------------------------------------
(* Buffer_Generic_c::DecrementReferenceCount and DetachBuffer *)

DecrementReferenceCount(t, b) ==
    /\ At(t, Idle)
    /\ b \in held[t]
    /\ held' = [held EXCEPT ![t] = @ \ {b}]
    /\ Goto(t, "decPool", b, None)
    /\ UNCHANGED <<poolVars, bufferVars, chain>>

DetachBuffer(t, a, b) ==
    /\ At(t, Idle)
    /\ SoleOwner(t, a)
    /\ b \in AttachedBuffers[a]
    /\ ~BufferLocked(a)
    /\ AttachedBuffers' = [AttachedBuffers EXCEPT ![a] = @ \ {b}]
    /\ Goto(t, "decPool", b, None)
    /\ UNCHANGED <<poolVars, ReferenceCount, held, chain>>

DecPool(t) ==
    LET p == PoolOf[buf[t]] IN
    /\ At(t, "decPool")
    /\ Lock[p] = None
    /\ PoolReferenceCount' = [PoolReferenceCount EXCEPT ![p] = @ - 1]
    /\ Goto(t, "decBuf", buf[t], None)
    /\ UNCHANGED <<FreeBuffer, Lock, BufferReleaseSignal, AbortGetBuffer,
                   CountOfReferencedBuffers, bufferVars, held, chain>>

\* Variant: the count is compared before it is lowered.
IsNextToLast(b) == ReferenceCount[b] <= 2

IsLast(b) == ReferenceCount[b] = 1

\* The count after the decrement is taken in the locked period: the thread
\* that takes it to zero, and no other, goes on to release the buffer.
DecBuf(t) ==
    LET b == buf[t] IN
    /\ At(t, "decBuf")
    /\ ~BufferLocked(b)
    /\ ReferenceCount' = [ReferenceCount EXCEPT ![b] = @ - 1]
    /\ IF IsLast(b) THEN Goto(t, "relLock", b, None) /\ UNCHANGED chain
                    ELSE Return(t)
    /\ UNCHANGED <<poolVars, AttachedBuffers, held>>

-----------------------------------------------------------------------------
(* BufferPool_Generic_c::ReleaseBuffer *)

RelLock(t) ==
    /\ At(t, "relLock")
    /\ ~BufferLocked(buf[t])
    /\ Goto(t, "relDetach", buf[t], None)
    /\ UNCHANGED <<poolVars, bufferVars, held, chain>>

\* With the mutex of the buffer held, every attached buffer loses a reference.
\* The table is a set here, so the order of its slots is left open.
RelDetach(t) ==
    /\ At(t, "relDetach")
    /\ \E c \in AttachedBuffers[buf[t]] :
          /\ AttachedBuffers' = [AttachedBuffers EXCEPT ![buf[t]] = @ \ {c}]
          /\ chain' = [chain EXCEPT ![t] = Append(@, buf[t])]
          /\ Goto(t, "decPool", c, None)
    /\ UNCHANGED <<poolVars, ReferenceCount, held>>

RelUnlock(t) ==
    /\ At(t, "relDetach")
    /\ AttachedBuffers[buf[t]] = {}
    /\ Goto(t, "relFree", buf[t], None)
    /\ UNCHANGED <<poolVars, bufferVars, held, chain>>

\* Variants: the buffer is not put back; the referenced buffers are not recounted.
ForgetBuffer(p, b) == UNCHANGED FreeBuffer

NoRecount(p) == UNCHANGED CountOfReferencedBuffers

InsertFree(p, b) == FreeBuffer' = [FreeBuffer EXCEPT ![p] = Append(@, b)]

CountReleased(p) ==
    CountOfReferencedBuffers' = [CountOfReferencedBuffers EXCEPT ![p] = @ - 1]

RelFree(t) ==
    LET p == PoolOf[buf[t]] IN
    /\ At(t, "relFree")
    /\ Lock[p] = None
    /\ InsertFree(p, buf[t])
    /\ BufferReleaseSignal' = [BufferReleaseSignal EXCEPT ![p] = TRUE]
    /\ CountReleased(p)
    /\ Return(t)
    /\ UNCHANGED <<Lock, AbortGetBuffer, PoolReferenceCount, bufferVars, held>>

-----------------------------------------------------------------------------
\* The calls a thread may make when it is in none.
Call(t) ==
    \/ \E p \in Pools : GetBuffer(t, p) \/ AbortBlockingGetBuffer(t, p)
    \/ \E b \in Buffers : DecrementReferenceCount(t, b)
    \/ \E b \in Buffers, u \in Threads :
          IncrementReferenceCount(t, b, u) \/ TransferOwnership(t, b, u)
    \/ \E a, b \in Buffers : AttachBuffer(t, a, b) \/ DetachBuffer(t, a, b)

\* The steps of a call that has begun.
Advance(t) ==
    \/ GetTry(t) \/ GetSignalled(t) \/ GetTimedOut(t) \/ GetRelock(t) \/ GetTest(t)
    \/ GetInit(t) \/ GetFail(t) \/ GetCount(t) \/ AbortSetEvent(t)
    \/ IncPool(t) \/ IncBuf(t) \/ DecPool(t) \/ DecBuf(t)
    \/ RelLock(t) \/ RelDetach(t) \/ RelUnlock(t) \/ RelFree(t)

Next == \E t \in Threads : Call(t) \/ Advance(t)

Spec == Init /\ [][Next]_vars

\* Threads are scheduled, the wait in GetBuffer is bounded, and the mutexes are
\* semaphores that serve their waiters in order: a call that has begun and can
\* move again and again does move. No thread has to make a call.
FairSpec == Spec /\ \A t \in Threads : SF_vars(Advance(t))

-----------------------------------------------------------------------------
(* Type correctness *)

\* Every variable has its type; a thread has a buffer exactly in the calls
\* that work on one and a chain only inside ReleaseBuffer.
PoolType ==
    /\ FreeBuffer \in [Pools -> Seq(Buffers)]
    /\ Lock \in [Pools -> Threads \cup {None}]
    /\ BufferReleaseSignal \in [Pools -> BOOLEAN]
    /\ AbortGetBuffer \in [Pools -> BOOLEAN]
    /\ PoolReferenceCount \in [Pools -> Int]
    /\ CountOfReferencedBuffers \in [Pools -> Int]

BufferType ==
    /\ ReferenceCount \in [Buffers -> Int]
    /\ AttachedBuffers \in [Buffers -> SUBSET Buffers]

ThreadType ==
    /\ held \in [Threads -> SUBSET Buffers]
    /\ pc \in [Threads -> Steps]
    /\ buf \in [Threads -> Buffers \cup {None}]
    /\ arg \in [Threads -> Threads \cup Buffers \cup Pools \cup {None}]
    /\ chain \in [Threads -> Seq(Buffers)]

CallType(t) ==
    /\ pc[t] \in NewSteps \cup IncSteps \cup DecSteps \cup ReleaseSteps => buf[t] \in Buffers
    /\ pc[t] \in GetSteps \cup {"abortSet"} => arg[t] \in Pools
    /\ pc[t] \in IncSteps => arg[t] \in Threads \cup Buffers
    /\ chain[t] # <<>> => pc[t] \in DecSteps \cup ReleaseSteps

TypeOK ==
    /\ PoolType
    /\ BufferType
    /\ ThreadType
    /\ \A t \in Threads : CallType(t)

-----------------------------------------------------------------------------
(* Safety *)

Attachers(b) == {a \in Buffers : b \in AttachedBuffers[a] /\ ~Promised(b, a)}
Droppers(b)  == {t \in Threads : pc[t] \in DecSteps /\ buf[t] = b}

\* The references to b that are accounted for in its count: those owned by
\* threads, those of attachments, and those that are being given up.
Claims(b) ==
    ({"own"} \X Owners(b)) \cup ({"attach"} \X Attachers(b)) \cup ({"drop"} \X Droppers(b))

\* Nobody else sees this buffer: it is between the ring and its first owner.
BeingMade(b) == \E t \in Threads : pc[t] = "getInit" /\ buf[t] = b

\* ReferenceCount (buffer_individual_generic.cpp:679,721) always equals the
\* references that exist, whatever increments, attachments and releases overlap.
CountIsExact ==
    \A b \in Buffers : ReferenceCount[b] =
        Cardinality(Owners(b)) + Cardinality(Attachers(b)) + Cardinality(Droppers(b))

\* AssertNonZeroReferenceCount (buffer_individual_generic.cpp:47-51) never
\* fires: no call acts on a buffer whose count has dropped to zero.
NeverActsOnDeadBuffer ==
    /\ \A t \in Threads :
          pc[t] \in IncSteps \cup DecSteps => ReferenceCount[buf[t]] > 0
    /\ \A t \in Threads : \A b \in held[t] : ReferenceCount[b] > 0

\* A buffer has one place: on the ring of its pool once, or in one ReleaseBuffer
\* call, or on its way to its first owner, or referenced. So a buffer that
\* somebody uses is never handed out again and the ring never overflows.
OnePlace ==
    /\ \A p \in Pools :
          /\ Elements(FreeBuffer[p]) \subseteq InPool(p)
          /\ \A i, j \in DOMAIN FreeBuffer[p] : FreeBuffer[p][i] = FreeBuffer[p][j] => i = j
    /\ \A b \in Buffers : b \in Elements(FreeBuffer[PoolOf[b]]) =>
          /\ Claims(b) = {}
          /\ ~BeingMade(b)
          /\ \A t \in Threads : ~Releasing(t, b)
    /\ \A t \in Threads, b \in Buffers : Releasing(t, b) =>
          /\ Claims(b) = {}
          /\ ~BeingMade(b)
          /\ \A u \in Threads : Releasing(u, b) => u = t
    /\ \A t \in Threads : pc[t] = "getInit" =>
          /\ Claims(buf[t]) = {}
          /\ \A u \in Threads : pc[u] = "getInit" /\ buf[u] = buf[t] => u = t

\* No buffer drops out of a pool, unless its memory could not be allocated
\* (buffer_pool_generic.cpp:594-595 returns without putting it back).
AccountedFor ==
    \A b \in Buffers : PoolOf[b] \notin FailingPools =>
        \/ b \in Elements(FreeBuffer[PoolOf[b]])
        \/ BeingMade(b)
        \/ Claims(b) # {}
        \/ \E t \in Threads : Releasing(t, b)

\* What the calls in progress rely on. A buffer that nobody can use has nothing
\* attached, so that nothing is lost when GetBuffer clears its table.
Bare ==
    \A b \in Buffers :
        (b \in Elements(FreeBuffer[PoolOf[b]])
          \/ \E t \in Threads : pc[t] \in {"getInit", "relFree"} /\ buf[t] = b)
            => AttachedBuffers[b] = {}

\* The releases that a thread is in are releases of different buffers.
ChainDistinct ==
    \A t \in Threads :
        /\ \A i, j \in DOMAIN chain[t] : chain[t][i] = chain[t][j] => i = j
        /\ pc[t] \in ReleaseSteps => buf[t] \notin Elements(chain[t])

\* A reference that is being added is for one who has none, is added once, and
\* stands on another one: of the thread itself, or of a buffer it owns.
IncSound(t) ==
    /\ arg[t] \in Threads => buf[t] \in held[t] /\ buf[t] \notin held[arg[t]]
    /\ arg[t] \in Buffers => Owners(arg[t]) = {t} /\ buf[t] \in AttachedBuffers[arg[t]]
    /\ \/ buf[t] \in held[t]
       \/ \E c \in held[t] \ {arg[t]} : buf[t] \in AttachedBuffers[c]
    /\ \A u \in Threads :
          (pc[u] \in IncSteps /\ buf[u] = buf[t] /\ arg[u] = arg[t]) => u = t

\* The calls that are under way stand on firm ground, whatever the other threads
\* do between their steps: GetBuffer clears no table that still has an attachment
\* (buffer_pool_generic.cpp:616), nested releases never come back to a buffer
\* that is being released (:720), and between the two counts that an increment
\* raises (buffer_individual_generic.cpp:674,679) another reference lasts.
CallsAreSound ==
    /\ Bare
    /\ ChainDistinct
    /\ \A t \in Threads : pc[t] \in IncSteps => IncSound(t)

-----------------------------------------------------------------------------
(* The counters of a pool *)

On(step, p) == {t \in Threads : pc[t] = step /\ PoolOf[buf[t]] = p}

\* One pair for every reference that the buffers of the pool count, and the
\* buffers that the pool counts as referenced.
Counted(p)    == UNION {{b} \X (1..ReferenceCount[b]) : b \in InPool(p)}
Referenced(p) == {b \in InPool(p) : \/ ReferenceCount[b] > 0
                                    \/ \E t \in Threads : Releasing(t, b)}

\* The pool's two counters (buffer_pool_generic.cpp:624,772) lag behind
\* the buffers' own counts only by the calls between the two updates, and so
\* agree with them whenever no call is in progress.
CountersAgree ==
    \A p \in Pools :
        /\ PoolReferenceCount[p] + Cardinality(On("getCount", p) \cup On("decBuf", p))
             = Cardinality(Counted(p)) + Cardinality(On("incBuf", p))
        /\ CountOfReferencedBuffers[p] + Cardinality(On("getCount", p))
             = Cardinality(Referenced(p))

-----------------------------------------------------------------------------
(* Liveness *)

Getting(t, p) == pc[t] \in GetSteps /\ arg[t] = p

\* A thread in GetBuffer does not sleep beside a buffer that stays on the ring:
\* an event another caller reset before it woke is made good by the timeout.
GetterServed ==
    \A t \in Threads, p \in Pools :
        (Getting(t, p) /\ FreeBuffer[p] # <<>>)
            ~> (~Getting(t, p) \/ FreeBuffer[p] = <<>>)

\* Giving up a reference always comes to its end, through the releases it
\* causes and the mutexes they nest.
DropCompletes ==
    \A t \in Threads : (pc[t] \in DecSteps \cup ReleaseSteps) ~> (pc[t] = Idle)

\* "Abort any ongoing get buffer command" (buffer_pool_generic.cpp:640): a
\* thread that is in GetBuffer when the abort is raised comes out of it. Does
\* not hold: another caller clears the flag on its way in (see the README).
AbortIsEffective ==
    \A t \in Threads, p \in Pools :
        (Getting(t, p) /\ \E u \in Threads : pc[u] = "abortSet" /\ arg[u] = p)
            ~> ~Getting(t, p)

-----------------------------------------------------------------------------
(* What a pool promises for each buffer: see BufferLife *)

StatusOf(b) ==
    IF b \in Elements(FreeBuffer[PoolOf[b]]) THEN "free"
    ELSE IF BeingMade(b) THEN "taken"
    ELSE IF Claims(b) # {} THEN "used"
    ELSE IF \E t \in Threads : Releasing(t, b) THEN "ending"
    ELSE "lost"

Life == INSTANCE BufferLife WITH
            status <- [b \in Buffers |-> StatusOf(b)],
            users  <- [b \in Buffers |-> Claims(b)],
            MayBeLost <- {b \in Buffers : PoolOf[b] \in FailingPools}

\* The pool implements the life cycle: no buffer is handed out while it has
\* users, ended twice, or shared once its last user has gone.
ImplementsLife == Life!Spec
=============================================================================
