------------------------ MODULE BufferPoolInvariants ------------------------
(* Proofs about BufferPool, for any threads, pools and buffers: that its    *)
(* variables have their types, that the reference counts are exact and that *)
(* every buffer is in one place.                                            *)
EXTENDS BufferPool, FiniteSetTheorems, TLAPS

Others(t) ==
    \A u \in Threads \ {t} : /\ pc'[u] = pc[u]
                             /\ buf'[u] = buf[u]
                             /\ arg'[u] = arg[u]

-----------------------------------------------------------------------------
(* Type correctness *)

\* The variables have their types initially.
LEMMA InitTypeOK == Init => TypeOK
<1> USE BuffersAssumption, NamesAssumption
<1> SUFFICES ASSUME Init PROVE TypeOK
    OBVIOUS
<1>1. PoolType
  <2>1. FreeBuffer \in [Pools -> Seq(Buffers)]
    <3>1. ASSUME NEW p \in Pools PROVE FreeBuffer[p] \in Seq(Buffers)
      <4>1. PICK n \in 0..Cardinality(Buffers) : FreeBuffer[p] \in [1..n -> Buffers]
        <5>1. FreeBuffer[p] \in UNION {[1..n -> Buffers] : n \in 0..Cardinality(Buffers)}
          BY DEF Init
        <5> QED BY <5>1, Zenon
      <4>2. n \in Nat
        <5>1. Cardinality(Buffers) \in Nat
          BY FS_CardinalityType
        <5> QED BY <4>1, <5>1
      <4> QED BY <4>1, <4>2
    <3> QED BY <3>1 DEF Init
  <2> QED BY <2>1 DEF Init, PoolType
<1>2. BufferType
  BY DEF Init, BufferType
<1>3. ThreadType
  BY DEF Init, ThreadType, Steps, Idle
<1>4. \A t \in Threads : CallType(t)
  BY DEF Init, CallType, Idle, NewSteps, IncSteps, DecSteps, ReleaseSteps, GetSteps
<1> QED BY <1>1, <1>2, <1>3, <1>4 DEF TypeOK

\* What moving the control of a thread does, and that it moves no other thread.
LEMMA GotoEffect ==
    ASSUME ThreadType, NEW t \in Threads, NEW step \in Steps,
           NEW b \in Buffers \cup {None},
           NEW x \in Threads \cup Buffers \cup Pools \cup {None},
           Goto(t, step, b, x)
    PROVE  /\ pc' \in [Threads -> Steps]
           /\ buf' \in [Threads -> Buffers \cup {None}]
           /\ arg' \in [Threads -> Threads \cup Buffers \cup Pools \cup {None}]
           /\ pc'[t] = step
           /\ buf'[t] = b
           /\ arg'[t] = x
           /\ Others(t)
BY DEF ThreadType, Goto, Others

\* A step of any call keeps the types of the variables of the threads.
LEMMA ThreadStep ==
    ASSUME TypeOK, NEW t \in Threads, NEW step \in Steps,
           NEW b \in Buffers \cup {None},
           NEW x \in Threads \cup Buffers \cup Pools \cup {None},
           Goto(t, step, b, x),
           held' \in [Threads -> SUBSET Buffers],
           chain' \in [Threads -> Seq(Buffers)],
           \A u \in Threads \ {t} : chain'[u] = chain[u],
           step \in NewSteps \cup IncSteps \cup DecSteps \cup ReleaseSteps => b \in Buffers,
           step \in GetSteps \cup {"abortSet"} => x \in Pools,
           step \in IncSteps => x \in Threads \cup Buffers,
           chain'[t] # <<>> => step \in DecSteps \cup ReleaseSteps
    PROVE  ThreadType' /\ \A u \in Threads : CallType(u)'
<1>0. ThreadType
  BY DEF TypeOK
<1>1. /\ pc' \in [Threads -> Steps]
      /\ buf' \in [Threads -> Buffers \cup {None}]
      /\ arg' \in [Threads -> Threads \cup Buffers \cup Pools \cup {None}]
      /\ pc'[t] = step
      /\ buf'[t] = b
      /\ arg'[t] = x
      /\ Others(t)
  BY <1>0, GotoEffect
<1>2. ThreadType'
  BY <1>1 DEF ThreadType
<1>3. CallType(t)'
  BY <1>1 DEF CallType
<1>4. ASSUME NEW u \in Threads \ {t} PROVE CallType(u)'
  BY <1>1 DEF CallType, Others, TypeOK
<1> QED BY <1>2, <1>3, <1>4

\* The control part of the end of DecrementReferenceCount and ReleaseBuffer.
LEMMA ReturnEffect ==
    ASSUME TypeOK, NEW t \in Threads, Return(t),
           pc[t] \in DecSteps \cup ReleaseSteps,
           held' \in [Threads -> SUBSET Buffers]
    PROVE  ThreadType' /\ \A u \in Threads : CallType(u)'
<1>1. CASE chain[t] = <<>>
  <2>1. Goto(t, Idle, None, None) /\ chain' = chain
    BY <1>1 DEF Return
  <2>2. chain' \in [Threads -> Seq(Buffers)]
    BY <2>1 DEF TypeOK, ThreadType
  <2> QED BY <1>1, <2>1, <2>2, ThreadStep
          DEF Steps, Idle, NewSteps, IncSteps, DecSteps, ReleaseSteps, GetSteps
<1>2. CASE chain[t] # <<>>
  <2>1. chain \in [Threads -> Seq(Buffers)]
    BY DEF TypeOK, ThreadType
  <2>2. /\ Goto(t, "relDetach", chain[t][Len(chain[t])], None)
        /\ chain' = [chain EXCEPT ![t] = SubSeq(chain[t], 1, Len(chain[t]) - 1)]
    BY <1>2 DEF Return
  <2>3. chain[t][Len(chain[t])] \in Buffers
    BY <1>2, <2>1
  <2>4. SubSeq(chain[t], 1, Len(chain[t]) - 1) \in Seq(Buffers)
    BY <1>2, <2>1
  <2>5. /\ chain' \in [Threads -> Seq(Buffers)]
        /\ \A u \in Threads \ {t} : chain'[u] = chain[u]
    BY <2>1, <2>2, <2>4
  <2> QED BY <2>2, <2>3, <2>5, ThreadStep
          DEF Steps, Idle, NewSteps, IncSteps, DecSteps, ReleaseSteps, GetSteps
<1> QED BY <1>1, <1>2

\* A step of a call keeps every type.
LEMMA CallTypeOK ==
    ASSUME TypeOK, NEW t \in Threads, Call(t)
    PROVE  TypeOK'
<1> USE BuffersAssumption, NamesAssumption
<1> DEFINE Moved == ThreadType' /\ \A u \in Threads : CallType(u)'
<1> USE DEF At, poolVars, bufferVars
<1>1. ASSUME NEW p \in Pools, GetBuffer(t, p) PROVE TypeOK'
  <2>1. PoolType' /\ BufferType'
    BY <1>1 DEF GetBuffer, TypeOK, PoolType, BufferType
  <2>2. Moved
    BY <1>1, ThreadStep DEF GetBuffer, TypeOK, ThreadType, CallType,
       Steps, Idle, GetSteps, NewSteps, IncSteps, DecSteps, ReleaseSteps
  <2> QED BY <2>1, <2>2 DEF TypeOK
<1>2. ASSUME NEW p \in Pools, AbortBlockingGetBuffer(t, p) PROVE TypeOK'
  <2>1. PoolType' /\ BufferType'
    BY <1>2 DEF AbortBlockingGetBuffer, TypeOK, PoolType, BufferType
  <2>2. Moved
    BY <1>2, ThreadStep DEF AbortBlockingGetBuffer, TypeOK, ThreadType, CallType,
       Steps, Idle, GetSteps, NewSteps, IncSteps, DecSteps, ReleaseSteps
  <2> QED BY <2>1, <2>2 DEF TypeOK
<1>3. ASSUME NEW b \in Buffers, DecrementReferenceCount(t, b) PROVE TypeOK'
  <2>1. PoolType' /\ BufferType'
    BY <1>3 DEF DecrementReferenceCount, TypeOK, PoolType, BufferType
  <2>2. Moved
    BY <1>3, ThreadStep DEF DecrementReferenceCount, TypeOK, ThreadType, CallType,
       Steps, Idle, GetSteps, NewSteps, IncSteps, DecSteps, ReleaseSteps
  <2> QED BY <2>1, <2>2 DEF TypeOK
<1>4. ASSUME NEW b \in Buffers, NEW v \in Threads, IncrementReferenceCount(t, b, v) PROVE TypeOK'
  <2>1. PoolType' /\ BufferType'
    BY <1>4 DEF IncrementReferenceCount, TypeOK, PoolType, BufferType
  <2>2. Moved
    BY <1>4, ThreadStep DEF IncrementReferenceCount, TypeOK, ThreadType, CallType,
       Steps, Idle, GetSteps, NewSteps, IncSteps, DecSteps, ReleaseSteps
  <2> QED BY <2>1, <2>2 DEF TypeOK
<1>5. ASSUME NEW b \in Buffers, NEW v \in Threads, TransferOwnership(t, b, v) PROVE TypeOK'
  <2>1. PoolType' /\ BufferType'
    BY <1>5 DEF TransferOwnership, TypeOK, PoolType, BufferType
  <2>2. ThreadType'
    BY <1>5 DEF TransferOwnership, TypeOK, ThreadType
  <2>3. \A u \in Threads : CallType(u)'
    BY <1>5 DEF TransferOwnership, TypeOK, CallType
  <2> QED BY <2>1, <2>2, <2>3 DEF TypeOK
<1>6. ASSUME NEW a \in Buffers, NEW b \in Buffers, AttachBuffer(t, a, b) PROVE TypeOK'
  <2>1. PoolType' /\ BufferType'
    BY <1>6 DEF AttachBuffer, TypeOK, PoolType, BufferType
  <2>2. Moved
    BY <1>6, ThreadStep DEF AttachBuffer, CountAttachment, TypeOK, ThreadType, CallType,
       Steps, Idle, GetSteps, NewSteps, IncSteps, DecSteps, ReleaseSteps
  <2> QED BY <2>1, <2>2 DEF TypeOK
<1>7. ASSUME NEW a \in Buffers, NEW b \in Buffers, DetachBuffer(t, a, b) PROVE TypeOK'
  <2>1. PoolType' /\ BufferType'
    BY <1>7 DEF DetachBuffer, TypeOK, PoolType, BufferType
  <2>2. Moved
    BY <1>7, ThreadStep DEF DetachBuffer, TypeOK, ThreadType, CallType,
       Steps, Idle, GetSteps, NewSteps, IncSteps, DecSteps, ReleaseSteps
  <2> QED BY <2>1, <2>2 DEF TypeOK
<1> QED BY <1>1, <1>2, <1>3, <1>4, <1>5, <1>6, <1>7 DEF Call

\* A later step of a call keeps every type.
LEMMA AdvanceTypeOK ==
    ASSUME TypeOK, NEW t \in Threads, Advance(t)
    PROVE  TypeOK'
<1> USE BuffersAssumption, NamesAssumption
<1> DEFINE Moved == ThreadType' /\ \A u \in Threads : CallType(u)'
<1> USE DEF At, poolVars, bufferVars
<1>0. /\ t \in Threads /\ CallType(t)
      /\ chain[t] \in Seq(Buffers)
      /\ arg[t] \in Threads \cup Buffers \cup Pools \cup {None}
      /\ buf[t] \in Buffers \cup {None}
  BY DEF TypeOK, ThreadType
<1>1. CASE GetTry(t)
  <2> DEFINE p == arg[t]
  <2>1. p \in Pools /\ chain[t] = <<>>
    BY <1>1, <1>0 DEF GetTry, CallType, GetSteps, DecSteps, ReleaseSteps
  <2>2. FreeBuffer \in [Pools -> Seq(Buffers)]
    BY DEF TypeOK, PoolType
  <2>3. FreeBuffer[p] # <<>> => Tail(FreeBuffer[p]) \in Seq(Buffers) /\ Head(FreeBuffer[p]) \in Buffers
    BY <2>1, <2>2
  <2>4. FreeBuffer' \in [Pools -> Seq(Buffers)]
    BY <1>1, <2>1, <2>2, <2>3 DEF GetTry
  <2>5. PoolType'
    <3>1. Lock' \in [Pools -> Threads \cup {None}]
      BY <1>1, <2>1 DEF GetTry, TypeOK, PoolType
    <3>2. BufferReleaseSignal' \in [Pools -> BOOLEAN]
      BY <1>1, <2>1 DEF GetTry, TypeOK, PoolType
    <3>3. UNCHANGED <<AbortGetBuffer, PoolReferenceCount, CountOfReferencedBuffers>>
      BY <1>1 DEF GetTry
    <3> QED BY <2>4, <3>1, <3>2, <3>3 DEF TypeOK, PoolType
  <2>6. BufferType'
    BY <1>1 DEF GetTry, TypeOK, BufferType
  <2>7. held' = held /\ chain' = chain /\ held \in [Threads -> SUBSET Buffers] /\ chain \in [Threads -> Seq(Buffers)]
    BY <1>1 DEF GetTry, TypeOK, ThreadType
  <2>8. \/ Goto(t, Idle, None, None)
        \/ Goto(t, "getWait", None, p) \/ Goto(t, "getTest", None, p)
        \/ FreeBuffer[p] # <<>> /\ Goto(t, "getInit", Head(FreeBuffer[p]), None)
    BY <1>1 DEF GetTry
  <2>9. Moved
    <3>1. CASE Goto(t, Idle, None, None)
      BY <3>1, <2>1, <2>7, ThreadStep DEF Steps, Idle, GetSteps, NewSteps, IncSteps, DecSteps, ReleaseSteps
    <3>2. CASE Goto(t, "getWait", None, p)
      BY <3>2, <2>1, <2>7, ThreadStep DEF Steps, Idle, GetSteps, NewSteps, IncSteps, DecSteps, ReleaseSteps
    <3>3. CASE Goto(t, "getTest", None, p)
      BY <3>3, <2>1, <2>7, ThreadStep DEF Steps, Idle, GetSteps, NewSteps, IncSteps, DecSteps, ReleaseSteps
    <3>4. CASE FreeBuffer[p] # <<>> /\ Goto(t, "getInit", Head(FreeBuffer[p]), None)
      BY <3>4, <2>1, <2>3, <2>7, ThreadStep DEF Steps, Idle, GetSteps, NewSteps, IncSteps, DecSteps, ReleaseSteps
    <3> QED BY <2>8, <3>1, <3>2, <3>3, <3>4
  <2> QED BY <2>5, <2>6, <2>9 DEF TypeOK
<1>2. CASE GetSignalled(t)
  <2>1. PoolType' /\ BufferType'
    BY <1>2, <1>0 DEF GetSignalled, TypeOK, PoolType, BufferType, CallType,
       GetSteps, NewSteps, IncSteps, DecSteps, ReleaseSteps
  <2>2. Moved
    BY <1>2, <1>0, ThreadStep DEF GetSignalled, TypeOK, ThreadType, CallType,
       Steps, Idle, GetSteps, NewSteps, IncSteps, DecSteps, ReleaseSteps
  <2> QED BY <2>1, <2>2 DEF TypeOK
<1>3. CASE GetTimedOut(t)
  <2>1. PoolType' /\ BufferType'
    BY <1>3, <1>0 DEF GetTimedOut, TypeOK, PoolType, BufferType, CallType,
       GetSteps, NewSteps, IncSteps, DecSteps, ReleaseSteps
  <2>2. Moved
    BY <1>3, <1>0, ThreadStep DEF GetTimedOut, TypeOK, ThreadType, CallType,
       Steps, Idle, GetSteps, NewSteps, IncSteps, DecSteps, ReleaseSteps
  <2> QED BY <2>1, <2>2 DEF TypeOK
<1>4. CASE GetRelock(t)
  <2>1. PoolType' /\ BufferType'
    BY <1>4, <1>0 DEF GetRelock, TypeOK, PoolType, BufferType, CallType,
       GetSteps, NewSteps, IncSteps, DecSteps, ReleaseSteps
  <2>2. Moved
    BY <1>4, <1>0, ThreadStep DEF GetRelock, TypeOK, ThreadType, CallType,
       Steps, Idle, GetSteps, NewSteps, IncSteps, DecSteps, ReleaseSteps
  <2> QED BY <2>1, <2>2 DEF TypeOK
<1>5. CASE GetTest(t)
  <2>1. PoolType' /\ BufferType'
    BY <1>5, <1>0 DEF GetTest, UnLock, TypeOK, PoolType, BufferType, CallType,
       GetSteps, NewSteps, IncSteps, DecSteps, ReleaseSteps
  <2>2. Moved
    BY <1>5, <1>0, ThreadStep DEF GetTest, UnLock, TypeOK, ThreadType, CallType,
       Steps, Idle, GetSteps, NewSteps, IncSteps, DecSteps, ReleaseSteps
  <2> QED BY <2>1, <2>2 DEF TypeOK
<1>6. CASE GetFail(t)
  <2>1. PoolType' /\ BufferType'
    BY <1>6, <1>0 DEF GetFail, TypeOK, PoolType, BufferType, CallType,
       GetSteps, NewSteps, IncSteps, DecSteps, ReleaseSteps
  <2>2. Moved
    BY <1>6, <1>0, ThreadStep DEF GetFail, TypeOK, ThreadType, CallType,
       Steps, Idle, GetSteps, NewSteps, IncSteps, DecSteps, ReleaseSteps
  <2> QED BY <2>1, <2>2 DEF TypeOK
<1>7. CASE GetInit(t)
  <2>1. PoolType' /\ BufferType'
    <3>1. PoolType'
      BY <1>7 DEF GetInit, TypeOK, PoolType
    <3>2. ReferenceCount' \in [Buffers -> Int]
      <4>1. ReferenceCount' = [ReferenceCount EXCEPT ![buf[t]] = 1]
        BY <1>7 DEF GetInit
      <4>2. ReferenceCount \in [Buffers -> Int]
        BY DEF TypeOK, BufferType
      <4>3. buf[t] \in Buffers
        BY <1>7, <1>0 DEF GetInit, CallType, NewSteps
      <4> QED BY <4>1, <4>2, <4>3
    <3>3. AttachedBuffers' \in [Buffers -> SUBSET Buffers]
      BY <1>7 DEF GetInit, TypeOK, BufferType
    <3> QED BY <3>1, <3>2, <3>3 DEF BufferType
  <2>2. buf[t] \in Buffers /\ chain[t] = <<>>
    BY <1>7, <1>0 DEF GetInit, CallType, NewSteps, DecSteps, ReleaseSteps
  <2>3. held' \in [Threads -> SUBSET Buffers] /\ chain' = chain /\ chain \in [Threads -> Seq(Buffers)]
    BY <1>7, <2>2 DEF GetInit, TypeOK, ThreadType
  <2>4. Goto(t, "getCount", buf[t], None)
    BY <1>7 DEF GetInit
  <2>5. Moved
    BY <2>2, <2>3, <2>4, ThreadStep DEF Steps, Idle, GetSteps, NewSteps, IncSteps, DecSteps, ReleaseSteps
  <2> QED BY <2>1, <2>5 DEF TypeOK
<1>8. CASE GetCount(t)
  <2>1. PoolType' /\ BufferType'
    BY <1>8, <1>0 DEF GetCount, TypeOK, PoolType, BufferType, CallType,
       GetSteps, NewSteps, IncSteps, DecSteps, ReleaseSteps
  <2>2. Moved
    BY <1>8, <1>0, ThreadStep DEF GetCount, TypeOK, ThreadType, CallType,
       Steps, Idle, GetSteps, NewSteps, IncSteps, DecSteps, ReleaseSteps
  <2> QED BY <2>1, <2>2 DEF TypeOK
<1>9. CASE AbortSetEvent(t)
  <2>1. PoolType' /\ BufferType'
    BY <1>9, <1>0 DEF AbortSetEvent, TypeOK, PoolType, BufferType, CallType,
       GetSteps, NewSteps, IncSteps, DecSteps, ReleaseSteps
  <2>2. Moved
    BY <1>9, <1>0, ThreadStep DEF AbortSetEvent, TypeOK, ThreadType, CallType,
       Steps, Idle, GetSteps, NewSteps, IncSteps, DecSteps, ReleaseSteps
  <2> QED BY <2>1, <2>2 DEF TypeOK
<1>10. CASE IncPool(t)
  <2>1. PoolType' /\ BufferType'
    BY <1>10, <1>0 DEF IncPool, TypeOK, PoolType, BufferType, CallType,
       GetSteps, NewSteps, IncSteps, DecSteps, ReleaseSteps
  <2>2. Moved
    BY <1>10, <1>0, ThreadStep DEF IncPool, TypeOK, ThreadType, CallType,
       Steps, Idle, GetSteps, NewSteps, IncSteps, DecSteps, ReleaseSteps
  <2> QED BY <2>1, <2>2 DEF TypeOK
<1>11. CASE IncBuf(t)
  <2>1. PoolType' /\ BufferType'
    BY <1>11, <1>0 DEF IncBuf, TypeOK, PoolType, BufferType, CallType,
       GetSteps, NewSteps, IncSteps, DecSteps, ReleaseSteps
  <2>2. buf[t] \in Buffers /\ chain[t] = <<>>
    BY <1>11, <1>0 DEF IncBuf, CallType, IncSteps, DecSteps, ReleaseSteps
  <2>3. held' \in [Threads -> SUBSET Buffers] /\ chain' = chain /\ chain \in [Threads -> Seq(Buffers)]
    BY <1>11, <2>2 DEF IncBuf, TypeOK, ThreadType
  <2>4. Goto(t, Idle, None, None)
    BY <1>11 DEF IncBuf
  <2>5. Moved
    BY <2>2, <2>3, <2>4, ThreadStep DEF Steps, Idle, GetSteps, NewSteps, IncSteps, DecSteps, ReleaseSteps
  <2> QED BY <2>1, <2>5 DEF TypeOK
<1>12. CASE DecPool(t)
  <2>1. PoolType' /\ BufferType'
    BY <1>12, <1>0 DEF DecPool, TypeOK, PoolType, BufferType, CallType,
       GetSteps, NewSteps, IncSteps, DecSteps, ReleaseSteps
  <2>2. Moved
    BY <1>12, <1>0, ThreadStep DEF DecPool, TypeOK, ThreadType, CallType,
       Steps, Idle, GetSteps, NewSteps, IncSteps, DecSteps, ReleaseSteps
  <2> QED BY <2>1, <2>2 DEF TypeOK
<1>13. CASE RelLock(t)
  <2>1. PoolType' /\ BufferType'
    BY <1>13, <1>0 DEF RelLock, TypeOK, PoolType, BufferType, CallType,
       GetSteps, NewSteps, IncSteps, DecSteps, ReleaseSteps
  <2>2. Moved
    BY <1>13, <1>0, ThreadStep DEF RelLock, TypeOK, ThreadType, CallType,
       Steps, Idle, GetSteps, NewSteps, IncSteps, DecSteps, ReleaseSteps
  <2> QED BY <2>1, <2>2 DEF TypeOK
<1>14. CASE RelDetach(t)
  <2>1. PoolType' /\ BufferType'
    BY <1>14, <1>0 DEF RelDetach, TypeOK, PoolType, BufferType, CallType,
       GetSteps, NewSteps, IncSteps, DecSteps, ReleaseSteps
  <2>2. buf[t] \in Buffers
    BY <1>14, <1>0 DEF RelDetach, CallType, ReleaseSteps
  <2>3. PICK c \in AttachedBuffers[buf[t]] :
          /\ chain' = [chain EXCEPT ![t] = Append(@, buf[t])]
          /\ Goto(t, "decPool", c, None)
    BY <1>14 DEF RelDetach
  <2>4. c \in Buffers
    BY <2>2, <2>3 DEF TypeOK, BufferType
  <2>5. Append(chain[t], buf[t]) \in Seq(Buffers)
    BY <2>2, <1>0
  <2>6. chain' \in [Threads -> Seq(Buffers)] /\ \A u \in Threads \ {t} : chain'[u] = chain[u]
    BY <2>3, <2>5 DEF TypeOK, ThreadType
  <2>7. held' \in [Threads -> SUBSET Buffers]
    BY <1>14 DEF RelDetach, TypeOK, ThreadType
  <2>8. Moved
    BY <2>3, <2>4, <2>6, <2>7, ThreadStep DEF Steps, Idle, GetSteps, NewSteps, IncSteps, DecSteps, ReleaseSteps
  <2> QED BY <2>1, <2>8 DEF TypeOK
<1>15. CASE RelUnlock(t)
  <2>1. PoolType' /\ BufferType'
    BY <1>15, <1>0 DEF RelUnlock, TypeOK, PoolType, BufferType, CallType,
       GetSteps, NewSteps, IncSteps, DecSteps, ReleaseSteps
  <2>2. Moved
    BY <1>15, <1>0, ThreadStep DEF RelUnlock, TypeOK, ThreadType, CallType,
       Steps, Idle, GetSteps, NewSteps, IncSteps, DecSteps, ReleaseSteps
  <2> QED BY <2>1, <2>2 DEF TypeOK
<1>16. CASE DecBuf(t)
  <2>1. PoolType' /\ BufferType'
    <3>1. PoolType'
      BY <1>16 DEF DecBuf, TypeOK, PoolType
    <3>2. ReferenceCount' \in [Buffers -> Int] /\ AttachedBuffers' = AttachedBuffers
      <4>1. /\ ReferenceCount' = [ReferenceCount EXCEPT ![buf[t]] = @ - 1]
            /\ AttachedBuffers' = AttachedBuffers
        BY <1>16 DEF DecBuf
      <4>2. ReferenceCount \in [Buffers -> Int]
        BY DEF TypeOK, BufferType
      <4>3. buf[t] \in Buffers
        BY <1>16, <1>0 DEF DecBuf, CallType, DecSteps
      <4> QED BY <4>1, <4>2, <4>3
    <3> QED BY <3>1, <3>2 DEF TypeOK, BufferType
  <2>2. held' \in [Threads -> SUBSET Buffers]
    BY <1>16 DEF DecBuf, TypeOK, ThreadType
  <2>3. buf[t] \in Buffers /\ pc[t] \in DecSteps
    BY <1>16, <1>0 DEF DecBuf, CallType, DecSteps
  <2>4. Moved
    <3>1. CASE IsLast(buf[t])
      <4>1. Goto(t, "relLock", buf[t], None) /\ chain' = chain
        BY <1>16, <3>1 DEF DecBuf
      <4>2. chain \in [Threads -> Seq(Buffers)]
        BY DEF TypeOK, ThreadType
      <4> QED BY <2>2, <2>3, <4>1, <4>2, ThreadStep DEF Steps, Idle, GetSteps, NewSteps, IncSteps, DecSteps, ReleaseSteps
    <3>2. CASE ~IsLast(buf[t])
      <4>1. Return(t)
        BY <1>16, <3>2 DEF DecBuf
      <4> QED BY <2>2, <2>3, <4>1, ReturnEffect
    <3> QED BY <3>1, <3>2
  <2> QED BY <2>1, <2>4 DEF TypeOK
<1>17. CASE RelFree(t)
  <2>1. buf[t] \in Buffers /\ PoolOf[buf[t]] \in Pools
    BY <1>17, <1>0 DEF RelFree, CallType, ReleaseSteps
  <2>2. PoolType'
    <3>1. FreeBuffer \in [Pools -> Seq(Buffers)]
      BY DEF TypeOK, PoolType
    <3>2. Append(FreeBuffer[PoolOf[buf[t]]], buf[t]) \in Seq(Buffers)
      BY <2>1, <3>1
    <3>3. FreeBuffer' \in [Pools -> Seq(Buffers)]
      BY <1>17, <2>1, <3>1, <3>2 DEF RelFree, InsertFree
    <3>4. BufferReleaseSignal' \in [Pools -> BOOLEAN]
      BY <1>17, <2>1 DEF RelFree, TypeOK, PoolType
    <3>5. CountOfReferencedBuffers' \in [Pools -> Int]
      BY <1>17, <2>1 DEF RelFree, CountReleased, TypeOK, PoolType
    <3>6. UNCHANGED <<Lock, AbortGetBuffer, PoolReferenceCount>>
      BY <1>17 DEF RelFree
    <3> QED BY <3>3, <3>4, <3>5, <3>6 DEF TypeOK, PoolType
  <2>3. BufferType'
    BY <1>17 DEF RelFree, TypeOK, BufferType
  <2>4. held' \in [Threads -> SUBSET Buffers]
    BY <1>17 DEF RelFree, TypeOK, ThreadType
  <2>5. pc[t] \in DecSteps \cup ReleaseSteps /\ Return(t)
    BY <1>17 DEF RelFree, ReleaseSteps
  <2>6. Moved
    BY <2>4, <2>5, ReturnEffect
  <2> QED BY <2>2, <2>3, <2>6 DEF TypeOK
<1> QED BY <1>1, <1>2, <1>3, <1>4, <1>5, <1>6, <1>7, <1>8,
           <1>9, <1>10, <1>11, <1>12, <1>13, <1>14, <1>15, <1>16, <1>17 DEF Advance

\* Every variable of the pool and of its threads always has its type.
THEOREM TypeCorrect == Spec => []TypeOK
<1>1. TypeOK /\ [Next]_vars => TypeOK'
  <2> SUFFICES ASSUME TypeOK, [Next]_vars PROVE TypeOK'
      OBVIOUS
  <2>1. CASE Next
    BY <2>1, CallTypeOK, AdvanceTypeOK DEF Next
  <2>2. CASE UNCHANGED vars
    BY <2>2 DEF vars, poolVars, bufferVars, threadVars, TypeOK, PoolType, BufferType,
       ThreadType, CallType
  <2> QED BY <2>1, <2>2
<1> QED BY InitTypeOK, <1>1, PTL DEF Spec

-----------------------------------------------------------------------------
(* Places *)

\* The same as Claims(b) = {}, without the sets.
Unused(b) ==
    /\ \A t \in Threads : b \notin held[t]
    /\ \A a \in Buffers : b \in AttachedBuffers[a] => Promised(b, a)
    /\ \A t \in Threads : ~(pc[t] \in DecSteps /\ buf[t] = b)

OnRing(b)  == b \in Elements(FreeBuffer[PoolOf[b]])
Made(t, b) == pc[t] = "getInit" /\ buf[t] = b

RingSound ==
    \A p \in Pools :
        /\ \A i \in DOMAIN FreeBuffer[p] : PoolOf[FreeBuffer[p][i]] = p
        /\ \A i, j \in DOMAIN FreeBuffer[p] : FreeBuffer[p][i] = FreeBuffer[p][j] => i = j

FreeUnused ==
    \A b \in Buffers : OnRing(b) =>
        Unused(b) /\ \A t \in Threads : ~Made(t, b) /\ ~Releasing(t, b)

ReleasedUnused ==
    \A t \in Threads, b \in Buffers : Releasing(t, b) =>
        Unused(b) /\ \A u \in Threads : ~Made(u, b) /\ (Releasing(u, b) => u = t)

MadeUnused ==
    \A t \in Threads, b \in Buffers : Made(t, b) =>
        Unused(b) /\ \A u \in Threads : Made(u, b) => u = t

Places == RingSound /\ FreeUnused /\ ReleasedUnused /\ MadeUnused

IInv == TypeOK /\ CountIsExact /\ Places /\ CallsAreSound

-----------------------------------------------------------------------------
(* Claims *)

\* No claim is none of the three kinds of claims.
LEMMA UnusedMeansNoClaims ==
    ASSUME NEW b \in Buffers PROVE Unused(b) <=> Claims(b) = {}
<1>0. ASSUME NEW S, NEW kind PROVE {kind} \X S = {} <=> S = {}
  <2>1. ASSUME NEW x \in S PROVE <<kind, x>> \in {kind} \X S
    OBVIOUS
  <2> QED BY <2>1
<1>1. Claims(b) = {} <=> Owners(b) = {} /\ Attachers(b) = {} /\ Droppers(b) = {}
  <2>1. \A R, S, T : R \cup S \cup T = {} <=> R = {} /\ S = {} /\ T = {}
    OBVIOUS
  <2>2. Claims(b) = {} <=>
          {"own"} \X Owners(b) = {} /\ {"attach"} \X Attachers(b) = {} /\ {"drop"} \X Droppers(b) = {}
    BY <2>1, Zenon DEF Claims
  <2>3. {"own"} \X Owners(b) = {} <=> Owners(b) = {}
    BY <1>0, Zenon
  <2>4. {"attach"} \X Attachers(b) = {} <=> Attachers(b) = {}
    BY <1>0, Zenon
  <2>5. {"drop"} \X Droppers(b) = {} <=> Droppers(b) = {}
    BY <1>0, Zenon
  <2> QED BY <2>2, <2>3, <2>4, <2>5, Zenon
<1>2. Owners(b) = {} <=> \A t \in Threads : b \notin held[t]
  BY DEF Owners
<1>3. Attachers(b) = {} <=> \A a \in Buffers : b \in AttachedBuffers[a] => Promised(b, a)
  BY DEF Attachers
<1>4. Droppers(b) = {} <=> \A t \in Threads : ~(pc[t] \in DecSteps /\ buf[t] = b)
  BY DEF Droppers
<1> QED BY <1>1, <1>2, <1>3, <1>4 DEF Unused

\* The claims on a buffer can be counted.
LEMMA ClaimsFinite ==
    ASSUME NEW b \in Buffers
    PROVE  /\ IsFiniteSet(Owners(b)) /\ IsFiniteSet(Attachers(b)) /\ IsFiniteSet(Droppers(b))
           /\ Cardinality(Owners(b)) \in Nat
           /\ Cardinality(Attachers(b)) \in Nat
           /\ Cardinality(Droppers(b)) \in Nat
<1>1. Owners(b) \subseteq Threads /\ Attachers(b) \subseteq Buffers /\ Droppers(b) \subseteq Threads
  BY DEF Owners, Attachers, Droppers
<1>2. IsFiniteSet(Owners(b)) /\ IsFiniteSet(Attachers(b)) /\ IsFiniteSet(Droppers(b))
  BY <1>1, FS_Subset, ThreadsAssumption, BuffersAssumption
<1> QED BY <1>2, FS_CardinalityType

\* Counting one more, and one less.
LEMMA CountUp ==
    ASSUME NEW S, IsFiniteSet(S), NEW x, x \notin S
    PROVE  Cardinality(S \cup {x}) = Cardinality(S) + 1
BY FS_AddElement

LEMMA CountDown ==
    ASSUME NEW S, IsFiniteSet(S), NEW x, x \in S
    PROVE  Cardinality(S \ {x}) = Cardinality(S) - 1
BY FS_RemoveElement

\* A step that only moves t inside the call it is in, or between calls that
\* claim nothing.
Quiet(t) ==
    /\ Others(t)
    /\ pc'[t] \in IncSteps <=> pc[t] \in IncSteps
    /\ pc'[t] \in DecSteps <=> pc[t] \in DecSteps
    /\ pc'[t] \in ReleaseSteps <=> pc[t] \in ReleaseSteps
    /\ pc'[t] = "getInit" => pc[t] = "getInit"
    /\ pc'[t] = "relFree" => pc[t] = "relFree" \/ AttachedBuffers[buf[t]] = {}
    /\ pc'[t] \in IncSteps \cup DecSteps \cup ReleaseSteps \cup {"getInit"} => buf'[t] = buf[t]
    /\ pc[t] \in IncSteps => arg'[t] = arg[t]
    /\ UNCHANGED <<FreeBuffer, ReferenceCount, AttachedBuffers, held, chain>>

\* Such a step keeps the invariant.
LEMMA QuietStep ==
    ASSUME IInv, TypeOK', NEW t \in Threads, Quiet(t)
    PROVE  IInv'
<1>1. \A u \in Threads :
          /\ pc'[u] \in IncSteps <=> pc[u] \in IncSteps
          /\ pc'[u] \in DecSteps <=> pc[u] \in DecSteps
          /\ pc'[u] \in ReleaseSteps <=> pc[u] \in ReleaseSteps
          /\ pc'[u] = "getInit" => pc[u] = "getInit"
          /\ pc'[u] = "relFree" => pc[u] = "relFree" \/ AttachedBuffers[buf[u]] = {}
          /\ pc'[u] \in IncSteps \cup DecSteps \cup ReleaseSteps \cup {"getInit"} => buf'[u] = buf[u]
          /\ pc[u] \in IncSteps => arg'[u] = arg[u]
  BY DEF Quiet, Others
<1>2. \A b, x : Promised(b, x)' <=> Promised(b, x)
  BY <1>1 DEF Promised
<1>3. \A u \in Threads, b \in Buffers : /\ Releasing(u, b)' <=> Releasing(u, b)
                                        /\ Made(u, b)' => Made(u, b)
  BY <1>1 DEF Releasing, Made, Quiet
<1>4. \A b \in Buffers : (Unused(b)' <=> Unused(b)) /\ (OnRing(b)' <=> OnRing(b))
  BY <1>1, <1>2 DEF Unused, OnRing, Quiet
<1>5. Places'
  BY <1>3, <1>4 DEF Places, RingSound, FreeUnused, ReleasedUnused, MadeUnused, IInv, Quiet
<1>6. CountIsExact'
  <2> SUFFICES ASSUME NEW b \in Buffers
               PROVE  /\ Owners(b)' = Owners(b)
                      /\ Attachers(b)' = Attachers(b)
                      /\ Droppers(b)' = Droppers(b)
      BY DEF CountIsExact, IInv, Quiet
  <2>1. Owners(b)' = Owners(b) /\ Attachers(b)' = Attachers(b)
    BY <1>2 DEF Owners, Attachers, Quiet
  <2>2. Droppers(b)' = Droppers(b)
    BY <1>1 DEF Droppers
  <2> QED BY <2>1, <2>2
<1>7. Bare'
  BY <1>1, <1>4 DEF Bare, IInv, CallsAreSound, OnRing, Quiet, ReleaseSteps
<1>8. ChainDistinct'
  BY <1>1 DEF ChainDistinct, IInv, CallsAreSound, Quiet
<1>9. \A u \in Threads : pc'[u] \in IncSteps => IncSound(u)'
  BY <1>1 DEF IncSound, IInv, CallsAreSound, Quiet, Owners
<1> QED BY <1>5, <1>6, <1>7, <1>8, <1>9 DEF IInv, CallsAreSound

-----------------------------------------------------------------------------
(* Sequences without repetition *)

Distinct(s) == \A i, j \in DOMAIN s : s[i] = s[j] => i = j

\* Taking the first element leaves the others.
LEMMA TailFacts ==
    ASSUME NEW S, NEW s \in Seq(S), s # <<>>, Distinct(s)
    PROVE  /\ Head(s) \in Elements(s)
           /\ Elements(Tail(s)) \subseteq Elements(s) \ {Head(s)}
           /\ Distinct(Tail(s))
<1>1. /\ Head(s) = s[1] /\ 1 \in DOMAIN s
      /\ DOMAIN Tail(s) = 1..Len(s) - 1
      /\ \A i \in 1..Len(s) - 1 : Tail(s)[i] = s[i + 1] /\ i + 1 \in DOMAIN s /\ i + 1 # 1
  OBVIOUS
<1> QED BY <1>1 DEF Elements, Distinct

\* Taking the last element leaves the others.
LEMMA FrontFacts ==
    ASSUME NEW S, NEW s \in Seq(S), s # <<>>
    PROVE  LET last  == s[Len(s)]
               front == SubSeq(s, 1, Len(s) - 1)
           IN  /\ Elements(s) = Elements(front) \cup {last}
               /\ Distinct(s) => Distinct(front) /\ last \notin Elements(front)
<1> DEFINE front == SubSeq(s, 1, Len(s) - 1)
<1>1. /\ Len(s) \in Nat \ {0} /\ DOMAIN s = 1..Len(s)
      /\ DOMAIN front = 1..Len(s) - 1
      /\ \A i \in 1..Len(s) - 1 : front[i] = s[i]
  OBVIOUS
<1> HIDE DEF front
<1>2. ASSUME NEW i \in 1..Len(s) PROVE i \in 1..Len(s) - 1 \/ i = Len(s)
  <2>1. Len(s) \in Nat
    BY <1>1
  <2> QED BY <2>1
<1>3. Elements(s) = Elements(front) \cup {s[Len(s)]}
  <2>1. Elements(s) \subseteq Elements(front) \cup {s[Len(s)]}
    BY <1>1, <1>2 DEF Elements
  <2>2. Elements(front) \subseteq Elements(s)
    BY <1>1 DEF Elements
  <2>3. s[Len(s)] \in Elements(s)
    BY <1>1 DEF Elements
  <2> QED BY <2>1, <2>2, <2>3
<1>4. ASSUME Distinct(s) PROVE Distinct(front) /\ s[Len(s)] \notin Elements(front)
  BY <1>1, <1>4 DEF Elements, Distinct
<1> QED BY <1>3, <1>4 DEF front

\* Adding an element at the end.
LEMMA AppendFacts ==
    ASSUME NEW S, NEW s \in Seq(S), NEW x \in S
    PROVE  /\ Elements(Append(s, x)) = Elements(s) \cup {x}
           /\ Distinct(s) /\ x \notin Elements(s) => Distinct(Append(s, x))
<1> DEFINE longer == Append(s, x)
<1>1. Len(s) \in Nat /\ DOMAIN s = 1..Len(s)
  OBVIOUS
<1>2. longer \in Seq(S) /\ Len(longer) = Len(s) + 1
  OBVIOUS
<1>3. DOMAIN longer = 1..Len(s) + 1
  BY <1>2
<1>4. \A i \in 1..Len(s) : longer[i] = s[i]
  OBVIOUS
<1>5. longer[Len(s) + 1] = x
  OBVIOUS
<1> HIDE DEF longer
<1>6. \A i \in 1..Len(s) + 1 : i \in 1..Len(s) \/ i = Len(s) + 1
  BY <1>1
<1>7. Elements(longer) = Elements(s) \cup {x}
  <2>1. Elements(longer) \subseteq Elements(s) \cup {x}
    BY <1>1, <1>3, <1>4, <1>5, <1>6 DEF Elements
  <2>2. Elements(s) \subseteq Elements(longer)
    BY <1>1, <1>3, <1>4 DEF Elements
  <2>3. x \in Elements(longer)
    BY <1>1, <1>3, <1>5 DEF Elements
  <2> QED BY <2>1, <2>2, <2>3
<1>8. ASSUME Distinct(s), x \notin Elements(s) PROVE Distinct(longer)
  BY <1>1, <1>3, <1>4, <1>5, <1>6, <1>8 DEF Elements, Distinct
<1> QED BY <1>7, <1>8 DEF longer

-----------------------------------------------------------------------------
(* What the invariant says of the buffers that calls work on *)

\* A buffer to which a reference is being added, or attached, has its owner.
LEMMA PromisedFacts ==
    ASSUME IInv, NEW b \in Buffers, NEW a \in Buffers, Promised(b, a)
    PROVE  \E v \in Threads : pc[v] \in IncSteps /\ Owners(a) = {v}
BY DEF Promised, IInv, CallsAreSound, IncSound

\* The call of an increment is made by somebody who knows that the buffer lives.
LEMMA IncAlive ==
    ASSUME IInv, NEW t \in Threads, pc[t] \in IncSteps
    PROVE  buf[t] \in Buffers /\ ~Unused(buf[t])
<1>1. buf[t] \in Buffers
  BY DEF IInv, TypeOK, CallType
<1>2. CASE buf[t] \in held[t]
  BY <1>1, <1>2 DEF Unused
<1>3. CASE \E c \in held[t] \ {arg[t]} : buf[t] \in AttachedBuffers[c]
  <2>1. PICK c \in held[t] \ {arg[t]} : buf[t] \in AttachedBuffers[c]
    BY <1>3
  <2>2. c \in Buffers
    BY <2>1 DEF IInv, TypeOK, ThreadType
  <2>3. ~Promised(buf[t], c)
    <3>1. SUFFICES ASSUME NEW v \in Threads, pc[v] \in IncSteps, buf[v] = buf[t], arg[v] = c
                   PROVE FALSE
      BY DEF Promised
    <3>2. Owners(c) = {v}
      BY <2>2, <3>1 DEF IInv, CallsAreSound, IncSound
    <3>3. v = t
      BY <2>1, <2>2, <3>2 DEF Owners
    <3> QED BY <2>1, <3>1, <3>3
  <2> QED BY <1>1, <2>1, <2>2, <2>3 DEF Unused
<1> QED BY <1>1, <1>2, <1>3 DEF IInv, CallsAreSound, IncSound

\* Nothing is being attached to a buffer that is unused, or owned by a thread
\* that is in no such call.
LEMMA NotPromised ==
    ASSUME IInv, NEW a \in Buffers,
           Unused(a) \/ \E t \in Threads : a \in held[t] /\ pc[t] \notin IncSteps
    PROVE  \A b \in Buffers : ~Promised(b, a)
BY PromisedFacts DEF Unused, Owners

\* Buffers whose place does not change, and that do not come into use, stay in
\* one place.
LEMMA PlacesKept ==
    ASSUME Places, RingSound',
           \A b \in Buffers : /\ OnRing(b)' => OnRing(b)
                              /\ \A t \in Threads : /\ Made(t, b)' => Made(t, b)
                                                    /\ Releasing(t, b)' => Releasing(t, b),
           \A b \in Buffers :
              (Unused(b) /\ (OnRing(b)' \/ \E t \in Threads : Made(t, b)' \/ Releasing(t, b)'))
                => Unused(b)'
    PROVE  Places'
BY DEF Places, FreeUnused, ReleasedUnused, MadeUnused

-----------------------------------------------------------------------------
(* References that change hands *)

LEMMA DecrementStep ==
    ASSUME IInv, TypeOK', NEW t \in Threads, NEW b \in Buffers, DecrementReferenceCount(t, b)
    PROVE  IInv'
<1>1. /\ pc[t] = "idle" /\ b \in held[t]
      /\ pc'[t] = "decPool" /\ buf'[t] = b /\ Others(t)
      /\ held'[t] = held[t] \ {b} /\ \A u \in Threads \ {t} : held'[u] = held[u]
      /\ UNCHANGED <<FreeBuffer, ReferenceCount, AttachedBuffers, chain>>
  BY DEF DecrementReferenceCount, Goto, At, Idle, IInv, TypeOK, ThreadType, Others, poolVars, bufferVars
<1>2. \A c, x : Promised(c, x)' <=> Promised(c, x)
  BY <1>1 DEF Promised, Others, IncSteps
<1>3. Places'
  <2>1. \A c \in Buffers : OnRing(c)' => OnRing(c)
    BY <1>1 DEF OnRing
  <2>2. \A c \in Buffers, u \in Threads : /\ Made(u, c)' => Made(u, c)
                                          /\ Releasing(u, c)' => Releasing(u, c)
    BY <1>1 DEF Made, Releasing, Others, ReleaseSteps
  <2>3. \A c \in Buffers : Unused(c) => Unused(c)'
    BY <1>1, <1>2 DEF Unused, Others
  <2> QED BY <1>1, <2>1, <2>2, <2>3, PlacesKept DEF IInv, Places, RingSound
<1>4. CountIsExact'
  <2> SUFFICES ASSUME NEW c \in Buffers
               PROVE  ReferenceCount'[c] = Cardinality(Owners(c)') + Cardinality(Attachers(c)')
                                             + Cardinality(Droppers(c)')
      BY DEF CountIsExact
  <2>1. Attachers(c)' = Attachers(c)
    BY <1>1, <1>2 DEF Attachers
  <2>2. CASE c # b
    <3>1. Owners(c)' = Owners(c) /\ Droppers(c)' = Droppers(c)
      BY <1>1, <2>2 DEF Owners, Droppers, Others, DecSteps
    <3> QED BY <1>1, <2>1, <3>1 DEF IInv, CountIsExact
  <2>3. CASE c = b
    <3>1. /\ t \in Owners(c) /\ Owners(c)' = Owners(c) \ {t}
          /\ t \notin Droppers(c) /\ Droppers(c)' = Droppers(c) \cup {t}
      BY <1>1, <2>3 DEF Owners, Droppers, Others, DecSteps
    <3>2. /\ Cardinality(Owners(c)') = Cardinality(Owners(c)) - 1
          /\ Cardinality(Droppers(c)') = Cardinality(Droppers(c)) + 1
      BY <3>1, ClaimsFinite, CountUp, CountDown
    <3> QED BY <1>1, <2>1, <3>2, ClaimsFinite DEF IInv, CountIsExact
  <2> QED BY <2>2, <2>3
<1>5. Bare' /\ ChainDistinct'
  BY <1>1 DEF IInv, CallsAreSound, Bare, ChainDistinct, Others, ReleaseSteps
<1>6. ASSUME NEW v \in Threads, pc'[v] \in IncSteps PROVE IncSound(v)'
  <2>1. v # t /\ pc[v] \in IncSteps /\ buf'[v] = buf[v] /\ arg'[v] = arg[v] /\ held'[v] = held[v]
    BY <1>1, <1>6 DEF Others, IncSteps
  <2>2. IncSound(v)
    BY <2>1 DEF IInv, CallsAreSound
  <2>3. arg[v] \in Buffers => Owners(arg[v])' = Owners(arg[v])
    BY <1>1, <2>1, <2>2 DEF IncSound, Owners
  <2>4. \A u \in Threads : pc'[u] \in IncSteps => pc[u] \in IncSteps /\ buf'[u] = buf[u] /\ arg'[u] = arg[u]
    BY <1>1 DEF Others, IncSteps
  <2> QED BY <1>1, <2>1, <2>2, <2>3, <2>4 DEF IncSound
<1> QED BY <1>3, <1>4, <1>5, <1>6 DEF IInv, CallsAreSound

LEMMA TransferStep ==
    ASSUME IInv, TypeOK', NEW t \in Threads, NEW b \in Buffers, NEW u \in Threads,
           TransferOwnership(t, b, u)
    PROVE  IInv'
<1>1. /\ pc[t] = "idle" /\ b \in held[t] /\ b \notin held[u] /\ ~Promised(b, u)
      /\ \A w \in Threads : held'[w] = IF w = t THEN held[t] \ {b}
                                        ELSE IF w = u THEN held[u] \cup {b} ELSE held[w]
      /\ UNCHANGED <<FreeBuffer, ReferenceCount, AttachedBuffers, chain, pc, buf, arg>>
  BY DEF TransferOwnership, MayOwn, At, Idle, IInv, TypeOK, ThreadType, poolVars, bufferVars
<1>2. \A c, x : Promised(c, x)' <=> Promised(c, x)
  BY <1>1 DEF Promised
<1>3. Places'
  <2>1. \A c \in Buffers : OnRing(c)' => OnRing(c)
    BY <1>1 DEF OnRing
  <2>2. \A c \in Buffers, w \in Threads : /\ Made(w, c)' => Made(w, c)
                                          /\ Releasing(w, c)' => Releasing(w, c)
    BY <1>1 DEF Made, Releasing
  <2>3. \A c \in Buffers : Unused(c) => Unused(c)'
    BY <1>1, <1>2 DEF Unused
  <2> QED BY <1>1, <2>1, <2>2, <2>3, PlacesKept DEF IInv, Places, RingSound
<1>4. CountIsExact'
  <2> SUFFICES ASSUME NEW c \in Buffers
               PROVE  ReferenceCount'[c] = Cardinality(Owners(c)') + Cardinality(Attachers(c)')
                                             + Cardinality(Droppers(c)')
      BY DEF CountIsExact
  <2>1. Attachers(c)' = Attachers(c) /\ Droppers(c)' = Droppers(c)
    BY <1>1, <1>2 DEF Attachers, Droppers
  <2>2. CASE c # b
    <3>1. Owners(c)' = Owners(c)
      BY <1>1, <2>2 DEF Owners
    <3> QED BY <1>1, <2>1, <3>1 DEF IInv, CountIsExact
  <2>3. CASE c = b
    <3> DEFINE Rest == Owners(c) \ {t}
    <3>1. /\ t \in Owners(c) /\ u \notin Rest /\ Owners(c)' = Rest \cup {u}
      BY <1>1, <2>3 DEF Owners
    <3>2. IsFiniteSet(Rest) /\ Cardinality(Rest) = Cardinality(Owners(c)) - 1
      BY <3>1, ClaimsFinite, CountDown, FS_RemoveElement
    <3>3. Cardinality(Owners(c)') = Cardinality(Rest) + 1
      BY <3>1, <3>2, CountUp
    <3> QED BY <1>1, <2>1, <3>2, <3>3, ClaimsFinite DEF IInv, CountIsExact
  <2> QED BY <2>2, <2>3
<1>5. Bare' /\ ChainDistinct'
  BY <1>1 DEF IInv, CallsAreSound, Bare, ChainDistinct
<1>6. ASSUME NEW v \in Threads, pc'[v] \in IncSteps PROVE IncSound(v)'
  <2>1. v # t /\ pc[v] \in IncSteps /\ held[v] \subseteq held'[v]
    BY <1>1, <1>6 DEF IncSteps
  <2>2. IncSound(v)
    BY <2>1 DEF IInv, CallsAreSound
  <2>3. arg[v] \in Buffers => Owners(arg[v])' = Owners(arg[v])
    BY <1>1, <2>1, <2>2 DEF IncSound, Owners
  <2>4. arg[v] \in Threads => buf[v] \notin held'[arg[v]]
    BY <1>1, <2>1, <2>2 DEF IncSound, Promised
  <2> QED BY <1>1, <2>1, <2>2, <2>3, <2>4 DEF IncSound
<1> QED BY <1>3, <1>4, <1>5, <1>6 DEF IInv, CallsAreSound

LEMMA IncrementStep ==
    ASSUME IInv, TypeOK', NEW t \in Threads, NEW b \in Buffers, NEW u \in Threads,
           IncrementReferenceCount(t, b, u)
    PROVE  IInv'
<1>1. /\ pc[t] = "idle" /\ b \in held[t] /\ b \notin held[u] /\ ~Promised(b, u)
      /\ pc'[t] = "incPool" /\ buf'[t] = b /\ arg'[t] = u /\ Others(t)
      /\ UNCHANGED <<FreeBuffer, ReferenceCount, AttachedBuffers, held, chain>>
  BY DEF IncrementReferenceCount, MayOwn, Goto, At, Idle, IInv, TypeOK, ThreadType, Others,
         poolVars, bufferVars
<1>2. \A c, a \in Buffers : Promised(c, a)' <=> Promised(c, a)
  BY <1>1, NamesAssumption DEF Promised, Others, IncSteps
<1>3. Places'
  <2>1. \A c \in Buffers : OnRing(c)' => OnRing(c)
    BY <1>1 DEF OnRing
  <2>2. \A c \in Buffers, w \in Threads : /\ Made(w, c)' => Made(w, c)
                                          /\ Releasing(w, c)' => Releasing(w, c)
    BY <1>1 DEF Made, Releasing, Others, ReleaseSteps
  <2>3. \A c \in Buffers : Unused(c) => Unused(c)'
    BY <1>1, <1>2 DEF Unused, Others, DecSteps
  <2> QED BY <1>1, <2>1, <2>2, <2>3, PlacesKept DEF IInv, Places, RingSound
<1>4. CountIsExact'
  <2> SUFFICES ASSUME NEW c \in Buffers
               PROVE  /\ Owners(c)' = Owners(c)
                      /\ Attachers(c)' = Attachers(c)
                      /\ Droppers(c)' = Droppers(c)
      BY <1>1 DEF CountIsExact, IInv
  <2>1. Owners(c)' = Owners(c) /\ Attachers(c)' = Attachers(c)
    BY <1>1, <1>2 DEF Owners, Attachers
  <2>2. Droppers(c)' = Droppers(c)
    BY <1>1 DEF Droppers, Others, DecSteps
  <2> QED BY <2>1, <2>2
<1>5. Bare' /\ ChainDistinct'
  BY <1>1 DEF IInv, CallsAreSound, Bare, ChainDistinct, Others, ReleaseSteps
<1>6. ASSUME NEW v \in Threads, pc'[v] \in IncSteps PROVE IncSound(v)'
  <2>1. CASE v = t
    BY <1>1, <2>1, NamesAssumption DEF IncSound, Others, Promised
  <2>2. CASE v # t
    <3>1. pc[v] \in IncSteps /\ buf'[v] = buf[v] /\ arg'[v] = arg[v]
      BY <1>1, <1>6, <2>2 DEF Others
    <3>2. IncSound(v)
      BY <3>1 DEF IInv, CallsAreSound
    <3>3. ~(buf[v] = b /\ arg[v] = u)
      BY <1>1, <3>1 DEF Promised
    <3> QED BY <1>1, <2>2, <3>1, <3>2, <3>3 DEF IncSound, Others, Owners
  <2> QED BY <2>1, <2>2
<1> QED BY <1>3, <1>4, <1>5, <1>6 DEF IInv, CallsAreSound

-----------------------------------------------------------------------------
(* Attachments *)

LEMMA AttachStep ==
    ASSUME IInv, TypeOK', NEW t \in Threads, NEW a \in Buffers, NEW b \in Buffers,
           AttachBuffer(t, a, b)
    PROVE  IInv'
<1>1. /\ pc[t] = "idle" /\ Owners(a) = {t} /\ b \notin AttachedBuffers[a]
      /\ b \in held[t] \/ \E c \in held[t] : b \in AttachedBuffers[c]
      /\ pc'[t] = "incPool" /\ buf'[t] = b /\ arg'[t] = a /\ Others(t)
      /\ \A c \in Buffers : AttachedBuffers'[c] = IF c = a THEN AttachedBuffers[a] \cup {b}
                                                          ELSE AttachedBuffers[c]
      /\ UNCHANGED <<FreeBuffer, ReferenceCount, held, chain>>
  BY DEF AttachBuffer, CountAttachment, SoleOwner, Goto, At, Idle, IInv, TypeOK, ThreadType,
         BufferType, Others, poolVars
<1>2. \A c, x : Promised(c, x)' <=> (Promised(c, x) \/ (c = b /\ x = a))
  BY <1>1 DEF Promised, Others, IncSteps
<1>3. ~Unused(a)
  BY <1>1 DEF Unused, Owners
<1>4. Places'
  <2>1. \A c \in Buffers : OnRing(c)' => OnRing(c)
    BY <1>1 DEF OnRing
  <2>2. \A c \in Buffers, w \in Threads : /\ Made(w, c)' => Made(w, c)
                                          /\ Releasing(w, c)' => Releasing(w, c)
    BY <1>1 DEF Made, Releasing, Others, ReleaseSteps
  <2>3. \A c \in Buffers : Unused(c) => Unused(c)'
    BY <1>1, <1>2 DEF Unused, Others, DecSteps
  <2> QED BY <1>1, <2>1, <2>2, <2>3, PlacesKept DEF IInv, Places, RingSound
<1>5. CountIsExact'
  <2> SUFFICES ASSUME NEW c \in Buffers
               PROVE  /\ Owners(c)' = Owners(c)
                      /\ Attachers(c)' = Attachers(c)
                      /\ Droppers(c)' = Droppers(c)
      BY <1>1 DEF CountIsExact, IInv
  <2>1. Owners(c)' = Owners(c)
    BY <1>1 DEF Owners
  <2>2. Attachers(c)' = Attachers(c)
    BY <1>1, <1>2 DEF Attachers
  <2>3. Droppers(c)' = Droppers(c)
    BY <1>1 DEF Droppers, Others, DecSteps
  <2> QED BY <2>1, <2>2, <2>3
<1>6. Bare'
  <2> SUFFICES ASSUME NEW c \in Buffers,
                      OnRing(c)' \/ \E w \in Threads : pc'[w] \in {"getInit", "relFree"} /\ buf'[w] = c
               PROVE  AttachedBuffers'[c] = {}
      BY DEF Bare, OnRing
  <2>1. OnRing(c) \/ \E w \in Threads : pc[w] \in {"getInit", "relFree"} /\ buf[w] = c
    BY <1>1 DEF OnRing, Others
  <2>2. c # a
    BY <1>3, <2>1 DEF IInv, Places, FreeUnused, MadeUnused, ReleasedUnused, Made, Releasing, ReleaseSteps
  <2> QED BY <1>1, <2>1, <2>2 DEF IInv, CallsAreSound, Bare, OnRing
<1>7. ChainDistinct'
  BY <1>1 DEF IInv, CallsAreSound, ChainDistinct, Others, ReleaseSteps
<1>8. ASSUME NEW v \in Threads, pc'[v] \in IncSteps PROVE IncSound(v)'
  <2>1. ASSUME NEW w \in Threads, w # t, pc[w] \in IncSteps, buf[w] = b, arg[w] = a PROVE FALSE
    BY <1>1, <2>1 DEF IInv, CallsAreSound, IncSound
  <2>2. \A c \in Buffers : AttachedBuffers[c] \subseteq AttachedBuffers'[c]
    BY <1>1
  <2>3. held \in [Threads -> SUBSET Buffers]
    BY DEF IInv, TypeOK, ThreadType
  <2>4. CASE v = t
    <3>1. (arg[v] \notin Threads /\ Owners(arg[v]) = {v} /\ buf[v] \in AttachedBuffers[arg[v]])'
      BY <1>1, <2>4, NamesAssumption DEF Owners
    <3>2. buf'[v] \in held'[v] \/ \E c \in held'[v] \ {arg'[v]} : buf'[v] \in AttachedBuffers'[c]
      BY <1>1, <2>2, <2>3, <2>4
    <3>3. \A w \in Threads : (pc'[w] \in IncSteps /\ buf'[w] = buf'[v] /\ arg'[w] = arg'[v]) => w = v
      BY <1>1, <2>1, <2>4 DEF Others
    <3> QED BY <3>1, <3>2, <3>3 DEF IncSound
  <2>5. CASE v # t
    <3>1. pc[v] \in IncSteps /\ buf'[v] = buf[v] /\ arg'[v] = arg[v]
      BY <1>1, <1>8, <2>5 DEF Others
    <3>2. IncSound(v)
      BY <3>1 DEF IInv, CallsAreSound
    <3>3. (arg[v] \in Buffers => Owners(arg[v]) = {v} /\ buf[v] \in AttachedBuffers[arg[v]])'
      BY <1>1, <2>2, <3>1, <3>2 DEF IncSound, Owners
    <3>4. buf'[v] \in held'[v] \/ \E c \in held'[v] \ {arg'[v]} : buf'[v] \in AttachedBuffers'[c]
      BY <1>1, <2>2, <2>3, <3>1, <3>2 DEF IncSound
    <3>5. \A w \in Threads : (pc'[w] \in IncSteps /\ buf'[w] = buf'[v] /\ arg'[w] = arg'[v]) => w = v
      BY <1>1, <2>1, <2>5, <3>1, <3>2 DEF IncSound, Others
    <3> QED BY <1>1, <3>1, <3>2, <3>3, <3>4, <3>5 DEF IncSound
  <2> QED BY <2>4, <2>5
<1> QED BY <1>4, <1>5, <1>6, <1>7, <1>8 DEF IInv, CallsAreSound

LEMMA DetachStep ==
    ASSUME IInv, TypeOK', NEW t \in Threads, NEW a \in Buffers, NEW b \in Buffers,
           DetachBuffer(t, a, b)
    PROVE  IInv'
<1>1. /\ pc[t] = "idle" /\ Owners(a) = {t} /\ b \in AttachedBuffers[a]
      /\ pc'[t] = "decPool" /\ buf'[t] = b /\ Others(t)
      /\ \A c \in Buffers : AttachedBuffers'[c] = IF c = a THEN AttachedBuffers[a] \ {b}
                                                          ELSE AttachedBuffers[c]
      /\ UNCHANGED <<FreeBuffer, ReferenceCount, held, chain>>
  BY DEF DetachBuffer, SoleOwner, Goto, At, Idle, IInv, TypeOK, ThreadType, BufferType, Others, poolVars
<1>2. \A c, x : Promised(c, x)' <=> Promised(c, x)
  BY <1>1 DEF Promised, Others, IncSteps
<1>3. ~Promised(b, a)
  BY <1>1, NotPromised DEF Owners, IncSteps
<1>4. Places'
  <2>1. \A c \in Buffers : OnRing(c)' => OnRing(c)
    BY <1>1 DEF OnRing
  <2>2. \A c \in Buffers, w \in Threads : /\ Made(w, c)' => Made(w, c)
                                          /\ Releasing(w, c)' => Releasing(w, c)
    BY <1>1 DEF Made, Releasing, Others, ReleaseSteps
  <2>3. \A c \in Buffers : Unused(c) => Unused(c)'
    BY <1>1, <1>2, <1>3 DEF Unused, Others
  <2> QED BY <1>1, <2>1, <2>2, <2>3, PlacesKept DEF IInv, Places, RingSound
<1>5. CountIsExact'
  <2> SUFFICES ASSUME NEW c \in Buffers
               PROVE  ReferenceCount'[c] = Cardinality(Owners(c)') + Cardinality(Attachers(c)')
                                             + Cardinality(Droppers(c)')
      BY DEF CountIsExact
  <2>1. Owners(c)' = Owners(c)
    BY <1>1 DEF Owners
  <2>2. CASE c # b
    <3>1. Attachers(c)' = Attachers(c)
      BY <1>1, <1>2, <2>2 DEF Attachers
    <3>2. Droppers(c)' = Droppers(c)
      BY <1>1, <2>2 DEF Droppers, Others, DecSteps
    <3> QED BY <1>1, <2>1, <3>1, <3>2 DEF IInv, CountIsExact
  <2>3. CASE c = b
    <3>1. a \in Attachers(c) /\ Attachers(c)' = Attachers(c) \ {a}
      BY <1>1, <1>2, <1>3, <2>3 DEF Attachers
    <3>2. t \notin Droppers(c) /\ Droppers(c)' = Droppers(c) \cup {t}
      BY <1>1, <2>3 DEF Droppers, Others, DecSteps
    <3>3. /\ Cardinality(Attachers(c)') = Cardinality(Attachers(c)) - 1
          /\ Cardinality(Droppers(c)') = Cardinality(Droppers(c)) + 1
      BY <3>1, <3>2, ClaimsFinite, CountUp, CountDown
    <3> QED BY <1>1, <2>1, <3>3, ClaimsFinite DEF IInv, CountIsExact
  <2> QED BY <2>2, <2>3
<1>6. Bare' /\ ChainDistinct'
  BY <1>1 DEF IInv, CallsAreSound, Bare, ChainDistinct, Others, ReleaseSteps
<1>7. ASSUME NEW v \in Threads, pc'[v] \in IncSteps PROVE IncSound(v)'
  <2>1. v # t /\ pc[v] \in IncSteps /\ buf'[v] = buf[v] /\ arg'[v] = arg[v] /\ held'[v] = held[v]
    BY <1>1, <1>7 DEF Others, IncSteps
  <2>2. IncSound(v)
    BY <2>1 DEF IInv, CallsAreSound
  <2>3. a \notin held[v] /\ (arg[v] \in Buffers => arg[v] # a)
    BY <1>1, <2>1, <2>2 DEF IncSound, Owners
  <2>4. held[v] \subseteq Buffers
    BY DEF IInv, TypeOK, ThreadType
  <2>5. (buf[v] \in held[v] \/ \E c \in held[v] \ {arg[v]} : buf[v] \in AttachedBuffers[c])'
    BY <1>1, <2>1, <2>2, <2>3, <2>4 DEF IncSound
  <2>6. \A u \in Threads : pc'[u] \in IncSteps => pc[u] \in IncSteps /\ buf'[u] = buf[u] /\ arg'[u] = arg[u]
    BY <1>1 DEF Others, IncSteps
  <2> QED BY <1>1, <2>1, <2>2, <2>3, <2>5, <2>6 DEF IncSound, Owners
<1> QED BY <1>4, <1>5, <1>6, <1>7 DEF IInv, CallsAreSound

\* The end of an increment: the promise becomes a claim.
LEMMA IncBufStep ==
    ASSUME IInv, TypeOK', NEW t \in Threads, IncBuf(t)
    PROVE  IInv'
<1> DEFINE b == buf[t]
           x == arg[t]
<1>1. /\ pc[t] = "incBuf" /\ b \in Buffers /\ x \in Threads \cup Buffers
      /\ pc'[t] = "idle" /\ Others(t)
      /\ \A c \in Buffers : ReferenceCount'[c] = IF c = b THEN ReferenceCount[b] + 1 ELSE ReferenceCount[c]
      /\ \A u \in Threads : held'[u] = IF u = x THEN held[u] \cup {b} ELSE held[u]
      /\ UNCHANGED <<FreeBuffer, AttachedBuffers, chain>>
  BY DEF IncBuf, Goto, At, Idle, IInv, TypeOK, ThreadType, BufferType, CallType, IncSteps, Others, poolVars
<1>2. IncSound(t) /\ ~Unused(b)
  BY <1>1, IncAlive DEF IInv, CallsAreSound, IncSteps
<1>3. \A c, y : Promised(c, y)' <=> (Promised(c, y) /\ ~(c = b /\ y = x))
  <2>1. ASSUME NEW c, NEW y, Promised(c, y)' PROVE Promised(c, y) /\ ~(c = b /\ y = x)
    <3>1. PICK v \in Threads : pc'[v] \in IncSteps /\ buf'[v] = c /\ arg'[v] = y
      BY <2>1 DEF Promised
    <3>2. v # t /\ pc[v] \in IncSteps /\ buf[v] = c /\ arg[v] = y
      BY <1>1, <3>1 DEF Others, IncSteps
    <3>3. ~(c = b /\ y = x)
      BY <1>2, <3>2 DEF IncSound
    <3> QED BY <3>2, <3>3 DEF Promised
  <2>2. ASSUME NEW c, NEW y, Promised(c, y), ~(c = b /\ y = x) PROVE Promised(c, y)'
    BY <1>1, <2>2 DEF Promised, Others
  <2> QED BY <2>1, <2>2
<1>4. Places'
  <2>1. \A c \in Buffers : OnRing(c)' => OnRing(c)
    BY <1>1 DEF OnRing
  <2>2. \A c \in Buffers, w \in Threads : /\ Made(w, c)' => Made(w, c)
                                          /\ Releasing(w, c)' => Releasing(w, c)
    BY <1>1 DEF Made, Releasing, Others, ReleaseSteps
  <2>3. ASSUME NEW c \in Buffers, Unused(c) PROVE Unused(c)'
    <3>1. c # b
      BY <1>2, <2>3
    <3>2. ASSUME NEW u \in Threads PROVE c \notin held'[u]
      <4>1. c \notin held[u]
        BY <2>3 DEF Unused
      <4>2. held'[u] \subseteq held[u] \cup {b}
        BY <1>1
      <4> QED BY <3>1, <4>1, <4>2
    <3>3. \A a \in Buffers : c \in AttachedBuffers'[a] => Promised(c, a)'
      BY <1>1, <1>3, <2>3, <3>1 DEF Unused
    <3>4. \A u \in Threads : ~(pc'[u] \in DecSteps /\ buf'[u] = c)
      BY <1>1, <2>3 DEF Unused, Others, DecSteps
    <3> QED BY <3>2, <3>3, <3>4 DEF Unused
  <2> QED BY <1>1, <2>1, <2>2, <2>3, PlacesKept DEF IInv, Places, RingSound
<1>5. CountIsExact'
  <2> SUFFICES ASSUME NEW c \in Buffers
               PROVE  ReferenceCount'[c] = Cardinality(Owners(c)') + Cardinality(Attachers(c)')
                                             + Cardinality(Droppers(c)')
      BY DEF CountIsExact
  <2>1. Droppers(c)' = Droppers(c)
    BY <1>1 DEF Droppers, Others, DecSteps
  <2>2. CASE c # b
    <3>1. Owners(c)' = Owners(c) /\ Attachers(c)' = Attachers(c)
      BY <1>1, <1>3, <2>2 DEF Owners, Attachers
    <3> QED BY <1>1, <2>1, <2>2, <3>1 DEF IInv, CountIsExact
  <2>3. CASE c = b /\ x \in Threads
    <3>1. x \notin Owners(c) /\ Owners(c)' = Owners(c) \cup {x}
      BY <1>1, <1>2, <2>3 DEF Owners, IncSound
    <3>2. Attachers(c)' = Attachers(c)
      BY <1>1, <1>3, <2>3, NamesAssumption DEF Attachers
    <3>3. Cardinality(Owners(c)') = Cardinality(Owners(c)) + 1
      BY <3>1, ClaimsFinite, CountUp
    <3> QED BY <1>1, <2>1, <2>3, <3>2, <3>3, ClaimsFinite DEF IInv, CountIsExact
  <2>4. CASE c = b /\ x \in Buffers
    <3>1. Owners(c)' = Owners(c)
      BY <1>1, <2>4, NamesAssumption DEF Owners
    <3>2. Promised(c, x)
      BY <1>1, <2>4 DEF Promised, IncSteps
    <3>3. x \notin Attachers(c) /\ Attachers(c)' = Attachers(c) \cup {x}
      BY <1>1, <1>2, <1>3, <2>4, <3>2 DEF Attachers, IncSound
    <3>4. Cardinality(Attachers(c)') = Cardinality(Attachers(c)) + 1
      BY <3>3, ClaimsFinite, CountUp
    <3> QED BY <1>1, <2>1, <2>4, <3>1, <3>4, ClaimsFinite DEF IInv, CountIsExact
  <2> QED BY <1>1, <2>2, <2>3, <2>4
<1>6. Bare' /\ ChainDistinct'
  BY <1>1 DEF IInv, CallsAreSound, Bare, ChainDistinct, Others, ReleaseSteps
<1>7. ASSUME NEW v \in Threads, pc'[v] \in IncSteps PROVE IncSound(v)'
  <2>1. v # t /\ pc[v] \in IncSteps /\ buf'[v] = buf[v] /\ arg'[v] = arg[v] /\ held[v] \subseteq held'[v]
    BY <1>1, <1>7 DEF Others, IncSteps
  <2>2. IncSound(v)
    BY <2>1 DEF IInv, CallsAreSound
  <2>3. ~(buf[v] = b /\ arg[v] = x)
    BY <1>1, <1>2, <2>1 DEF IncSound
  <2>4. arg[v] \in Threads => buf[v] \notin held'[arg[v]]
    BY <1>1, <2>2, <2>3 DEF IncSound
  <2>5. ASSUME arg[v] \in Buffers PROVE Owners(arg[v])' = Owners(arg[v])
    <3>1. Owners(arg[v]) = {v}
      BY <2>2, <2>5 DEF IncSound
    <3>2. x \in Threads => arg[v] # b
      BY <1>1, <1>2, <2>1, <3>1 DEF IncSound, Owners
    <3>3. x \in Threads => \A u \in Threads : arg[v] \in held'[u] <=> arg[v] \in held[u]
      BY <1>1, <3>2
    <3>4. x \notin Threads => \A u \in Threads : held'[u] = held[u]
      BY <1>1
    <3> QED BY <2>1, <3>3, <3>4 DEF Owners
  <2>6. \A u \in Threads : pc'[u] \in IncSteps => pc[u] \in IncSteps /\ buf'[u] = buf[u] /\ arg'[u] = arg[u]
    BY <1>1 DEF Others, IncSteps
  <2> QED BY <1>1, <2>1, <2>2, <2>4, <2>5, <2>6 DEF IncSound
<1> QED BY <1>4, <1>5, <1>6, <1>7 DEF IInv, CallsAreSound

-----------------------------------------------------------------------------
(* Buffers that are released *)

\* One turn of the loop of ReleaseBuffer: an attachment becomes a reference that
\* is being dropped, and the release waits for it.
LEMMA RelDetachStep ==
    ASSUME IInv, TypeOK', NEW t \in Threads, RelDetach(t)
    PROVE  IInv'
<1> DEFINE a == buf[t]
<1>1. PICK b \in AttachedBuffers[a] :
          /\ AttachedBuffers' = [AttachedBuffers EXCEPT ![a] = @ \ {b}]
          /\ chain' = [chain EXCEPT ![t] = Append(@, a)]
          /\ Goto(t, "decPool", b, None)
  BY DEF RelDetach
<1>2. /\ pc[t] = "relDetach" /\ a \in Buffers
      /\ UNCHANGED <<FreeBuffer, ReferenceCount, held>>
  BY DEF RelDetach, At, poolVars, IInv, TypeOK, CallType, ReleaseSteps
<1>3. /\ b \in Buffers
      /\ pc'[t] = "decPool" /\ buf'[t] = b /\ Others(t)
      /\ \A c \in Buffers : AttachedBuffers'[c] = IF c = a THEN AttachedBuffers[a] \ {b}
                                                          ELSE AttachedBuffers[c]
      /\ chain'[t] = Append(chain[t], a)
      /\ \A u \in Threads \ {t} : chain'[u] = chain[u]
      /\ chain[t] \in Seq(Buffers)
  BY <1>1, <1>2 DEF Goto, IInv, TypeOK, ThreadType, BufferType, Others
<1>4. /\ Elements(chain'[t]) = Elements(chain[t]) \cup {a}
      /\ Distinct(chain[t]) /\ a \notin Elements(chain[t]) => Distinct(chain'[t])
  BY <1>2, <1>3, AppendFacts
<1>5. Unused(a)
  BY <1>2 DEF IInv, Places, ReleasedUnused, Releasing, ReleaseSteps
<1>6. ~Promised(b, a) /\ \A u \in Threads : a \notin held[u]
  BY <1>2, <1>3, <1>5, NotPromised DEF Unused
<1>7. \A c, x : Promised(c, x)' <=> Promised(c, x)
  BY <1>2, <1>3 DEF Promised, Others, IncSteps
<1>8. Places'
  <2>1. \A c \in Buffers : OnRing(c)' => OnRing(c)
    BY <1>2 DEF OnRing
  <2>2. \A c \in Buffers, w \in Threads : Made(w, c)' => Made(w, c)
    BY <1>3 DEF Made, Others
  <2>3. ASSUME NEW c \in Buffers, NEW w \in Threads, Releasing(w, c)' PROVE Releasing(w, c)
    BY <1>2, <1>3, <1>4, <2>3 DEF Releasing, Others, ReleaseSteps
  <2>4. \A c \in Buffers : Unused(c) => Unused(c)'
    BY <1>2, <1>3, <1>6, <1>7 DEF Unused, Others
  <2> QED BY <1>2, <2>1, <2>2, <2>3, <2>4, PlacesKept DEF IInv, Places, RingSound
<1>9. CountIsExact'
  <2> SUFFICES ASSUME NEW c \in Buffers
               PROVE  ReferenceCount'[c] = Cardinality(Owners(c)') + Cardinality(Attachers(c)')
                                             + Cardinality(Droppers(c)')
      BY DEF CountIsExact
  <2>1. Owners(c)' = Owners(c)
    BY <1>2 DEF Owners
  <2>2. CASE c # b
    <3>1. Attachers(c)' = Attachers(c)
      BY <1>3, <1>7, <2>2 DEF Attachers
    <3>2. Droppers(c)' = Droppers(c)
      BY <1>2, <1>3, <2>2 DEF Droppers, Others, DecSteps
    <3> QED BY <1>2, <2>1, <3>1, <3>2 DEF IInv, CountIsExact
  <2>3. CASE c = b
    <3>1. a \in Attachers(c) /\ Attachers(c)' = Attachers(c) \ {a}
      BY <1>1, <1>2, <1>3, <1>6, <1>7, <2>3 DEF Attachers
    <3>2. t \notin Droppers(c) /\ Droppers(c)' = Droppers(c) \cup {t}
      BY <1>2, <1>3, <2>3 DEF Droppers, Others, DecSteps
    <3>3. /\ Cardinality(Attachers(c)') = Cardinality(Attachers(c)) - 1
          /\ Cardinality(Droppers(c)') = Cardinality(Droppers(c)) + 1
      BY <3>1, <3>2, ClaimsFinite, CountUp, CountDown
    <3> QED BY <1>2, <2>1, <3>3, ClaimsFinite DEF IInv, CountIsExact
  <2> QED BY <2>2, <2>3
<1>10. Bare'
  BY <1>2, <1>3 DEF IInv, CallsAreSound, Bare, Others
<1>11. ChainDistinct'
  <2>1. \A u \in Threads : Distinct(chain[u]) /\ (pc[u] \in ReleaseSteps => buf[u] \notin Elements(chain[u]))
    BY DEF IInv, CallsAreSound, ChainDistinct, Distinct
  <2>2. ASSUME NEW u \in Threads
        PROVE  Distinct(chain'[u]) /\ (pc'[u] \in ReleaseSteps => buf'[u] \notin Elements(chain'[u]))
    BY <1>2, <1>3, <1>4, <2>1 DEF Others, ReleaseSteps
  <2> QED BY <2>2 DEF ChainDistinct, Distinct, Elements
<1>12. ASSUME NEW v \in Threads, pc'[v] \in IncSteps PROVE IncSound(v)'
  <2>1. v # t /\ pc[v] \in IncSteps /\ buf'[v] = buf[v] /\ arg'[v] = arg[v] /\ held'[v] = held[v]
    BY <1>2, <1>3, <1>12 DEF Others, IncSteps
  <2>2. IncSound(v)
    BY <2>1 DEF IInv, CallsAreSound
  <2>3. a \notin held[v] /\ (arg[v] \in Buffers => arg[v] # a)
    BY <1>6, <2>2 DEF IncSound, Owners
  <2>4. held[v] \subseteq Buffers
    BY DEF IInv, TypeOK, ThreadType
  <2>5. (buf[v] \in held[v] \/ \E c \in held[v] \ {arg[v]} : buf[v] \in AttachedBuffers[c])'
    BY <1>3, <2>1, <2>2, <2>3, <2>4 DEF IncSound
  <2>6. \A u \in Threads : pc'[u] \in IncSteps => pc[u] \in IncSteps /\ buf'[u] = buf[u] /\ arg'[u] = arg[u]
    BY <1>3 DEF Others, IncSteps
  <2> QED BY <1>2, <1>3, <2>1, <2>2, <2>3, <2>5, <2>6 DEF IncSound, Owners
<1> QED BY <1>8, <1>9, <1>10, <1>11, <1>12 DEF IInv, CallsAreSound

\* The end of a call inside ReleaseBuffer: the innermost release goes on.
LEMMA ReturnFacts ==
    ASSUME IInv, NEW t \in Threads, Return(t)
    PROVE  /\ Others(t) /\ \A u \in Threads \ {t} : chain'[u] = chain[u]
           /\ pc'[t] \in {"idle", "relDetach"}
           /\ \A b \in Buffers : Releasing(t, b)' <=> b \in Elements(chain[t])
           /\ Distinct(chain'[t])
           /\ pc'[t] \in ReleaseSteps => buf'[t] \notin Elements(chain'[t])
<1>1. /\ Distinct(chain[t]) /\ chain[t] \in Seq(Buffers)
      /\ pc[t] \in Steps
  BY DEF IInv, CallsAreSound, ChainDistinct, Distinct, TypeOK, ThreadType
<1>2. CASE chain[t] = <<>>
  <2>1. pc'[t] = "idle" /\ Others(t) /\ chain' = chain
    BY <1>2 DEF Return, Goto, Idle, Others, IInv, TypeOK, ThreadType
  <2>2. Elements(chain[t]) = {}
    BY <1>2 DEF Elements
  <2>3. \A b \in Buffers : ~Releasing(t, b)'
    BY <2>1, <2>2 DEF Releasing, ReleaseSteps, Elements
  <2> QED BY <1>1, <2>1, <2>2, <2>3 DEF ReleaseSteps
<1>3. CASE chain[t] # <<>>
  <2> DEFINE last  == chain[t][Len(chain[t])]
             front == SubSeq(chain[t], 1, Len(chain[t]) - 1)
  <2>1. Elements(chain[t]) = Elements(front) \cup {last} /\ Distinct(front) /\ last \notin Elements(front)
    BY <1>1, <1>3, FrontFacts
  <2>2. Goto(t, "relDetach", last, None) /\ chain' = [chain EXCEPT ![t] = front]
    BY <1>3 DEF Return
  <2> HIDE DEF last, front
  <2>3. /\ pc'[t] = "relDetach" /\ buf'[t] = last /\ Others(t)
        /\ chain'[t] = front /\ \A u \in Threads \ {t} : chain'[u] = chain[u]
    BY <2>2 DEF Goto, Others, IInv, TypeOK, ThreadType
  <2>4. Elements(chain[t])' = Elements(front)
    BY <2>3 DEF Elements
  <2>5. \A b \in Buffers : Releasing(t, b)' <=> b \in Elements(chain[t])
    BY <2>1, <2>3, <2>4 DEF Releasing, ReleaseSteps
  <2> QED BY <2>1, <2>3, <2>4, <2>5
<1> QED BY <1>2, <1>3

\* A reference is gone; if it was the last one, the release begins.
LEMMA DecBufStep ==
    ASSUME IInv, TypeOK', NEW t \in Threads, DecBuf(t)
    PROVE  IInv'
<1>0. PICK b \in Buffers : b = buf[t]
  BY DEF DecBuf, At, IInv, TypeOK, CallType, DecSteps
<1>1. /\ pc[t] = "decBuf" /\ b = buf[t] /\ b \in Buffers
      /\ \A c \in Buffers : ReferenceCount'[c] = IF c = b THEN ReferenceCount[b] - 1 ELSE ReferenceCount[c]
      /\ UNCHANGED <<FreeBuffer, AttachedBuffers, held>>
  BY <1>0 DEF DecBuf, At, poolVars, IInv, TypeOK, BufferType
<1>2. /\ Others(t) /\ \A u \in Threads \ {t} : chain'[u] = chain[u]
      /\ \/ pc'[t] = "relLock" /\ buf'[t] = b /\ chain' = chain /\ ReferenceCount[b] = 1
         \/ pc'[t] \in {"idle", "relDetach"}
  <2>1. CASE IsLast(b)
    <3>1. Goto(t, "relLock", b, None) /\ chain' = chain
      BY <1>0, <2>1 DEF DecBuf
    <3> QED BY <2>1, <3>1 DEF Goto, IsLast, Others, IInv, TypeOK, ThreadType
  <2>2. CASE ~IsLast(b)
    BY <1>0, <2>2, ReturnFacts DEF DecBuf
  <2> QED BY <2>1, <2>2
<1>3. /\ t \in Droppers(b) /\ ~Unused(b)
      /\ \A u \in Threads : ~Releasing(u, b) /\ ~Made(u, b)
      /\ ~OnRing(b)
  <2>1. t \in Droppers(b) /\ ~Unused(b)
    BY <1>1 DEF Droppers, Unused, DecSteps
  <2> QED BY <1>1, <2>1 DEF IInv, Places, FreeUnused, ReleasedUnused, MadeUnused
<1>4. \A c, x : Promised(c, x)' <=> Promised(c, x)
  BY <1>1, <1>2 DEF Promised, Others, IncSteps
<1>5. \A c \in Buffers : Unused(c) => Unused(c)'
  BY <1>1, <1>2, <1>4 DEF Unused, Others, DecSteps
<1>6. Droppers(b)' = Droppers(b) \ {t} /\ \A c \in Buffers \ {b} : Droppers(c)' = Droppers(c)
  BY <1>1, <1>2 DEF Droppers, Others, DecSteps
<1>7. \A c \in Buffers : Owners(c)' = Owners(c) /\ Attachers(c)' = Attachers(c)
  BY <1>1, <1>4 DEF Owners, Attachers
<1>8. CountIsExact'
  <2> SUFFICES ASSUME NEW c \in Buffers
               PROVE  ReferenceCount'[c] = Cardinality(Owners(c)') + Cardinality(Attachers(c)')
                                             + Cardinality(Droppers(c)')
      BY DEF CountIsExact
  <2>1. CASE c # b
    BY <1>1, <1>6, <1>7, <2>1 DEF IInv, CountIsExact
  <2>2. CASE c = b
    <3>1. Cardinality(Droppers(c)') = Cardinality(Droppers(c)) - 1
      BY <1>3, <1>6, <2>2, ClaimsFinite, CountDown
    <3> QED BY <1>1, <1>7, <2>2, <3>1, ClaimsFinite DEF IInv, CountIsExact
  <2> QED BY <2>1, <2>2
<1>9. \A u \in Threads, c \in Buffers : Made(u, c)' => Made(u, c)
  BY <1>1, <1>2 DEF Made, Others
<1>10. \A c \in Buffers : OnRing(c)' <=> OnRing(c)
  BY <1>1 DEF OnRing
<1>11. RingSound'
  BY <1>1 DEF IInv, Places, RingSound
<1>12. Places' /\ ChainDistinct'
  <2>1. \A u \in Threads : Distinct(chain[u]) /\ (pc[u] \in ReleaseSteps => buf[u] \notin Elements(chain[u]))
    BY DEF IInv, CallsAreSound, ChainDistinct, Distinct
  <2>2. CASE IsLast(b)
    <3>1. /\ pc'[t] = "relLock" /\ buf'[t] = b /\ chain' = chain /\ ReferenceCount[b] = 1
      BY <1>0, <2>2 DEF DecBuf, Goto, IsLast, IInv, TypeOK, ThreadType
    <3>2. \A u \in Threads, c \in Buffers :
             Releasing(u, c)' <=> (Releasing(u, c) \/ (u = t /\ c = b))
      BY <1>1, <1>2, <3>1 DEF Releasing, Others, ReleaseSteps
    <3>3. Owners(b) = {} /\ Attachers(b) = {} /\ Droppers(b) = {t}
      <4>1. Cardinality(Owners(b)) + Cardinality(Attachers(b)) + Cardinality(Droppers(b)) = 1
        BY <1>1, <3>1 DEF IInv, CountIsExact
      <4>2. Cardinality(Droppers(b) \ {t}) = Cardinality(Droppers(b)) - 1
            /\ IsFiniteSet(Droppers(b) \ {t})
        BY <1>1, <1>3, ClaimsFinite, CountDown, FS_RemoveElement
      <4>3. Cardinality(Droppers(b) \ {t}) \in Nat
        BY <4>2, FS_CardinalityType
      <4>4. /\ Cardinality(Owners(b)) = 0 /\ Cardinality(Attachers(b)) = 0
            /\ Cardinality(Droppers(b) \ {t}) = 0
        <5>1. /\ Cardinality(Owners(b)) \in Nat /\ Cardinality(Attachers(b)) \in Nat
              /\ Cardinality(Droppers(b)) \in Nat
          BY <1>1, ClaimsFinite
        <5> QED BY <4>1, <4>2, <4>3, <5>1
      <4>5. Owners(b) = {} /\ Attachers(b) = {} /\ Droppers(b) \ {t} = {}
        <5>1. IsFiniteSet(Owners(b)) /\ IsFiniteSet(Attachers(b))
          BY <1>1, ClaimsFinite
        <5>2. \A S : IsFiniteSet(S) /\ Cardinality(S) = 0 => S = {}
          BY FS_EmptySet
        <5> QED BY <4>2, <4>4, <5>1, <5>2
      <4> QED BY <1>3, <4>5
    <3>4. Unused(b)'
      <4>1. Owners(b)' = {} /\ Attachers(b)' = {} /\ Droppers(b)' = {}
        BY <1>1, <1>6, <1>7, <3>3
      <4> QED BY <4>1 DEF Unused, Owners, Attachers, Droppers
    <3>5. Places'
      BY <1>3, <1>5, <1>9, <1>10, <1>11, <3>2, <3>4
         DEF IInv, Places, FreeUnused, ReleasedUnused, MadeUnused
    <3>6. b \notin Elements(chain[t])
      BY <1>1, <1>3 DEF Releasing
    <3>7. ASSUME NEW u \in Threads
          PROVE  Distinct(chain'[u]) /\ (pc'[u] \in ReleaseSteps => buf'[u] \notin Elements(chain'[u]))
      BY <1>2, <2>1, <3>1, <3>6 DEF Others
    <3> QED BY <3>5, <3>7 DEF ChainDistinct, Distinct, Elements
  <2>3. CASE ~IsLast(b)
    <3>1. Return(t)
      BY <1>0, <2>3 DEF DecBuf
    <3>2. \A u \in Threads, c \in Buffers : Releasing(u, c)' => Releasing(u, c)
      <4>1. \A c \in Buffers : Releasing(t, c)' => Releasing(t, c)
        BY <3>1, ReturnFacts DEF Releasing
      <4>2. \A u \in Threads \ {t}, c \in Buffers : Releasing(u, c)' => Releasing(u, c)
        BY <1>2 DEF Releasing, Others
      <4> QED BY <4>1, <4>2
    <3>3. Places'
      BY <1>5, <1>9, <1>10, <1>11, <3>2, PlacesKept DEF IInv
    <3>4. ASSUME NEW u \in Threads
          PROVE  Distinct(chain'[u]) /\ (pc'[u] \in ReleaseSteps => buf'[u] \notin Elements(chain'[u]))
      <4>1. CASE u = t
        BY <3>1, <4>1, ReturnFacts
      <4>2. CASE u # t
        BY <1>2, <2>1, <4>2 DEF Others
      <4> QED BY <4>1, <4>2
    <3> QED BY <3>3, <3>4 DEF ChainDistinct, Distinct, Elements
  <2> QED BY <2>2, <2>3
<1>13. Bare'
  BY <1>1, <1>2 DEF IInv, CallsAreSound, Bare, Others
<1>14. ASSUME NEW v \in Threads, pc'[v] \in IncSteps PROVE IncSound(v)'
  <2>1. v # t /\ pc[v] \in IncSteps /\ buf'[v] = buf[v] /\ arg'[v] = arg[v]
    BY <1>2, <1>14 DEF Others, IncSteps
  <2>2. IncSound(v)
    BY <2>1 DEF IInv, CallsAreSound
  <2>3. \A u \in Threads : pc'[u] \in IncSteps => pc[u] \in IncSteps /\ buf'[u] = buf[u] /\ arg'[u] = arg[u]
    BY <1>2 DEF Others, IncSteps
  <2> QED BY <1>1, <2>1, <2>2, <2>3 DEF IncSound, Owners
<1> QED BY <1>8, <1>12, <1>13, <1>14 DEF IInv, CallsAreSound

\* The buffer goes back to the ring of its pool.
LEMMA RelFreeStep ==
    ASSUME IInv, TypeOK', NEW t \in Threads, RelFree(t)
    PROVE  IInv'
<1>0. PICK b \in Buffers : b = buf[t]
  BY DEF RelFree, At, IInv, TypeOK, CallType, ReleaseSteps
<1> DEFINE p == PoolOf[b]
<1>1. /\ pc[t] = "relFree" /\ b = buf[t] /\ p \in Pools
      /\ FreeBuffer[p] \in Seq(Buffers)
      /\ FreeBuffer'[p] = Append(FreeBuffer[p], b)
      /\ \A q \in Pools \ {p} : FreeBuffer'[q] = FreeBuffer[q]
      /\ UNCHANGED <<ReferenceCount, AttachedBuffers, held>>
  BY <1>0, BuffersAssumption DEF RelFree, InsertFree, At, bufferVars, IInv, TypeOK, PoolType
<1>2. /\ Others(t) /\ \A u \in Threads \ {t} : chain'[u] = chain[u]
      /\ pc'[t] \in {"idle", "relDetach"}
      /\ \A c \in Buffers : Releasing(t, c)' <=> c \in Elements(chain[t])
      /\ Distinct(chain'[t])
      /\ pc'[t] \in ReleaseSteps => buf'[t] \notin Elements(chain'[t])
  BY ReturnFacts DEF RelFree
<1>3. /\ Releasing(t, b) /\ Unused(b) /\ ~OnRing(b)
      /\ \A u \in Threads : ~Made(u, b) /\ (Releasing(u, b) => u = t)
      /\ b \notin Elements(chain[t]) /\ AttachedBuffers[b] = {}
  <2>1. Releasing(t, b)
    BY <1>1 DEF Releasing, ReleaseSteps
  <2>2. b \notin Elements(chain[t]) /\ AttachedBuffers[b] = {}
    BY <1>1 DEF IInv, CallsAreSound, ChainDistinct, Bare, ReleaseSteps
  <2> QED BY <2>1, <2>2 DEF IInv, Places, FreeUnused, ReleasedUnused
<1>4. /\ Elements(FreeBuffer'[p]) = Elements(FreeBuffer[p]) \cup {b}
      /\ Distinct(FreeBuffer[p]) /\ b \notin Elements(FreeBuffer[p]) => Distinct(FreeBuffer'[p])
  BY <1>0, <1>1, AppendFacts
<1>5. \A c, x : Promised(c, x)' <=> Promised(c, x)
  BY <1>1, <1>2 DEF Promised, Others, IncSteps
<1>6. \A c \in Buffers : Unused(c)' <=> Unused(c)
  BY <1>1, <1>2, <1>5 DEF Unused, Others, DecSteps
<1>7. \A u \in Threads, c \in Buffers : Made(u, c)' <=> Made(u, c)
  BY <1>1, <1>2 DEF Made, Others
<1>8. \A u \in Threads, c \in Buffers : Releasing(u, c)' => Releasing(u, c) /\ c # b
  <2>1. \A c \in Buffers : Releasing(t, c)' => Releasing(t, c) /\ c # b
    BY <1>2, <1>3 DEF Releasing
  <2>2. ASSUME NEW u \in Threads \ {t}, NEW c \in Buffers, Releasing(u, c)'
        PROVE  Releasing(u, c) /\ c # b
    <3>1. Releasing(u, c)
      BY <1>2, <2>2 DEF Releasing, Others
    <3> QED BY <1>3, <3>1
  <2> QED BY <2>1, <2>2
<1>9. \A c \in Buffers : OnRing(c)' <=> (OnRing(c) \/ c = b)
  <2>1. ASSUME NEW c \in Buffers PROVE OnRing(c)' <=> (OnRing(c) \/ c = b)
    <3>1. PoolOf[c] \in Pools
      BY BuffersAssumption
    <3>2. CASE PoolOf[c] = p
      BY <1>4, <3>2 DEF OnRing, Elements
    <3>3. CASE PoolOf[c] # p
      BY <1>1, <3>1, <3>3 DEF OnRing
    <3> QED BY <3>2, <3>3
  <2> QED BY <2>1
<1>10. RingSound'
  <2>1. ASSUME NEW q \in Pools
        PROVE  Distinct(FreeBuffer[q]) /\ \A c \in Elements(FreeBuffer[q]) : PoolOf[c] = q
    BY DEF IInv, Places, RingSound, Distinct, Elements
  <2>2. ASSUME NEW q \in Pools
        PROVE  Distinct(FreeBuffer'[q]) /\ \A c \in Elements(FreeBuffer'[q]) : PoolOf[c] = q
    <3>1. CASE q = p
      BY <1>3, <1>4, <2>1, <3>1 DEF OnRing
    <3>2. CASE q # p
      BY <1>1, <2>1, <3>2
    <3> QED BY <3>1, <3>2
  <2> QED BY <2>2 DEF RingSound, Distinct, Elements
<1>11. Places'
  <2>1. FreeUnused'
    BY <1>3, <1>6, <1>7, <1>8, <1>9 DEF FreeUnused, IInv, Places
  <2>2. ReleasedUnused' /\ MadeUnused'
    BY <1>6, <1>7, <1>8 DEF ReleasedUnused, MadeUnused, IInv, Places
  <2> QED BY <1>10, <2>1, <2>2 DEF Places
<1>12. CountIsExact'
  <2> SUFFICES ASSUME NEW c \in Buffers
               PROVE  /\ Owners(c)' = Owners(c)
                      /\ Attachers(c)' = Attachers(c)
                      /\ Droppers(c)' = Droppers(c)
      BY <1>1 DEF CountIsExact, IInv
  <2>1. Owners(c)' = Owners(c) /\ Attachers(c)' = Attachers(c)
    BY <1>1, <1>5 DEF Owners, Attachers
  <2>2. Droppers(c)' = Droppers(c)
    BY <1>1, <1>2 DEF Droppers, Others, DecSteps
  <2> QED BY <2>1, <2>2
<1>13. Bare'
  <2> SUFFICES ASSUME NEW c \in Buffers,
                      OnRing(c)' \/ \E u \in Threads : pc'[u] \in {"getInit", "relFree"} /\ buf'[u] = c
               PROVE  AttachedBuffers'[c] = {}
      BY DEF Bare, OnRing
  <2>1. CASE c = b
    BY <1>1, <1>3, <2>1
  <2>2. CASE c # b
    <3>1. OnRing(c) \/ \E u \in Threads : pc[u] \in {"getInit", "relFree"} /\ buf[u] = c
      BY <1>2, <1>9, <2>2 DEF Others
    <3> QED BY <1>1, <3>1 DEF IInv, CallsAreSound, Bare, OnRing
  <2> QED BY <2>1, <2>2
<1>14. ChainDistinct'
  <2>1. ASSUME NEW u \in Threads
        PROVE  Distinct(chain'[u]) /\ (pc'[u] \in ReleaseSteps => buf'[u] \notin Elements(chain'[u]))
    <3>1. CASE u = t
      BY <1>2, <3>1
    <3>2. CASE u # t
      BY <1>2, <3>2 DEF IInv, CallsAreSound, ChainDistinct, Distinct, Others
    <3> QED BY <3>1, <3>2
  <2> QED BY <2>1 DEF ChainDistinct, Distinct, Elements
<1>15. ASSUME NEW v \in Threads, pc'[v] \in IncSteps PROVE IncSound(v)'
  <2>1. v # t /\ pc[v] \in IncSteps /\ buf'[v] = buf[v] /\ arg'[v] = arg[v]
    BY <1>2, <1>15 DEF Others, IncSteps
  <2>2. IncSound(v)
    BY <2>1 DEF IInv, CallsAreSound
  <2>3. \A u \in Threads : pc'[u] \in IncSteps => pc[u] \in IncSteps /\ buf'[u] = buf[u] /\ arg'[u] = arg[u]
    BY <1>2 DEF Others, IncSteps
  <2> QED BY <1>1, <2>1, <2>2, <2>3 DEF IncSound, Owners
<1> QED BY <1>11, <1>12, <1>13, <1>14, <1>15 DEF IInv, CallsAreSound

-----------------------------------------------------------------------------
(* Buffers that are handed out *)

\* The first buffer of the ring is taken.
LEMMA GetTakeStep ==
    ASSUME IInv, TypeOK', NEW t \in Threads, pc[t] = "getTry", FreeBuffer[arg[t]] # <<>>,
           FreeBuffer' = [FreeBuffer EXCEPT ![arg[t]] = Tail(@)],
           Goto(t, "getInit", Head(FreeBuffer[arg[t]]), None),
           UNCHANGED <<bufferVars, held, chain>>
    PROVE  IInv'
<1>0. PICK p \in Pools : p = arg[t]
  BY DEF IInv, TypeOK, CallType, GetSteps
<1>1. PICK b : b = Head(FreeBuffer[p])
  OBVIOUS
<1>2. /\ FreeBuffer[p] \in Seq(Buffers) /\ FreeBuffer[p] # <<>>
      /\ FreeBuffer'[p] = Tail(FreeBuffer[p])
      /\ \A q \in Pools \ {p} : FreeBuffer'[q] = FreeBuffer[q]
      /\ pc'[t] = "getInit" /\ buf'[t] = b /\ Others(t)
      /\ UNCHANGED <<ReferenceCount, AttachedBuffers, held, chain>>
  BY <1>0, <1>1 DEF IInv, TypeOK, PoolType, ThreadType, Goto, Others, bufferVars
<1>3. /\ b \in Elements(FreeBuffer[p])
      /\ Elements(FreeBuffer'[p]) \subseteq Elements(FreeBuffer[p]) \ {b}
      /\ Distinct(FreeBuffer'[p])
  <2>1. Distinct(FreeBuffer[p])
    BY DEF IInv, Places, RingSound, Distinct
  <2> QED BY <1>1, <1>2, <2>1, TailFacts
<1>4. b \in Buffers /\ PoolOf[b] = p /\ OnRing(b)
  <2>1. b \in Buffers
    BY <1>2, <1>3 DEF Elements
  <2>2. PoolOf[b] = p
    BY <1>3 DEF Elements, IInv, Places, RingSound
  <2> QED BY <1>3, <2>1, <2>2 DEF OnRing
<1>5. \A c, x : Promised(c, x)' <=> Promised(c, x)
  BY <1>2 DEF Promised, Others, IncSteps
<1>6. \A c \in Buffers : Unused(c)' <=> Unused(c)
  BY <1>2, <1>5 DEF Unused, Others, DecSteps
<1>7. \A u \in Threads, c \in Buffers : Made(u, c)' => Made(u, c) \/ (u = t /\ c = b)
  BY <1>2 DEF Made, Others
<1>8. \A u \in Threads, c \in Buffers : Releasing(u, c)' => Releasing(u, c)
  BY <1>2 DEF Releasing, Others, ReleaseSteps
<1>9. ASSUME NEW c \in Buffers, OnRing(c)' PROVE OnRing(c) /\ c # b
  <2>1. PoolOf[c] \in Pools
    BY BuffersAssumption
  <2>2. CASE PoolOf[c] = p
    BY <1>3, <1>9, <2>2 DEF OnRing, Elements
  <2>3. CASE PoolOf[c] # p
    BY <1>2, <1>4, <1>9, <2>1, <2>3 DEF OnRing
  <2> QED BY <2>2, <2>3
<1>10. RingSound'
  <2>1. ASSUME NEW q \in Pools
        PROVE  Distinct(FreeBuffer[q]) /\ \A c \in Elements(FreeBuffer[q]) : PoolOf[c] = q
    BY DEF IInv, Places, RingSound, Distinct, Elements
  <2>2. ASSUME NEW q \in Pools
        PROVE  Distinct(FreeBuffer'[q]) /\ \A c \in Elements(FreeBuffer'[q]) : PoolOf[c] = q
    <3>1. CASE q = p
      BY <1>3, <2>1, <3>1
    <3>2. CASE q # p
      BY <1>2, <2>1, <3>2
    <3> QED BY <3>1, <3>2
  <2> QED BY <2>2 DEF RingSound, Distinct, Elements
<1>11. Places'
  <2>1. Unused(b) /\ \A u \in Threads : ~Made(u, b) /\ ~Releasing(u, b)
    BY <1>4 DEF IInv, Places, FreeUnused
  <2>2. FreeUnused'
    BY <1>6, <1>7, <1>8, <1>9 DEF FreeUnused, IInv, Places
  <2>3. ReleasedUnused'
    BY <1>6, <1>7, <1>8, <2>1 DEF ReleasedUnused, IInv, Places
  <2>4. MadeUnused'
    BY <1>6, <1>7, <2>1 DEF MadeUnused, IInv, Places
  <2> QED BY <1>10, <2>2, <2>3, <2>4 DEF Places
<1>12. CountIsExact'
  <2> SUFFICES ASSUME NEW c \in Buffers
               PROVE  /\ Owners(c)' = Owners(c)
                      /\ Attachers(c)' = Attachers(c)
                      /\ Droppers(c)' = Droppers(c)
      BY <1>2 DEF CountIsExact, IInv
  <2>1. Owners(c)' = Owners(c) /\ Attachers(c)' = Attachers(c)
    BY <1>2, <1>5 DEF Owners, Attachers
  <2>2. Droppers(c)' = Droppers(c)
    BY <1>2 DEF Droppers, Others, DecSteps
  <2> QED BY <2>1, <2>2
<1>13. Bare'
  <2> SUFFICES ASSUME NEW c \in Buffers,
                      OnRing(c)' \/ \E u \in Threads : pc'[u] \in {"getInit", "relFree"} /\ buf'[u] = c
               PROVE  AttachedBuffers'[c] = {}
      BY DEF Bare, OnRing
  <2>1. OnRing(c) \/ \E u \in Threads : pc[u] \in {"getInit", "relFree"} /\ buf[u] = c
    BY <1>2, <1>4, <1>9 DEF Others
  <2> QED BY <1>2, <2>1 DEF IInv, CallsAreSound, Bare, OnRing
<1>14. ChainDistinct'
  BY <1>2 DEF IInv, CallsAreSound, ChainDistinct, Others, ReleaseSteps
<1>15. ASSUME NEW v \in Threads, pc'[v] \in IncSteps PROVE IncSound(v)'
  <2>1. v # t /\ pc[v] \in IncSteps /\ buf'[v] = buf[v] /\ arg'[v] = arg[v]
    BY <1>2, <1>15 DEF Others, IncSteps
  <2>2. IncSound(v)
    BY <2>1 DEF IInv, CallsAreSound
  <2>3. \A u \in Threads : pc'[u] \in IncSteps => pc[u] \in IncSteps /\ buf'[u] = buf[u] /\ arg'[u] = arg[u]
    BY <1>2 DEF Others, IncSteps
  <2> QED BY <1>2, <2>1, <2>2, <2>3 DEF IncSound, Owners
<1> QED BY <1>11, <1>12, <1>13, <1>14, <1>15 DEF IInv, CallsAreSound

\* The buffer gets its first owner.
LEMMA GetInitStep ==
    ASSUME IInv, TypeOK', NEW t \in Threads, GetInit(t)
    PROVE  IInv'
<1>0. PICK b \in Buffers : b = buf[t]
  BY DEF GetInit, At, IInv, TypeOK, CallType, NewSteps
<1>1. /\ pc[t] = "getInit" /\ Made(t, b) /\ Unused(b) /\ AttachedBuffers[b] = {}
      /\ ~OnRing(b)
      /\ \A u \in Threads : ~Releasing(u, b) /\ (Made(u, b) => u = t)
  <2>1. pc[t] = "getInit" /\ Made(t, b)
    BY <1>0 DEF GetInit, At, Made
  <2>2. AttachedBuffers[b] = {}
    BY <1>0, <2>1 DEF IInv, CallsAreSound, Bare
  <2> QED BY <2>1, <2>2 DEF IInv, Places, FreeUnused, ReleasedUnused, MadeUnused
<1>2. /\ pc'[t] = "getCount" /\ buf'[t] = b /\ Others(t)
      /\ held'[t] = held[t] \cup {b} /\ \A u \in Threads \ {t} : held'[u] = held[u]
      /\ ReferenceCount'[b] = 1
      /\ \A c \in Buffers \ {b} : ReferenceCount'[c] = ReferenceCount[c]
      /\ UNCHANGED <<FreeBuffer, chain>>
  BY <1>0 DEF GetInit, Goto, Others, poolVars, IInv, TypeOK, BufferType, ThreadType
<1>3. AttachedBuffers' = AttachedBuffers
  BY <1>0, <1>1 DEF GetInit, IInv, TypeOK, BufferType
<1>4. \A c, x : Promised(c, x)' <=> Promised(c, x)
  BY <1>1, <1>2 DEF Promised, Others, IncSteps
<1>5. \A c \in Buffers \ {b} : Unused(c) => Unused(c)'
  BY <1>1, <1>2, <1>3, <1>4 DEF Unused, Others, DecSteps
<1>6. \A u \in Threads, c \in Buffers : /\ Made(u, c)' => Made(u, c) /\ u # t
                                        /\ Releasing(u, c)' => Releasing(u, c)
  BY <1>1, <1>2 DEF Made, Releasing, Others, ReleaseSteps
<1>7. \A c \in Buffers : OnRing(c)' <=> OnRing(c)
  BY <1>2 DEF OnRing
<1>8. Places'
  <2>1. RingSound'
    BY <1>2 DEF IInv, Places, RingSound
  <2> QED BY <1>1, <1>5, <1>6, <1>7, <2>1, PlacesKept DEF IInv
<1>9. CountIsExact'
  <2> SUFFICES ASSUME NEW c \in Buffers
               PROVE  ReferenceCount'[c] = Cardinality(Owners(c)') + Cardinality(Attachers(c)')
                                             + Cardinality(Droppers(c)')
      BY DEF CountIsExact
  <2>1. Attachers(c)' = Attachers(c)
    BY <1>3, <1>4 DEF Attachers
  <2>2. Droppers(c)' = Droppers(c)
    BY <1>1, <1>2 DEF Droppers, Others, DecSteps
  <2>3. CASE c # b
    <3>1. Owners(c)' = Owners(c)
      BY <1>2, <2>3 DEF Owners
    <3> QED BY <1>2, <2>1, <2>2, <2>3, <3>1 DEF IInv, CountIsExact
  <2>4. CASE c = b
    <3>1. Owners(c)' = {t}
      BY <1>1, <1>2, <2>4 DEF Unused, Owners
    <3>2. Attachers(c) = {} /\ Droppers(c) = {}
      BY <1>1, <2>4 DEF Unused, Attachers, Droppers
    <3>3. Cardinality(Owners(c)') = 1 /\ Cardinality(Attachers(c)') = 0 /\ Cardinality(Droppers(c)') = 0
      BY <2>1, <2>2, <3>1, <3>2, FS_Singleton, FS_EmptySet
    <3> QED BY <1>2, <2>4, <3>3
  <2> QED BY <2>3, <2>4
<1>10. Bare' /\ ChainDistinct'
  BY <1>1, <1>2, <1>3 DEF IInv, CallsAreSound, Bare, ChainDistinct, Others, ReleaseSteps
<1>11. ASSUME NEW v \in Threads, pc'[v] \in IncSteps PROVE IncSound(v)'
  <2>1. v # t /\ pc[v] \in IncSteps /\ buf'[v] = buf[v] /\ arg'[v] = arg[v] /\ held'[v] = held[v]
    BY <1>2, <1>11 DEF Others, IncSteps
  <2>2. IncSound(v)
    BY <2>1 DEF IInv, CallsAreSound
  <2>3. buf[v] # b
    BY <1>1, <2>1, IncAlive
  <2>4. arg[v] \in Buffers => Owners(arg[v])' = Owners(arg[v])
    <3>1. arg[v] \in Buffers => arg[v] # b
      BY <1>1, <2>2 DEF IncSound, Unused, Owners
    <3> QED BY <1>2, <2>1, <3>1 DEF Owners
  <2>5. arg[v] \in Threads => buf[v] \notin held'[arg[v]]
    BY <1>2, <2>2, <2>3 DEF IncSound
  <2>6. \A u \in Threads : pc'[u] \in IncSteps => pc[u] \in IncSteps /\ buf'[u] = buf[u] /\ arg'[u] = arg[u]
    BY <1>2 DEF Others, IncSteps
  <2> QED BY <1>3, <2>1, <2>2, <2>4, <2>5, <2>6 DEF IncSound
<1> QED BY <1>8, <1>9, <1>10, <1>11 DEF IInv, CallsAreSound

\* The actions that move a thread and touch no buffer.
LEMMA QuietActions ==
    ASSUME TypeOK, NEW t \in Threads
    PROVE  /\ \A p \in Pools : GetBuffer(t, p) \/ AbortBlockingGetBuffer(t, p) => Quiet(t)
           /\ GetTry(t) /\ UNCHANGED FreeBuffer => Quiet(t)
           /\ GetSignalled(t) \/ GetTimedOut(t) \/ GetRelock(t) \/ GetTest(t) => Quiet(t)
           /\ GetFail(t) \/ GetCount(t) \/ AbortSetEvent(t) => Quiet(t)
           /\ IncPool(t) \/ DecPool(t) \/ RelLock(t) \/ RelUnlock(t) => Quiet(t)
<1> USE DEF Quiet, Others, Goto, At, Idle, TypeOK, ThreadType, poolVars, bufferVars,
            IncSteps, DecSteps, ReleaseSteps
<1>1. ASSUME NEW p \in Pools, GetBuffer(t, p) PROVE Quiet(t)
  BY <1>1 DEF GetBuffer
<1>2. ASSUME NEW p \in Pools, AbortBlockingGetBuffer(t, p) PROVE Quiet(t)
  BY <1>2 DEF AbortBlockingGetBuffer
<1>3. ASSUME GetTry(t), UNCHANGED FreeBuffer PROVE Quiet(t)
  <2>1. /\ pc[t] = "getTry" /\ UNCHANGED <<bufferVars, held, chain>>
        /\ \/ Goto(t, "idle", None, None)
           \/ Goto(t, "getWait", None, arg[t])
           \/ Goto(t, "getTest", None, arg[t])
           \/ FreeBuffer[arg[t]] # <<>> /\ FreeBuffer' = [FreeBuffer EXCEPT ![arg[t]] = Tail(@)]
    BY <1>3 DEF GetTry
  <2>2. ASSUME FreeBuffer[arg[t]] # <<>>, FreeBuffer' = [FreeBuffer EXCEPT ![arg[t]] = Tail(@)]
        PROVE  FALSE
    <3>1. PICK p \in Pools : p = arg[t]
      BY <2>1 DEF CallType, GetSteps
    <3>2. PICK s \in Seq(Buffers) : s = FreeBuffer[p]
      BY <3>1 DEF PoolType
    <3>3. s # <<>> /\ Tail(s) = s
      BY <1>3, <2>2, <3>1, <3>2 DEF PoolType
    <3>4. s # <<>> => Len(Tail(s)) = Len(s) - 1 /\ Len(s) \in Nat
      BY <3>2
    <3> QED
      <4>1. Len(s) = Len(s) - 1 /\ Len(s) \in Nat
        BY <3>3, <3>4, Zenon
      <4> QED BY <4>1
  <2> QED BY <1>3, <2>1, <2>2
<1>4. ASSUME GetSignalled(t) \/ GetTimedOut(t) PROVE Quiet(t)
  BY <1>4 DEF GetSignalled, GetTimedOut
<1>5. ASSUME GetRelock(t) PROVE Quiet(t)
  BY <1>5 DEF GetRelock
<1>6. ASSUME GetTest(t) PROVE Quiet(t)
  BY <1>6 DEF GetTest
<1>7. ASSUME GetFail(t) PROVE Quiet(t)
  BY <1>7 DEF GetFail
<1>8. ASSUME GetCount(t) PROVE Quiet(t)
  BY <1>8 DEF GetCount
<1>9. ASSUME AbortSetEvent(t) PROVE Quiet(t)
  BY <1>9 DEF AbortSetEvent
<1>10. ASSUME IncPool(t) PROVE Quiet(t)
  BY <1>10 DEF IncPool
<1>11. ASSUME DecPool(t) PROVE Quiet(t)
  BY <1>11 DEF DecPool
<1>12. ASSUME RelLock(t) \/ RelUnlock(t) PROVE Quiet(t)
  BY <1>12 DEF RelLock, RelUnlock
<1> QED
  <2> HIDE DEF Quiet, TypeOK
  <2> QED BY <1>1, <1>2, <1>3, <1>4, <1>5, <1>6, <1>7, <1>8, <1>9, <1>10, <1>11, <1>12, Zenon

-----------------------------------------------------------------------------
(* The invariant *)

\* It holds when the pools have been constructed: all buffers are free.
LEMMA InitIInv == Init => IInv
<1> SUFFICES ASSUME Init PROVE IInv
    OBVIOUS
<1>1. /\ \A b \in Buffers : ReferenceCount[b] = 0 /\ AttachedBuffers[b] = {}
      /\ \A t \in Threads : pc[t] = "idle" /\ held[t] = {} /\ chain[t] = <<>>
      /\ \A p \in Pools : Elements(FreeBuffer[p]) = InPool(p) /\ Distinct(FreeBuffer[p])
  BY DEF Init, Idle, Distinct
<1>2. ASSUME NEW t \in Threads
      PROVE  /\ pc[t] \notin IncSteps \cup DecSteps \cup ReleaseSteps \cup {"getInit", "relFree"}
             /\ Elements(chain[t]) = {}
  BY <1>1 DEF IncSteps, DecSteps, ReleaseSteps, Elements
<1>3. CountIsExact
  <2> SUFFICES ASSUME NEW b \in Buffers
               PROVE  ReferenceCount[b] = Cardinality(Owners(b)) + Cardinality(Attachers(b))
                                            + Cardinality(Droppers(b))
      BY DEF CountIsExact
  <2>1. Owners(b) = {} /\ Attachers(b) = {} /\ Droppers(b) = {}
    BY <1>1, <1>2 DEF Owners, Attachers, Droppers
  <2>2. Cardinality({}) = 0
    BY FS_EmptySet
  <2> QED BY <1>1, <2>1, <2>2
<1>4. Places
  <2>1. RingSound
    BY <1>1 DEF RingSound, Distinct, Elements, InPool
  <2>2. FreeUnused
    BY <1>1, <1>2 DEF FreeUnused, Unused, Made, Releasing
  <2>3. ReleasedUnused /\ MadeUnused
    BY <1>2 DEF ReleasedUnused, MadeUnused, Made, Releasing
  <2> QED BY <2>1, <2>2, <2>3 DEF Places
<1>5. CallsAreSound
  BY <1>1, <1>2 DEF CallsAreSound, Bare, ChainDistinct, Elements
<1> QED BY InitTypeOK, <1>3, <1>4, <1>5 DEF IInv

\* Every call that a thread makes keeps it ...
LEMMA CallIInv ==
    ASSUME IInv, NEW t \in Threads, Call(t)
    PROVE  IInv'
<1>1. TypeOK /\ TypeOK'
  BY CallTypeOK DEF IInv
<1>2. ASSUME NEW p \in Pools, GetBuffer(t, p) \/ AbortBlockingGetBuffer(t, p) PROVE IInv'
  BY <1>1, <1>2, QuietActions, QuietStep
<1>3. ASSUME NEW b \in Buffers, DecrementReferenceCount(t, b) PROVE IInv'
  BY <1>1, <1>3, DecrementStep
<1>4. ASSUME NEW b \in Buffers, NEW u \in Threads, IncrementReferenceCount(t, b, u) PROVE IInv'
  BY <1>1, <1>4, IncrementStep
<1>5. ASSUME NEW b \in Buffers, NEW u \in Threads, TransferOwnership(t, b, u) PROVE IInv'
  BY <1>1, <1>5, TransferStep
<1>6. ASSUME NEW a \in Buffers, NEW b \in Buffers, AttachBuffer(t, a, b) PROVE IInv'
  BY <1>1, <1>6, AttachStep
<1>7. ASSUME NEW a \in Buffers, NEW b \in Buffers, DetachBuffer(t, a, b) PROVE IInv'
  BY <1>1, <1>7, DetachStep
<1> QED BY <1>2, <1>3, <1>4, <1>5, <1>6, <1>7 DEF Call

\* ... and so does every later step of the call.
LEMMA AdvanceIInv ==
    ASSUME IInv, NEW t \in Threads, Advance(t)
    PROVE  IInv'
<1>1. TypeOK /\ TypeOK'
  BY AdvanceTypeOK DEF IInv
<1>2. CASE GetTry(t)
  <2>1. CASE UNCHANGED FreeBuffer
    BY <1>1, <1>2, <2>1, QuietActions, QuietStep
  <2>2. CASE ~UNCHANGED FreeBuffer
    <3>1. /\ pc[t] = "getTry" /\ FreeBuffer[arg[t]] # <<>>
          /\ FreeBuffer' = [FreeBuffer EXCEPT ![arg[t]] = Tail(@)]
          /\ Goto(t, "getInit", Head(FreeBuffer[arg[t]]), None)
          /\ UNCHANGED <<bufferVars, held, chain>>
      BY <1>2, <2>2 DEF GetTry, At
    <3> QED BY <1>1, <3>1, GetTakeStep
  <2> QED BY <2>1, <2>2
<1>3. CASE GetSignalled(t) \/ GetTimedOut(t) \/ GetRelock(t) \/ GetTest(t)
  BY <1>1, <1>3, QuietActions, QuietStep
<1>4. CASE GetFail(t) \/ GetCount(t) \/ AbortSetEvent(t)
  BY <1>1, <1>4, QuietActions, QuietStep
<1>5. CASE IncPool(t) \/ DecPool(t) \/ RelLock(t) \/ RelUnlock(t)
  BY <1>1, <1>5, QuietActions, QuietStep
<1>6. CASE GetInit(t)
  BY <1>1, <1>6, GetInitStep
<1>7. CASE IncBuf(t)
  BY <1>1, <1>7, IncBufStep
<1>8. CASE DecBuf(t)
  BY <1>1, <1>8, DecBufStep
<1>9. CASE RelDetach(t)
  BY <1>1, <1>9, RelDetachStep
<1>10. CASE RelFree(t)
  BY <1>1, <1>10, RelFreeStep
<1> QED BY <1>2, <1>3, <1>4, <1>5, <1>6, <1>7, <1>8, <1>9, <1>10 DEF Advance

\* A step that changes nothing keeps it.
LEMMA StutterIInv == IInv /\ UNCHANGED vars => IInv'
<1> SUFFICES ASSUME IInv, UNCHANGED vars PROVE IInv'
    OBVIOUS
<1>1. /\ UNCHANGED <<FreeBuffer, Lock, BufferReleaseSignal, AbortGetBuffer, PoolReferenceCount>>
      /\ UNCHANGED <<CountOfReferencedBuffers, ReferenceCount, AttachedBuffers>>
      /\ UNCHANGED <<held, pc, buf, arg, chain>>
  BY DEF vars, poolVars, bufferVars, threadVars
<1>2. TypeOK'
  BY <1>1 DEF IInv, TypeOK, PoolType, BufferType, ThreadType, CallType
<1>3. CountIsExact'
  BY <1>1 DEF IInv, CountIsExact, Owners, Attachers, Droppers, Promised
<1>4. Places'
  BY <1>1 DEF IInv, Places, RingSound, FreeUnused, ReleasedUnused, MadeUnused,
              OnRing, Made, Releasing, Unused, Promised
<1>5. CallsAreSound'
  BY <1>1 DEF IInv, CallsAreSound, Bare, ChainDistinct, IncSound, Owners
<1> QED BY <1>2, <1>3, <1>4, <1>5 DEF IInv

\* The inductive invariant of the pool.
LEMMA Invariance == Spec => []IInv
<1>1. IInv /\ [Next]_vars => IInv'
  BY CallIInv, AdvanceIInv, StutterIInv DEF Next
<1> QED BY InitIInv, <1>1, PTL DEF Spec

\* Every ReferenceCount is exactly the number of references that exist: the
\* arithmetic of IncrementReferenceCount, DecrementReferenceCount and GetBuffer
\* (buffer_individual_generic.cpp:679,721) cannot drift.
THEOREM CountsExact == Spec => []CountIsExact
<1>1. IInv => CountIsExact
  BY DEF IInv
<1> QED BY Invariance, <1>1, PTL

\* A buffer that somebody uses is on no ring, in no release and not being handed
\* out, and a free one is on its ring once: GetBuffer never gives out a buffer
\* that is in use, and ReleaseBuffer never returns one twice.
THEOREM PlacesExact == Spec => []OnePlace
<1>1. IInv => OnePlace
  <2> SUFFICES ASSUME IInv PROVE OnePlace
      OBVIOUS
  <2>1. ASSUME NEW p \in Pools
        PROVE  /\ Elements(FreeBuffer[p]) \subseteq InPool(p)
               /\ \A i, j \in DOMAIN FreeBuffer[p] : FreeBuffer[p][i] = FreeBuffer[p][j] => i = j
    <3>1. \A i \in DOMAIN FreeBuffer[p] : FreeBuffer[p][i] \in Buffers
      BY DEF IInv, TypeOK, PoolType
    <3> QED BY <3>1 DEF Elements, InPool, IInv, Places, RingSound
  <2>2. \A b \in Buffers : BeingMade(b) <=> \E t \in Threads : Made(t, b)
    BY DEF BeingMade, Made
  <2>3. ASSUME NEW b \in Buffers, b \in Elements(FreeBuffer[PoolOf[b]])
        PROVE  Claims(b) = {} /\ ~BeingMade(b) /\ \A t \in Threads : ~Releasing(t, b)
    BY <2>2, <2>3, UnusedMeansNoClaims DEF IInv, Places, FreeUnused, OnRing
  <2>4. ASSUME NEW t \in Threads, NEW b \in Buffers, Releasing(t, b)
        PROVE  Claims(b) = {} /\ ~BeingMade(b) /\ \A u \in Threads : Releasing(u, b) => u = t
    BY <2>2, <2>4, UnusedMeansNoClaims DEF IInv, Places, ReleasedUnused
  <2>5. ASSUME NEW t \in Threads, pc[t] = "getInit"
        PROVE  /\ Claims(buf[t]) = {}
               /\ \A u \in Threads : pc[u] = "getInit" /\ buf[u] = buf[t] => u = t
    <3>1. buf[t] \in Buffers /\ Made(t, buf[t])
      BY <2>5 DEF IInv, TypeOK, CallType, NewSteps, Made
    <3> QED BY <3>1, UnusedMeansNoClaims DEF IInv, Places, MadeUnused, Made
  <2> QED BY <2>1, <2>3, <2>4, <2>5 DEF OnePlace
<1> QED BY Invariance, <1>1, PTL

\* The count of a buffer tells whether anybody refers to it.
LEMMA CountTells ==
    ASSUME IInv, NEW b \in Buffers
    PROVE  ReferenceCount[b] \in Nat /\ (Unused(b) <=> ReferenceCount[b] = 0)
<1>1. Unused(b) <=> Owners(b) = {} /\ Attachers(b) = {} /\ Droppers(b) = {}
  BY DEF Unused, Owners, Attachers, Droppers
<1>2. \A S : IsFiniteSet(S) => (Cardinality(S) = 0 <=> S = {})
  BY FS_EmptySet
<1>3. /\ Cardinality(Owners(b)) = 0 <=> Owners(b) = {}
      /\ Cardinality(Attachers(b)) = 0 <=> Attachers(b) = {}
      /\ Cardinality(Droppers(b)) = 0 <=> Droppers(b) = {}
  BY <1>2, ClaimsFinite
<1>4. ReferenceCount[b] = Cardinality(Owners(b)) + Cardinality(Attachers(b))
                            + Cardinality(Droppers(b))
  BY DEF IInv, CountIsExact
<1>5. /\ Cardinality(Owners(b)) \in Nat
      /\ Cardinality(Attachers(b)) \in Nat
      /\ Cardinality(Droppers(b)) \in Nat
  BY ClaimsFinite
<1>6. ReferenceCount[b] = 0 <=> /\ Cardinality(Owners(b)) = 0
                                /\ Cardinality(Attachers(b)) = 0
                                /\ Cardinality(Droppers(b)) = 0
  BY <1>4, <1>5
<1>7. ReferenceCount[b] \in Nat
  BY <1>4, <1>5
<1> QED BY <1>1, <1>3, <1>6, <1>7


\* A buffer with a reference has a positive count: AssertNonZeroReferenceCount
\* (buffer_individual_generic.cpp:47-51) never fires in any call.
THEOREM DeadBuffersUntouched == Spec => []NeverActsOnDeadBuffer
<1>1. IInv => NeverActsOnDeadBuffer
  <2> SUFFICES ASSUME IInv PROVE NeverActsOnDeadBuffer
      OBVIOUS
  <2>1. ASSUME NEW b \in Buffers, ~Unused(b) PROVE ReferenceCount[b] > 0
    BY <2>1, CountTells
  <2>2. ASSUME NEW t \in Threads, pc[t] \in IncSteps PROVE ReferenceCount[buf[t]] > 0
    BY <2>1, <2>2, IncAlive
  <2>3. ASSUME NEW t \in Threads, pc[t] \in DecSteps PROVE ReferenceCount[buf[t]] > 0
    <3>1. buf[t] \in Buffers
      BY <2>3 DEF IInv, TypeOK, CallType
    <3> QED BY <2>1, <2>3, <3>1 DEF Unused
  <2>4. ASSUME NEW t \in Threads, NEW b \in held[t] PROVE ReferenceCount[b] > 0
    <3>1. b \in Buffers
      BY <2>4 DEF IInv, TypeOK, ThreadType
    <3> QED BY <2>1, <2>4, <3>1 DEF Unused
  <2> QED BY <2>2, <2>3, <2>4 DEF NeverActsOnDeadBuffer
<1> QED BY Invariance, <1>1, PTL

\* No attachment is lost when GetBuffer clears the table of a buffer, nested
\* releases are of different buffers, and whoever adds a reference stands on
\* one that keeps the buffer alive until the count is raised.
THEOREM CallsSound == Spec => []CallsAreSound
<1>1. IInv => CallsAreSound
  BY DEF IInv
<1> QED BY Invariance, <1>1, PTL

=============================================================================
