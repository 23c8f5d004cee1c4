------------------------- MODULE BufferPoolCounters -------------------------
(* Proof that the counters of a pool agree with the counts of its buffers,  *)
(* for any threads, pools and buffers.                                      *)
EXTENDS BufferPoolInvariants

\* The threads that hold the pool's total behind the counts of its buffers.
Late(p) == On("getCount", p) \cup On("decBuf", p)

Ledger(p) ==
    /\ IsFiniteSet(Counted(p))
    /\ PoolReferenceCount[p] + Cardinality(Late(p))
         = Cardinality(Counted(p)) + Cardinality(On("incBuf", p))
    /\ CountOfReferencedBuffers[p] + Cardinality(On("getCount", p))
         = Cardinality(Referenced(p))

Ledgers == \A p \in Pools : Ledger(p)

One(P) == IF P THEN 1 ELSE 0

\* Moving one element in or out of a finite set.
LEMMA MoveOne ==
    ASSUME NEW S, IsFiniteSet(S), NEW T, NEW x, T \ {x} = S \ {x}
    PROVE  /\ IsFiniteSet(T)
           /\ Cardinality(T) \in Nat /\ Cardinality(S) \in Nat
           /\ Cardinality(T) = Cardinality(S) - One(x \in S) + One(x \in T)
<1>1. IsFiniteSet(S \ {x})
  BY FS_Subset
<1>2. \A R : R \ {x} = S \ {x} =>
          IsFiniteSet(R) /\ Cardinality(R) \in Nat
            /\ Cardinality(R) = Cardinality(S \ {x}) + One(x \in R)
  <2> SUFFICES ASSUME NEW R, R \ {x} = S \ {x}
               PROVE  IsFiniteSet(R) /\ Cardinality(R) \in Nat
                        /\ Cardinality(R) = Cardinality(S \ {x}) + One(x \in R)
      OBVIOUS
  <2>1. CASE x \in R
    <3>1. R = (R \ {x}) \cup {x} /\ x \notin R \ {x}
      BY <2>1
    <3>2. IsFiniteSet(R) /\ Cardinality(R) = Cardinality(R \ {x}) + 1
      BY <1>1, <3>1, FS_AddElement
    <3> QED BY <2>1, <3>2, FS_CardinalityType DEF One
  <2>2. CASE x \notin R
    <3>1. R = S \ {x}
      BY <2>2
    <3>2. Cardinality(R) \in Nat
      BY <1>1, <3>1, FS_CardinalityType
    <3> QED BY <1>1, <2>2, <3>1, <3>2 DEF One
  <2> QED BY <2>1, <2>2
<1>3. Cardinality(S \ {x}) \in Nat
  BY <1>1, FS_CardinalityType
<1>4. /\ Cardinality(S) = Cardinality(S \ {x}) + One(x \in S)
      /\ Cardinality(T) = Cardinality(S \ {x}) + One(x \in T)
      /\ IsFiniteSet(T) /\ Cardinality(T) \in Nat /\ Cardinality(S) \in Nat
  BY <1>2
<1> QED BY <1>3, <1>4 DEF One

\* A step of t moves only t in or out of the places where the totals lag.
LEMMA ThreadMoves ==
    ASSUME NEW t \in Threads, Others(t), NEW p
    PROVE  /\ \A step : /\ Cardinality(On(step, p)) \in Nat
                        /\ Cardinality(On(step, p)') \in Nat
                        /\ Cardinality(On(step, p)') = Cardinality(On(step, p))
                             - One(t \in On(step, p)) + One(t \in On(step, p)')
           /\ Cardinality(Late(p)) \in Nat /\ Cardinality(Late(p)') \in Nat
           /\ Cardinality(Late(p)') = Cardinality(Late(p))
                                         - One(t \in Late(p)) + One(t \in Late(p)')
<1>1. ASSUME NEW S, S \subseteq Threads, NEW T, T \subseteq Threads, T \ {t} = S \ {t}
      PROVE  /\ Cardinality(T) \in Nat /\ Cardinality(S) \in Nat
             /\ Cardinality(T) = Cardinality(S) - One(t \in S) + One(t \in T)
  <2>1. IsFiniteSet(S)
    BY <1>1, FS_Subset, ThreadsAssumption
  <2> QED BY <1>1, <2>1, MoveOne
<1>2. \A step : /\ On(step, p) \subseteq Threads /\ On(step, p)' \subseteq Threads
                /\ On(step, p)' \ {t} = On(step, p) \ {t}
  BY DEF On, Others
<1>3. Late(p) \subseteq Threads /\ Late(p)' \subseteq Threads /\ Late(p)' \ {t} = Late(p) \ {t}
  BY <1>2 DEF Late
<1> QED BY <1>1, <1>2, <1>3

\* The pairs for any counts.
Pairs(p, count) == UNION {{b} \X (1..count[b]) : b \in InPool(p)}

LEMMA PairsMembers ==
    ASSUME NEW p, NEW count, NEW x
    PROVE  x \in Pairs(p, count) <=> \E b \in InPool(p) : \E n \in 1..count[b] : x = <<b, n>>
<1>1. x \in Pairs(p, count) <=> \E b \in InPool(p) : x \in {b} \X (1..count[b])
  BY Zenon DEF Pairs
<1>2. \A b : x \in {b} \X (1..count[b]) <=> \E n \in 1..count[b] : x = <<b, n>>
  OBVIOUS
<1> QED BY <1>1, <1>2

\* One count more is one pair more in the pool of the buffer, and in no other.
LEMMA OnePairMore ==
    ASSUME NEW b \in Buffers, NEW low, NEW high, low[b] \in Nat, high[b] = low[b] + 1,
           \A c \in Buffers \ {b} : high[c] = low[c], NEW p
    PROVE  /\ PoolOf[b] # p => Pairs(p, high) = Pairs(p, low)
           /\ PoolOf[b] = p => /\ Pairs(p, high) = Pairs(p, low) \cup {<<b, high[b]>>}
                               /\ <<b, high[b]>> \notin Pairs(p, low)
<1>1. \A x : /\ x \in Pairs(p, low) <=> \E c \in InPool(p) : \E n \in 1..low[c] : x = <<c, n>>
             /\ x \in Pairs(p, high) <=> \E c \in InPool(p) : \E n \in 1..high[c] : x = <<c, n>>
  BY PairsMembers
<1>2. InPool(p) \subseteq Buffers /\ (b \in InPool(p) <=> PoolOf[b] = p)
  BY DEF InPool
<1>3. CASE PoolOf[b] # p
  BY <1>1, <1>2, <1>3
<1>4. CASE PoolOf[b] = p
  <2> DEFINE new == <<b, high[b]>>
  <2>1. new \notin Pairs(p, low)
    <3>1. SUFFICES ASSUME NEW c \in InPool(p), NEW n \in 1..low[c], new = <<c, n>> PROVE FALSE
      BY <1>1
    <3>2. c = b /\ n = high[b]
      BY <3>1
    <3> QED BY <3>1, <3>2
  <2>2. ASSUME NEW x PROVE x \in Pairs(p, high) <=> x \in Pairs(p, low) \/ x = new
    <3>1. \A n : n \in 1..high[b] <=> n \in 1..low[b] \/ n = high[b]
      OBVIOUS
    <3>2. x \in Pairs(p, high) <=> (\E n \in 1..high[b] : x = <<b, n>>)
             \/ \E c \in InPool(p) \ {b} : \E n \in 1..high[c] : x = <<c, n>>
      BY <1>1, <1>2, <1>4
    <3>3. x \in Pairs(p, low) <=> (\E n \in 1..low[b] : x = <<b, n>>)
             \/ \E c \in InPool(p) \ {b} : \E n \in 1..low[c] : x = <<c, n>>
      BY <1>1, <1>2, <1>4
    <3>4. (\E n \in 1..high[b] : x = <<b, n>>) <=> (\E n \in 1..low[b] : x = <<b, n>>) \/ x = new
      BY <3>1
    <3>5. (\E c \in InPool(p) \ {b} : \E n \in 1..high[c] : x = <<c, n>>)
             <=> \E c \in InPool(p) \ {b} : \E n \in 1..low[c] : x = <<c, n>>
      BY <1>2
    <3> HIDE DEF new
    <3> QED BY <3>2, <3>3, <3>4, <3>5
  <2> HIDE DEF new
  <2>3. Pairs(p, high) = Pairs(p, low) \cup {new}
    BY <2>2
  <2> QED BY <1>4, <2>1, <2>3 DEF new
<1> QED BY <1>3, <1>4

\* Counts that are the same have the same pairs.
LEMMA PairsSame ==
    ASSUME NEW one, NEW other, \A c \in Buffers : one[c] = other[c], NEW p
    PROVE  Pairs(p, one) = Pairs(p, other)
BY DEF Pairs, InPool

\* The references that a pool counts follow the counts of its buffers.
LEMMA CountedMoves ==
    ASSUME NEW b \in Buffers, ReferenceCount[b] \in Nat, ReferenceCount'[b] \in Nat,
           \A c \in Buffers \ {b} : ReferenceCount'[c] = ReferenceCount[c],
           NEW p, IsFiniteSet(Counted(p))
    PROVE  /\ Cardinality(Counted(p)) \in Nat
           /\ ReferenceCount'[b] = ReferenceCount[b] + 1 =>
                 /\ IsFiniteSet(Counted(p)')
                 /\ Cardinality(Counted(p)') = Cardinality(Counted(p)) + One(PoolOf[b] = p)
           /\ ReferenceCount'[b] = ReferenceCount[b] - 1 =>
                 /\ IsFiniteSet(Counted(p)')
                 /\ Cardinality(Counted(p)') = Cardinality(Counted(p)) - One(PoolOf[b] = p)
<1>1. Counted(p) = Pairs(p, ReferenceCount) /\ Counted(p)' = Pairs(p, ReferenceCount')
  BY DEF Counted, Pairs, InPool
<1>2. Cardinality(Counted(p)) \in Nat
  BY FS_CardinalityType
<1>0. ASSUME NEW low, NEW high, low[b] \in Nat, high[b] = low[b] + 1,
             \A c \in Buffers \ {b} : high[c] = low[c]
      PROVE  /\ PoolOf[b] # p => Pairs(p, high) = Pairs(p, low)
             /\ PoolOf[b] = p => \E new : /\ Pairs(p, high) = Pairs(p, low) \cup {new}
                                          /\ new \notin Pairs(p, low)
  <2>1. /\ PoolOf[b] # p => Pairs(p, high) = Pairs(p, low)
        /\ PoolOf[b] = p => /\ Pairs(p, high) = Pairs(p, low) \cup {<<b, high[b]>>}
                            /\ <<b, high[b]>> \notin Pairs(p, low)
    BY <1>0, OnePairMore
  <2> QED BY <2>1
<1>3. ASSUME ReferenceCount'[b] = ReferenceCount[b] + 1
      PROVE  /\ IsFiniteSet(Counted(p)')
             /\ Cardinality(Counted(p)') = Cardinality(Counted(p)) + One(PoolOf[b] = p)
  <2>1. /\ PoolOf[b] # p => Counted(p)' = Counted(p)
        /\ PoolOf[b] = p => \E new : Counted(p)' = Counted(p) \cup {new} /\ new \notin Counted(p)
    BY <1>0, <1>1, <1>3
  <2>2. CASE PoolOf[b] # p
    BY <1>2, <2>1, <2>2 DEF One
  <2>3. CASE PoolOf[b] = p
    <3>1. PICK new : Counted(p)' = Counted(p) \cup {new} /\ new \notin Counted(p)
      BY <2>1, <2>3
    <3> QED BY <2>3, <3>1, FS_AddElement DEF One
  <2> QED BY <2>2, <2>3
<1>4. ASSUME ReferenceCount'[b] = ReferenceCount[b] - 1
      PROVE  /\ IsFiniteSet(Counted(p)')
             /\ Cardinality(Counted(p)') = Cardinality(Counted(p)) - One(PoolOf[b] = p)
  <2>1. ReferenceCount[b] = ReferenceCount'[b] + 1
    BY <1>4
  <2>2. /\ PoolOf[b] # p => Counted(p)' = Counted(p)
        /\ PoolOf[b] = p => \E new : Counted(p) = Counted(p)' \cup {new} /\ new \notin Counted(p)'
    BY <1>0, <1>1, <2>1
  <2>3. CASE PoolOf[b] # p
    BY <1>2, <2>2, <2>3 DEF One
  <2>4. CASE PoolOf[b] = p
    <3>1. PICK new : Counted(p) = Counted(p)' \cup {new} /\ new \notin Counted(p)'
      BY <2>2, <2>4
    <3>2. Counted(p)' = Counted(p) \ {new} /\ new \in Counted(p)
      BY <3>1
    <3> QED BY <2>4, <3>2, FS_RemoveElement DEF One
  <2> QED BY <2>3, <2>4
<1> QED BY <1>2, <1>3, <1>4

-----------------------------------------------------------------------------
(* Steps that leave the counters as they are *)

\* No count changes, and t is not between the two updates of one.
Steady(t) ==
    /\ Others(t)
    /\ UNCHANGED <<ReferenceCount, PoolReferenceCount, CountOfReferencedBuffers>>
    /\ pc[t] \notin {"getCount", "incBuf", "decBuf"}
    /\ pc'[t] \notin {"getCount", "incBuf", "decBuf"}
    /\ \A u \in Threads, b \in Buffers : Releasing(u, b)' <=> Releasing(u, b)

LEMMA SteadyStep ==
    ASSUME Ledgers, NEW t \in Threads, Steady(t)
    PROVE  Ledgers'
<1>1. ASSUME NEW p, NEW step \in {"getCount", "incBuf", "decBuf"} PROVE On(step, p)' = On(step, p)
  BY DEF On, Steady, Others
<1>2. ASSUME NEW p
      PROVE  Late(p)' = Late(p) /\ Counted(p)' = Counted(p) /\ Referenced(p)' = Referenced(p)
  <2>1. Late(p)' = Late(p)
    BY <1>1 DEF Late
  <2>2. Counted(p)' = Counted(p)
    BY DEF Counted, Steady
  <2>3. Referenced(p)' = Referenced(p)
    BY DEF Referenced, InPool, Steady
  <2> QED BY <2>1, <2>2, <2>3
<1> QED BY <1>1, <1>2 DEF Ledgers, Ledger, Steady

LEMMA SteadyCalls ==
    ASSUME TypeOK, NEW t \in Threads, Call(t)
    PROVE  Steady(t)
<1> USE DEF Steady, Others, Goto, At, Idle, TypeOK, ThreadType, poolVars, bufferVars,
            Releasing, ReleaseSteps
<1>1. ASSUME NEW p \in Pools, GetBuffer(t, p) \/ AbortBlockingGetBuffer(t, p) PROVE Steady(t)
  BY <1>1 DEF GetBuffer, AbortBlockingGetBuffer
<1>2. ASSUME NEW b \in Buffers, DecrementReferenceCount(t, b) PROVE Steady(t)
  BY <1>2 DEF DecrementReferenceCount
<1>3. ASSUME NEW b \in Buffers, NEW u \in Threads, IncrementReferenceCount(t, b, u) PROVE Steady(t)
  BY <1>3 DEF IncrementReferenceCount
<1>4. ASSUME NEW b \in Buffers, NEW u \in Threads, TransferOwnership(t, b, u) PROVE Steady(t)
  BY <1>4 DEF TransferOwnership
<1>5. ASSUME NEW a \in Buffers, NEW b \in Buffers, AttachBuffer(t, a, b) PROVE Steady(t)
  BY <1>5 DEF AttachBuffer, CountAttachment
<1>6. ASSUME NEW a \in Buffers, NEW b \in Buffers, DetachBuffer(t, a, b) PROVE Steady(t)
  BY <1>6 DEF DetachBuffer
<1> QED BY <1>1, <1>2, <1>3, <1>4, <1>5, <1>6 DEF Call

LEMMA SteadyAdvances ==
    ASSUME IInv, NEW t \in Threads,
           \/ GetTry(t) \/ GetSignalled(t) \/ GetTimedOut(t) \/ GetRelock(t) \/ GetTest(t)
           \/ GetFail(t) \/ AbortSetEvent(t) \/ RelLock(t) \/ RelDetach(t) \/ RelUnlock(t)
    PROVE  Steady(t)
<1> USE DEF Steady, Others, Goto, At, Idle, TypeOK, ThreadType, poolVars, bufferVars
<1>1. TypeOK
  BY DEF IInv
<1>2. CASE GetTry(t)
  <2>1. /\ pc[t] = "getTry" /\ UNCHANGED <<bufferVars, held, chain>>
        /\ UNCHANGED <<PoolReferenceCount, CountOfReferencedBuffers>>
        /\ \/ Goto(t, "idle", None, None)
           \/ Goto(t, "getWait", None, arg[t])
           \/ Goto(t, "getTest", None, arg[t])
           \/ Goto(t, "getInit", Head(FreeBuffer[arg[t]]), None)
    BY <1>2 DEF GetTry
  <2> QED BY <1>1, <2>1 DEF Releasing, ReleaseSteps
<1>3. CASE GetSignalled(t) \/ GetTimedOut(t) \/ GetRelock(t) \/ GetTest(t)
  BY <1>1, <1>3 DEF GetSignalled, GetTimedOut, GetRelock, GetTest, UnLock, Releasing, ReleaseSteps
<1>4. CASE GetFail(t) \/ AbortSetEvent(t)
  BY <1>1, <1>4 DEF GetFail, AbortSetEvent, Releasing, ReleaseSteps
<1>5. CASE RelLock(t) \/ RelUnlock(t)
  BY <1>1, <1>5 DEF RelLock, RelUnlock, Releasing, ReleaseSteps
<1>6. CASE RelDetach(t)
  <2>1. PICK a \in Buffers : a = buf[t]
    BY <1>1, <1>6 DEF RelDetach, CallType, ReleaseSteps
  <2>2. PICK b : Goto(t, "decPool", b, None) /\ chain' = [chain EXCEPT ![t] = Append(@, a)]
    BY <1>6, <2>1 DEF RelDetach
  <2>3. /\ pc[t] = "relDetach" /\ pc'[t] = "decPool" /\ Others(t)
        /\ chain'[t] = Append(chain[t], a) /\ chain[t] \in Seq(Buffers)
        /\ \A u \in Threads \ {t} : chain'[u] = chain[u]
        /\ UNCHANGED <<ReferenceCount, PoolReferenceCount, CountOfReferencedBuffers>>
    BY <1>1, <1>6, <2>2 DEF RelDetach
  <2>4. Elements(chain'[t]) = Elements(chain[t]) \cup {a}
    BY <2>3, AppendFacts
  <2>5. \A u \in Threads, c \in Buffers : Releasing(u, c)' <=> Releasing(u, c)
    BY <2>1, <2>3, <2>4 DEF Releasing, ReleaseSteps
  <2> QED BY <2>3, <2>5
<1> QED BY <1>2, <1>3, <1>4, <1>5, <1>6

\* A step about one buffer moves only that one in or out of the referenced ones.
LEMMA ReferencedMoves ==
    ASSUME NEW b \in Buffers,
           \A c \in Buffers \ {b} : ReferenceCount'[c] = ReferenceCount[c],
           \A u \in Threads, c \in Buffers \ {b} : Releasing(u, c)' <=> Releasing(u, c),
           NEW p
    PROVE  /\ Cardinality(Referenced(p)) \in Nat /\ Cardinality(Referenced(p)') \in Nat
           /\ Cardinality(Referenced(p)') = Cardinality(Referenced(p))
                - One(b \in Referenced(p)) + One(b \in Referenced(p)')
<1>1. Referenced(p) \subseteq Buffers /\ Referenced(p)' \ {b} = Referenced(p) \ {b}
  BY DEF Referenced, InPool
<1>2. IsFiniteSet(Referenced(p))
  BY <1>1, FS_Subset, BuffersAssumption
<1> QED BY <1>1, <1>2, MoveOne

\* A new buffer counts as soon as it is initialised, and is counted by its pool
\* one step later.
LEMMA GetInitLedger ==
    ASSUME IInv, Ledgers, NEW t \in Threads, GetInit(t)
    PROVE  Ledgers'
<1>0. PICK b \in Buffers : b = buf[t]
  BY DEF GetInit, At, IInv, TypeOK, CallType, NewSteps
<1>1. /\ pc[t] = "getInit" /\ pc'[t] = "getCount" /\ buf'[t] = b /\ Others(t)
      /\ ReferenceCount'[b] = 1
      /\ \A c \in Buffers \ {b} : ReferenceCount'[c] = ReferenceCount[c]
      /\ UNCHANGED <<PoolReferenceCount, CountOfReferencedBuffers, chain>>
  BY <1>0 DEF GetInit, At, Goto, Others, poolVars, IInv, TypeOK, BufferType, ThreadType
<1>2. ReferenceCount[b] = 0 /\ \A u \in Threads : ~Releasing(u, b)
  <2>1. Unused(b) /\ \A u \in Threads : ~Releasing(u, b)
    BY <1>0, <1>1 DEF IInv, Places, MadeUnused, ReleasedUnused, Made
  <2> QED BY <2>1, CountTells
<1>3. \A u \in Threads, c \in Buffers : Releasing(u, c)' <=> Releasing(u, c)
  BY <1>1 DEF Releasing, ReleaseSteps, Others
<1> SUFFICES ASSUME NEW p \in Pools PROVE Ledger(p)'
    BY DEF Ledgers
<1>4. Ledger(p)
  BY DEF Ledgers
<1>5. /\ Cardinality(Counted(p)) \in Nat /\ IsFiniteSet(Counted(p)')
      /\ Cardinality(Counted(p)') = Cardinality(Counted(p)) + One(PoolOf[b] = p)
  BY <1>1, <1>2, <1>4, CountedMoves DEF Ledger
<1>6. /\ Cardinality(Referenced(p)) \in Nat
      /\ Cardinality(Referenced(p)') = Cardinality(Referenced(p)) + One(PoolOf[b] = p)
  <2>1. b \notin Referenced(p) /\ (b \in Referenced(p)' <=> PoolOf[b] = p)
    BY <1>1, <1>2 DEF Referenced, InPool
  <2>2. /\ Cardinality(Referenced(p)) \in Nat /\ Cardinality(Referenced(p)') \in Nat
        /\ Cardinality(Referenced(p)') = Cardinality(Referenced(p))
             - One(b \in Referenced(p)) + One(b \in Referenced(p)')
    BY <1>1, <1>3, ReferencedMoves
  <2> QED BY <2>1, <2>2 DEF One
<1>7. /\ t \notin On("getCount", p) /\ (t \in On("getCount", p)' <=> PoolOf[b] = p)
      /\ t \notin On("incBuf", p) /\ t \notin On("incBuf", p)'
      /\ t \notin Late(p) /\ (t \in Late(p)' <=> PoolOf[b] = p)
  BY <1>1 DEF On, Late
<1>8. /\ Cardinality(On("getCount", p)) \in Nat /\ Cardinality(Late(p)) \in Nat
      /\ Cardinality(On("incBuf", p)) \in Nat
      /\ Cardinality(On("getCount", p)') = Cardinality(On("getCount", p)) + One(PoolOf[b] = p)
      /\ Cardinality(On("incBuf", p)') = Cardinality(On("incBuf", p))
      /\ Cardinality(Late(p)') = Cardinality(Late(p)) + One(PoolOf[b] = p)
  BY <1>1, <1>7, ThreadMoves DEF One
<1>9. One(PoolOf[b] = p) \in Nat
  BY DEF One
<1>10. PoolReferenceCount[p] \in Int /\ CountOfReferencedBuffers[p] \in Int
  BY DEF IInv, TypeOK, PoolType
<1> QED BY <1>1, <1>4, <1>5, <1>6, <1>8, <1>9, <1>10 DEF Ledger

\* Steps that change no count of a buffer and begin or end no release.
LEMMA CountsKept ==
    ASSUME ReferenceCount' = ReferenceCount,
           \A u \in Threads, c \in Buffers : Releasing(u, c)' <=> Releasing(u, c), NEW p
    PROVE  Counted(p)' = Counted(p) /\ Referenced(p)' = Referenced(p)
BY DEF Counted, Referenced, InPool

\* The sizes in a ledger are numbers.
LEMMA LedgerType ==
    ASSUME IInv, NEW p \in Pools, Ledger(p)
    PROVE  /\ PoolReferenceCount[p] \in Int /\ CountOfReferencedBuffers[p] \in Int
           /\ Cardinality(Counted(p)) \in Nat /\ Cardinality(Referenced(p)) \in Nat
           /\ Cardinality(Late(p)) \in Nat
           /\ \A step : Cardinality(On(step, p)) \in Nat
           /\ \A P : One(P) \in Nat
<1>1. Referenced(p) \subseteq Buffers /\ Late(p) \subseteq Threads
      /\ \A step : On(step, p) \subseteq Threads
  BY DEF Referenced, InPool, Late, On
<1>2. PoolReferenceCount[p] \in Int /\ CountOfReferencedBuffers[p] \in Int
  BY DEF IInv, TypeOK, PoolType
<1>3. Cardinality(Counted(p)) \in Nat /\ Cardinality(Referenced(p)) \in Nat
  BY <1>1, FS_Subset, FS_CardinalityType, BuffersAssumption DEF Ledger
<1>4. Cardinality(Late(p)) \in Nat /\ \A step : Cardinality(On(step, p)) \in Nat
  BY <1>1, FS_Subset, FS_CardinalityType, ThreadsAssumption
<1>5. \A P : One(P) \in Nat
  BY DEF One
<1> QED BY <1>2, <1>3, <1>4, <1>5

\* The pool catches up with a new buffer.
LEMMA GetCountLedger ==
    ASSUME IInv, Ledgers, NEW t \in Threads, GetCount(t)
    PROVE  Ledgers'
<1>0. PICK b \in Buffers : b = buf[t]
  BY DEF GetCount, At, IInv, TypeOK, CallType, NewSteps
<1>1. /\ pc[t] = "getCount" /\ pc'[t] = "idle" /\ Others(t)
      /\ UNCHANGED <<ReferenceCount, chain>>
  BY <1>0 DEF GetCount, At, Goto, Idle, Others, bufferVars, IInv, TypeOK, ThreadType
<1>2. \A u \in Threads, c \in Buffers : Releasing(u, c)' <=> Releasing(u, c)
  BY <1>1 DEF Releasing, ReleaseSteps, Others
<1> SUFFICES ASSUME NEW p \in Pools PROVE Ledger(p)'
    BY DEF Ledgers
<1>3. /\ PoolReferenceCount'[p] = PoolReferenceCount[p] + One(PoolOf[b] = p)
      /\ CountOfReferencedBuffers'[p] = CountOfReferencedBuffers[p] + One(PoolOf[b] = p)
  BY <1>0 DEF GetCount, One, IInv, TypeOK, PoolType
<1>4. Counted(p)' = Counted(p) /\ Referenced(p)' = Referenced(p)
  BY <1>1, <1>2, CountsKept
<1>5. /\ t \notin On("getCount", p)' /\ (t \in On("getCount", p) <=> PoolOf[b] = p)
      /\ t \notin On("incBuf", p) /\ t \notin On("incBuf", p)'
      /\ t \notin Late(p)' /\ (t \in Late(p) <=> PoolOf[b] = p)
  BY <1>0, <1>1 DEF On, Late
<1>6. /\ Cardinality(On("getCount", p)') = Cardinality(On("getCount", p)) - One(PoolOf[b] = p)
      /\ Cardinality(On("incBuf", p)') = Cardinality(On("incBuf", p))
      /\ Cardinality(Late(p)') = Cardinality(Late(p)) - One(PoolOf[b] = p)
  BY <1>1, <1>5, ThreadMoves DEF One
<1>7. Ledger(p)
  BY DEF Ledgers
<1> QED BY <1>3, <1>4, <1>6, <1>7, LedgerType DEF Ledger

\* The pool counts a reference before the buffer does ...
LEMMA IncPoolLedger ==
    ASSUME IInv, Ledgers, NEW t \in Threads, IncPool(t)
    PROVE  Ledgers'
<1>0. PICK b \in Buffers : b = buf[t]
  BY DEF IncPool, At, IInv, TypeOK, CallType, IncSteps
<1>1. /\ pc[t] = "incPool" /\ pc'[t] = "incBuf" /\ buf'[t] = b /\ Others(t)
      /\ UNCHANGED <<ReferenceCount, CountOfReferencedBuffers, chain>>
  BY <1>0 DEF IncPool, At, Goto, Others, bufferVars, IInv, TypeOK, ThreadType
<1>2. \A u \in Threads, c \in Buffers : Releasing(u, c)' <=> Releasing(u, c)
  BY <1>1 DEF Releasing, ReleaseSteps, Others
<1> SUFFICES ASSUME NEW p \in Pools PROVE Ledger(p)'
    BY DEF Ledgers
<1>3. PoolReferenceCount'[p] = PoolReferenceCount[p] + One(PoolOf[b] = p)
  BY <1>0 DEF IncPool, One, IInv, TypeOK, PoolType
<1>4. Counted(p)' = Counted(p) /\ Referenced(p)' = Referenced(p)
  BY <1>1, <1>2, CountsKept
<1>5. /\ t \notin On("getCount", p) /\ t \notin On("getCount", p)'
      /\ t \notin On("incBuf", p) /\ (t \in On("incBuf", p)' <=> PoolOf[b] = p)
      /\ t \notin Late(p) /\ t \notin Late(p)'
  BY <1>0, <1>1 DEF On, Late
<1>6. /\ Cardinality(On("getCount", p)') = Cardinality(On("getCount", p))
      /\ Cardinality(On("incBuf", p)') = Cardinality(On("incBuf", p)) + One(PoolOf[b] = p)
      /\ Cardinality(Late(p)') = Cardinality(Late(p))
  BY <1>1, <1>5, ThreadMoves DEF One
<1>7. Ledger(p)
  BY DEF Ledgers
<1> QED BY <1>1, <1>3, <1>4, <1>6, <1>7, LedgerType DEF Ledger

LEMMA IncBufLedger ==
    ASSUME IInv, Ledgers, NEW t \in Threads, IncBuf(t)
    PROVE  Ledgers'
<1>0. PICK b \in Buffers : b = buf[t]
  BY DEF IncBuf, At, IInv, TypeOK, CallType, IncSteps
<1>1. /\ pc[t] = "incBuf" /\ pc'[t] = "idle" /\ Others(t)
      /\ ReferenceCount'[b] = ReferenceCount[b] + 1
      /\ \A c \in Buffers \ {b} : ReferenceCount'[c] = ReferenceCount[c]
      /\ UNCHANGED <<PoolReferenceCount, CountOfReferencedBuffers, chain>>
  BY <1>0 DEF IncBuf, At, Goto, Idle, Others, poolVars, IInv, TypeOK, BufferType, ThreadType
<1>2. \A u \in Threads, c \in Buffers : Releasing(u, c)' <=> Releasing(u, c)
  BY <1>1 DEF Releasing, ReleaseSteps, Others
<1>3. ReferenceCount[b] \in Nat /\ ReferenceCount[b] # 0
  <2>1. pc[t] \in IncSteps
    BY <1>1 DEF IncSteps
  <2>2. ~Unused(b)
    BY <1>0, <2>1, IncAlive
  <2> QED BY <2>2, CountTells
<1> SUFFICES ASSUME NEW p \in Pools PROVE Ledger(p)'
    BY DEF Ledgers
<1>4. Ledger(p)
  BY DEF Ledgers
<1>5. /\ IsFiniteSet(Counted(p)')
      /\ Cardinality(Counted(p)') = Cardinality(Counted(p)) + One(PoolOf[b] = p)
  BY <1>1, <1>3, <1>4, CountedMoves DEF Ledger
<1>6. Referenced(p)' = Referenced(p)
  BY <1>1, <1>2, <1>3 DEF Referenced, InPool
<1>7. /\ t \notin On("getCount", p) /\ t \notin On("getCount", p)'
      /\ t \notin On("incBuf", p)' /\ (t \in On("incBuf", p) <=> PoolOf[b] = p)
      /\ t \notin Late(p) /\ t \notin Late(p)'
  BY <1>0, <1>1 DEF On, Late
<1>8. /\ Cardinality(On("getCount", p)') = Cardinality(On("getCount", p))
      /\ Cardinality(On("incBuf", p)') = Cardinality(On("incBuf", p)) - One(PoolOf[b] = p)
      /\ Cardinality(Late(p)') = Cardinality(Late(p))
  BY <1>1, <1>7, ThreadMoves DEF One
<1> QED BY <1>1, <1>4, <1>5, <1>6, <1>8, LedgerType DEF Ledger

\* ... and gives one up before the buffer does.
LEMMA DecPoolLedger ==
    ASSUME IInv, Ledgers, NEW t \in Threads, DecPool(t)
    PROVE  Ledgers'
<1>0. PICK b \in Buffers : b = buf[t]
  BY DEF DecPool, At, IInv, TypeOK, CallType, DecSteps
<1>1. /\ pc[t] = "decPool" /\ pc'[t] = "decBuf" /\ buf'[t] = b /\ Others(t)
      /\ UNCHANGED <<ReferenceCount, CountOfReferencedBuffers, chain>>
  BY <1>0 DEF DecPool, At, Goto, Others, bufferVars, IInv, TypeOK, ThreadType
<1>2. \A u \in Threads, c \in Buffers : Releasing(u, c)' <=> Releasing(u, c)
  BY <1>1 DEF Releasing, ReleaseSteps, Others
<1> SUFFICES ASSUME NEW p \in Pools PROVE Ledger(p)'
    BY DEF Ledgers
<1>3. PoolReferenceCount'[p] = PoolReferenceCount[p] - One(PoolOf[b] = p)
  BY <1>0 DEF DecPool, One, IInv, TypeOK, PoolType
<1>4. Counted(p)' = Counted(p) /\ Referenced(p)' = Referenced(p)
  BY <1>1, <1>2, CountsKept
<1>5. /\ t \notin On("getCount", p) /\ t \notin On("getCount", p)'
      /\ t \notin On("incBuf", p) /\ t \notin On("incBuf", p)'
      /\ t \notin Late(p) /\ (t \in Late(p)' <=> PoolOf[b] = p)
  BY <1>0, <1>1 DEF On, Late
<1>6. /\ Cardinality(On("getCount", p)') = Cardinality(On("getCount", p))
      /\ Cardinality(On("incBuf", p)') = Cardinality(On("incBuf", p))
      /\ Cardinality(Late(p)') = Cardinality(Late(p)) + One(PoolOf[b] = p)
  BY <1>1, <1>5, ThreadMoves DEF One
<1>7. Ledger(p)
  BY DEF Ledgers
<1> QED BY <1>1, <1>3, <1>4, <1>6, <1>7, LedgerType DEF Ledger

\* A buffer that has lost its last reference is referenced until it is free.
LEMMA DecBufLedger ==
    ASSUME IInv, Ledgers, NEW t \in Threads, DecBuf(t)
    PROVE  Ledgers'
<1>0. PICK b \in Buffers : b = buf[t]
  BY DEF DecBuf, At, IInv, TypeOK, CallType, DecSteps
<1>1. /\ pc[t] = "decBuf"
      /\ ReferenceCount'[b] = ReferenceCount[b] - 1
      /\ \A c \in Buffers \ {b} : ReferenceCount'[c] = ReferenceCount[c]
      /\ UNCHANGED <<PoolReferenceCount, CountOfReferencedBuffers>>
  BY <1>0 DEF DecBuf, At, poolVars, IInv, TypeOK, BufferType
<1>2. ReferenceCount[b] \in Nat /\ ReferenceCount[b] # 0
  <2>1. ~Unused(b)
    BY <1>0, <1>1 DEF Unused, DecSteps
  <2> QED BY <2>1, CountTells
<1>3. /\ Others(t) /\ pc'[t] \in {"relLock", "idle", "relDetach"}
      /\ ReferenceCount'[b] > 0 \/ Releasing(t, b)'
      /\ \A u \in Threads, c \in Buffers \ {b} : Releasing(u, c)' <=> Releasing(u, c)
  <2>1. CASE IsLast(b)
    <3>1. /\ pc'[t] = "relLock" /\ buf'[t] = b /\ Others(t) /\ chain' = chain
      BY <1>0, <2>1 DEF DecBuf, Goto, Others, IInv, TypeOK, ThreadType
    <3> QED BY <1>1, <3>1 DEF Releasing, ReleaseSteps, Others
  <2>2. CASE ~IsLast(b)
    <3>1. Return(t) /\ ReferenceCount[b] # 1
      BY <1>0, <2>2 DEF DecBuf, IsLast
    <3>2. /\ Others(t) /\ \A u \in Threads \ {t} : chain'[u] = chain[u]
          /\ pc'[t] \in {"idle", "relDetach"}
          /\ \A c \in Buffers : Releasing(t, c)' <=> c \in Elements(chain[t])
      BY <3>1, ReturnFacts
    <3>3. \A c \in Buffers : Releasing(t, c) <=> c \in Elements(chain[t])
      BY <1>1 DEF Releasing, ReleaseSteps
    <3>4. \A u \in Threads \ {t}, c \in Buffers : Releasing(u, c)' <=> Releasing(u, c)
      BY <3>2 DEF Releasing, Others
    <3>5. ReferenceCount'[b] > 0
      BY <1>1, <1>2, <3>1
    <3> QED BY <3>2, <3>3, <3>4, <3>5
  <2> QED BY <2>1, <2>2
<1> SUFFICES ASSUME NEW p \in Pools PROVE Ledger(p)'
    BY DEF Ledgers
<1>4. Ledger(p)
  BY DEF Ledgers
<1>5. /\ IsFiniteSet(Counted(p)')
      /\ Cardinality(Counted(p)') = Cardinality(Counted(p)) - One(PoolOf[b] = p)
  BY <1>1, <1>2, <1>4, CountedMoves DEF Ledger
<1>6. Referenced(p)' = Referenced(p)
  <2>1. ASSUME NEW c \in Buffers
        PROVE  (ReferenceCount'[c] > 0 \/ \E u \in Threads : Releasing(u, c)')
                  <=> (ReferenceCount[c] > 0 \/ \E u \in Threads : Releasing(u, c))
    BY <1>1, <1>2, <1>3
  <2> QED BY <2>1 DEF Referenced, InPool
<1>7. /\ t \notin On("getCount", p) /\ t \notin On("getCount", p)'
      /\ t \notin On("incBuf", p) /\ t \notin On("incBuf", p)'
      /\ t \notin Late(p)' /\ (t \in Late(p) <=> PoolOf[b] = p)
  BY <1>0, <1>1, <1>3 DEF On, Late
<1>8. /\ Cardinality(On("getCount", p)') = Cardinality(On("getCount", p))
      /\ Cardinality(On("incBuf", p)') = Cardinality(On("incBuf", p))
      /\ Cardinality(Late(p)') = Cardinality(Late(p)) - One(PoolOf[b] = p)
  BY <1>3, <1>7, ThreadMoves DEF One
<1> QED BY <1>1, <1>4, <1>5, <1>6, <1>8, LedgerType DEF Ledger

\* ReleaseBuffer puts the buffer on the ring and takes it off the count at once.
LEMMA RelFreeLedger ==
    ASSUME IInv, Ledgers, NEW t \in Threads, RelFree(t)
    PROVE  Ledgers'
<1>0. PICK b \in Buffers : b = buf[t]
  BY DEF RelFree, At, IInv, TypeOK, CallType, ReleaseSteps
<1>1. pc[t] = "relFree" /\ UNCHANGED <<PoolReferenceCount, ReferenceCount>>
  BY DEF RelFree, At, bufferVars
<1>2. /\ Others(t) /\ \A u \in Threads \ {t} : chain'[u] = chain[u]
      /\ pc'[t] \in {"idle", "relDetach"}
      /\ \A c \in Buffers : Releasing(t, c)' <=> c \in Elements(chain[t])
  BY ReturnFacts DEF RelFree
<1>3. /\ Releasing(t, b) /\ ReferenceCount[b] = 0
      /\ \A u \in Threads : Releasing(u, b) => u = t
      /\ b \notin Elements(chain[t])
  <2>1. Releasing(t, b)
    BY <1>0, <1>1 DEF Releasing, ReleaseSteps
  <2>2. Unused(b) /\ \A u \in Threads : Releasing(u, b) => u = t
    BY <2>1 DEF IInv, Places, ReleasedUnused
  <2>3. b \notin Elements(chain[t])
    BY <1>0, <1>1 DEF IInv, CallsAreSound, ChainDistinct, ReleaseSteps
  <2> QED BY <2>1, <2>2, <2>3, CountTells
<1>4. /\ \A u \in Threads : ~Releasing(u, b)'
      /\ \A u \in Threads, c \in Buffers \ {b} : Releasing(u, c)' <=> Releasing(u, c)
  <2>1. ASSUME NEW u \in Threads \ {t}, NEW c \in Buffers PROVE Releasing(u, c)' <=> Releasing(u, c)
    BY <1>2 DEF Releasing, Others
  <2>2. \A c \in Buffers \ {b} : Releasing(t, c) <=> c \in Elements(chain[t])
    BY <1>0, <1>1 DEF Releasing, ReleaseSteps
  <2> QED BY <1>2, <1>3, <2>1, <2>2
<1> SUFFICES ASSUME NEW p \in Pools PROVE Ledger(p)'
    BY DEF Ledgers
<1>5. Ledger(p)
  BY DEF Ledgers
<1>6. CountOfReferencedBuffers'[p] = CountOfReferencedBuffers[p] - One(PoolOf[b] = p)
  BY <1>0 DEF RelFree, CountReleased, One, IInv, TypeOK, PoolType
<1>7. Cardinality(Referenced(p)') = Cardinality(Referenced(p)) - One(PoolOf[b] = p)
  <2>1. b \notin Referenced(p)' /\ (b \in Referenced(p) <=> PoolOf[b] = p)
    BY <1>1, <1>3, <1>4 DEF Referenced, InPool
  <2>2. Cardinality(Referenced(p)') = Cardinality(Referenced(p))
             - One(b \in Referenced(p)) + One(b \in Referenced(p)')
    BY <1>1, <1>4, ReferencedMoves
  <2> QED BY <1>5, <2>1, <2>2, LedgerType DEF One
<1>8. Counted(p)' = Counted(p)
  BY <1>1 DEF Counted
<1>9. \A step \in {"getCount", "incBuf", "decBuf"} : On(step, p)' = On(step, p)
  BY <1>1, <1>2 DEF On, Others
<1>10. Late(p)' = Late(p)
  BY <1>9 DEF Late
<1> QED BY <1>1, <1>5, <1>6, <1>7, <1>8, <1>9, <1>10, LedgerType DEF Ledger

\* The pools start with nothing to count.
LEMMA InitLedgers == Init => Ledgers
<1> SUFFICES ASSUME Init, NEW p \in Pools PROVE Ledger(p)
    BY DEF Ledgers
<1>1. /\ \A b \in Buffers : ReferenceCount[b] = 0
      /\ \A t \in Threads : pc[t] = "idle" /\ chain[t] = <<>>
      /\ PoolReferenceCount[p] = 0 /\ CountOfReferencedBuffers[p] = 0
  BY DEF Init, Idle
<1>2. Counted(p) = {}
  <2>1. \A b \in InPool(p) : {b} \X (1..ReferenceCount[b]) = {}
    BY <1>1 DEF InPool
  <2> QED BY <2>1, Zenon DEF Counted
<1>3. /\ Referenced(p) = {} /\ Late(p) = {}
      /\ On("getCount", p) = {} /\ On("incBuf", p) = {}
  BY <1>1 DEF Referenced, InPool, Releasing, ReleaseSteps, Elements, Late, On
<1>4. IsFiniteSet({}) /\ Cardinality({}) = 0
  BY FS_EmptySet
<1>5. /\ IsFiniteSet(Counted(p))
      /\ Cardinality(Counted(p)) = 0 /\ Cardinality(Referenced(p)) = 0 /\ Cardinality(Late(p)) = 0
      /\ Cardinality(On("getCount", p)) = 0 /\ Cardinality(On("incBuf", p)) = 0
  BY <1>2, <1>3, <1>4, Zenon
<1> QED BY <1>1, <1>5 DEF Ledger

\* What a pool counts (buffer_pool_generic.cpp:624,772) and what its buffers
\* count (buffer_individual_generic.cpp:679,721) are raised and lowered under
\* different mutexes, and still never drift apart.
THEOREM CountersExact == Spec => []CountersAgree
<1>1. ASSUME IInv, Ledgers, [Next]_vars PROVE Ledgers'
  <2>1. CASE UNCHANGED vars
    BY <1>1, <2>1 DEF Ledgers, Ledger, Counted, Referenced, Late, On, InPool, Releasing,
                      vars, poolVars, bufferVars, threadVars
  <2>2. ASSUME NEW t \in Threads, Call(t) PROVE Ledgers'
    BY <1>1, <2>2, SteadyCalls, SteadyStep DEF IInv
  <2>3. ASSUME NEW t \in Threads, Advance(t) PROVE Ledgers'
    <3>1. CASE \/ GetTry(t) \/ GetSignalled(t) \/ GetTimedOut(t) \/ GetRelock(t) \/ GetTest(t)
               \/ GetFail(t) \/ AbortSetEvent(t) \/ RelLock(t) \/ RelDetach(t) \/ RelUnlock(t)
      BY <1>1, <3>1, SteadyAdvances, SteadyStep
    <3>2. CASE GetInit(t) \/ GetCount(t)
      BY <1>1, <3>2, GetInitLedger, GetCountLedger
    <3>3. CASE IncPool(t) \/ IncBuf(t)
      BY <1>1, <3>3, IncPoolLedger, IncBufLedger
    <3>4. CASE DecPool(t) \/ DecBuf(t) \/ RelFree(t)
      BY <1>1, <3>4, DecPoolLedger, DecBufLedger, RelFreeLedger
    <3> QED BY <2>3, <3>1, <3>2, <3>3, <3>4 DEF Advance
  <2> QED BY <1>1, <2>1, <2>2, <2>3 DEF Next
<1>2. Ledgers => CountersAgree
  BY DEF Ledgers, Ledger, Late, CountersAgree
<1> QED BY InitLedgers, Invariance, <1>1, <1>2, PTL DEF Spec

=============================================================================
