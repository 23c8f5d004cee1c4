--------------------------- MODULE BufferPoolLife ---------------------------
(* Proofs that the pool of BufferPool implements the life of a buffer that  *)
(* BufferLife states, and that it loses none, for any threads and buffers.  *)
EXTENDS BufferPoolInvariants

-----------------------------------------------------------------------------
(* Where a buffer is *)

\* The status of a buffer from the place it is in.
StatusFits ==
    \A b \in Buffers :
        /\ OnRing(b) <=> StatusOf(b) = "free"
        /\ BeingMade(b) <=> StatusOf(b) = "taken"
        /\ ~Unused(b) <=> StatusOf(b) = "used"
        /\ Claims(b) # {} <=> StatusOf(b) = "used"
        /\ (\E t \in Threads : Releasing(t, b)) <=> StatusOf(b) = "ending"
        /\ StatusOf(b) \in {"free", "taken", "used", "ending", "lost"}

LEMMA StatusFromPlace == IInv => StatusFits
<1> SUFFICES ASSUME IInv, NEW b \in Buffers
             PROVE  /\ OnRing(b) <=> StatusOf(b) = "free"
                    /\ BeingMade(b) <=> StatusOf(b) = "taken"
                    /\ ~Unused(b) <=> StatusOf(b) = "used"
                    /\ Claims(b) # {} <=> StatusOf(b) = "used"
                    /\ (\E t \in Threads : Releasing(t, b)) <=> StatusOf(b) = "ending"
                    /\ StatusOf(b) \in {"free", "taken", "used", "ending", "lost"}
    BY DEF StatusFits
<1>1. Unused(b) <=> Claims(b) = {}
  BY UnusedMeansNoClaims
<1>2. BeingMade(b) <=> \E t \in Threads : Made(t, b)
  BY DEF BeingMade, Made
<1>3. /\ OnRing(b) => Unused(b) /\ ~BeingMade(b) /\ \A t \in Threads : ~Releasing(t, b)
      /\ (\E t \in Threads : Releasing(t, b)) => Unused(b) /\ ~BeingMade(b)
      /\ BeingMade(b) => Unused(b)
  BY <1>2 DEF IInv, Places, FreeUnused, ReleasedUnused, MadeUnused
<1> QED BY <1>1, <1>3 DEF StatusOf, OnRing

\* The same after a step.
LEMMA StatusFromPlaceNext == IInv' => StatusFits'
BY StatusFromPlace, PTL

\* Nothing happens to b in a step.
Same(b) ==
    /\ OnRing(b)' <=> OnRing(b)
    /\ BeingMade(b)' <=> BeingMade(b)
    /\ (\E t \in Threads : Releasing(t, b))' <=> (\E t \in Threads : Releasing(t, b))
    /\ Owners(b)' = Owners(b)
    /\ Attachers(b)' = Attachers(b)
    /\ Droppers(b)' = Droppers(b)

LEMMA SameStatus ==
    ASSUME NEW b \in Buffers, Same(b)
    PROVE  StatusOf(b)' = StatusOf(b) /\ Claims(b)' = Claims(b)
<1>1. Claims(b)' = Claims(b)
  BY DEF Same, Claims
<1> QED BY <1>1 DEF Same, StatusOf, OnRing

\* A step of t that has nothing to do with b.
LEMMA Apart ==
    ASSUME NEW t \in Threads, NEW b \in Buffers, Others(t),
           OnRing(b)' <=> OnRing(b),
           Made(t, b)' <=> Made(t, b),
           \A u \in Threads : Releasing(u, b)' <=> Releasing(u, b),
           \A u \in Threads : b \in held'[u] <=> b \in held[u],
           \A a \in Buffers : /\ b \in AttachedBuffers'[a] <=> b \in AttachedBuffers[a]
                              /\ Promised(b, a)' <=> Promised(b, a),
           (pc'[t] \in DecSteps /\ buf'[t] = b) <=> (pc[t] \in DecSteps /\ buf[t] = b)
    PROVE  Same(b)
<1>1. BeingMade(b)' <=> BeingMade(b)
  BY DEF BeingMade, Made, Others
<1>2. Owners(b)' = Owners(b)
  BY DEF Owners
<1>3. Attachers(b)' = Attachers(b)
  BY DEF Attachers
<1>4. Droppers(b)' = Droppers(b)
  BY DEF Droppers, Others
<1> QED BY <1>1, <1>2, <1>3, <1>4 DEF Same

\* The step moves one buffer, or none, and touches no other one.
Moves(b, from, to) ==
    /\ b \in Buffers
    /\ StatusOf(b) = from
    /\ StatusOf(b)' = to
    /\ \A c \in Buffers \ {b} : Same(c)

Still == \A b \in Buffers : Same(b)

\* What a step of the pool is in the life of the buffers.
LifeStep ==
    \/ Still
    \/ \E b \in Buffers :
          \/ Moves(b, "free", "taken")
          \/ Moves(b, "taken", "used")
          \/ Moves(b, "taken", "lost") /\ PoolOf[b] \in FailingPools
          \/ Moves(b, "used", "used")
          \/ Moves(b, "used", "ending")
          \/ Moves(b, "ending", "free")

-----------------------------------------------------------------------------
(* Buffers that leave the pool *)

\* A failed allocation is the only quiet step that moves a buffer.
LEMMA QuietLife ==
    ASSUME IInv, NEW t \in Threads, Quiet(t), pc[t] = "getInit" => pc'[t] = "getInit"
    PROVE  Still
<1> SUFFICES ASSUME NEW b \in Buffers PROVE Same(b)
    BY DEF Still
<1>1. \A x : Promised(b, x)' <=> Promised(b, x)
  BY DEF Promised, Quiet, Others
<1>2. \A u \in Threads : Releasing(u, b)' <=> Releasing(u, b)
  BY DEF Releasing, Quiet, Others
<1>3. Made(t, b)' <=> Made(t, b)
  BY DEF Made, Quiet
<1>4. (pc'[t] \in DecSteps /\ buf'[t] = b) <=> (pc[t] \in DecSteps /\ buf[t] = b)
  BY DEF Quiet
<1>5. OnRing(b)' <=> OnRing(b)
  BY DEF OnRing, Quiet
<1> QED BY <1>1, <1>2, <1>3, <1>4, <1>5, Apart DEF Quiet

LEMMA TailElements ==
    ASSUME NEW S, NEW s \in Seq(S), s # <<>>
    PROVE  Elements(s) = Elements(Tail(s)) \cup {Head(s)}
<1>1. ASSUME NEW i \in DOMAIN s PROVE s[i] \in Elements(Tail(s)) \cup {Head(s)}
  <2>1. CASE i = 1
    BY <2>1
  <2>2. CASE i # 1
    <3>1. i - 1 \in DOMAIN Tail(s) /\ Tail(s)[i - 1] = s[i]
      BY <2>2
    <3> QED BY <3>1 DEF Elements
  <2> QED BY <2>1, <2>2
<1>2. Head(s) \in Elements(s)
  BY DEF Elements
<1>3. ASSUME NEW i \in DOMAIN Tail(s) PROVE Tail(s)[i] \in Elements(s)
  <2>1. i + 1 \in DOMAIN s /\ Tail(s)[i] = s[i + 1]
    OBVIOUS
  <2> QED BY <2>1 DEF Elements
<1> QED BY <1>1, <1>2, <1>3 DEF Elements

LEMMA GetTakeLife ==
    ASSUME IInv, IInv', NEW t \in Threads, pc[t] = "getTry", FreeBuffer[arg[t]] # <<>>,
           FreeBuffer' = [FreeBuffer EXCEPT ![arg[t]] = Tail(@)],
           Goto(t, "getInit", Head(FreeBuffer[arg[t]]), None),
           UNCHANGED <<bufferVars, held, chain>>
    PROVE  \E b \in Buffers : Moves(b, "free", "taken")
<1>0. PICK p \in Pools : p = arg[t]
  BY DEF IInv, TypeOK, CallType, GetSteps
<1>1. PICK b : b = Head(FreeBuffer[p])
  OBVIOUS
<1>2. /\ FreeBuffer[p] \in Seq(Buffers) /\ FreeBuffer[p] # <<>>
      /\ FreeBuffer'[p] = Tail(FreeBuffer[p])
      /\ \A q \in Pools \ {p} : FreeBuffer'[q] = FreeBuffer[q]
      /\ pc'[t] = "getInit" /\ buf'[t] = b /\ Others(t)
      /\ UNCHANGED <<ReferenceCount, AttachedBuffers, held, chain>>
  BY <1>0, <1>1 DEF IInv, TypeOK, PoolType, ThreadType, Goto, Others, bufferVars
<1>3. Elements(FreeBuffer[p]) = Elements(FreeBuffer'[p]) \cup {b}
  BY <1>1, <1>2, TailElements
<1>4. b \in Buffers /\ PoolOf[b] = p /\ OnRing(b)
  <2>1. b \in Buffers
    BY <1>1, <1>2
  <2>2. PoolOf[b] = p
    <3>1. PICK i \in DOMAIN FreeBuffer[p] : FreeBuffer[p][i] = b
      BY <1>3 DEF Elements
    <3> QED BY <3>1 DEF IInv, Places, RingSound
  <2> QED BY <1>3, <2>1, <2>2 DEF OnRing
<1>5. ASSUME NEW c \in Buffers \ {b} PROVE Same(c)
  <2>1. OnRing(c)' <=> OnRing(c)
    BY <1>2, <1>3, BuffersAssumption DEF OnRing
  <2>2. Made(t, c)' <=> Made(t, c)
    BY <1>2 DEF Made
  <2>3. /\ \A u \in Threads : Releasing(u, c)' <=> Releasing(u, c)
        /\ \A x : Promised(c, x)' <=> Promised(c, x)
    BY <1>2 DEF Releasing, Promised, Others, ReleaseSteps, IncSteps
  <2> QED BY <1>2, <2>1, <2>2, <2>3, Apart DEF DecSteps
<1>6. BeingMade(b)'
  BY <1>2 DEF BeingMade
<1> QED BY <1>4, <1>5, <1>6, StatusFromPlace, StatusFromPlaceNext DEF StatusFits, Moves

LEMMA GetInitLife ==
    ASSUME IInv, IInv', NEW t \in Threads, GetInit(t)
    PROVE  \E b \in Buffers : Moves(b, "taken", "used")
<1>0. PICK b \in Buffers : b = buf[t]
  BY DEF GetInit, At, IInv, TypeOK, CallType, NewSteps
<1>1. /\ pc[t] = "getInit" /\ pc'[t] = "getCount" /\ buf[t] = b /\ buf'[t] = b /\ Others(t)
      /\ \A u \in Threads : held'[u] = IF u = t THEN held[t] \cup {b} ELSE held[u]
      /\ \A a \in Buffers : AttachedBuffers'[a] = IF a = b THEN {} ELSE AttachedBuffers[a]
      /\ UNCHANGED <<FreeBuffer, chain>>
  BY <1>0 DEF GetInit, Goto, At, IInv, TypeOK, BufferType, ThreadType, Others, poolVars
<1>2. AttachedBuffers[b] = {}
  BY <1>1 DEF IInv, CallsAreSound, Bare
<1>3. ASSUME NEW c \in Buffers \ {b} PROVE Same(c)
  <2>1. OnRing(c)' <=> OnRing(c)
    BY <1>1 DEF OnRing
  <2>2. Made(t, c)' <=> Made(t, c)
    BY <1>1 DEF Made
  <2>3. /\ \A u \in Threads : Releasing(u, c)' <=> Releasing(u, c)
        /\ \A x : Promised(c, x)' <=> Promised(c, x)
    BY <1>1 DEF Releasing, Promised, Others, ReleaseSteps, IncSteps
  <2>4. \A u \in Threads : c \in held'[u] <=> c \in held[u]
    BY <1>1
  <2>5. \A a \in Buffers : c \in AttachedBuffers'[a] <=> c \in AttachedBuffers[a]
    BY <1>1, <1>2
  <2> QED BY <1>1, <2>1, <2>2, <2>3, <2>4, <2>5, Apart DEF DecSteps
<1>4. BeingMade(b) /\ ~Unused(b)'
  BY <1>1 DEF BeingMade, Unused
<1> QED BY <1>3, <1>4, StatusFromPlace, StatusFromPlaceNext DEF StatusFits, Moves

LEMMA GetFailLife ==
    ASSUME IInv, IInv', NEW t \in Threads, GetFail(t)
    PROVE  \E b \in Buffers : Moves(b, "taken", "lost") /\ PoolOf[b] \in FailingPools
<1>0. PICK b \in Buffers : b = buf[t]
  BY DEF GetFail, At, IInv, TypeOK, CallType, NewSteps
<1>1. /\ pc[t] = "getInit" /\ pc'[t] = "idle" /\ buf[t] = b /\ Others(t)
      /\ PoolOf[b] \in FailingPools
      /\ UNCHANGED <<FreeBuffer, AttachedBuffers, held, chain>>
  BY <1>0 DEF GetFail, Goto, At, Idle, IInv, TypeOK, ThreadType, Others, poolVars, bufferVars
<1>2. ASSUME NEW c \in Buffers
      PROVE  /\ OnRing(c)' <=> OnRing(c)
             /\ \A u \in Threads : Releasing(u, c)' <=> Releasing(u, c)
             /\ \A x : Promised(c, x)' <=> Promised(c, x)
  BY <1>1 DEF OnRing, Releasing, Promised, Others, ReleaseSteps, IncSteps
<1>3. ASSUME NEW c \in Buffers \ {b} PROVE Same(c)
  <2>1. Made(t, c)' <=> Made(t, c)
    BY <1>1 DEF Made
  <2> QED BY <1>1, <1>2, <2>1, Apart DEF DecSteps
<1>4. BeingMade(b) /\ Made(t, b)
  BY <1>1 DEF BeingMade, Made
<1>5. /\ Unused(b) /\ ~OnRing(b)
      /\ \A u \in Threads : ~Releasing(u, b) /\ (Made(u, b) => u = t)
  BY <1>4 DEF IInv, Places, FreeUnused, ReleasedUnused, MadeUnused
<1>6. Unused(b)'
  BY <1>1, <1>2, <1>5 DEF Unused, Others, DecSteps
<1>7. ~BeingMade(b)'
  BY <1>1, <1>5 DEF BeingMade, Made, Others
<1>8. StatusOf(b)' = "lost"
  BY <1>2, <1>5, <1>6, <1>7, StatusFromPlaceNext DEF StatusFits
<1> QED BY <1>1, <1>3, <1>4, <1>8, StatusFromPlace DEF StatusFits, Moves

-----------------------------------------------------------------------------
(* Buffers that have users *)

\* A step in which a buffer keeps a user.
LEMMA StaysUsed ==
    ASSUME IInv, IInv', NEW b \in Buffers, ~Unused(b), ~Unused(b)',
           \A c \in Buffers \ {b} : Same(c)
    PROVE  LifeStep
BY StatusFromPlace, StatusFromPlaceNext DEF StatusFits, Moves, LifeStep

LEMMA DecrementLife ==
    ASSUME IInv, IInv', NEW t \in Threads, NEW b \in Buffers, DecrementReferenceCount(t, b)
    PROVE  LifeStep
<1>1. /\ pc[t] = "idle" /\ pc'[t] = "decPool" /\ buf'[t] = b /\ Others(t) /\ b \in held[t]
      /\ \A u \in Threads : held'[u] = IF u = t THEN held[t] \ {b} ELSE held[u]
      /\ UNCHANGED <<FreeBuffer, AttachedBuffers, chain>>
  BY DEF DecrementReferenceCount, Goto, At, Idle, IInv, TypeOK, ThreadType, Others, poolVars,
         bufferVars
<1>2. ASSUME NEW c \in Buffers \ {b} PROVE Same(c)
  <2>1. /\ OnRing(c)' <=> OnRing(c)
        /\ Made(t, c)' <=> Made(t, c)
        /\ \A u \in Threads : Releasing(u, c)' <=> Releasing(u, c)
        /\ \A x : Promised(c, x)' <=> Promised(c, x)
    BY <1>1 DEF OnRing, Made, Releasing, Promised, Others, ReleaseSteps, IncSteps
  <2>2. \A u \in Threads : c \in held'[u] <=> c \in held[u]
    BY <1>1
  <2> QED BY <1>1, <2>1, <2>2, Apart DEF DecSteps
<1>3. ~Unused(b) /\ ~Unused(b)'
  BY <1>1 DEF Unused, DecSteps
<1> QED BY <1>2, <1>3, StaysUsed

LEMMA TransferLife ==
    ASSUME IInv, IInv', NEW t \in Threads, NEW b \in Buffers, NEW u \in Threads,
           TransferOwnership(t, b, u)
    PROVE  LifeStep
<1>1. /\ b \in held[t] /\ b \in held'[u] /\ Others(t)
      /\ \A v \in Threads : held'[v] \ {b} = held[v] \ {b}
      /\ UNCHANGED <<FreeBuffer, AttachedBuffers, pc, buf, arg, chain>>
  BY DEF TransferOwnership, IInv, TypeOK, ThreadType, Others, poolVars, bufferVars
<1>2. ASSUME NEW c \in Buffers \ {b} PROVE Same(c)
  <2>1. /\ OnRing(c)' <=> OnRing(c)
        /\ Made(t, c)' <=> Made(t, c)
        /\ \A v \in Threads : Releasing(v, c)' <=> Releasing(v, c)
        /\ \A x : Promised(c, x)' <=> Promised(c, x)
    BY <1>1 DEF OnRing, Made, Releasing, Promised
  <2>2. \A v \in Threads : c \in held'[v] <=> c \in held[v]
    BY <1>1
  <2> QED BY <1>1, <2>1, <2>2, Apart
<1>3. ~Unused(b) /\ ~Unused(b)'
  BY <1>1 DEF Unused
<1> QED BY <1>2, <1>3, StaysUsed

\* An increment that begins is a promise, and a promise is no claim.
LEMMA IncrementLife ==
    ASSUME IInv, IInv', NEW t \in Threads, NEW b \in Buffers, NEW u \in Threads,
           IncrementReferenceCount(t, b, u)
    PROVE  LifeStep
<1>1. /\ pc[t] = "idle" /\ pc'[t] = "incPool" /\ arg'[t] = u /\ Others(t)
      /\ UNCHANGED <<FreeBuffer, AttachedBuffers, held, chain>>
  BY DEF IncrementReferenceCount, Goto, At, Idle, IInv, TypeOK, ThreadType, Others, poolVars,
         bufferVars
<1>2. ASSUME NEW c \in Buffers PROVE Same(c)
  <2>1. /\ OnRing(c)' <=> OnRing(c)
        /\ Made(t, c)' <=> Made(t, c)
        /\ \A v \in Threads : Releasing(v, c)' <=> Releasing(v, c)
    BY <1>1 DEF OnRing, Made, Releasing, Others, ReleaseSteps
  <2>2. \A a \in Buffers : Promised(c, a)' <=> Promised(c, a)
    BY <1>1, NamesAssumption DEF Promised, Others, IncSteps
  <2> QED BY <1>1, <2>1, <2>2, Apart DEF DecSteps
<1> QED BY <1>2 DEF LifeStep, Still

LEMMA AttachLife ==
    ASSUME IInv, IInv', NEW t \in Threads, NEW a \in Buffers, NEW b \in Buffers,
           AttachBuffer(t, a, b)
    PROVE  LifeStep
<1>1. /\ pc[t] = "idle" /\ b \notin AttachedBuffers[a]
      /\ pc'[t] = "incPool" /\ buf'[t] = b /\ arg'[t] = a /\ Others(t)
      /\ \A c \in Buffers : AttachedBuffers'[c] = IF c = a THEN AttachedBuffers[a] \cup {b}
                                                          ELSE AttachedBuffers[c]
      /\ UNCHANGED <<FreeBuffer, held, chain>>
  BY DEF AttachBuffer, CountAttachment, Goto, At, Idle, IInv, TypeOK, ThreadType, BufferType,
         Others, poolVars
<1>2. \A c, x : Promised(c, x)' <=> (Promised(c, x) \/ (c = b /\ x = a))
  BY <1>1 DEF Promised, Others, IncSteps
<1>3. ASSUME NEW c \in Buffers PROVE Same(c)
  <2>1. /\ OnRing(c)' <=> OnRing(c)
        /\ BeingMade(c)' <=> BeingMade(c)
        /\ \A u \in Threads : Releasing(u, c)' <=> Releasing(u, c)
    BY <1>1 DEF OnRing, BeingMade, Releasing, Others, ReleaseSteps
  <2>2. Attachers(c)' = Attachers(c)
    BY <1>1, <1>2 DEF Attachers
  <2>3. Owners(c)' = Owners(c) /\ Droppers(c)' = Droppers(c)
    BY <1>1 DEF Owners, Droppers, Others, DecSteps
  <2> QED BY <2>1, <2>2, <2>3 DEF Same
<1> QED BY <1>3 DEF LifeStep, Still

LEMMA DetachLife ==
    ASSUME IInv, IInv', NEW t \in Threads, NEW a \in Buffers, NEW b \in Buffers,
           DetachBuffer(t, a, b)
    PROVE  LifeStep
<1>1. /\ pc[t] = "idle" /\ Owners(a) = {t} /\ b \in AttachedBuffers[a]
      /\ pc'[t] = "decPool" /\ buf'[t] = b /\ Others(t)
      /\ \A c \in Buffers : AttachedBuffers'[c] = IF c = a THEN AttachedBuffers[a] \ {b}
                                                          ELSE AttachedBuffers[c]
      /\ UNCHANGED <<FreeBuffer, held, chain>>
  BY DEF DetachBuffer, SoleOwner, Goto, At, Idle, IInv, TypeOK, ThreadType, BufferType, Others,
         poolVars
<1>2. ~Promised(b, a)
  BY <1>1, NotPromised DEF Owners, IncSteps
<1>3. ASSUME NEW c \in Buffers \ {b} PROVE Same(c)
  <2>1. /\ OnRing(c)' <=> OnRing(c)
        /\ Made(t, c)' <=> Made(t, c)
        /\ \A u \in Threads : Releasing(u, c)' <=> Releasing(u, c)
        /\ \A x : Promised(c, x)' <=> Promised(c, x)
    BY <1>1 DEF OnRing, Made, Releasing, Promised, Others, ReleaseSteps, IncSteps
  <2>2. \A x \in Buffers : c \in AttachedBuffers'[x] <=> c \in AttachedBuffers[x]
    BY <1>1
  <2> QED BY <1>1, <2>1, <2>2, Apart DEF DecSteps
<1>4. ~Unused(b) /\ ~Unused(b)'
  BY <1>1, <1>2 DEF Unused, DecSteps
<1> QED BY <1>3, <1>4, StaysUsed

LEMMA IncBufLife ==
    ASSUME IInv, IInv', NEW t \in Threads, IncBuf(t)
    PROVE  LifeStep
<1>0. PICK b \in Buffers : b = buf[t]
  BY DEF IncBuf, At, IInv, TypeOK, CallType, IncSteps
<1> DEFINE x == arg[t]
<1>1. /\ pc[t] = "incBuf" /\ buf[t] = b /\ x \in Threads \cup Buffers
      /\ pc'[t] = "idle" /\ Others(t)
      /\ \A u \in Threads : held'[u] = IF u = x THEN held[u] \cup {b} ELSE held[u]
      /\ UNCHANGED <<FreeBuffer, AttachedBuffers, chain>>
  BY <1>0 DEF IncBuf, Goto, At, Idle, IInv, TypeOK, ThreadType, CallType, IncSteps, Others, poolVars
<1>2. ~Unused(b)
  BY <1>1, IncAlive DEF IncSteps
<1>3. ASSUME NEW c \in Buffers \ {b} PROVE Same(c)
  <2>1. /\ OnRing(c)' <=> OnRing(c)
        /\ Made(t, c)' <=> Made(t, c)
        /\ \A u \in Threads : Releasing(u, c)' <=> Releasing(u, c)
        /\ \A y : Promised(c, y)' <=> Promised(c, y)
    BY <1>1 DEF OnRing, Made, Releasing, Promised, Others, ReleaseSteps, IncSteps
  <2>2. \A u \in Threads : c \in held'[u] <=> c \in held[u]
    BY <1>1
  <2> QED BY <1>1, <2>1, <2>2, Apart DEF DecSteps
<1>4. ~Unused(b)'
  <2>1. CASE x \in Threads
    BY <1>1, <2>1 DEF Unused
  <2>2. CASE x \notin Threads
    <3>1. \/ \E u \in Threads : b \in held[u]
          \/ \E a \in Buffers : b \in AttachedBuffers[a] /\ ~Promised(b, a)
          \/ \E u \in Threads : pc[u] \in DecSteps /\ buf[u] = b
      BY <1>2 DEF Unused
    <3>2. \A y : Promised(b, y)' => Promised(b, y)
      BY <1>1 DEF Promised, Others, IncSteps
    <3> QED BY <1>1, <2>2, <3>1, <3>2 DEF Unused, Others, DecSteps
  <2> QED BY <2>1, <2>2
<1> QED BY <1>2, <1>3, <1>4, StaysUsed

-----------------------------------------------------------------------------
(* Buffers that are released *)

LEMMA RelDetachLife ==
    ASSUME IInv, IInv', NEW t \in Threads, RelDetach(t)
    PROVE  LifeStep
<1> DEFINE a == buf[t]
<1>1. PICK b \in AttachedBuffers[a] :
          /\ AttachedBuffers' = [AttachedBuffers EXCEPT ![a] = @ \ {b}]
          /\ chain' = [chain EXCEPT ![t] = Append(@, a)]
          /\ Goto(t, "decPool", b, None)
  BY DEF RelDetach
<1>2. /\ pc[t] = "relDetach" /\ a \in Buffers
      /\ UNCHANGED <<FreeBuffer, held>>
  BY DEF RelDetach, At, poolVars, IInv, TypeOK, CallType, ReleaseSteps
<1>3. /\ b \in Buffers
      /\ pc'[t] = "decPool" /\ buf'[t] = b /\ Others(t)
      /\ \A c \in Buffers : AttachedBuffers'[c] = IF c = a THEN AttachedBuffers[a] \ {b}
                                                          ELSE AttachedBuffers[c]
      /\ chain'[t] = Append(chain[t], a)
      /\ \A u \in Threads \ {t} : chain'[u] = chain[u]
      /\ chain[t] \in Seq(Buffers)
  BY <1>1, <1>2 DEF Goto, IInv, TypeOK, ThreadType, BufferType, Others
<1>4. Elements(chain'[t]) = Elements(chain[t]) \cup {a}
  BY <1>2, <1>3, AppendFacts
<1>5. \A u \in Threads, c \in Buffers : Releasing(u, c)' <=> Releasing(u, c)
  BY <1>2, <1>3, <1>4 DEF Releasing, Others, ReleaseSteps
<1>6. Unused(a) /\ ~Promised(b, a)
  <2>1. Releasing(t, a)
    BY <1>2 DEF Releasing, ReleaseSteps
  <2>2. Unused(a)
    BY <1>2, <2>1 DEF IInv, Places, ReleasedUnused
  <2> QED BY <1>2, <1>3, <2>2, NotPromised
<1>7. ASSUME NEW c \in Buffers \ {b} PROVE Same(c)
  <2>1. /\ OnRing(c)' <=> OnRing(c)
        /\ Made(t, c)' <=> Made(t, c)
        /\ \A x : Promised(c, x)' <=> Promised(c, x)
    BY <1>2, <1>3 DEF OnRing, Made, Promised, Others, IncSteps
  <2>2. \A x \in Buffers : c \in AttachedBuffers'[x] <=> c \in AttachedBuffers[x]
    BY <1>3
  <2> QED BY <1>2, <1>3, <1>5, <2>1, <2>2, Apart DEF DecSteps
<1>8. ~Unused(b) /\ ~Unused(b)'
  BY <1>1, <1>2, <1>3, <1>6 DEF Unused, DecSteps
<1> QED BY <1>3, <1>7, <1>8, StaysUsed

LEMMA DecBufLife ==
    ASSUME IInv, IInv', NEW t \in Threads, DecBuf(t)
    PROVE  LifeStep
<1>0. PICK b \in Buffers : b = buf[t]
  BY DEF DecBuf, At, IInv, TypeOK, CallType, DecSteps
<1>1. /\ pc[t] = "decBuf" /\ b = buf[t]
      /\ UNCHANGED <<FreeBuffer, AttachedBuffers, held>>
  BY <1>0 DEF DecBuf, At, poolVars
<1>2. ~Unused(b)
  BY <1>1 DEF Unused, DecSteps
<1>3. CASE IsLast(b)
  <2>1. /\ Others(t) /\ pc'[t] = "relLock" /\ buf'[t] = b /\ chain' = chain
    BY <1>0, <1>3 DEF DecBuf, Goto, Others, IInv, TypeOK, ThreadType
  <2>2. ASSUME NEW c \in Buffers \ {b} PROVE Same(c)
    <3>1. /\ OnRing(c)' <=> OnRing(c)
          /\ Made(t, c)' <=> Made(t, c)
          /\ \A u \in Threads : Releasing(u, c)' <=> Releasing(u, c)
          /\ \A x : Promised(c, x)' <=> Promised(c, x)
      BY <1>1, <2>1 DEF OnRing, Made, Releasing, Promised, Others, ReleaseSteps, IncSteps
    <3> QED BY <1>1, <2>1, <3>1, Apart DEF DecSteps
  <2>3. Releasing(t, b)'
    BY <2>1 DEF Releasing, ReleaseSteps
  <2>4. Moves(b, "used", "ending")
    BY <1>2, <2>2, <2>3, StatusFromPlace, StatusFromPlaceNext DEF StatusFits, Moves
  <2> QED BY <2>4 DEF LifeStep
<1>4. CASE ~IsLast(b)
  <2>1. Return(t)
    BY <1>0, <1>4 DEF DecBuf
  <2>2. /\ Others(t) /\ \A u \in Threads \ {t} : chain'[u] = chain[u]
        /\ pc'[t] \in {"idle", "relDetach"}
        /\ \A c \in Buffers : Releasing(t, c)' <=> c \in Elements(chain[t])
    BY <2>1, ReturnFacts
  <2>3. \A u \in Threads, c \in Buffers : Releasing(u, c)' <=> Releasing(u, c)
    BY <1>1, <2>2 DEF Releasing, Others, ReleaseSteps
  <2>4. ASSUME NEW c \in Buffers \ {b} PROVE Same(c)
    <3>1. /\ OnRing(c)' <=> OnRing(c)
          /\ Made(t, c)' <=> Made(t, c)
          /\ \A x : Promised(c, x)' <=> Promised(c, x)
      BY <1>1, <2>2 DEF OnRing, Made, Promised, Others, IncSteps
    <3> QED BY <1>1, <2>2, <2>3, <3>1, Apart DEF DecSteps
  <2>5. ~Unused(b)'
    <3>1. /\ ReferenceCount[b] \in Int /\ ReferenceCount'[b] = ReferenceCount[b] - 1
          /\ ReferenceCount[b] # 1
      BY <1>0, <1>4 DEF DecBuf, IsLast, IInv, TypeOK, BufferType
    <3>2. ReferenceCount'[b] # 0
      BY <3>1
    <3>3. \/ Owners(b)' # {} \/ Attachers(b)' # {} \/ Droppers(b)' # {}
      <4>1. ReferenceCount'[b] = Cardinality(Owners(b)') + Cardinality(Attachers(b)')
                                   + Cardinality(Droppers(b)')
        BY DEF IInv, CountIsExact
      <4>2. Cardinality({}) = 0
        BY FS_EmptySet
      <4> QED BY <3>2, <4>1, <4>2
    <3> QED BY <3>3 DEF Unused, Owners, Attachers, Droppers
  <2> QED BY <1>2, <2>4, <2>5, StaysUsed
<1> QED BY <1>3, <1>4

LEMMA RelFreeLife ==
    ASSUME IInv, IInv', NEW t \in Threads, RelFree(t)
    PROVE  LifeStep
<1>0. PICK b \in Buffers : b = buf[t]
  BY DEF RelFree, At, IInv, TypeOK, CallType, ReleaseSteps
<1> DEFINE p == PoolOf[b]
<1>1. /\ pc[t] = "relFree" /\ b = buf[t] /\ p \in Pools
      /\ FreeBuffer[p] \in Seq(Buffers)
      /\ FreeBuffer'[p] = Append(FreeBuffer[p], b)
      /\ \A q \in Pools \ {p} : FreeBuffer'[q] = FreeBuffer[q]
      /\ UNCHANGED <<AttachedBuffers, held>>
  BY <1>0, BuffersAssumption DEF RelFree, InsertFree, At, bufferVars, IInv, TypeOK, PoolType
<1>2. /\ Others(t) /\ \A u \in Threads \ {t} : chain'[u] = chain[u]
      /\ pc'[t] \in {"idle", "relDetach"}
      /\ \A c \in Buffers : Releasing(t, c)' <=> c \in Elements(chain[t])
  BY ReturnFacts DEF RelFree
<1>3. Elements(FreeBuffer'[p]) = Elements(FreeBuffer[p]) \cup {b}
  BY <1>1, AppendFacts
<1>4. ASSUME NEW c \in Buffers \ {b} PROVE Same(c)
  <2>1. OnRing(c)' <=> OnRing(c)
    BY <1>1, <1>3, BuffersAssumption DEF OnRing
  <2>2. \A u \in Threads : Releasing(u, c)' <=> Releasing(u, c)
    BY <1>1, <1>2 DEF Releasing, Others, ReleaseSteps
  <2>3. /\ Made(t, c)' <=> Made(t, c)
        /\ \A x : Promised(c, x)' <=> Promised(c, x)
    BY <1>1, <1>2 DEF Made, Promised, Others, IncSteps
  <2> QED BY <1>1, <1>2, <2>1, <2>2, <2>3, Apart DEF DecSteps
<1>5. Releasing(t, b) /\ OnRing(b)'
  BY <1>1, <1>3 DEF Releasing, OnRing, ReleaseSteps
<1>6. Moves(b, "ending", "free")
  BY <1>4, <1>5, StatusFromPlace, StatusFromPlaceNext DEF StatusFits, Moves
<1> QED BY <1>6 DEF LifeStep

-----------------------------------------------------------------------------
(* Every step is a step in the life of at most one buffer *)

LEMMA CallLife ==
    ASSUME IInv, IInv', NEW t \in Threads, Call(t)
    PROVE  LifeStep
<1>1. ASSUME NEW p \in Pools, GetBuffer(t, p) \/ AbortBlockingGetBuffer(t, p) PROVE LifeStep
  <2>1. Quiet(t) /\ pc[t] # "getInit"
    BY <1>1, QuietActions DEF IInv, GetBuffer, AbortBlockingGetBuffer, At, Idle
  <2> QED BY <2>1, QuietLife DEF LifeStep
<1>2. ASSUME NEW b \in Buffers, DecrementReferenceCount(t, b) PROVE LifeStep
  BY <1>2, DecrementLife
<1>3. ASSUME NEW b \in Buffers, NEW u \in Threads, IncrementReferenceCount(t, b, u) PROVE LifeStep
  BY <1>3, IncrementLife
<1>4. ASSUME NEW b \in Buffers, NEW u \in Threads, TransferOwnership(t, b, u) PROVE LifeStep
  BY <1>4, TransferLife
<1>5. ASSUME NEW a \in Buffers, NEW b \in Buffers, AttachBuffer(t, a, b) PROVE LifeStep
  BY <1>5, AttachLife
<1>6. ASSUME NEW a \in Buffers, NEW b \in Buffers, DetachBuffer(t, a, b) PROVE LifeStep
  BY <1>6, DetachLife
<1> QED BY <1>1, <1>2, <1>3, <1>4, <1>5, <1>6 DEF Call

LEMMA AdvanceLife ==
    ASSUME IInv, IInv', NEW t \in Threads, Advance(t)
    PROVE  LifeStep
<1>0. TypeOK
  BY DEF IInv
<1>1. CASE GetTry(t)
  <2>1. CASE UNCHANGED FreeBuffer
    <3>1. Quiet(t) /\ pc[t] # "getInit"
      BY <1>0, <1>1, <2>1, QuietActions DEF GetTry, At
    <3> QED BY <3>1, QuietLife DEF LifeStep
  <2>2. CASE ~UNCHANGED FreeBuffer
    <3>1. /\ pc[t] = "getTry" /\ FreeBuffer[arg[t]] # <<>>
          /\ FreeBuffer' = [FreeBuffer EXCEPT ![arg[t]] = Tail(@)]
          /\ Goto(t, "getInit", Head(FreeBuffer[arg[t]]), None)
          /\ UNCHANGED <<bufferVars, held, chain>>
      BY <1>1, <2>2 DEF GetTry, At
    <3> QED BY <3>1, GetTakeLife DEF LifeStep
  <2> QED BY <2>1, <2>2
<1>2. CASE GetSignalled(t) \/ GetTimedOut(t) \/ GetRelock(t) \/ GetTest(t)
  <2>1. Quiet(t)
    BY <1>0, <1>2, QuietActions
  <2>2. pc[t] # "getInit"
    BY <1>2 DEF GetSignalled, GetTimedOut, GetRelock, GetTest, At
  <2> QED BY <2>1, <2>2, QuietLife DEF LifeStep
<1>3. CASE GetCount(t) \/ AbortSetEvent(t)
  <2>1. Quiet(t) /\ pc[t] # "getInit"
    BY <1>0, <1>3, QuietActions DEF GetCount, AbortSetEvent, At
  <2> QED BY <2>1, QuietLife DEF LifeStep
<1>4. CASE IncPool(t) \/ DecPool(t) \/ RelLock(t) \/ RelUnlock(t)
  <2>1. Quiet(t)
    BY <1>0, <1>4, QuietActions
  <2>2. pc[t] # "getInit"
    BY <1>4 DEF IncPool, DecPool, RelLock, RelUnlock, At
  <2> QED BY <2>1, <2>2, QuietLife DEF LifeStep
<1>5. CASE GetInit(t)
  BY <1>5, GetInitLife DEF LifeStep
<1>6. CASE GetFail(t)
  BY <1>6, GetFailLife DEF LifeStep
<1>7. CASE IncBuf(t)
  BY <1>7, IncBufLife
<1>8. CASE DecBuf(t)
  BY <1>8, DecBufLife
<1>9. CASE RelDetach(t)
  BY <1>9, RelDetachLife
<1>10. CASE RelFree(t)
  BY <1>10, RelFreeLife
<1> QED BY <1>1, <1>2, <1>3, <1>4, <1>5, <1>6, <1>7, <1>8, <1>9, <1>10 DEF Advance

LEMMA StutterLife == UNCHANGED vars => Still
<1> SUFFICES ASSUME UNCHANGED vars, NEW b \in Buffers PROVE Same(b)
    BY DEF Still
<1>1. UNCHANGED <<FreeBuffer, AttachedBuffers, held, pc, buf, arg, chain>>
  BY DEF vars, poolVars, bufferVars, threadVars
<1> QED BY <1>1 DEF Same, OnRing, BeingMade, Releasing, Owners, Attachers, Droppers, Promised

LEMMA NextLife == IInv /\ IInv' /\ [Next]_vars => LifeStep
BY CallLife, AdvanceLife, StutterLife DEF Next, LifeStep

\* The functions that BufferLife is about.
Statuses == [b \in Buffers |-> StatusOf(b)]
Users    == [b \in Buffers |-> Claims(b)]

\* A step that moves b changes these functions at b only.
LEMMA MoveOfOne ==
    ASSUME NEW b, NEW from, NEW to, Moves(b, from, to)
    PROVE  /\ Statuses[b] = from
           /\ Statuses' = [Statuses EXCEPT ![b] = to]
           /\ Users' = [Users EXCEPT ![b] = Claims(b)']
           /\ Users'[b] = Claims(b)'
<1>1. \A c \in Buffers \ {b} : StatusOf(c)' = StatusOf(c) /\ Claims(c)' = Claims(c)
  BY SameStatus DEF Moves
<1> QED BY <1>1 DEF Moves, Statuses, Users

\* A buffer whose status is not "used" has no users.
LEMMA MoveUnused ==
    ASSUME StatusFits, StatusFits', NEW b, NEW from, NEW to, Moves(b, from, to),
           from # "used", to # "used"
    PROVE  Users' = Users
<1>1. b \in Buffers /\ Claims(b) = {} /\ Claims(b)' = {}
  BY DEF StatusFits, Moves
<1> QED BY <1>1, MoveOfOne DEF Users

LEMMA LifeRefined ==
    ASSUME StatusFits, StatusFits', LifeStep
    PROVE  [Life!Next]_<<Statuses, Users>>
<1> USE DEF Life!Next, Life!Move, Statuses, Users
<1>1. CASE Still
  <2>1. \A b \in Buffers : StatusOf(b)' = StatusOf(b) /\ Claims(b)' = Claims(b)
    BY <1>1, SameStatus DEF Still
  <2> QED BY <2>1
<1>2. ASSUME NEW b \in Buffers, Moves(b, "free", "taken") PROVE Life!Take(b)
  BY <1>2, MoveOfOne, MoveUnused DEF Life!Take
<1>3. ASSUME NEW b \in Buffers, Moves(b, "taken", "lost"), PoolOf[b] \in FailingPools
      PROVE  Life!Lose(b)
  BY <1>3, MoveOfOne, MoveUnused DEF Life!Lose
<1>4. ASSUME NEW b \in Buffers, Moves(b, "ending", "free") PROVE Life!Recycle(b)
  BY <1>4, MoveOfOne, MoveUnused DEF Life!Recycle
<1>5. ASSUME NEW b \in Buffers, NEW from \in {"taken", "used"}, Moves(b, from, "used")
      PROVE  Claims(b)' # {}
  BY <1>5 DEF StatusFits, Moves
<1>6. ASSUME NEW b \in Buffers, Moves(b, "taken", "used") PROVE Life!Start(b)
  BY <1>5, <1>6, MoveOfOne DEF Life!Start
<1>7. ASSUME NEW b \in Buffers, Moves(b, "used", "used") PROVE Life!Share(b)
  BY <1>5, <1>7, MoveOfOne DEF Life!Share
<1>8. ASSUME NEW b \in Buffers, Moves(b, "used", "ending") PROVE Life!LastLeaves(b)
  <2>1. Claims(b)' = {}
    BY <1>8 DEF StatusFits, Moves
  <2> QED BY <1>8, <2>1, MoveOfOne DEF Life!LastLeaves
<1> QED BY <1>1, <1>2, <1>3, <1>4, <1>6, <1>7, <1>8 DEF LifeStep

LEMMA LifeInit == Init => Life!Init
<1> SUFFICES ASSUME Init PROVE Life!Init
    OBVIOUS
<1>1. StatusFits
  BY InitIInv, StatusFromPlace
<1>2. ASSUME NEW b \in Buffers PROVE StatusOf(b) = "free" /\ Claims(b) = {}
  <2>1. OnRing(b)
    BY BuffersAssumption DEF Init, OnRing, InPool
  <2> QED BY <1>1, <2>1 DEF StatusFits
<1> QED BY <1>2 DEF Life!Init

\* The pool implements the life of a buffer (buffer_pool_generic.cpp:491-760): it
\* is handed out when it is free, gets its users one after the other, and is
\* ended once, by whoever is the last, before it can be handed out again.
THEOREM PoolImplementsLife == Spec => ImplementsLife
<1>1. IInv /\ IInv' /\ [Next]_vars
        => [Life!Next]_<<[b \in Buffers |-> StatusOf(b)], [b \in Buffers |-> Claims(b)]>>
  BY NextLife, LifeRefined, StatusFromPlace, StatusFromPlaceNext DEF Statuses, Users
<1> QED BY <1>1, LifeInit, Invariance, PTL DEF Spec, ImplementsLife, Life!Spec, Life!vars

-----------------------------------------------------------------------------
(* No buffer is lost *)

NoneLost == \A b \in Buffers : StatusOf(b) = "lost" => PoolOf[b] \in FailingPools

LEMMA NoneLostStep == NoneLost /\ LifeStep => NoneLost'
<1> SUFFICES ASSUME NoneLost, LifeStep, NEW b \in Buffers, StatusOf(b)' = "lost"
             PROVE  PoolOf[b] \in FailingPools
    BY DEF NoneLost
<1>1. CASE Same(b)
  BY <1>1, SameStatus DEF NoneLost
<1>2. CASE ~Same(b)
  BY <1>2 DEF LifeStep, Still, Moves
<1> QED BY <1>1, <1>2

\* Every buffer stays accounted for, unless the allocation of its memory failed
\* in GetBuffer (buffer_pool_generic.cpp:594-595).
THEOREM NoBufferLost == Spec => []AccountedFor
<1>1. Init => NoneLost
  <2>1. Init => \A b \in Buffers : StatusOf(b) = "free"
    BY LifeInit DEF Life!Init
  <2> QED BY <2>1 DEF NoneLost
<1>2. NoneLost /\ IInv /\ IInv' /\ [Next]_vars => NoneLost'
  BY NextLife, NoneLostStep
<1>3. NoneLost => AccountedFor
  BY DEF NoneLost, AccountedFor, StatusOf
<1> QED BY <1>1, <1>2, <1>3, Invariance, PTL DEF Spec
=============================================================================
