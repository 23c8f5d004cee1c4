--------------------------- MODULE ReorderProofs ---------------------------
(***************************************************************************)
(* That the re-ordering of frames keeps its order of sequence numbers and  *)
(* its order of display, for any number of frames, jumps, drains and calls,*)
(* and any sizes of the rings and of the pool.                             *)
(*                                                                         *)
(* Along decoded, codec and parsed the sequence numbers of frames and      *)
(* markers rise, and none is below what the third process has seen or has  *)
(* in its table (Ordered). A marker's number is chosen when a drain starts *)
(* and must still be far ahead of the counter when the parser meets it:    *)
(* what may be numbered in between is in the input or bounded              *)
(* (MarkerAhead).                                                          *)
(*                                                                         *)
(* For the order of display: of the frames decoded before another one, one *)
(* at most is shown after it (Places); a marker is far behind all frames   *)
(* in front of it (Distant); what left or was dropped is not on its way    *)
(* (Apart); and what is on its way is not late (InTime).                   *)
(***************************************************************************)
EXTENDS FrameReorder, WellFoundedInduction, FiniteSetTheorems, TLAPS

-----------------------------------------------------------------------------
(* Numbers *)

LEMMA LeastOf ==
    ASSUME NEW S \in SUBSET Nat, S # {}
    PROVE  \E m \in S : \A n \in S : m <= n
<1> DEFINE R == OpToRel(<, Nat)
<1>1. IsWellFoundedOn(R, Nat)
  BY NatLessThanWellFounded
<1>2. \E m \in S : \A n \in S : <<n, m>> \notin R
  <2> HIDE DEF R
  <2> QED BY <1>1, WFMin
<1>3. \A m, n \in Nat : <<n, m>> \notin R => m <= n
  BY DEF OpToRel
<1> QED BY <1>2, <1>3

LEMMA MinOf ==
    ASSUME NEW S \in SUBSET Nat, S # {}
    PROVE  Min(S) \in S /\ \A n \in S : Min(S) <= n
BY LeastOf DEF Min

\* A set with a bound has a greatest element: its least bound.
LEMMA MaxOf ==
    ASSUME NEW S \in SUBSET Nat, S # {}, NEW b \in Nat, \A n \in S : n <= b
    PROVE  Max(S) \in S /\ \A n \in S : n <= Max(S)
<1> DEFINE B == {u \in Nat : \A n \in S : n <= u}
<1>1. PICK u \in B : \A v \in B : u <= v
  <2>1. b \in B
    OBVIOUS
  <2> QED
    BY <2>1, LeastOf
<1>2. u \in Nat /\ \A n \in S : n <= u
  BY <1>1
<1>3. u \in S
  <2> SUFFICES ASSUME u \notin S PROVE FALSE
    OBVIOUS
  <2>1. \A n \in S : n \in Nat /\ n < u
    BY <1>2
  <2>2. PICK n0 \in S : TRUE
    OBVIOUS
  <2>3a. u - 1 \in Nat
    BY <1>2, <2>1, <2>2
  <2>3b. \A n \in S : n <= u - 1
    BY <1>2, <2>1
  <2>3. u - 1 \in B
    BY <2>3a, <2>3b
  <2> QED
    BY <1>1, <1>2, <2>3
<1>4. \E x \in S : \A y \in S : x >= y
  BY <1>2, <1>3
<1>5. Max(S) \in S /\ \A y \in S : Max(S) >= y
  BY <1>4 DEF Max
<1> QED
  BY <1>5

-----------------------------------------------------------------------------
(* Sequences and their elements *)

LEMMA ElementsOf ==
    ASSUME NEW S, NEW s \in Seq(S)
    PROVE  /\ Elements(s) \subseteq S
           /\ \A i \in 1 .. Len(s) : s[i] \in Elements(s)
           /\ \A x \in Elements(s) : \E i \in 1 .. Len(s) : x = s[i]
BY DEF Elements

LEMMA ElementsAppend ==
    ASSUME NEW S, NEW s \in Seq(S), NEW e
    PROVE  \A x : x \in Elements(Append(s, e)) <=> x \in Elements(s) \/ x = e
<1>1. /\ Len(s) \in Nat /\ Len(Append(s, e)) = Len(s) + 1
      /\ Append(s, e)[Len(s) + 1] = e
      /\ \A i \in 1 .. Len(s) : Append(s, e)[i] = s[i]
  <2>1. s \in Seq(S \cup {e}) /\ e \in S \cup {e}
    OBVIOUS
  <2> QED
    BY <2>1
<1>2. \A x : x \in Elements(s) => x \in Elements(Append(s, e))
  BY <1>1 DEF Elements
<1>3. e \in Elements(Append(s, e))
  BY <1>1 DEF Elements
<1>4. \A x : x \in Elements(Append(s, e)) => x \in Elements(s) \/ x = e
  BY <1>1 DEF Elements
<1> QED
  BY <1>2, <1>3, <1>4

LEMMA ElementsTail ==
    ASSUME NEW S, NEW s \in Seq(S), s # <<>>
    PROVE  /\ Head(s) \in Elements(s) /\ Head(s) \in S /\ Tail(s) \in Seq(S)
           /\ \A x \in Elements(Tail(s)) : x \in Elements(s)
           /\ \A x \in Elements(s) : x = Head(s) \/ x \in Elements(Tail(s))
<1>1. /\ Len(s) \in Nat /\ Len(s) > 0 /\ Len(Tail(s)) = Len(s) - 1 /\ Head(s) = s[1]
      /\ \A i \in 1 .. Len(s) - 1 : Tail(s)[i] = s[i + 1]
      /\ Tail(s) \in Seq(S) /\ Head(s) \in S
  OBVIOUS
<1>2. Head(s) \in Elements(s)
  BY <1>1 DEF Elements
<1>3. \A x \in Elements(Tail(s)) : x \in Elements(s)
  <2> TAKE x \in Elements(Tail(s))
  <2>1. PICK i \in 1 .. Len(s) - 1 : x = s[i + 1]
    BY <1>1 DEF Elements
  <2> QED
    BY <1>1, <2>1 DEF Elements
<1>4. \A x \in Elements(s) : x = Head(s) \/ x \in Elements(Tail(s))
  <2> TAKE x \in Elements(s)
  <2>1. PICK i \in 1 .. Len(s) : x = s[i]
    BY DEF Elements
  <2>2. CASE i = 1
    BY <1>1, <2>1, <2>2
  <2>3. CASE i # 1
    <3>1. i - 1 \in 1 .. Len(s) - 1 /\ Tail(s)[i - 1] = s[i]
      BY <1>1, <2>3
    <3> QED
      BY <1>1, <2>1, <3>1 DEF Elements
  <2> QED
    BY <2>2, <2>3
<1> QED
  BY <1>1, <1>2, <1>3, <1>4

\* The elements of one kind are finitely many.
LEMMA EntriesFinite ==
    ASSUME NEW S, NEW s \in Seq(S), NEW kind
    PROVE  IsFiniteSet(Entries(s, kind)) /\ Cardinality(Entries(s, kind)) \in Nat
<1> DEFINE D == {i \in 1 .. Len(s) : s[i].kind = kind}
           f == [i \in D |-> s[i].n]
<1>1. IsFiniteSet(D)
  <2>1. Len(s) \in Nat /\ D \in SUBSET (1 .. Len(s))
    OBVIOUS
  <2>2. IsFiniteSet(1 .. Len(s))
    BY <2>1, FS_Interval
  <2> QED
    BY <2>1, <2>2, FS_Subset
<1>2. f \in Surjection(D, Entries(s, kind))
  BY DEF Surjection, Entries, Elements
<1>3. IsFiniteSet(Entries(s, kind))
  <2> HIDE DEF f, D
  <2> QED
    BY <1>1, <1>2, FS_Surjection
<1> QED
  BY <1>3, FS_CardinalityType

LEMMA SeqWiden ==
    ASSUME NEW S, NEW T, S \subseteq T, NEW s \in Seq(S)
    PROVE  s \in Seq(T)
OBVIOUS

-----------------------------------------------------------------------------
(* The types *)

Params == [number : Nat, ref : BOOLEAN, index : Nat \cup {Invalid}, collapse : BOOLEAN]

\* A frame has no place exactly as long as it is deferred, and the places given
\* away are below the next one.
FramesTyped ==
    /\ frame \in Seq(Params)
    /\ NextBufferSequenceNumber \in Nat
    /\ NextDisplayFrameIndex \in Nat
    /\ CollapseNext \in BOOLEAN
    /\ Deferred \in {None} \cup DOMAIN frame
    /\ \A f \in DOMAIN frame : Known(f) <=> f # Deferred
    /\ \A f \in DOMAIN frame : Index(f) < NextDisplayFrameIndex

\* What the rings hold, for the frames fr and the calls cs.
Waits           == [kind : {"jump", "marker"}, n : Nat]
Passes(fr)      == [kind : {"frame"}, n : DOMAIN fr] \cup [kind : {"marker"}, n : Nat]
Parses(fr)      == Passes(fr) \cup {Entry("forget", None)}
Leaves(fr, cs)  == Passes(fr) \cup [kind : {"call"}, n : DOMAIN cs]

QueuesTyped ==
    /\ input \in Seq(Waits)
    /\ parsed \in Seq(Parses(frame))
    /\ codec \in Seq(Passes(frame))
    /\ decoded \in Seq(Leaves(frame, calls))
    /\ inCodec \in BOOLEAN
    /\ inCodec => parsed # <<>> /\ Head(parsed) \in Passes(frame)

TablesTyped ==
    /\ calls \in Seq(Nat)
    /\ waiting \subseteq DOMAIN calls
    /\ before \subseteq DOMAIN calls
    /\ NonDecoded \subseteq DOMAIN frame
    /\ kept \subseteq NonDecoded
    /\ table \subseteq DOMAIN frame
    /\ last \in Nat
    /\ dropping \in Nat
    /\ seen \in Nat
    /\ desired \in Nat
    /\ desired <= NextDisplayFrameIndex
    /\ DisplayIndicesCollapse \in Nat
    /\ DisplayIndicesCollapse <= NextDisplayFrameIndex
    /\ marker \in Nat \cup {Invalid}
    /\ discarding \in [Stages -> BOOLEAN]
    /\ scanned \in BOOLEAN
    /\ numbered \in BOOLEAN

Typed == FramesTyped /\ QueuesTyped /\ TablesTyped

LEMMA PassesTyped ==
    ASSUME NEW fr \in Seq(Params), NEW cs \in Seq(Nat)
    PROVE  /\ \A x \in Waits : x.kind \in {"jump", "marker"} /\ x.n \in Nat
           /\ \A x \in Passes(fr) : \/ x.kind = "frame" /\ x.n \in DOMAIN fr /\ x.n \in Nat
                                    \/ x.kind = "marker" /\ x.n \in Nat
           /\ \A x \in Parses(fr) : \/ x.kind # "forget" /\ x \in Passes(fr)
                                    \/ x.kind = "forget" /\ x.n \in Nat
           /\ \A x \in Leaves(fr, cs) : \/ x.kind # "call" /\ x \in Passes(fr)
                                        \/ x.kind = "call" /\ x.n \in DOMAIN cs /\ x.n \in Nat
<1>1. DOMAIN fr \subseteq Nat /\ DOMAIN cs \subseteq Nat
  OBVIOUS
<1>2. \A x \in Waits : x.kind \in {"jump", "marker"} /\ x.n \in Nat
  BY DEF Waits
<1>3. \A x \in Passes(fr) : \/ x.kind = "frame" /\ x.n \in DOMAIN fr /\ x.n \in Nat
                            \/ x.kind = "marker" /\ x.n \in Nat
  BY <1>1 DEF Passes
<1>4. \A x \in Parses(fr) : \/ x.kind # "forget" /\ x \in Passes(fr)
                            \/ x.kind = "forget" /\ x.n \in Nat
  BY <1>3 DEF Parses, Entry, None
<1>5. \A x \in Leaves(fr, cs) : \/ x.kind # "call" /\ x \in Passes(fr)
                                \/ x.kind = "call" /\ x.n \in DOMAIN cs /\ x.n \in Nat
  BY <1>1, <1>3 DEF Leaves
<1> QED
  BY <1>2, <1>3, <1>4, <1>5

\* More frames, more calls: the rings keep their types.
LEMMA QueuesWiden ==
    ASSUME NEW fr, NEW fr2, DOMAIN fr \subseteq DOMAIN fr2,
           NEW cs, NEW cs2, DOMAIN cs \subseteq DOMAIN cs2
    PROVE  /\ Passes(fr) \subseteq Passes(fr2)
           /\ Parses(fr) \subseteq Parses(fr2)
           /\ Leaves(fr, cs) \subseteq Leaves(fr2, cs2)
<1>1. Passes(fr) \subseteq Passes(fr2)
  BY DEF Passes
<1>2. Parses(fr) \subseteq Parses(fr2)
  BY <1>1 DEF Parses
<1>3. Leaves(fr, cs) \subseteq Leaves(fr2, cs2)
  BY <1>1 DEF Leaves
<1> QED
  BY <1>1, <1>2, <1>3

LEMMA TypesGiveTypeOK == Typed => TypeOK
<1> SUFFICES ASSUME Typed PROVE TypeOK
  OBVIOUS
<1> USE DEF Typed
<1>1. frame \in Seq([number : Nat, ref : BOOLEAN, index : Nat \cup {Invalid},
                     collapse : BOOLEAN])
  BY DEF FramesTyped, Params
<1>2. \A x \in Elements(input \o parsed \o codec \o decoded) :
         x.kind \in {"frame", "forget", "jump", "marker", "call"} /\ x.n \in Nat
  <2> DEFINE A == [kind : {"frame", "forget", "jump", "marker", "call"}, n : Nat]
  <2>0. DOMAIN frame \subseteq Nat /\ DOMAIN calls \subseteq Nat
    BY DEF FramesTyped, TablesTyped
  <2>1. Waits \subseteq A
    BY DEF Waits
  <2>2. Passes(frame) \subseteq A
    BY <2>0 DEF Passes
  <2>3. Parses(frame) \subseteq A
    BY <2>2 DEF Parses, Entry, None
  <2>4. Leaves(frame, calls) \subseteq A
    BY <2>0, <2>2 DEF Leaves
  <2>5. PICK B : B = A
    OBVIOUS
  <2> HIDE DEF A
  <2>6. input \in Seq(B) /\ parsed \in Seq(B) /\ codec \in Seq(B) /\ decoded \in Seq(B)
    BY <2>1, <2>2, <2>3, <2>4, <2>5, SeqWiden DEF QueuesTyped
  <2>7. input \o parsed \o codec \o decoded \in Seq(B)
    BY <2>6
  <2>8. Elements(input \o parsed \o codec \o decoded) \subseteq B
    BY <2>7, ElementsOf
  <2> QED
    BY <2>5, <2>8 DEF A
<1> QED
  BY <1>1, <1>2 DEF TypeOK, FramesTyped, TablesTyped, QueuesTyped

LEMMA InitTyped == Init => Typed
<1> SUFFICES ASSUME Init PROVE Typed
  OBVIOUS
<1> USE DEF Init
<1>1. FramesTyped
  BY DEF FramesTyped, None
<1>2. QueuesTyped
  <2>1. \A S : <<>> \in Seq(S)
    OBVIOUS
  <2> QED
    BY <2>1 DEF QueuesTyped
<1>3. TablesTyped
  <2>1. /\ calls \in Seq(Nat)
        /\ discarding \in [Stages -> BOOLEAN]
    OBVIOUS
  <2>2. desired <= NextDisplayFrameIndex /\ DisplayIndicesCollapse <= NextDisplayFrameIndex
    OBVIOUS
  <2> QED
    BY <2>1, <2>2 DEF TablesTyped, None, Invalid
<1> QED
  BY <1>1, <1>2, <1>3 DEF Typed

-----------------------------------------------------------------------------
(* The parser places frames *)

\* Settling gives the deferred frame the next place and leaves the others.
LEMMA SettledFrames ==
    ASSUME FramesTyped
    PROVE  /\ Settled \in Seq(Params)
           /\ Len(Settled) = Len(frame)
           /\ DOMAIN Settled = DOMAIN frame
           /\ \A f \in DOMAIN frame : Settled[f].number = frame[f].number
           /\ \A f \in DOMAIN frame : f # Deferred => Settled[f] = frame[f]
           /\ \A f \in DOMAIN frame : f = Deferred => Settled[f].index = NextDisplayFrameIndex
<1>1. CASE Deferred = None
  BY <1>1 DEF Settled, FramesTyped, None
<1>2. CASE Deferred # None
  <2>1. Deferred \in DOMAIN frame /\ frame[Deferred] \in Params
    BY <1>2 DEF FramesTyped
  <2>2. PICK p : p = Placed(frame[Deferred])
    OBVIOUS
  <2>3. p \in Params /\ p.number = frame[Deferred].number /\ p.index = NextDisplayFrameIndex
    BY <2>1, <2>2 DEF Placed, Params, FramesTyped
  <2>4. Settled = [frame EXCEPT ![Deferred] = p]
    BY <1>2, <2>2 DEF Settled
  <2> QED
    BY <2>1, <2>3, <2>4 DEF FramesTyped
<1> QED
  BY <1>1, <1>2

\* What the four actions of the parser leave of the frames: all of them, with
\* their numbers, in their order.
LEMMA FramesStep ==
    ASSUME Typed, [Next]_vars
    PROVE  /\ FramesTyped'
           /\ DOMAIN frame \subseteq DOMAIN frame'
           /\ \A f \in DOMAIN frame : frame'[f].number = frame[f].number
           /\ NextDisplayFrameIndex <= NextDisplayFrameIndex'
<1> USE DEF Typed
<1>a. FramesTyped
  OBVIOUS
<1> DEFINE Goal == /\ FramesTyped'
                   /\ DOMAIN frame \subseteq DOMAIN frame'
                   /\ \A f \in DOMAIN frame : frame'[f].number = frame[f].number
                   /\ NextDisplayFrameIndex <= NextDisplayFrameIndex'
<1>1. ASSUME ParseReference PROVE Goal
  <2>1. PICK S : S = Settled
    OBVIOUS
  <2>2. /\ S \in Seq(Params) /\ Len(S) = Len(frame) /\ DOMAIN S = DOMAIN frame
        /\ \A f \in DOMAIN frame : S[f].number = frame[f].number
        /\ \A f \in DOMAIN frame : f # Deferred => S[f] = frame[f]
        /\ \A f \in DOMAIN frame : f = Deferred => S[f].index = NextDisplayFrameIndex
    BY <1>a, <2>1, SettledFrames
  <2>3. PICK u : u = Unplaced(TRUE)
    OBVIOUS
  <2>4. u \in Params /\ u.index = Invalid
    BY <1>a, <2>3 DEF Unplaced, Params, FramesTyped
  <2>5. frame' = Append(S, u) /\ Deferred' = Len(S) + 1
    BY <1>1, <2>1, <2>2, <2>3 DEF ParseReference
  <2>6. /\ frame' \in Seq(Params) /\ DOMAIN frame' = 1 .. Len(S) + 1 /\ Len(S) \in Nat
        /\ frame'[Len(S) + 1] = u
        /\ \A f \in 1 .. Len(S) : frame'[f] = S[f]
        /\ DOMAIN S = 1 .. Len(S)
    BY <2>2, <2>4, <2>5
  <2>7. NextDisplayFrameIndex' \in Nat /\ NextDisplayFrameIndex' >= NextDisplayFrameIndex
    BY <1>a, <1>1 DEF ParseReference, Settle, FramesTyped
  <2>8. Deferred # None => NextDisplayFrameIndex' = NextDisplayFrameIndex + 1
    BY <1>1 DEF ParseReference, Settle
  <2>9. NextBufferSequenceNumber' \in Nat /\ CollapseNext' \in BOOLEAN
    BY <1>a, <1>1 DEF ParseReference, Parse, FramesTyped
  <2>10. \A f \in DOMAIN frame' : frame'[f].index # Invalid <=> f # Deferred'
    BY <1>a, <2>2, <2>4, <2>5, <2>6 DEF FramesTyped, Known, Index, Invalid
  <2>11. \A f \in DOMAIN frame' : frame'[f].index < NextDisplayFrameIndex'
    <3> TAKE f \in DOMAIN frame'
    <3>1. CASE f = Len(S) + 1
      BY <2>4, <2>6, <2>7, <3>1 DEF Invalid
    <3>2. CASE f # Len(S) + 1 /\ f # Deferred
      <4>1. f \in DOMAIN frame /\ frame'[f] = frame[f] /\ frame[f] \in Params
        BY <1>a, <2>2, <2>6, <3>2 DEF FramesTyped
      <4>2. frame[f].index < NextDisplayFrameIndex /\ frame[f].index \in Int
        BY <1>a, <4>1 DEF FramesTyped, Index, Params, Invalid
      <4> QED
        BY <1>a, <2>7, <4>1, <4>2 DEF FramesTyped
    <3>3. CASE f # Len(S) + 1 /\ f = Deferred
      <4>1. f \in DOMAIN frame /\ frame'[f].index = NextDisplayFrameIndex /\ Deferred # None
        BY <2>2, <2>6, <3>3 DEF None
      <4> QED
        BY <1>a, <2>8, <4>1 DEF FramesTyped
    <3> QED
      BY <3>1, <3>2, <3>3
  <2>12. FramesTyped'
    <3>1. Deferred' \in DOMAIN frame'
      BY <2>5, <2>6
    <3> QED
      BY <2>6, <2>7, <2>9, <2>10, <2>11, <3>1 DEF FramesTyped, Known, Index
  <2>13. DOMAIN frame \subseteq DOMAIN frame' /\ \A f \in DOMAIN frame : frame'[f].number = frame[f].number
    BY <2>2, <2>6
  <2> QED
    BY <1>a, <2>7, <2>12, <2>13 DEF FramesTyped
<1>2. ASSUME ParseOther PROVE Goal
  <2>3. PICK u : u = Placed(Unplaced(FALSE))
    OBVIOUS
  <2>4. u \in Params /\ u.index = NextDisplayFrameIndex
    BY <1>a, <2>3 DEF Placed, Unplaced, Params, FramesTyped
  <2>5. frame' = Append(frame, u) /\ Deferred' = Deferred
    BY <1>2, <2>3 DEF ParseOther
  <2>6. /\ frame' \in Seq(Params) /\ DOMAIN frame' = 1 .. Len(frame) + 1 /\ Len(frame) \in Nat
        /\ frame'[Len(frame) + 1] = u
        /\ \A f \in 1 .. Len(frame) : frame'[f] = frame[f]
        /\ DOMAIN frame = 1 .. Len(frame)
    BY <1>a, <2>4, <2>5 DEF FramesTyped
  <2>7a. NextDisplayFrameIndex' = NextDisplayFrameIndex + 1 /\ NextDisplayFrameIndex \in Nat
    BY <1>a, <1>2 DEF ParseOther, FramesTyped
  <2>7b. CollapseNext' \in BOOLEAN
    BY <1>2 DEF ParseOther
  <2>7c. NextBufferSequenceNumber' \in Nat
    BY <1>a, <1>2 DEF ParseOther, Parse, FramesTyped
  <2>7. /\ NextDisplayFrameIndex' = NextDisplayFrameIndex + 1 /\ NextDisplayFrameIndex \in Nat
        /\ NextBufferSequenceNumber' \in Nat /\ CollapseNext' \in BOOLEAN
    BY <2>7a, <2>7b, <2>7c
  <2>8. Deferred \in {None} \cup DOMAIN frame
    BY <1>a DEF FramesTyped
  <2>10. \A f \in DOMAIN frame' : frame'[f].index # Invalid <=> f # Deferred'
    <3>1. Deferred # Len(frame) + 1
      BY <2>6, <2>8 DEF None
    <3>2. u.index # Invalid
      BY <2>4, <2>7 DEF Invalid
    <3> QED
      BY <1>a, <2>5, <2>6, <3>1, <3>2 DEF FramesTyped, Known, Index
  <2>11. \A f \in DOMAIN frame' : frame'[f].index < NextDisplayFrameIndex'
    <3> TAKE f \in DOMAIN frame'
    <3>1. CASE f = Len(frame) + 1
      BY <2>4, <2>6, <2>7, <3>1
    <3>2. CASE f # Len(frame) + 1
      <4>1. f \in DOMAIN frame /\ frame'[f] = frame[f] /\ frame[f] \in Params
        BY <1>a, <2>6, <3>2 DEF FramesTyped
      <4>2. frame[f].index < NextDisplayFrameIndex /\ frame[f].index \in Int
        BY <1>a, <4>1 DEF FramesTyped, Index, Params, Invalid
      <4> QED
        BY <2>7, <4>1, <4>2
    <3> QED
      BY <3>1, <3>2
  <2>12. FramesTyped'
    <3>1. Deferred' \in {None} \cup DOMAIN frame'
      BY <2>5, <2>6, <2>8
    <3> QED
      BY <2>6, <2>7, <2>10, <2>11, <3>1 DEF FramesTyped, Known, Index
  <2> QED
    BY <2>6, <2>7, <2>12
<1>3. ASSUME ParseJump PROVE Goal
  <2>1. PICK S : S = Settled
    OBVIOUS
  <2>2. /\ S \in Seq(Params) /\ DOMAIN S = DOMAIN frame
        /\ \A f \in DOMAIN frame : S[f].number = frame[f].number
        /\ \A f \in DOMAIN frame : f # Deferred => S[f] = frame[f]
        /\ \A f \in DOMAIN frame : f = Deferred => S[f].index = NextDisplayFrameIndex
    BY <1>a, <2>1, SettledFrames
  <2>5. frame' = S /\ Deferred' = None
    BY <1>3, <2>1 DEF ParseJump
  <2>7. NextDisplayFrameIndex' \in Nat /\ NextDisplayFrameIndex' >= NextDisplayFrameIndex
    BY <1>a, <1>3 DEF ParseJump, Settle, FramesTyped
  <2>8. Deferred # None => NextDisplayFrameIndex' = NextDisplayFrameIndex + 1
    BY <1>3 DEF ParseJump, Settle
  <2>9. NextBufferSequenceNumber' \in Nat /\ CollapseNext' \in BOOLEAN
    BY <1>a, <1>3 DEF ParseJump, FramesTyped
  <2>10. \A f \in DOMAIN frame' : frame'[f].index # Invalid <=> f # Deferred'
    <3> TAKE f \in DOMAIN frame'
    <3>1. f \in DOMAIN frame /\ f # None /\ frame'[f] = S[f]
      BY <1>a, <2>2, <2>5 DEF None, FramesTyped
    <3>2. CASE f = Deferred
      BY <1>a, <2>2, <2>5, <3>1, <3>2 DEF FramesTyped, Invalid
    <3>3. CASE f # Deferred
      BY <1>a, <2>2, <2>5, <3>1, <3>3 DEF FramesTyped, Known, Index
    <3> QED
      BY <3>2, <3>3
  <2>11. \A f \in DOMAIN frame' : frame'[f].index < NextDisplayFrameIndex'
    <3> TAKE f \in DOMAIN frame'
    <3>2. CASE f # Deferred
      <4>1. f \in DOMAIN frame /\ frame'[f] = frame[f] /\ frame[f] \in Params
        BY <1>a, <2>2, <2>5, <3>2 DEF FramesTyped
      <4>2. frame[f].index < NextDisplayFrameIndex /\ frame[f].index \in Int
        BY <1>a, <4>1 DEF FramesTyped, Index, Params, Invalid
      <4> QED
        BY <1>a, <2>7, <4>1, <4>2 DEF FramesTyped
    <3>3. CASE f = Deferred
      <4>1. f \in DOMAIN frame /\ frame'[f].index = NextDisplayFrameIndex /\ Deferred # None
        BY <1>a, <2>2, <2>5, <3>3 DEF None, FramesTyped
      <4> QED
        BY <1>a, <2>8, <4>1 DEF FramesTyped
    <3> QED
      BY <3>2, <3>3
  <2>12. FramesTyped'
    <3>1. Deferred' \in {None} \cup DOMAIN frame' /\ frame' \in Seq(Params)
      BY <2>2, <2>5
    <3> QED
      BY <2>7, <2>9, <2>10, <2>11, <3>1 DEF FramesTyped, Known, Index
  <2> QED
    BY <1>a, <2>2, <2>5, <2>7, <2>12 DEF FramesTyped
<1>4. ASSUME ParseMarker PROVE Goal
  <2>1. Head(input) \in Waits
    BY <1>4 DEF ParseMarker, QueuesTyped
  <2>2. NextBufferSequenceNumber' \in Nat
    BY <1>4, <2>1 DEF ParseMarker, Waits
  <2>3. UNCHANGED <<frame, NextDisplayFrameIndex, Deferred, CollapseNext>>
    BY <1>4 DEF ParseMarker
  <2> QED
    BY <1>a, <2>2, <2>3 DEF FramesTyped, Known, Index
<1>5. ASSUME UNCHANGED parser PROVE Goal
  BY <1>a, <1>5 DEF FramesTyped, Known, Index, parser
<1>6. CASE UNCHANGED vars
  BY <1>5, <1>6 DEF vars
<1>7. CASE CollateToParse
  BY <1>3, <1>4, <1>7 DEF CollateToParse
<1>8. CASE ParseToDecode
  BY <1>5, <1>8 DEF ParseToDecode, PassToCodec, Decode, DropFrame, Forget
<1>9. CASE DecodeDone
  BY <1>5, <1>9 DEF DecodeDone
<1>10. CASE DecodeToManifest
  BY <1>5, <1>10 DEF DecodeToManifest, ScanRelease, ScanPassMarker, ScanOn, TimeOut, TakeFrame,
                     KeepFrame, TakeMarker, TakeCall, Take
<1>11. CASE Show
  BY <1>5, <1>11 DEF Show
<1>12. CASE Users
  BY <1>1, <1>2, <1>5, <1>12 DEF Users, Jump, CallRead, Drain, CallInSequence
<1> QED
  BY <1>6, <1>7, <1>8, <1>9, <1>10, <1>11, <1>12 DEF Next

-----------------------------------------------------------------------------
(* What travels through the rings *)

LEMMA SeqMoves ==
    ASSUME NEW S, NEW s \in Seq(S)
    PROVE  /\ s # <<>> => Head(s) \in S /\ Tail(s) \in Seq(S)
           /\ \A e \in S : /\ Append(s, e) \in Seq(S) /\ Append(s, e) # <<>>
                           /\ s # <<>> => Head(Append(s, e)) = Head(s)
           /\ \A e, d \in S : s \o <<e, d>> \in Seq(S)
<1>1. s # <<>> => Head(s) \in S /\ Tail(s) \in Seq(S)
  OBVIOUS
<1>2. ASSUME NEW e \in S
      PROVE  /\ Append(s, e) \in Seq(S) /\ Append(s, e) # <<>>
             /\ s # <<>> => Head(Append(s, e)) = Head(s)
  <2>1. Append(s, e) \in Seq(S)
    OBVIOUS
  <2>2. Len(Append(s, e)) = Len(s) + 1 /\ Len(s) \in Nat
    OBVIOUS
  <2>3. s # <<>> => Len(s) > 0 /\ Append(s, e)[1] = s[1]
    OBVIOUS
  <2> QED
    BY <2>1, <2>2, <2>3
<1>3. ASSUME NEW e \in S, NEW d \in S PROVE s \o <<e, d>> \in Seq(S)
  <2>1. <<e, d>> \in Seq(S)
    OBVIOUS
  <2> QED
    BY <2>1
<1> QED
  BY <1>1, <1>2, <1>3

LEMMA CallsStep ==
    ASSUME Typed, [Next]_vars
    PROVE  DOMAIN calls \subseteq DOMAIN calls' /\ calls' \in Seq(Nat)
<1>a. calls \in Seq(Nat) /\ NextBufferSequenceNumber \in Nat
  BY DEF Typed, TablesTyped, FramesTyped
<1>1. CASE UNCHANGED calls
  BY <1>a, <1>1
<1>2. CASE CallRead
  BY <1>a, <1>2 DEF CallRead
<1> QED
  BY <1>1, <1>2 DEF Next, CollateToParse, ParseJump, ParseMarker, ParseToDecode, PassToCodec,
       Decode, DropFrame, Forget, DecodeDone, DecodeToManifest, ScanRelease, ScanPassMarker,
       ScanOn, TimeOut, TakeFrame, KeepFrame, TakeMarker, TakeCall, Take, Show, Users,
       ParseReference, ParseOther, Parse, Jump, Drain, CallInSequence, bounds, vars

\* A new frame is the last one and takes the next number.
LEMMA ParseLength ==
    ASSUME FramesTyped, ParseReference \/ ParseOther
    PROVE  /\ Len(frame') = Len(frame) + 1 /\ Len(frame) \in Nat
           /\ frame'[Len(frame) + 1].number = NextBufferSequenceNumber
<1>1. CASE ParseReference
  <2>1. Settled \in Seq(Params) /\ Len(Settled) = Len(frame)
    BY SettledFrames
  <2>2. \A x : /\ Len(Append(Settled, x)) = Len(Settled) + 1
               /\ Append(Settled, x)[Len(Settled) + 1] = x
    BY <2>1
  <2>3. Unplaced(TRUE).number = NextBufferSequenceNumber
    BY DEF Unplaced
  <2>4. frame' = Append(Settled, Unplaced(TRUE))
    BY <1>1 DEF ParseReference
  <2>5. Len(frame) \in Nat
    BY DEF FramesTyped
  <2> QED
    BY <2>1, <2>2, <2>3, <2>4, <2>5
<1>2. CASE ParseOther
  <2>1. \A x : Len(Append(frame, x)) = Len(frame) + 1 /\ Append(frame, x)[Len(frame) + 1] = x
    BY DEF FramesTyped
  <2>2. Placed(Unplaced(FALSE)).number = NextBufferSequenceNumber
    BY DEF Placed, Unplaced
  <2>3. frame' = Append(frame, Placed(Unplaced(FALSE)))
    BY <1>2 DEF ParseOther
  <2>4. Len(frame) \in Nat
    BY DEF FramesTyped
  <2> QED
    BY <2>1, <2>2, <2>3, <2>4
<1> QED
  BY <1>1, <1>2

LEMMA QueuesStep ==
    ASSUME Typed, [Next]_vars
    PROVE  QueuesTyped'
<1>a. FramesTyped /\ QueuesTyped /\ TablesTyped
  BY DEF Typed
<1>b. /\ DOMAIN frame \subseteq DOMAIN frame' /\ DOMAIN calls \subseteq DOMAIN calls'
      /\ frame' \in Seq(Params) /\ calls' \in Seq(Nat)
      /\ NextBufferSequenceNumber \in Nat
  BY FramesStep, CallsStep DEF Typed, FramesTyped
<1>c. PICK I, P, C, L : I = Waits /\ P = Parses(frame') /\ C = Passes(frame')
                        /\ L = Leaves(frame', calls')
  OBVIOUS
<1>d. /\ input \in Seq(I) /\ parsed \in Seq(P) /\ codec \in Seq(C) /\ decoded \in Seq(L)
      /\ inCodec \in BOOLEAN
      /\ inCodec => parsed # <<>> /\ Head(parsed) \in C
  <2>1. /\ Passes(frame) \subseteq C /\ Parses(frame) \subseteq P
        /\ Leaves(frame, calls) \subseteq L
    BY <1>b, <1>c, QueuesWiden
  <2>2. input \in Seq(I)
    BY <1>a, <1>c DEF QueuesTyped
  <2>3. parsed \in Seq(P)
    BY <1>a, <2>1, SeqWiden DEF QueuesTyped
  <2>4. codec \in Seq(C)
    BY <1>a, <2>1, SeqWiden DEF QueuesTyped
  <2>5. decoded \in Seq(L)
    BY <1>a, <2>1, SeqWiden DEF QueuesTyped
  <2> QED
    BY <1>a, <2>1, <2>2, <2>3, <2>4, <2>5 DEF QueuesTyped
<1>e. /\ C \subseteq P /\ C \subseteq L
      /\ \A x \in I : x.kind = "marker" => x \in C
      /\ \A x \in P : x.kind # "forget" => x \in C
  <2>1. C \subseteq P /\ C \subseteq L
    BY <1>c DEF Parses, Leaves
  <2>2. \A x \in I : x.kind = "marker" => x \in C
    BY <1>c DEF Waits, Passes
  <2>3. \A x \in P : x.kind # "forget" => x \in C
    BY <1>c DEF Parses, Entry
  <2> QED
    BY <2>1, <2>2, <2>3
<1> DEFINE Goal == /\ input' \in Seq(I) /\ parsed' \in Seq(P) /\ codec' \in Seq(C)
                   /\ decoded' \in Seq(L) /\ inCodec' \in BOOLEAN
                   /\ inCodec' => parsed' # <<>> /\ Head(parsed') \in C
<1> SUFFICES Goal
  BY <1>c DEF QueuesTyped
<1>1. ASSUME Parse, Len(frame) + 1 \in DOMAIN frame' PROVE Goal
  <2>1. PICK e : e = Entry("frame", Len(frame) + 1)
    OBVIOUS
  <2>2. e \in C
    BY <1>1, <1>c, <2>1 DEF Entry, Passes
  <2>3. parsed' = Append(parsed, e)
    BY <1>1, <2>1 DEF Parse
  <2>4. UNCHANGED <<input, codec, decoded, inCodec>>
    BY <1>1 DEF Parse, decoder
  <2> QED
    BY <1>d, <1>e, <2>2, <2>3, <2>4, SeqMoves
<1>2. ASSUME ParseReference \/ ParseOther PROVE Goal
  <2>1. Parse
    BY <1>2 DEF ParseReference, ParseOther
  <2>2. Len(frame') = Len(frame) + 1 /\ Len(frame) \in Nat
    BY <1>2, <1>a, ParseLength
  <2>3. Len(frame) + 1 \in DOMAIN frame'
    BY <1>b, <2>2
  <2> QED
    BY <1>1, <2>1, <2>3
<1>3. ASSUME ParseJump PROVE Goal
  <2>1. PICK e : e = Entry("forget", None)
    OBVIOUS
  <2>2. e \in P
    BY <1>c, <2>1 DEF Parses
  <2>3. parsed' = Append(parsed, e) /\ input # <<>> /\ input' = Tail(input)
    BY <1>3, <2>1 DEF ParseJump
  <2>4. UNCHANGED <<codec, decoded, inCodec>>
    BY <1>3 DEF ParseJump, decoder
  <2> QED
    BY <1>d, <2>2, <2>3, <2>4, SeqMoves
<1>4. ASSUME ParseMarker PROVE Goal
  <2>1. parsed' = Append(parsed, Head(input)) /\ input # <<>> /\ input' = Tail(input)
    BY <1>4 DEF ParseMarker
  <2>2. Head(input) \in I /\ Head(input).kind = "marker"
    BY <1>4, <1>d, <2>1 DEF ParseMarker
  <2>3. Head(input) \in C
    BY <1>e, <2>2
  <2>4. UNCHANGED <<codec, decoded, inCodec>>
    BY <1>4 DEF ParseMarker, decoder
  <2> QED
    BY <1>d, <1>e, <2>1, <2>3, <2>4, SeqMoves
<1>5. ASSUME PassToCodec PROVE Goal
  <2>1. parsed # <<>> /\ Head(parsed).kind # "forget" /\ inCodec' = TRUE
    BY <1>5 DEF PassToCodec
  <2>2. Head(parsed) \in C
    BY <1>d, <1>e, <2>1
  <2>3. UNCHANGED <<input, parsed, codec, decoded>>
    BY <1>5 DEF PassToCodec
  <2> QED
    BY <1>d, <2>1, <2>2, <2>3
<1>6. ASSUME Decode PROVE Goal
  <2>1. inCodec /\ inCodec' = FALSE /\ parsed' = Tail(parsed) /\ codec' = Append(codec, Head(parsed))
    BY <1>6 DEF Decode
  <2>2. UNCHANGED <<input, decoded>>
    BY <1>6 DEF Decode
  <2> QED
    BY <1>d, <2>1, <2>2, SeqMoves
<1>7. ASSUME DropFrame \/ Forget PROVE Goal
  <2>1. parsed # <<>> /\ parsed' = Tail(parsed) /\ UNCHANGED <<input, codec, decoded, inCodec>>
    BY <1>7 DEF DropFrame, Forget
  <2>2. inCodec => Head(parsed).kind # "forget"
    BY <1>a, PassesTyped DEF QueuesTyped, FramesTyped, TablesTyped
  <2>3. ~inCodec
    BY <1>7, <2>2 DEF DropFrame, Forget
  <2> QED
    BY <1>d, <2>1, <2>3, SeqMoves
<1>8. ASSUME DecodeDone PROVE Goal
  <2>1. codec # <<>> /\ codec' = Tail(codec) /\ UNCHANGED <<input, parsed, inCodec>>
    BY <1>8 DEF DecodeDone
  <2>2. decoded' = decoded \/ decoded' = Append(decoded, Head(codec))
    BY <1>8 DEF DecodeDone
  <2>3. Head(codec) \in C /\ Tail(codec) \in Seq(C)
    BY <1>d, <2>1, SeqMoves
  <2>4. Append(decoded, Head(codec)) \in Seq(L)
    BY <1>d, <1>e, <2>3, SeqMoves
  <2> QED
    BY <1>d, <2>1, <2>2, <2>3, <2>4
<1>9. ASSUME TakeFrame \/ KeepFrame \/ TakeMarker \/ TakeCall PROVE Goal
  <2>1. decoded # <<>> /\ decoded' = Tail(decoded) /\ UNCHANGED <<input, parsed, codec, inCodec>>
    BY <1>9 DEF TakeFrame, KeepFrame, TakeMarker, TakeCall, Take, decoder
  <2> QED
    BY <1>d, <2>1, SeqMoves
<1>10. ASSUME Jump PROVE Goal
  <2>1. PICK e : e = Entry("jump", None)
    OBVIOUS
  <2>2. e \in I
    BY <1>c, <2>1 DEF Entry, Waits, None
  <2>3. input' = Append(input, e)
    BY <1>10, <2>1 DEF Jump
  <2>4. UNCHANGED <<parsed, codec, decoded, inCodec>>
    BY <1>10 DEF Jump, decoder
  <2> QED
    BY <1>d, <2>2, <2>3, <2>4, SeqMoves
<1>11. ASSUME NEW policy \in Policies, Drain(policy) PROVE Goal
  <2>1. PICK e, d : e = Entry("jump", None) /\ d = Entry("marker", DrainSequenceNumber)
    OBVIOUS
  <2>2. e \in I /\ d \in I
    BY <1>b, <1>c, <2>1, RingAssumption DEF Entry, Waits, None, DrainSequenceNumber
  <2>3. input' = Append(input, d) \/ input' = input \o <<e, d>>
    BY <1>11, <2>1 DEF Drain
  <2>4. UNCHANGED <<parsed, codec, decoded, inCodec>>
    BY <1>11 DEF Drain
  <2>5. Append(input, d) \in Seq(I)
    BY <1>d, <2>2, SeqMoves
  <2>6. input \o <<e, d>> \in Seq(I)
    BY <1>d, <2>2, SeqMoves
  <2>7. input' \in Seq(I)
    BY <2>3, <2>5, <2>6
  <2> QED
    BY <1>d, <2>4, <2>7
<1>12. ASSUME NEW c \in waiting, CallInSequence(c) PROVE Goal
  <2>1. PICK e : e = Entry("call", c)
    OBVIOUS
  <2>2. e \in L
    BY <1>a, <1>b, <1>c, <2>1 DEF Entry, Leaves, TablesTyped
  <2>3. decoded' = Append(decoded, e)
    BY <1>12, <2>1 DEF CallInSequence
  <2>4. UNCHANGED <<input, parsed, codec, inCodec>>
    BY <1>12 DEF CallInSequence, decoder
  <2> QED
    BY <1>d, <2>2, <2>3, <2>4, SeqMoves
<1>13. ASSUME UNCHANGED <<input, parsed, codec, decoded, inCodec>> PROVE Goal
  BY <1>d, <1>13
<1>14. CASE UNCHANGED vars
  BY <1>13, <1>14 DEF vars, decoder
<1>15. CASE CollateToParse
  BY <1>3, <1>4, <1>15 DEF CollateToParse
<1>16. CASE ParseToDecode
  BY <1>5, <1>6, <1>7, <1>16 DEF ParseToDecode
<1>17. CASE DecodeToManifest
  <2>1. CASE \E f \in table : ScanRelease(f)
    BY <1>13, <2>1 DEF ScanRelease, decoder
  <2>2. CASE ScanPassMarker \/ ScanOn \/ TimeOut
    BY <1>13, <2>2 DEF ScanPassMarker, ScanOn, TimeOut, decoder
  <2> QED
    BY <1>9, <1>17, <2>1, <2>2 DEF DecodeToManifest
<1>18. CASE Show
  BY <1>13, <1>18 DEF Show, decoder
<1>19. CASE CallRead
  BY <1>13, <1>19 DEF CallRead, decoder
<1>20. CASE Users
  BY <1>2, <1>10, <1>11, <1>12, <1>19, <1>20 DEF Users
<1> QED
  BY <1>8, <1>14, <1>15, <1>16, <1>17, <1>18, <1>20 DEF Next

-----------------------------------------------------------------------------
(* What the third process keeps *)

LEMMA PlacesTyped ==
    ASSUME FramesTyped
    PROVE  /\ DOMAIN frame \subseteq Nat
           /\ \A f \in DOMAIN frame : Number(f) \in Nat
           /\ \A f \in DOMAIN frame : Index(f) \in Int
           /\ \A f \in DOMAIN frame : Index(f) < NextDisplayFrameIndex
           /\ \A f \in DOMAIN frame : Known(f) => Index(f) \in Nat
                                                 /\ Index(f) + 1 <= NextDisplayFrameIndex
<1>1. \A f \in DOMAIN frame : frame[f] \in Params
  BY DEF FramesTyped
<1>2. \A f \in DOMAIN frame : Number(f) \in Nat /\ Index(f) \in Nat \cup {Invalid}
  BY <1>1 DEF Params, Number, Index
<1>3. \A f \in DOMAIN frame : Known(f) => Index(f) \in Nat
  BY <1>2 DEF Known
<1>4. \A f \in DOMAIN frame : Index(f) \in Int
  BY <1>2 DEF Invalid
<1>5. \A f \in DOMAIN frame : Index(f) < NextDisplayFrameIndex
  BY DEF FramesTyped
<1>6. DOMAIN frame \subseteq Nat /\ NextDisplayFrameIndex \in Nat
  BY DEF FramesTyped
<1>7. \A f \in DOMAIN frame : Known(f) => Index(f) + 1 <= NextDisplayFrameIndex
  BY <1>4, <1>5, <1>6
<1> QED
  BY <1>2, <1>3, <1>4, <1>5, <1>6, <1>7

\* The index that no frame has yet is never skipped: the loop of
\* CheckForNonDecodedFrame ends, and it ends at the least index it may not skip.
LEMMA SkipEnds ==
    ASSUME Typed, SkipUnused
    PROVE  /\ desired' \in desired .. NextDisplayFrameIndex
           /\ ~Skipped(desired')
           /\ \A e \in desired .. desired' - 1 : Skipped(e)
           /\ DisplayIndicesCollapse' = Collapsed
           /\ Collapsed \in Nat /\ Collapsed <= NextDisplayFrameIndex
           /\ DisplayIndicesCollapse <= Collapsed
<1>a. FramesTyped /\ TablesTyped
  BY DEF Typed
<1>b. /\ desired \in Nat /\ NextDisplayFrameIndex \in Nat /\ desired <= NextDisplayFrameIndex
      /\ DisplayIndicesCollapse \in Nat /\ DisplayIndicesCollapse <= NextDisplayFrameIndex
      /\ NonDecoded \subseteq DOMAIN frame /\ kept \subseteq DOMAIN frame
  BY <1>a DEF FramesTyped, TablesTyped
<1>c. \A f \in DOMAIN frame : /\ Index(f) < NextDisplayFrameIndex
                              /\ Known(f) => Index(f) \in Nat
  BY <1>a, PlacesTyped
<1>1. /\ Collapsed \in Nat /\ Collapsed <= NextDisplayFrameIndex
      /\ DisplayIndicesCollapse <= Collapsed
  <2>1. PICK S : S = {DisplayIndicesCollapse}
          \cup {Index(f) : f \in {g \in NowKnown : discarding["DtoM"] \/ Collapse(g)}}
    OBVIOUS
  <2>2. DisplayIndicesCollapse \in S /\ Collapsed = Max(S)
    BY <2>1 DEF Collapsed
  <2>3. \A n \in S : n \in Nat /\ n <= NextDisplayFrameIndex
    BY <1>b, <1>c, <2>1 DEF NowKnown
  <2>4. Max(S) \in S /\ \A n \in S : n <= Max(S)
    BY <1>b, <2>2, <2>3, MaxOf
  <2> QED
    BY <2>2, <2>3, <2>4
<1>2. ~Skipped(NextDisplayFrameIndex)
  BY <1>b, <1>c, <1>1 DEF Skipped
<1>3. PICK D : D = {d \in desired .. NextDisplayFrameIndex : ~Skipped(d)}
  OBVIOUS
<1>4. PICK d \in D : \A e \in D : d <= e
  <2>1. D \in SUBSET Nat /\ D # {}
    BY <1>b, <1>2, <1>3
  <2> QED
    BY <2>1, LeastOf
<1>5. d \in desired .. NextDisplayFrameIndex /\ ~Skipped(d)
  BY <1>3, <1>4
<1>6. \A e \in desired .. d - 1 : Skipped(e)
  <2> TAKE e \in desired .. d - 1
  <2>1. e \in desired .. NextDisplayFrameIndex /\ ~(d <= e)
    BY <1>b, <1>5
  <2> QED
    BY <1>3, <1>4, <2>1
<1>7. /\ desired' \in desired .. NextDisplayFrameIndex
      /\ ~Skipped(desired') /\ \A e \in desired .. desired' - 1 : Skipped(e)
  <2>1. \E x \in desired .. NextDisplayFrameIndex :
           ~Skipped(x) /\ \A e \in desired .. x - 1 : Skipped(e)
    BY <1>5, <1>6
  <2>2. desired' = CHOOSE x \in desired .. NextDisplayFrameIndex :
                     ~Skipped(x) /\ \A e \in desired .. x - 1 : Skipped(e)
    BY DEF SkipUnused
  <2> QED
    BY <2>1, <2>2
<1> QED
  BY <1>1, <1>7 DEF SkipUnused

LEMMA TablesStep ==
    ASSUME Typed, [Next]_vars
    PROVE  TablesTyped'
<1>a. FramesTyped /\ QueuesTyped /\ TablesTyped
  BY DEF Typed
<1>b. /\ DOMAIN frame \subseteq DOMAIN frame' /\ DOMAIN calls \subseteq DOMAIN calls'
      /\ calls' \in Seq(Nat)
      /\ NextDisplayFrameIndex \in Nat /\ NextDisplayFrameIndex' \in Nat
      /\ NextDisplayFrameIndex <= NextDisplayFrameIndex'
  BY FramesStep, CallsStep DEF Typed, FramesTyped
<1>c. \A f \in DOMAIN frame : /\ Number(f) \in Nat /\ f \in Nat
                              /\ Known(f) => /\ Index(f) \in Nat
                                             /\ Index(f) + 1 <= NextDisplayFrameIndex
  BY <1>a, PlacesTyped
<1>d. \A a, b \in Nat : Larger(a, b) \in Nat /\ (Larger(a, b) = a \/ Larger(a, b) = b)
  BY DEF Larger
<1>e. decoded # <<>> => /\ Head(decoded).kind = "frame" => Head(decoded).n \in DOMAIN frame
                        /\ Head(decoded).kind = "marker" => Head(decoded).n \in Nat
                        /\ Head(decoded).kind = "call" => Head(decoded).n \in DOMAIN calls
  <2> SUFFICES ASSUME decoded # <<>>
               PROVE  /\ Head(decoded).kind = "frame" => Head(decoded).n \in DOMAIN frame
                      /\ Head(decoded).kind = "marker" => Head(decoded).n \in Nat
                      /\ Head(decoded).kind = "call" => Head(decoded).n \in DOMAIN calls
    OBVIOUS
  <2>1. Head(decoded) \in Leaves(frame, calls)
    BY <1>a, SeqMoves DEF QueuesTyped
  <2>2. frame \in Seq(Params) /\ calls \in Seq(Nat)
    BY <1>a DEF FramesTyped, TablesTyped
  <2> QED
    BY <2>1, <2>2, PassesTyped
<1> DEFINE Calls   == waiting' \subseteq DOMAIN calls' /\ before' \subseteq DOMAIN calls'
           Unused  == /\ NonDecoded' \subseteq DOMAIN frame /\ kept' \subseteq NonDecoded'
                      /\ DisplayIndicesCollapse' \in Nat
                      /\ DisplayIndicesCollapse' <= NextDisplayFrameIndex
           Reorder == /\ table' \subseteq DOMAIN frame
                      /\ last' \in Nat /\ seen' \in Nat /\ desired' \in Nat
                      /\ desired' <= NextDisplayFrameIndex
                      /\ marker' \in Nat \cup {Invalid}
                      /\ scanned' \in BOOLEAN /\ numbered' \in BOOLEAN
           Flags   == dropping' \in Nat /\ discarding' \in [Stages -> BOOLEAN]
<1>f. SUFFICES Calls /\ Unused /\ Reorder /\ Flags
  <2>1. desired' \in Nat /\ desired' <= NextDisplayFrameIndex => desired' <= NextDisplayFrameIndex'
    BY <1>b
  <2>2. DisplayIndicesCollapse' \in Nat /\ DisplayIndicesCollapse' <= NextDisplayFrameIndex
           => DisplayIndicesCollapse' <= NextDisplayFrameIndex'
    BY <1>b
  <2> QED
    BY <1>b, <2>1, <2>2 DEF TablesTyped
<1>1. UNCHANGED messages => Calls
  BY <1>a, <1>b DEF TablesTyped, messages
<1>2. UNCHANGED unused => Unused
  BY <1>a DEF TablesTyped, unused
<1>3. UNCHANGED reorder => Reorder
  BY <1>a DEF TablesTyped, reorder
<1>4. UNCHANGED <<dropping, discarding>> => Flags
  BY <1>a DEF TablesTyped
<1>5. ASSUME NEW f \in DOMAIN frame, Known(f), Leave(f)
      PROVE  /\ last' \in Nat /\ seen' \in Nat /\ desired' \in Nat
             /\ desired' <= NextDisplayFrameIndex /\ before' \subseteq before
  <2>1. Index(f) \in Nat /\ Index(f) + 1 <= NextDisplayFrameIndex /\ f \in Nat /\ Number(f) \in Nat
    BY <1>c, <1>5
  <2>2. last' = f /\ desired' = Index(f) + 1 /\ seen' = Larger(Number(f), seen)
    BY <1>5 DEF Leave
  <2>3. before' \subseteq before
    BY <1>5 DEF Leave, Perform
  <2>4. seen \in Nat
    BY <1>a DEF TablesTyped
  <2> QED
    BY <1>d, <2>1, <2>2, <2>3, <2>4
<1>6. ASSUME SkipUnused
      PROVE  /\ Unused /\ desired' \in Nat /\ desired' <= NextDisplayFrameIndex
  <2>1. /\ desired' \in desired .. NextDisplayFrameIndex /\ DisplayIndicesCollapse' = Collapsed
        /\ Collapsed \in Nat /\ Collapsed <= NextDisplayFrameIndex
    BY <1>6, SkipEnds
  <2>2. desired \in Nat
    BY <1>a DEF TablesTyped
  <2>3. NonDecoded' \subseteq DOMAIN frame
    BY <1>6, <1>a DEF SkipUnused, TablesTyped
  <2>4. kept' \subseteq NonDecoded'
    BY <1>6, <1>a DEF SkipUnused, TablesTyped, NowKnown
  <2> QED
    BY <1>b, <2>1, <2>2, <2>3, <2>4
<1>7. ASSUME ParseReference \/ ParseOther \/ ParseJump \/ Decode \/ Forget \/ Show \/ Jump
      PROVE  Calls /\ Unused /\ Reorder /\ Flags
  <2>1. UNCHANGED <<messages, unused, reorder, dropping, discarding>>
    BY <1>7 DEF ParseReference, ParseOther, Parse, ParseJump, Decode, Forget, Show, Jump, decoder,
                messages
  <2> QED
    BY <1>1, <1>2, <1>3, <1>4, <2>1
<1>8. ASSUME ParseMarker \/ PassToCodec PROVE Calls /\ Unused /\ Reorder /\ Flags
  <2>1. UNCHANGED <<messages, unused, reorder, dropping>>
    BY <1>8 DEF ParseMarker, PassToCodec, decoder, messages
  <2>2. discarding \in [Stages -> BOOLEAN] /\ dropping \in Nat
    BY <1>a DEF TablesTyped
  <2>3. Flags
    BY <1>8, <2>1, <2>2 DEF ParseMarker, PassToCodec
  <2> QED
    BY <1>1, <1>2, <1>3, <2>1, <2>3
<1>9. ASSUME DropFrame PROVE Calls /\ Unused /\ Reorder /\ Flags
  <2>1. UNCHANGED <<messages, reorder, dropping, discarding>>
    BY <1>9 DEF DropFrame, messages
  <2>2. PICK f : f = Head(parsed).n
    OBVIOUS
  <2>3. f \in DOMAIN frame
    <3>1. parsed # <<>> /\ Head(parsed).kind = "frame"
      BY <1>9 DEF DropFrame
    <3>2. Head(parsed) \in Parses(frame)
      BY <1>a, <3>1, SeqMoves DEF QueuesTyped
    <3>3. frame \in Seq(Params) /\ calls \in Seq(Nat)
      BY <1>a DEF FramesTyped, TablesTyped
    <3> QED
      BY <2>2, <3>1, <3>2, <3>3, PassesTyped
  <2>4. /\ NonDecoded' = NonDecoded \/ NonDecoded' = NonDecoded \cup {f}
        /\ kept' = kept \/ (kept' = kept \cup {f} /\ NonDecoded' = NonDecoded \cup {f})
        /\ \/ DisplayIndicesCollapse' = DisplayIndicesCollapse
           \/ Known(f) /\ DisplayIndicesCollapse' = Larger(DisplayIndicesCollapse, Index(f))
    BY <1>9, <2>2 DEF DropFrame, unused
  <2>5. /\ NonDecoded \subseteq DOMAIN frame /\ kept \subseteq NonDecoded
        /\ DisplayIndicesCollapse \in Nat /\ DisplayIndicesCollapse <= NextDisplayFrameIndex
    BY <1>a DEF TablesTyped
  <2>6. NonDecoded' \subseteq DOMAIN frame /\ kept' \subseteq NonDecoded'
    BY <2>3, <2>4, <2>5
  <2>7. DisplayIndicesCollapse' \in Nat /\ DisplayIndicesCollapse' <= NextDisplayFrameIndex
    <3>1. CASE DisplayIndicesCollapse' = DisplayIndicesCollapse
      BY <2>5, <3>1
    <3>2. CASE Known(f) /\ DisplayIndicesCollapse' = Larger(DisplayIndicesCollapse, Index(f))
      <4>1. Index(f) \in Nat /\ Index(f) + 1 <= NextDisplayFrameIndex
        BY <1>c, <2>3, <3>2
      <4>2. DisplayIndicesCollapse' \in Nat
            /\ (DisplayIndicesCollapse' = DisplayIndicesCollapse \/ DisplayIndicesCollapse' = Index(f))
        BY <1>d, <2>5, <3>2, <4>1
      <4> QED
        BY <1>b, <2>5, <4>1, <4>2
    <3> QED
      BY <2>4, <3>1, <3>2
  <2> QED
    BY <1>1, <1>3, <1>4, <2>1, <2>6, <2>7
<1>10. ASSUME DecodeDone PROVE Calls /\ Unused /\ Reorder /\ Flags
  <2>1. UNCHANGED <<messages, unused, reorder, discarding>>
    BY <1>10 DEF DecodeDone, messages
  <2>2. dropping \in Nat /\ discarding \in [Stages -> BOOLEAN]
    BY <1>a DEF TablesTyped
  <2>3. dropping' \in Nat
    BY <1>10, <2>2 DEF DecodeDone
  <2> QED
    BY <1>1, <1>2, <1>3, <2>1, <2>2, <2>3
<1>11. ASSUME NEW f \in table, ScanRelease(f) PROVE Calls /\ Unused /\ Reorder /\ Flags
  <2>1. /\ UNCHANGED <<unused, dropping, discarding, scanned, numbered, marker, waiting>>
        /\ Leave(f) /\ Known(f) /\ table' = table \ {f}
    BY <1>11 DEF ScanRelease, Releasable, Lowest, decoder
  <2>2. f \in DOMAIN frame /\ table \subseteq DOMAIN frame
    BY <1>a DEF TablesTyped
  <2>3. /\ last' \in Nat /\ seen' \in Nat /\ desired' \in Nat
        /\ desired' <= NextDisplayFrameIndex /\ before' \subseteq before
    BY <1>5, <2>1, <2>2
  <2>4. Reorder
    BY <1>a, <2>1, <2>2, <2>3 DEF TablesTyped
  <2>5. Calls
    BY <1>a, <1>b, <2>1, <2>3 DEF TablesTyped
  <2> QED
    BY <1>2, <1>4, <2>1, <2>4, <2>5
<1>12. ASSUME ScanPassMarker PROVE Calls /\ Unused /\ Reorder /\ Flags
  <2>1. /\ SkipUnused
        /\ UNCHANGED <<dropping, table, scanned, numbered, last, waiting>>
        /\ seen' = Larger(marker, seen) /\ marker' = Invalid
        /\ marker # Invalid /\ before' \subseteq before
        /\ discarding' = [discarding EXCEPT !["DtoM"] = FALSE]
    BY <1>12 DEF ScanPassMarker, decoder, Perform
  <2>2. Unused /\ desired' \in Nat /\ desired' <= NextDisplayFrameIndex
    BY <1>6, <2>1
  <2>3. seen' \in Nat
    BY <1>a, <1>d, <2>1 DEF TablesTyped
  <2>4. Reorder
    BY <1>a, <2>1, <2>2, <2>3 DEF TablesTyped
  <2>5. Calls
    BY <1>a, <1>b, <2>1 DEF TablesTyped
  <2>6. Flags
    BY <1>a, <2>1 DEF TablesTyped
  <2> QED
    BY <2>2, <2>4, <2>5, <2>6
<1>13. ASSUME ScanOn PROVE Calls /\ Unused /\ Reorder /\ Flags
  <2>1. /\ SkipUnused /\ scanned' = TRUE
        /\ UNCHANGED <<dropping, discarding, table, numbered, seen, marker, last, messages>>
    BY <1>13 DEF ScanOn, decoder
  <2>2. Unused /\ desired' \in Nat /\ desired' <= NextDisplayFrameIndex
    BY <1>6, <2>1
  <2>3. Reorder
    BY <1>a, <2>1, <2>2 DEF TablesTyped
  <2> QED
    BY <1>1, <1>4, <2>1, <2>2, <2>3
<1>14. ASSUME TimeOut PROVE Calls /\ Unused /\ Reorder /\ Flags
  <2>1. /\ scanned' = FALSE
        /\ UNCHANGED <<unused, dropping, discarding, table, desired, numbered, seen, marker, last,
                       messages>>
    BY <1>14 DEF TimeOut, decoder
  <2>2. Reorder
    BY <1>a, <2>1 DEF TablesTyped
  <2> QED
    BY <1>1, <1>2, <1>4, <2>1, <2>2
<1>15. ASSUME NEW kind, Take(kind)
       PROVE  /\ Unused /\ Flags /\ scanned' \in BOOLEAN /\ decoded # <<>> /\ Head(decoded).kind = kind
              /\ UNCHANGED waiting
  <2>1. /\ scanned' = FALSE /\ decoded # <<>> /\ Head(decoded).kind = kind
        /\ UNCHANGED <<unused, dropping, discarding, waiting>>
    BY <1>15 DEF Take, decoder
  <2> QED
    BY <1>2, <1>4, <2>1
<1>16. ASSUME TakeFrame PROVE Calls /\ Unused /\ Reorder /\ Flags
  <2>1. /\ Take("frame") /\ numbered' = TRUE /\ UNCHANGED <<table, marker>>
        /\ Known(Head(decoded).n) /\ Leave(Head(decoded).n)
    BY <1>16 DEF TakeFrame
  <2>2. Unused /\ Flags /\ scanned' \in BOOLEAN /\ Head(decoded).n \in DOMAIN frame
        /\ UNCHANGED waiting
    BY <1>15, <1>e, <2>1
  <2>3. /\ last' \in Nat /\ seen' \in Nat /\ desired' \in Nat
        /\ desired' <= NextDisplayFrameIndex /\ before' \subseteq before
    BY <1>5, <2>1, <2>2
  <2>4. Reorder
    BY <1>a, <2>1, <2>2, <2>3 DEF TablesTyped
  <2>5. Calls
    BY <1>a, <1>b, <2>2, <2>3 DEF TablesTyped
  <2> QED
    BY <2>2, <2>4, <2>5
<1>17. ASSUME KeepFrame PROVE Calls /\ Unused /\ Reorder /\ Flags
  <2>1. /\ Take("frame") /\ numbered' = TRUE /\ table' = table \cup {Head(decoded).n}
        /\ UNCHANGED <<desired, seen, marker, last, display, before>>
    BY <1>17 DEF KeepFrame
  <2>2. Unused /\ Flags /\ scanned' \in BOOLEAN /\ Head(decoded).n \in DOMAIN frame
        /\ UNCHANGED waiting
    BY <1>15, <1>e, <2>1
  <2>3. table' \subseteq DOMAIN frame
    BY <1>a, <2>1, <2>2 DEF TablesTyped
  <2>4. Reorder
    BY <1>a, <2>1, <2>2, <2>3 DEF TablesTyped
  <2>5. Calls
    BY <1>a, <1>b, <2>1, <2>2 DEF TablesTyped
  <2> QED
    BY <2>2, <2>4, <2>5
<1>18. ASSUME TakeMarker PROVE Calls /\ Unused /\ Reorder /\ Flags
  <2>1. /\ Take("marker") /\ numbered' = TRUE /\ marker' = Head(decoded).n
        /\ UNCHANGED <<table, desired, seen, last, display, before>>
    BY <1>18 DEF TakeMarker
  <2>2. Unused /\ Flags /\ scanned' \in BOOLEAN /\ Head(decoded).n \in Nat
        /\ UNCHANGED waiting
    BY <1>15, <1>e, <2>1
  <2>4. Reorder
    BY <1>a, <2>1, <2>2 DEF TablesTyped
  <2>5. Calls
    BY <1>a, <1>b, <2>1, <2>2 DEF TablesTyped
  <2> QED
    BY <2>2, <2>4, <2>5
<1>19. ASSUME TakeCall PROVE Calls /\ Unused /\ Reorder /\ Flags
  <2>1. /\ Take("call")
        /\ UNCHANGED <<table, desired, numbered, seen, marker, last, display>>
        /\ before' = before \/ before' = before \cup {Head(decoded).n}
    BY <1>19 DEF TakeCall
  <2>2. Unused /\ Flags /\ scanned' \in BOOLEAN /\ Head(decoded).n \in DOMAIN calls
        /\ UNCHANGED waiting
    BY <1>15, <1>e, <2>1
  <2>4. Reorder
    BY <1>a, <2>1, <2>2 DEF TablesTyped
  <2>5. Calls
    BY <1>a, <1>b, <2>1, <2>2 DEF TablesTyped
  <2> QED
    BY <2>2, <2>4, <2>5
<1>20. ASSUME NEW policy \in Policies, Drain(policy) PROVE Calls /\ Unused /\ Reorder /\ Flags
  <2>1. UNCHANGED <<messages, unused, reorder>>
    BY <1>20 DEF Drain, messages
  <2>2. Cardinality(Entries(codec, "frame")) \in Nat
    BY <1>a, EntriesFinite DEF QueuesTyped
  <2>3. dropping \in Nat /\ discarding \in [Stages -> BOOLEAN]
    BY <1>a DEF TablesTyped
  <2>4. dropping' \in Nat
    BY <1>20, <2>2, <2>3 DEF Drain
  <2>5. discarding' \in [Stages -> BOOLEAN]
    BY <1>20, <2>3 DEF Drain
  <2> QED
    BY <1>1, <1>2, <1>3, <2>1, <2>4, <2>5
<1>21. ASSUME CallRead PROVE Calls /\ Unused /\ Reorder /\ Flags
  <2>1. UNCHANGED <<unused, reorder, dropping, discarding, before>>
    BY <1>21 DEF CallRead, decoder
  <2>2. /\ waiting' = waiting \cup {Len(calls) + 1}
        /\ calls' = Append(calls, NextBufferSequenceNumber)
    BY <1>21 DEF CallRead
  <2>3. Len(calls) + 1 \in DOMAIN calls'
    BY <1>a, <2>2 DEF TablesTyped, FramesTyped
  <2>4. Calls
    BY <1>a, <1>b, <2>1, <2>2, <2>3 DEF TablesTyped
  <2> QED
    BY <1>2, <1>3, <1>4, <2>1, <2>4
<1>22. ASSUME NEW c \in waiting, CallInSequence(c) PROVE Calls /\ Unused /\ Reorder /\ Flags
  <2>1. UNCHANGED <<unused, reorder, dropping, discarding, before>> /\ waiting' = waiting \ {c}
    BY <1>22 DEF CallInSequence, decoder
  <2>4. Calls
    BY <1>a, <1>b, <2>1 DEF TablesTyped
  <2> QED
    BY <1>2, <1>3, <1>4, <2>1, <2>4
<1>23. CASE UNCHANGED vars
  <2>1. UNCHANGED <<messages, unused, reorder, dropping, discarding>>
    BY <1>23 DEF vars, decoder
  <2> QED
    BY <1>1, <1>2, <1>3, <1>4, <2>1
<1>24. CASE CollateToParse
  BY <1>7, <1>8, <1>24 DEF CollateToParse
<1>25. CASE ParseToDecode
  BY <1>7, <1>8, <1>9, <1>25 DEF ParseToDecode
<1>26. CASE DecodeToManifest
  BY <1>11, <1>12, <1>13, <1>14, <1>16, <1>17, <1>18, <1>19, <1>26 DEF DecodeToManifest
<1>27. CASE Users
  BY <1>7, <1>20, <1>21, <1>22, <1>27 DEF Users
<1> QED
  BY <1>7, <1>10, <1>23, <1>24, <1>25, <1>26, <1>27 DEF Next

LEMMA TypedStep ==
    ASSUME Typed, [Next]_vars
    PROVE  Typed'
BY FramesStep, QueuesStep, TablesStep DEF Typed

\* Every state has its types, those of the elements in the rings included.
THEOREM TypesHold == Spec => []Typed
<1>1. Init => Typed
  BY InitTyped
<1>2. Typed /\ [Next]_vars => Typed'
  BY TypedStep
<1> QED
  BY <1>1, <1>2, PTL DEF Spec

\* The parameters that the frame parser gives to frames and the variables of
\* ProcessDecodeToManifest have their types: a frame has no display index exactly
\* as long as it is the deferred one, and the loop over CheckForNonDecodedFrame
\* (player_process_decode_to_manifest.cpp:199) ends with an index.
THEOREM ReorderTyped == Spec => []TypeOK
<1>1. Typed => TypeOK
  BY TypesGiveTypeOK
<1> QED
  BY <1>1, TypesHold, PTL

-----------------------------------------------------------------------------
(* The table of accumulated buffers *)

\* As long as the place of some frame in the table is known, the scan finds one.
LEMMA LowestExists ==
    ASSUME Typed, NEW f \in table, Known(f)
    PROVE  \E g \in table : Lowest(g)
<1>a. FramesTyped /\ table \subseteq DOMAIN frame
  BY DEF Typed, TablesTyped
<1>1. PICK S : S = {Index(g) : g \in {h \in table : Known(h)}}
  OBVIOUS
<1>2. S \in SUBSET Nat /\ Index(f) \in S
  BY <1>a, <1>1, PlacesTyped
<1>3. PICK m \in S : \A n \in S : m <= n
  BY <1>2, LeastOf
<1>4. PICK g \in table : Known(g) /\ m = Index(g)
  BY <1>1, <1>3
<1>5. \A h \in table : Known(h) => Index(g) <= Index(h)
  BY <1>1, <1>3, <1>4
<1> QED
  BY <1>4, <1>5 DEF Lowest

\* When a full table or a marker is a reason to let frames go and none may go,
\* only the frame whose place is open is left.
LEMMA OnlyDeferredLeft ==
    ASSUME Typed, ~\E f \in table : Releasable(f),
           Cardinality(table) >= MaxDecodesOutOfOrder \/ marker # Invalid
    PROVE  \A f \in table : f = Deferred
<1> SUFFICES ASSUME NEW f \in table, f # Deferred PROVE FALSE
  OBVIOUS
<1>1. Known(f)
  BY DEF Typed, FramesTyped, TablesTyped
<1>2. PICK g \in table : Lowest(g)
  BY <1>1, LowestExists
<1>3. Releasable(g)
  BY <1>2 DEF Releasable
<1> QED
  BY <1>2, <1>3

Room ==
    /\ Cardinality(table) <= MaxDecodesOutOfOrder
    /\ scanned => Cardinality(table) < MaxDecodesOutOfOrder

LEMMA TableFinite ==
    ASSUME Typed
    PROVE  IsFiniteSet(table) /\ Cardinality(table) \in Nat
<1>1. table \subseteq 1 .. Len(frame) /\ Len(frame) \in Nat
  BY DEF Typed, FramesTyped, TablesTyped
<1>2. IsFiniteSet(1 .. Len(frame))
  BY <1>1, FS_Interval
<1>3. IsFiniteSet(table)
  BY <1>1, <1>2, FS_Subset
<1> QED
  BY <1>3, FS_CardinalityType

LEMMA RoomStep ==
    ASSUME Typed, Room, [Next]_vars, MaxDecodesOutOfOrder >= 2
    PROVE  Room'
<1>a. IsFiniteSet(table) /\ Cardinality(table) \in Nat
  BY TableFinite
<1>b. MaxDecodesOutOfOrder \in Nat
  BY BuffersAssumption DEF MaxDecodesOutOfOrder, Smaller
<1>1. ASSUME UNCHANGED table, scanned' => scanned PROVE Room'
  BY <1>1, <1>a DEF Room
<1>2. ASSUME NEW f \in table, ScanRelease(f) PROVE Room'
  <2>1. table' = table \ {f} /\ ~scanned /\ scanned' = scanned
    BY <1>2 DEF ScanRelease
  <2>2. Cardinality(table \ {f}) = Cardinality(table) - 1
    BY <1>a, FS_RemoveElement
  <2>3. Cardinality(table') <= MaxDecodesOutOfOrder
    BY <1>a, <1>b, <2>1, <2>2 DEF Room
  <2> QED
    BY <2>1, <2>3 DEF Room
<1>3. ASSUME ScanOn PROVE Room'
  <2>1. UNCHANGED table /\ ~\E f \in table : Releasable(f)
    BY <1>3 DEF ScanOn
  <2>2. Cardinality(table) < MaxDecodesOutOfOrder
    <3> SUFFICES ASSUME Cardinality(table) >= MaxDecodesOutOfOrder PROVE FALSE
      BY <1>a, <1>b
    <3>1. table \subseteq {Deferred}
      BY <2>1, OnlyDeferredLeft
    <3>2. IsFiniteSet({Deferred}) /\ Cardinality({Deferred}) = 1
      BY FS_Singleton
    <3>3. Cardinality(table) <= 1
      BY <3>1, <3>2, FS_Subset
    <3> QED
      BY <1>a, <1>b, <3>3
  <2> QED
    BY <2>1, <2>2, <1>a, <1>b DEF Room
<1>4. ASSUME KeepFrame PROVE Room'
  <2>1. scanned /\ scanned' = FALSE /\ table' = table \cup {Head(decoded).n}
    BY <1>4 DEF KeepFrame, Take
  <2>2. \/ Cardinality(table \cup {Head(decoded).n}) = Cardinality(table)
        \/ Cardinality(table \cup {Head(decoded).n}) = Cardinality(table) + 1
    BY <1>a, FS_AddElement
  <2>3. Cardinality(table') <= MaxDecodesOutOfOrder
    BY <1>a, <1>b, <2>1, <2>2 DEF Room
  <2> QED
    BY <2>1, <2>3 DEF Room
<1>5. CASE UNCHANGED reorder
  BY <1>1, <1>5 DEF reorder
<1>6. CASE UNCHANGED vars
  BY <1>5, <1>6 DEF vars
<1>7. CASE CollateToParse \/ ParseToDecode \/ DecodeDone \/ Show \/ Users
  BY <1>5, <1>7 DEF CollateToParse, ParseJump, ParseMarker, ParseToDecode, PassToCodec, Decode,
                    DropFrame, Forget, DecodeDone, Show, Users, ParseReference, ParseOther, Parse,
                    Jump, CallRead, Drain, CallInSequence
<1>8. CASE ScanPassMarker \/ TimeOut \/ TakeFrame \/ TakeMarker \/ TakeCall
  BY <1>1, <1>8 DEF ScanPassMarker, TimeOut, TakeFrame, TakeMarker, TakeCall, Take
<1> QED
  BY <1>2, <1>3, <1>4, <1>6, <1>7, <1>8 DEF Next, DecodeToManifest

\* The table of ProcessDecodeToManifest never holds more than what may be
\* decoded out of order (player_process_decode_to_manifest.cpp:145-168), so that
\* the other buffers stay with the decodes. With room for one frame the open
\* place of a deferred frame would fill it: the pool must leave room for two.
THEOREM TableHasRoom ==
    ASSUME MaxDecodesOutOfOrder >= 2
    PROVE  Spec => []TableLeavesBuffers
<1>1. Init => Room
  <2>1. MaxDecodesOutOfOrder \in Nat
    BY BuffersAssumption DEF MaxDecodesOutOfOrder, Smaller
  <2>2. Cardinality({}) = 0
    BY FS_EmptySet
  <2> QED
    BY <2>1, <2>2 DEF Init, Room
<1>2. Typed /\ Room /\ [Next]_vars => Room'
  BY RoomStep
<1>3. Room => TableLeavesBuffers
  BY DEF Room, TableLeavesBuffers
<1> QED
  BY <1>1, <1>2, <1>3, TypesHold, PTL DEF Spec

-----------------------------------------------------------------------------
(* A marker's number is ahead of what may still be numbered *)

OneMarker(s) ==
    \A i, j \in 1 .. Len(s) : s[i].kind = "marker" /\ s[j].kind = "marker" => i = j

\* Frames that are still parsed, jumps that wait and jumps that are still made
\* each take one number before the marker is parsed.
Upcoming == (MaxFrames - Len(frame)) + Len(input) + (MaxJumps - jumps)

MarkerAhead ==
    /\ jumps \in Nat /\ drains \in Nat
    /\ jumps <= MaxJumps /\ drains <= MaxDrains /\ Len(frame) <= MaxFrames
    /\ Len(input) <= jumps + drains + 1
    /\ (\A x \in Elements(input) : x.kind # "marker") => Len(input) <= jumps + drains
    /\ OneMarker(input)
    /\ \A x \in Elements(input) : x.kind = "marker" =>
         NextBufferSequenceNumber + Upcoming + RingSize
           <= x.n + MaxFrames + MaxJumps + MaxDrains + 1

LEMMA OneMarkerTail ==
    ASSUME NEW S, NEW s \in Seq(S), s # <<>>, OneMarker(s)
    PROVE  /\ OneMarker(Tail(s)) /\ Len(Tail(s)) = Len(s) - 1
           /\ Head(s).kind = "marker" => \A x \in Elements(Tail(s)) : x.kind # "marker"
<1>1. /\ Len(s) \in Nat /\ Len(s) > 0 /\ Len(Tail(s)) = Len(s) - 1 /\ Head(s) = s[1]
      /\ \A i \in 1 .. Len(s) - 1 : Tail(s)[i] = s[i + 1]
  OBVIOUS
<1>2. OneMarker(Tail(s))
  <2> SUFFICES ASSUME NEW i \in 1 .. Len(s) - 1, NEW j \in 1 .. Len(s) - 1,
                      s[i + 1].kind = "marker", s[j + 1].kind = "marker"
               PROVE  i = j
    BY <1>1 DEF OneMarker
  <2>1. i + 1 \in 1 .. Len(s) /\ j + 1 \in 1 .. Len(s)
    BY <1>1
  <2>2. i + 1 = j + 1
    BY <2>1 DEF OneMarker
  <2> QED
    BY <1>1, <2>2
<1>3. ASSUME Head(s).kind = "marker", NEW x \in Elements(Tail(s)) PROVE x.kind # "marker"
  <2>1. PICK i \in 1 .. Len(s) - 1 : x = s[i + 1]
    BY <1>1 DEF Elements
  <2>2. 1 \in 1 .. Len(s) /\ i + 1 \in 1 .. Len(s) /\ i + 1 # 1
    BY <1>1
  <2> QED
    BY <1>1, <1>3, <2>1, <2>2 DEF OneMarker
<1> QED
  BY <1>1, <1>2, <1>3

LEMMA OneMarkerAppend ==
    ASSUME NEW S, NEW s \in Seq(S), OneMarker(s), NEW e \in S,
           \/ e.kind # "marker"
           \/ \A x \in Elements(s) : x.kind # "marker"
    PROVE  OneMarker(Append(s, e)) /\ Len(Append(s, e)) = Len(s) + 1
<1>1. /\ Len(s) \in Nat /\ Len(Append(s, e)) = Len(s) + 1 /\ Append(s, e)[Len(s) + 1] = e
      /\ \A i \in 1 .. Len(s) : Append(s, e)[i] = s[i]
  OBVIOUS
<1>2. \A i \in 1 .. Len(s) : s[i] \in Elements(s)
  BY DEF Elements
<1>3. ASSUME NEW i \in 1 .. Len(s) + 1, NEW j \in 1 .. Len(s) + 1,
             Append(s, e)[i].kind = "marker", Append(s, e)[j].kind = "marker"
      PROVE  i = j
  <2>1. CASE i \in 1 .. Len(s) /\ j \in 1 .. Len(s)
    BY <1>1, <1>3, <2>1 DEF OneMarker
  <2>2. CASE i = Len(s) + 1 /\ j \in 1 .. Len(s)
    BY <1>1, <1>2, <1>3, <2>2
  <2>3. CASE j = Len(s) + 1 /\ i \in 1 .. Len(s)
    BY <1>1, <1>2, <1>3, <2>3
  <2>4. CASE i = Len(s) + 1 /\ j = Len(s) + 1
    BY <2>4
  <2> QED
    BY <1>1, <2>1, <2>2, <2>3, <2>4
<1>4. OneMarker(Append(s, e))
  BY <1>1, <1>3 DEF OneMarker
<1> QED
  BY <1>1, <1>4

LEMMA InitAhead == Init => MarkerAhead
<1>1. \A x : x \notin Elements(<<>>)
  BY DEF Elements
<1> QED
  BY <1>1, RingAssumption DEF Init, MarkerAhead, OneMarker

LEMMA AheadStep ==
    ASSUME Typed, MarkerAhead, [Next]_vars
    PROVE  MarkerAhead'
<1>a. FramesTyped /\ QueuesTyped /\ TablesTyped
  BY DEF Typed
<1>b. /\ NextBufferSequenceNumber \in Nat /\ Len(frame) \in Nat /\ Len(input) \in Nat
      /\ MaxFrames \in Nat /\ MaxJumps \in Nat /\ MaxDrains \in Nat /\ RingSize \in Nat
      /\ RingSize > 2 * (MaxFrames + MaxJumps + MaxDrains)
  BY <1>a, RingAssumption DEF FramesTyped, QueuesTyped
<1>c. PICK I : I = Waits
  OBVIOUS
<1>d. /\ input \in Seq(I) /\ \A x \in I : x.n \in Nat
  BY <1>a, <1>c DEF QueuesTyped, Waits
<1>e. Elements(input) \subseteq I
  BY <1>d, ElementsOf
<1>f. /\ jumps \in Nat /\ drains \in Nat
      /\ jumps <= MaxJumps /\ drains <= MaxDrains /\ Len(frame) <= MaxFrames
      /\ Len(input) <= jumps + drains + 1
      /\ (\A x \in Elements(input) : x.kind # "marker") => Len(input) <= jumps + drains
      /\ OneMarker(input)
      /\ \A x \in Elements(input) :
           x.kind = "marker" => NextBufferSequenceNumber
                + ((MaxFrames - Len(frame)) + Len(input) + (MaxJumps - jumps)) + RingSize
                <= x.n + MaxFrames + MaxJumps + MaxDrains + 1
  BY DEF MarkerAhead, Upcoming
<1>1. ASSUME ParseReference \/ ParseOther PROVE MarkerAhead'
  <2>1. /\ Len(frame') = Len(frame) + 1 /\ Len(frame') <= MaxFrames
        /\ NextBufferSequenceNumber' = NextBufferSequenceNumber + 1
        /\ UNCHANGED <<input, jumps, drains>>
    <3>1. Parse
      BY <1>1 DEF ParseReference, ParseOther
    <3>2. Len(frame') = Len(frame) + 1
      BY <1>1, <1>a, ParseLength
    <3> QED
      BY <3>1, <3>2, <1>b DEF Parse, bounds
  <2>2. \A x \in Elements(input) :
           x.kind = "marker" => NextBufferSequenceNumber'
                + ((MaxFrames - Len(frame')) + Len(input) + (MaxJumps - jumps)) + RingSize
                <= x.n + MaxFrames + MaxJumps + MaxDrains + 1
    BY <1>b, <1>d, <1>e, <1>f, <2>1
  <2> QED
    BY <1>f, <2>1, <2>2 DEF MarkerAhead, Upcoming
<1>2. ASSUME ParseJump PROVE MarkerAhead'
  <2>1. /\ input # <<>> /\ input' = Tail(input)
        /\ NextBufferSequenceNumber' = NextBufferSequenceNumber + 1
        /\ UNCHANGED <<jumps, drains>> /\ frame' = Settled
    BY <1>2 DEF ParseJump, bounds
  <2>2. Len(frame') = Len(frame)
    BY <1>a, <2>1, SettledFrames
  <2>3. OneMarker(input') /\ Len(input') = Len(input) - 1
    BY <1>d, <1>f, <2>1, OneMarkerTail
  <2>4. \A x \in Elements(input') : x \in Elements(input)
    BY <1>d, <2>1, ElementsTail
  <2>5. \A x \in Elements(input') :
           x.kind = "marker" => NextBufferSequenceNumber'
                + ((MaxFrames - Len(frame')) + Len(input') + (MaxJumps - jumps)) + RingSize
                <= x.n + MaxFrames + MaxJumps + MaxDrains + 1
    <3> TAKE x \in Elements(input')
    <3> HAVE x.kind = "marker"
    <3>1. x.n \in Nat
      BY <1>d, <1>e, <2>4
    <3>2. NextBufferSequenceNumber
                + ((MaxFrames - Len(frame)) + Len(input) + (MaxJumps - jumps)) + RingSize
                <= x.n + MaxFrames + MaxJumps + MaxDrains + 1
      BY <1>f, <2>4
    <3>3. jumps \in Nat
      BY <1>f
    <3> QED
      BY <1>b, <2>1, <2>2, <2>3, <3>1, <3>2, <3>3
  <2>6. Len(input') <= jumps + drains + 1
    BY <1>b, <1>f, <2>3
  <2>7. ASSUME \A x \in Elements(input') : x.kind # "marker"
        PROVE  Len(input') <= jumps + drains
    BY <1>b, <1>f, <2>3
  <2> QED
    BY <1>f, <2>1, <2>2, <2>3, <2>5, <2>6, <2>7 DEF MarkerAhead, Upcoming
<1>3. ASSUME ParseMarker PROVE MarkerAhead'
  <2>1. /\ input # <<>> /\ input' = Tail(input) /\ Head(input).kind = "marker"
        /\ UNCHANGED <<jumps, drains, frame>>
    BY <1>3 DEF ParseMarker, bounds
  <2>3. OneMarker(input') /\ Len(input') = Len(input) - 1
    BY <1>d, <1>f, <2>1, OneMarkerTail
  <2>4. \A x \in Elements(input') : x.kind # "marker"
    BY <1>d, <1>f, <2>1, OneMarkerTail
  <2>6. Len(input') <= jumps + drains /\ Len(input') <= jumps + drains + 1
    BY <1>b, <1>f, <2>3
  <2> QED
    BY <1>f, <2>1, <2>3, <2>4, <2>6 DEF MarkerAhead
<1>4. ASSUME Jump PROVE MarkerAhead'
  <2>1. PICK e : e = Entry("jump", None)
    OBVIOUS
  <2>2. e \in I /\ e.kind # "marker"
    BY <1>c, <2>1 DEF Entry, Waits, None
  <2>3. /\ input' = Append(input, e) /\ jumps' = jumps + 1 /\ jumps < MaxJumps
        /\ UNCHANGED <<drains, frame, NextBufferSequenceNumber>>
    BY <1>4, <2>1 DEF Jump, parser
  <2>4. OneMarker(input') /\ Len(input') = Len(input) + 1
    BY <1>d, <1>f, <2>2, <2>3, OneMarkerAppend
  <2>5. \A x : x \in Elements(input') <=> x \in Elements(input) \/ x = e
    BY <1>d, <2>3, ElementsAppend
  <2>6. \A x \in Elements(input') :
           x.kind = "marker" => NextBufferSequenceNumber
                + ((MaxFrames - Len(frame)) + Len(input') + (MaxJumps - jumps')) + RingSize
                <= x.n + MaxFrames + MaxJumps + MaxDrains + 1
    BY <1>b, <1>d, <1>e, <1>f, <2>2, <2>3, <2>4, <2>5
  <2>7. Len(input') <= jumps' + drains + 1 /\ jumps' \in Nat /\ jumps' <= MaxJumps
    BY <1>b, <1>f, <2>3, <2>4
  <2>8. ASSUME \A x \in Elements(input') : x.kind # "marker"
        PROVE  Len(input') <= jumps' + drains
    <3>1. \A x \in Elements(input) : x.kind # "marker"
      BY <2>5, <2>8
    <3>2. Len(input) <= jumps + drains
      BY <1>f, <3>1
    <3> QED
      BY <1>b, <1>f, <2>3, <2>4, <3>2
  <2> QED
    BY <1>f, <2>3, <2>4, <2>6, <2>7, <2>8 DEF MarkerAhead, Upcoming
<1>5. ASSUME NEW policy \in Policies, Drain(policy) PROVE MarkerAhead'
  <2>1. PICK e, d : e = Entry("jump", None) /\ d = Entry("marker", DrainSequenceNumber)
    OBVIOUS
  <2>2. /\ e \in I /\ d \in I /\ e.kind # "marker" /\ d.n = NextBufferSequenceNumber + RingSize
    BY <1>b, <1>c, <2>1 DEF Entry, Waits, None, DrainSequenceNumber
  <2>3. \A x \in Elements(input) : x.kind # "marker"
    BY <1>5 DEF Drain, Entries
  <2>4. /\ drains' = drains + 1 /\ drains < MaxDrains
        /\ UNCHANGED <<jumps, frame, NextBufferSequenceNumber>>
        /\ (input' = Append(input, d) \/ input' = input \o <<e, d>>)
    BY <1>5, <2>1 DEF Drain, parser
  <2>5. PICK s : s = Append(input, e)
    OBVIOUS
  <2>6. /\ s \in Seq(I) /\ OneMarker(s) /\ Len(s) = Len(input) + 1
        /\ \A x \in Elements(s) : x.kind # "marker"
    <3>1. s \in Seq(I)
      BY <1>d, <2>2, <2>5, SeqMoves
    <3>2. OneMarker(s) /\ Len(s) = Len(input) + 1
      BY <1>d, <1>f, <2>2, <2>5, OneMarkerAppend
    <3>3. \A x \in Elements(s) : x.kind # "marker"
      BY <1>d, <2>2, <2>3, <2>5, ElementsAppend
    <3> QED
      BY <3>1, <3>2, <3>3
  <2>7. input \o <<e, d>> = Append(s, d)
    BY <1>d, <2>2, <2>5
  <2>8. PICK t \in {input, s} : input' = Append(t, d)
    BY <2>4, <2>7
  <2>9. /\ t \in Seq(I) /\ OneMarker(t) /\ Len(t) \in Nat /\ Len(t) <= Len(input) + 1
        /\ \A x \in Elements(t) : x.kind # "marker"
        /\ Len(input) <= jumps + drains
    BY <1>b, <1>d, <1>f, <2>3, <2>6, <2>8
  <2>10. OneMarker(input') /\ Len(input') = Len(t) + 1
    BY <2>2, <2>8, <2>9, OneMarkerAppend
  <2>11. /\ \A x \in Elements(input') : x.kind = "marker" => x = d
         /\ d \in Elements(input') /\ d.kind = "marker"
    BY <2>1, <2>8, <2>9, ElementsAppend DEF Entry
  <2>12. Len(input') <= jumps + drains' + 1 /\ drains' \in Nat /\ drains' <= MaxDrains
    BY <1>b, <1>f, <2>4, <2>9, <2>10
  <2>13. NextBufferSequenceNumber
                + ((MaxFrames - Len(frame)) + Len(input') + (MaxJumps - jumps)) + RingSize
                <= d.n + MaxFrames + MaxJumps + MaxDrains + 1
    BY <1>b, <1>f, <2>2, <2>9, <2>10, <2>12
  <2>14. \A x \in Elements(input') : x.kind = "marker" => NextBufferSequenceNumber
                + ((MaxFrames - Len(frame)) + Len(input') + (MaxJumps - jumps)) + RingSize
                <= x.n + MaxFrames + MaxJumps + MaxDrains + 1
    BY <2>11, <2>13
  <2>15. ~\A x \in Elements(input') : x.kind # "marker"
    BY <2>11
  <2> QED
    BY <1>f, <2>4, <2>10, <2>12, <2>14, <2>15 DEF MarkerAhead, Upcoming
<1>6. ASSUME UNCHANGED <<input, parser, jumps, drains>> PROVE MarkerAhead'
  BY <1>6 DEF MarkerAhead, Upcoming, parser
<1>7. CASE UNCHANGED vars
  BY <1>6, <1>7 DEF vars, bounds
<1>8. CASE CollateToParse
  BY <1>2, <1>3, <1>8 DEF CollateToParse
<1>9. CASE ParseToDecode
  BY <1>6, <1>9 DEF ParseToDecode, PassToCodec, Decode, DropFrame, Forget, bounds
<1>10. CASE DecodeDone
  BY <1>6, <1>10 DEF DecodeDone, bounds
<1>11. CASE DecodeToManifest
  BY <1>6, <1>11 DEF DecodeToManifest, ScanRelease, ScanPassMarker, ScanOn, TimeOut, TakeFrame,
                     KeepFrame, TakeMarker, TakeCall, Take, bounds
<1>12. CASE Show
  BY <1>6, <1>12 DEF Show, bounds
<1>13. CASE CallRead \/ \E c \in waiting : CallInSequence(c)
  BY <1>6, <1>13 DEF CallRead, CallInSequence, bounds
<1>14. CASE Users
  BY <1>1, <1>4, <1>5, <1>13, <1>14 DEF Users
<1> QED
  BY <1>7, <1>8, <1>9, <1>10, <1>11, <1>12, <1>14 DEF Next

-----------------------------------------------------------------------------
(* The order of the sequence numbers *)

\* Frames and markers carry a sequence number, calls and the request to forget
\* the reference frames do not.
Carries(x)  == x.kind \in {"frame", "marker"}
Num(fr, x)  == IF x.kind = "frame" THEN fr[x.n].number ELSE x.n

Rising(fr, s) ==
    \A i, j \in 1 .. Len(s) :
       i < j /\ Carries(s[i]) /\ Carries(s[j]) => Num(fr, s[i]) < Num(fr, s[j])
Precede(fr, s, t) ==
    \A x \in Elements(s), y \in Elements(t) :
       Carries(x) /\ Carries(y) => Num(fr, x) < Num(fr, y)
Below(fr, s, n) ==
    \A x \in Elements(s) : Carries(x) => Num(fr, x) < n

\* Along the ring of decoded frames, the codec and the ring of parsed frames the
\* numbers rise, up to n.
InOrder(fr, d, c, p, n) ==
    /\ Rising(fr, d) /\ Rising(fr, c) /\ Rising(fr, p)
    /\ Precede(fr, d, c) /\ Precede(fr, d, p) /\ Precede(fr, c, p)
    /\ Below(fr, d, n) /\ Below(fr, c, n) /\ Below(fr, p, n)

LEMMA RisingTail ==
    ASSUME NEW fr, NEW S, NEW s \in Seq(S), s # <<>>, Rising(fr, s)
    PROVE  /\ Rising(fr, Tail(s))
           /\ \A y \in Elements(Tail(s)) :
                Carries(Head(s)) /\ Carries(y) => Num(fr, Head(s)) < Num(fr, y)
<1>1. /\ Len(s) \in Nat /\ Len(s) > 0 /\ Len(Tail(s)) = Len(s) - 1 /\ Head(s) = s[1]
      /\ \A i \in 1 .. Len(s) - 1 : Tail(s)[i] = s[i + 1]
  OBVIOUS
<1>2. ASSUME NEW i \in 1 .. Len(s) - 1, NEW j \in 1 .. Len(s) - 1, i < j,
             Carries(s[i + 1]), Carries(s[j + 1])
      PROVE  Num(fr, s[i + 1]) < Num(fr, s[j + 1])
  <2>1. i + 1 \in 1 .. Len(s) /\ j + 1 \in 1 .. Len(s) /\ i + 1 < j + 1
    BY <1>1, <1>2
  <2> QED
    BY <1>2, <2>1 DEF Rising
<1>3. Rising(fr, Tail(s))
  BY <1>1, <1>2 DEF Rising
<1>4. ASSUME NEW y \in Elements(Tail(s)), Carries(Head(s)), Carries(y)
      PROVE  Num(fr, Head(s)) < Num(fr, y)
  <2>1. PICK i \in 1 .. Len(s) - 1 : y = s[i + 1]
    BY <1>1 DEF Elements
  <2>2. 1 \in 1 .. Len(s) /\ i + 1 \in 1 .. Len(s) /\ 1 < i + 1
    BY <1>1
  <2> QED
    BY <1>1, <1>4, <2>1, <2>2 DEF Rising
<1> QED
  BY <1>3, <1>4

LEMMA RisingAppend ==
    ASSUME NEW fr, NEW S, NEW s \in Seq(S), Rising(fr, s), NEW e \in S,
           \A x \in Elements(s) : Carries(x) /\ Carries(e) => Num(fr, x) < Num(fr, e)
    PROVE  Rising(fr, Append(s, e))
<1>1. /\ Len(s) \in Nat /\ Len(Append(s, e)) = Len(s) + 1 /\ Append(s, e)[Len(s) + 1] = e
      /\ \A i \in 1 .. Len(s) : Append(s, e)[i] = s[i]
  OBVIOUS
<1>2. \A i \in 1 .. Len(s) : s[i] \in Elements(s)
  BY DEF Elements
<1>3. ASSUME NEW i \in 1 .. Len(s) + 1, NEW j \in 1 .. Len(s) + 1, i < j,
             Carries(Append(s, e)[i]), Carries(Append(s, e)[j])
      PROVE  Num(fr, Append(s, e)[i]) < Num(fr, Append(s, e)[j])
  <2>0. i \in 1 .. Len(s)
    BY <1>1, <1>3
  <2>1. CASE j \in 1 .. Len(s)
    BY <1>1, <1>3, <2>0, <2>1 DEF Rising
  <2>2. CASE j = Len(s) + 1
    BY <1>1, <1>2, <1>3, <2>0, <2>2
  <2> QED
    BY <1>1, <2>1, <2>2
<1> QED
  BY <1>1, <1>3 DEF Rising

\* A new element at the end of the parsed frames.
LEMMA LineAppend ==
    ASSUME NEW fr, NEW S, NEW d \in Seq(S), NEW c \in Seq(S), NEW p \in Seq(S),
           NEW n \in Nat, NEW m \in Nat, n <= m,
           \A x \in S : Carries(x) => Num(fr, x) \in Nat,
           InOrder(fr, d, c, p, n), NEW e \in S,
           Carries(e) => n <= Num(fr, e) /\ Num(fr, e) < m
    PROVE  InOrder(fr, d, c, Append(p, e), m)
<1>1. Elements(d) \subseteq S /\ Elements(c) \subseteq S /\ Elements(p) \subseteq S
  BY ElementsOf
<1>2. \A x \in Elements(d) \cup Elements(c) \cup Elements(p) :
         Carries(x) => /\ Num(fr, x) < m
                       /\ Carries(e) => Num(fr, x) < Num(fr, e)
  BY <1>1 DEF InOrder, Below
<1>3. \A x : x \in Elements(Append(p, e)) <=> x \in Elements(p) \/ x = e
  BY ElementsAppend
<1>4. Rising(fr, Append(p, e))
  BY <1>2, RisingAppend DEF InOrder
<1>5. Precede(fr, d, Append(p, e)) /\ Precede(fr, c, Append(p, e))
  BY <1>2, <1>3 DEF InOrder, Precede
<1>6. Below(fr, d, m) /\ Below(fr, c, m)
  BY <1>2 DEF Below
<1>7. Below(fr, Append(p, e), m)
  BY <1>2, <1>3 DEF Below
<1> QED
  BY <1>4, <1>5, <1>6, <1>7 DEF InOrder

\* The first of the parsed frames is taken out, or passed to the codec.
LEMMA LineDecode ==
    ASSUME NEW fr, NEW S, NEW d \in Seq(S), NEW c \in Seq(S), NEW p \in Seq(S), p # <<>>,
           NEW n, InOrder(fr, d, c, p, n)
    PROVE  /\ InOrder(fr, d, c, Tail(p), n)
           /\ InOrder(fr, d, Append(c, Head(p)), Tail(p), n)
<1>1. /\ Head(p) \in Elements(p) /\ Head(p) \in S /\ Tail(p) \in Seq(S)
      /\ \A x \in Elements(Tail(p)) : x \in Elements(p)
  BY ElementsTail
<1>2. /\ Rising(fr, Tail(p))
      /\ \A y \in Elements(Tail(p)) :
           Carries(Head(p)) /\ Carries(y) => Num(fr, Head(p)) < Num(fr, y)
  BY RisingTail DEF InOrder
<1>3. \A x : x \in Elements(Append(c, Head(p))) <=> x \in Elements(c) \/ x = Head(p)
  BY ElementsAppend
<1>4. Precede(fr, d, Tail(p)) /\ Precede(fr, c, Tail(p)) /\ Below(fr, Tail(p), n)
  BY <1>1 DEF InOrder, Precede, Below
<1>5. Rising(fr, Append(c, Head(p)))
  BY <1>1, RisingAppend DEF InOrder, Precede
<1>6. Precede(fr, d, Append(c, Head(p)))
  BY <1>1, <1>3 DEF InOrder, Precede
<1>7. Precede(fr, Append(c, Head(p)), Tail(p))
  BY <1>2, <1>3, <1>4 DEF Precede
<1>8. Below(fr, Append(c, Head(p)), n)
  BY <1>1, <1>3 DEF InOrder, Below
<1> QED
  BY <1>2, <1>4, <1>5, <1>6, <1>7, <1>8 DEF InOrder

\* The first decode ends: it is dropped, or goes to the end of the ring.
LEMMA LineDone ==
    ASSUME NEW fr, NEW S, NEW d \in Seq(S), NEW c \in Seq(S), NEW p \in Seq(S), c # <<>>,
           NEW n, InOrder(fr, d, c, p, n)
    PROVE  /\ InOrder(fr, d, Tail(c), p, n)
           /\ InOrder(fr, Append(d, Head(c)), Tail(c), p, n)
<1>1. /\ Head(c) \in Elements(c) /\ Head(c) \in S /\ Tail(c) \in Seq(S)
      /\ \A x \in Elements(Tail(c)) : x \in Elements(c)
  BY ElementsTail
<1>2. /\ Rising(fr, Tail(c))
      /\ \A y \in Elements(Tail(c)) :
           Carries(Head(c)) /\ Carries(y) => Num(fr, Head(c)) < Num(fr, y)
  BY RisingTail DEF InOrder
<1>3. \A x : x \in Elements(Append(d, Head(c))) <=> x \in Elements(d) \/ x = Head(c)
  BY ElementsAppend
<1>4. Precede(fr, d, Tail(c)) /\ Precede(fr, Tail(c), p) /\ Below(fr, Tail(c), n)
  BY <1>1 DEF InOrder, Precede, Below
<1>5. Rising(fr, Append(d, Head(c)))
  BY <1>1, RisingAppend DEF InOrder, Precede
<1>6. Precede(fr, Append(d, Head(c)), p)
  BY <1>1, <1>3 DEF InOrder, Precede
<1>7. Precede(fr, Append(d, Head(c)), Tail(c))
  BY <1>2, <1>3, <1>4 DEF Precede
<1>8. Below(fr, Append(d, Head(c)), n)
  BY <1>1, <1>3 DEF InOrder, Below
<1> QED
  BY <1>2, <1>4, <1>5, <1>6, <1>7, <1>8 DEF InOrder

\* The first of the decoded frames is taken, and is below all that is left.
LEMMA LineTake ==
    ASSUME NEW fr, NEW S, NEW d \in Seq(S), NEW c \in Seq(S), NEW p \in Seq(S), d # <<>>,
           NEW n, InOrder(fr, d, c, p, n)
    PROVE  /\ InOrder(fr, Tail(d), c, p, n)
           /\ \A y \in Elements(Tail(d)) \cup Elements(c) \cup Elements(p) :
                Carries(Head(d)) /\ Carries(y) => Num(fr, Head(d)) < Num(fr, y)
<1>1. /\ Head(d) \in Elements(d) /\ Head(d) \in S /\ Tail(d) \in Seq(S)
      /\ \A x \in Elements(Tail(d)) : x \in Elements(d)
  BY ElementsTail
<1>2. /\ Rising(fr, Tail(d))
      /\ \A y \in Elements(Tail(d)) :
           Carries(Head(d)) /\ Carries(y) => Num(fr, Head(d)) < Num(fr, y)
  BY RisingTail DEF InOrder
<1>4. Precede(fr, Tail(d), c) /\ Precede(fr, Tail(d), p) /\ Below(fr, Tail(d), n)
  BY <1>1 DEF InOrder, Precede, Below
<1>5. \A y \in Elements(c) \cup Elements(p) :
         Carries(Head(d)) /\ Carries(y) => Num(fr, Head(d)) < Num(fr, y)
  BY <1>1 DEF InOrder, Precede
<1> QED
  BY <1>2, <1>4, <1>5 DEF InOrder

\* A call goes to the end of the decoded frames.
LEMMA LineCall ==
    ASSUME NEW fr, NEW S, NEW d \in Seq(S), NEW c, NEW p,
           NEW n, InOrder(fr, d, c, p, n), NEW e \in S, ~Carries(e)
    PROVE  InOrder(fr, Append(d, e), c, p, n)
<1>1. \A x : x \in Elements(Append(d, e)) <=> x \in Elements(d) \/ x = e
  BY ElementsAppend
<1>2. Rising(fr, Append(d, e))
  BY RisingAppend DEF InOrder
<1>3. Precede(fr, Append(d, e), c) /\ Precede(fr, Append(d, e), p) /\ Below(fr, Append(d, e), n)
  BY <1>1 DEF InOrder, Precede, Below
<1> QED
  BY <1>2, <1>3 DEF InOrder

\* Only the numbers of the frames matter.
LEMMA LineFrames ==
    ASSUME NEW fr, NEW fr2, NEW S, NEW d \in Seq(S), NEW c \in Seq(S), NEW p \in Seq(S),
           NEW n, InOrder(fr, d, c, p, n),
           \A x \in S : Num(fr2, x) = Num(fr, x)
    PROVE  InOrder(fr2, d, c, p, n)
<1>1. /\ Elements(d) \subseteq S /\ \A i \in 1 .. Len(d) : d[i] \in S
      /\ Elements(c) \subseteq S /\ \A i \in 1 .. Len(c) : c[i] \in S
      /\ Elements(p) \subseteq S /\ \A i \in 1 .. Len(p) : p[i] \in S
  BY ElementsOf
<1>2. Rising(fr2, d) /\ Rising(fr2, c) /\ Rising(fr2, p)
  BY <1>1 DEF InOrder, Rising
<1>3. Precede(fr2, d, c) /\ Precede(fr2, d, p) /\ Precede(fr2, c, p)
  BY <1>1 DEF InOrder, Precede
<1>4. Below(fr2, d, n) /\ Below(fr2, c, n) /\ Below(fr2, p, n)
  BY <1>1 DEF InOrder, Below
<1> QED
  BY <1>2, <1>3, <1>4 DEF InOrder

Line(d, c, p) == Elements(d) \cup Elements(c) \cup Elements(p)

\* The third process is behind all that is on its way to it: what it has seen,
\* the marker it holds and the frames of its table are below.
Ordered ==
    /\ InOrder(frame, decoded, codec, parsed, NextBufferSequenceNumber)
    /\ \A f \in DOMAIN frame : Number(f) < NextBufferSequenceNumber
    /\ seen <= NextBufferSequenceNumber
    /\ marker < NextBufferSequenceNumber
    /\ \A x \in Line(decoded, codec, parsed) :
         Carries(x) => /\ seen <= Num(frame, x)
                       /\ marker < Num(frame, x)
                       /\ \A f \in table : Number(f) < Num(frame, x)

\* What holds of the elements in the rings of one state, for frames fr and
\* calls cs that may have grown since.
LEMMA LineTyped ==
    ASSUME QueuesTyped, frame \in Seq(Params), calls \in Seq(Nat),
           NEW fr \in Seq(Params), DOMAIN frame \subseteq DOMAIN fr,
           NEW cs \in Seq(Nat), DOMAIN calls \subseteq DOMAIN cs,
           NEW U, U = Parses(fr) \cup Leaves(fr, cs)
    PROVE  /\ decoded \in Seq(U) /\ codec \in Seq(U) /\ parsed \in Seq(U)
           /\ \A x \in U : Carries(x) => Num(fr, x) \in Nat
           /\ \A x \in U : x.kind = "frame" => x.n \in DOMAIN fr
<1>1. /\ Passes(frame) \subseteq Passes(fr) /\ Parses(frame) \subseteq Parses(fr)
      /\ Leaves(frame, calls) \subseteq Leaves(fr, cs)
  BY QueuesWiden
<1>2. Passes(fr) \subseteq Parses(fr)
  BY DEF Parses
<1>3. Passes(frame) \subseteq U /\ Parses(frame) \subseteq U /\ Leaves(frame, calls) \subseteq U
  BY <1>1, <1>2
<1>4. decoded \in Seq(U)
  BY <1>3, SeqWiden DEF QueuesTyped
<1>5. codec \in Seq(U)
  BY <1>3, SeqWiden DEF QueuesTyped
<1>6. parsed \in Seq(U)
  BY <1>3, SeqWiden DEF QueuesTyped
<1>7. \A x \in U : \/ x.kind = "frame" /\ x.n \in DOMAIN fr
                   \/ x.kind = "marker" /\ x.n \in Nat
                   \/ x.kind \in {"call", "forget"}
  BY PassesTyped
<1>8. \A f \in DOMAIN fr : fr[f].number \in Nat
  <2>1. \A f \in DOMAIN fr : fr[f] \in Params
    OBVIOUS
  <2> QED
    BY <2>1 DEF Params
<1>9. \A x \in U : Carries(x) => Num(fr, x) \in Nat
  BY <1>7, <1>8 DEF Carries, Num
<1> QED
  BY <1>4, <1>5, <1>6, <1>7, <1>9

LEMMA LineStep ==
    ASSUME Typed, MarkerAhead, Ordered, [Next]_vars
    PROVE  /\ InOrder(frame', decoded', codec', parsed', NextBufferSequenceNumber')
           /\ \A f \in DOMAIN frame' : frame'[f].number < NextBufferSequenceNumber'
           /\ NextBufferSequenceNumber <= NextBufferSequenceNumber'
           /\ \A x \in Line(decoded', codec', parsed') :
                \/ x \in Line(decoded, codec, parsed)
                \/ /\ Carries(x) => NextBufferSequenceNumber <= Num(frame', x)
                   /\ x.kind = "marker" => ParseMarker /\ x = Head(input)
           /\ \A x \in Line(decoded, codec, parsed) : Num(frame', x) = Num(frame, x)
<1>a. FramesTyped /\ QueuesTyped /\ TablesTyped /\ FramesTyped' /\ QueuesTyped' /\ TablesTyped'
  BY TypedStep DEF Typed
<1>b. /\ DOMAIN frame \subseteq DOMAIN frame' /\ DOMAIN calls \subseteq DOMAIN calls'
      /\ frame \in Seq(Params) /\ calls \in Seq(Nat)
      /\ frame' \in Seq(Params) /\ calls' \in Seq(Nat)
      /\ \A f \in DOMAIN frame : frame'[f].number = frame[f].number
  BY <1>a, FramesStep, CallsStep DEF FramesTyped, TablesTyped
<1>c. PICK n, m : n = NextBufferSequenceNumber /\ m = NextBufferSequenceNumber'
  OBVIOUS
<1>d. n \in Nat /\ m \in Nat
  BY <1>a, <1>c DEF FramesTyped
<1>e. PICK U, V : U = Parses(frame) \cup Leaves(frame, calls)
                  /\ V = Parses(frame') \cup Leaves(frame', calls')
  OBVIOUS
<1>f. /\ decoded \in Seq(U) /\ codec \in Seq(U) /\ parsed \in Seq(U)
      /\ decoded \in Seq(V) /\ codec \in Seq(V) /\ parsed \in Seq(V)
      /\ decoded' \in Seq(V) /\ codec' \in Seq(V) /\ parsed' \in Seq(V)
      /\ \A x \in V : Carries(x) => Num(frame', x) \in Nat
      /\ \A x \in U : x.kind = "frame" => x.n \in DOMAIN frame
  <2>1. /\ decoded \in Seq(U) /\ codec \in Seq(U) /\ parsed \in Seq(U)
        /\ \A x \in U : x.kind = "frame" => x.n \in DOMAIN frame
    BY <1>a, <1>b, <1>e, LineTyped
  <2>2. /\ decoded \in Seq(V) /\ codec \in Seq(V) /\ parsed \in Seq(V)
        /\ \A x \in V : Carries(x) => Num(frame', x) \in Nat
    BY <1>a, <1>b, <1>e, LineTyped
  <2>3. /\ Passes(frame') \subseteq V /\ Parses(frame') \subseteq V
        /\ Leaves(frame', calls') \subseteq V
    BY <1>e DEF Parses
  <2>4. decoded' \in Seq(V)
    BY <1>a, <2>3, SeqWiden DEF QueuesTyped
  <2>5. codec' \in Seq(V)
    BY <1>a, <2>3, SeqWiden DEF QueuesTyped
  <2>6. parsed' \in Seq(V)
    BY <1>a, <2>3, SeqWiden DEF QueuesTyped
  <2> QED
    BY <2>1, <2>2, <2>4, <2>5, <2>6
<1>g. \A x \in U : Num(frame', x) = Num(frame, x)
  BY <1>b, <1>f DEF Num
<1>h. \A x \in Line(decoded, codec, parsed) : Num(frame', x) = Num(frame, x)
  BY <1>f, <1>g, ElementsOf DEF Line
<1>i. InOrder(frame', decoded, codec, parsed, n)
  BY <1>c, <1>f, <1>g, LineFrames DEF Ordered
<1>j. \A f \in DOMAIN frame : frame[f].number < n
  BY <1>c DEF Ordered, Number
<1> DEFINE Goal == /\ InOrder(frame', decoded', codec', parsed', m)
                   /\ \A f \in DOMAIN frame' : frame'[f].number < m
                   /\ n <= m
                   /\ \A x \in Line(decoded', codec', parsed') :
                        \/ x \in Line(decoded, codec, parsed)
                        \/ /\ Carries(x) => n <= Num(frame', x)
                           /\ x.kind = "marker" => ParseMarker /\ x = Head(input)
<1> SUFFICES Goal
  BY <1>c, <1>h
<1>1. ASSUME NEW e \in V, n <= m, UNCHANGED <<decoded, codec>>, parsed' = Append(parsed, e),
             Carries(e) => n <= Num(frame', e) /\ Num(frame', e) < m,
             e.kind = "marker" => ParseMarker /\ e = Head(input),
             \A f \in DOMAIN frame' : frame'[f].number < m
      PROVE  Goal
  <2>1. InOrder(frame', decoded, codec, Append(parsed, e), m)
    BY <1>1, <1>d, <1>f, <1>i, LineAppend
  <2>2. \A x : x \in Elements(parsed') <=> x \in Elements(parsed) \/ x = e
    BY <1>1, <1>f, ElementsAppend
  <2>3. \A x \in Line(decoded', codec', parsed') :
           \/ x \in Line(decoded, codec, parsed)
           \/ /\ Carries(x) => n <= Num(frame', x)
              /\ x.kind = "marker" => ParseMarker /\ x = Head(input)
    BY <1>1, <2>2 DEF Line
  <2> QED
    BY <1>1, <2>1, <2>3
<1>2. ASSUME ParseReference \/ ParseOther PROVE Goal
  <2>1. Parse
    BY <1>2 DEF ParseReference, ParseOther
  <2>2. PICK e : e = Entry("frame", Len(frame) + 1)
    OBVIOUS
  <2>3. /\ parsed' = Append(parsed, e) /\ UNCHANGED <<decoded, codec>> /\ m = n + 1
    BY <1>c, <2>1, <2>2 DEF Parse, decoder
  <2>4. e.kind = "frame" /\ e.n = Len(frame) + 1
    BY <2>2 DEF Entry
  <2>5. /\ Len(frame') = Len(frame) + 1 /\ Len(frame) \in Nat /\ frame'[Len(frame) + 1].number = n
    BY <1>2, <1>a, <1>c, ParseLength
  <2>6. Num(frame', e) = n
    BY <2>4, <2>5 DEF Num
  <2>7. DOMAIN frame' = 1 .. Len(frame) + 1 /\ DOMAIN frame = 1 .. Len(frame)
    BY <1>b, <2>5
  <2>8. \A f \in DOMAIN frame' : frame'[f].number < m
    <3> TAKE f \in DOMAIN frame'
    <3>1. CASE f \in DOMAIN frame
      <4>1. frame'[f].number = frame[f].number /\ frame[f].number < n /\ frame[f].number \in Nat
        BY <1>a, <1>b, <1>j, <3>1, PlacesTyped DEF Number
      <4> QED
        BY <1>d, <2>3, <4>1
    <3>2. CASE f = Len(frame) + 1
      BY <1>d, <2>3, <2>5, <3>2
    <3> QED
      BY <2>5, <2>7, <3>1, <3>2
  <2>9. e \in V
    <3>1. Len(frame) + 1 \in DOMAIN frame'
      BY <2>5, <2>7
    <3> QED
      BY <1>e, <2>2, <3>1 DEF Entry, Parses, Passes
  <2>10. n <= m /\ n <= Num(frame', e) /\ Num(frame', e) < m
    BY <1>d, <2>3, <2>6
  <2> QED
    BY <1>1, <2>3, <2>4, <2>8, <2>9, <2>10
<1>3. ASSUME n <= m, DOMAIN frame' = DOMAIN frame PROVE \A f \in DOMAIN frame' : frame'[f].number < m
  <2> TAKE f \in DOMAIN frame'
  <2>1. frame'[f].number = frame[f].number /\ frame[f].number < n /\ frame[f].number \in Nat
    BY <1>3, <1>a, <1>b, <1>j, PlacesTyped DEF Number
  <2> QED
    BY <1>3, <1>d, <2>1
<1>4. ASSUME ParseJump PROVE Goal
  <2>1. PICK e : e = Entry("forget", None)
    OBVIOUS
  <2>2. /\ parsed' = Append(parsed, e) /\ UNCHANGED <<decoded, codec>> /\ m = n + 1
        /\ frame' = Settled
    BY <1>4, <1>c, <2>1 DEF ParseJump, decoder
  <2>3. ~Carries(e) /\ e.kind # "marker"
    BY <2>1 DEF Entry, Carries
  <2>4. DOMAIN frame' = DOMAIN frame
    BY <1>a, <2>2, SettledFrames
  <2>5. e \in V
    BY <1>e, <2>1 DEF Parses
  <2>6. n <= m
    BY <1>d, <2>2
  <2>7. \A f \in DOMAIN frame' : frame'[f].number < m
    BY <1>3, <2>4, <2>6
  <2> QED
    BY <1>1, <2>2, <2>3, <2>5, <2>6, <2>7
<1>5. ASSUME ParseMarker PROVE Goal
  <2>1. PICK e : e = Head(input)
    OBVIOUS
  <2>2. /\ parsed' = Append(parsed, e) /\ UNCHANGED <<decoded, codec, frame>> /\ m = e.n + 1
        /\ e.kind = "marker" /\ input # <<>>
    BY <1>5, <1>c, <2>1 DEF ParseMarker, decoder
  <2>3. e \in Elements(input) /\ e \in Waits
    BY <1>a, <2>1, <2>2, ElementsTail DEF QueuesTyped
  <2>4. e.n \in Nat /\ e = Entry("marker", e.n)
    BY <2>2, <2>3 DEF Waits, Entry
  <2>5. n <= e.n
    <3>1. n + ((MaxFrames - Len(frame)) + Len(input) + (MaxJumps - jumps)) + RingSize
            <= e.n + MaxFrames + MaxJumps + MaxDrains + 1
      BY <1>c, <2>2, <2>3 DEF MarkerAhead, Upcoming
    <3>2. /\ jumps \in Nat /\ MaxFrames \in Nat /\ MaxJumps \in Nat /\ MaxDrains \in Nat
          /\ Len(frame) <= MaxFrames /\ jumps <= MaxJumps
          /\ RingSize \in Nat /\ RingSize > 2 * (MaxFrames + MaxJumps + MaxDrains)
      BY RingAssumption DEF MarkerAhead
    <3>3. Len(frame) \in Nat /\ Len(input) \in Nat
      BY <1>a DEF QueuesTyped, FramesTyped
    <3> QED
      BY <1>d, <2>4, <3>1, <3>2, <3>3
  <2>6. e \in V
    <3>1. e \in Passes(frame')
      BY <2>3, <2>2 DEF Waits, Passes
    <3> QED
      BY <1>e, <3>1 DEF Parses
  <2>7. n <= m /\ n <= Num(frame', e) /\ Num(frame', e) < m
    BY <1>d, <2>2, <2>4, <2>5 DEF Num
  <2>8. \A f \in DOMAIN frame' : frame'[f].number < m
    BY <1>3, <2>2, <2>7
  <2> QED
    BY <1>1, <1>5, <2>1, <2>2, <2>6, <2>7, <2>8
<1>6. ASSUME UNCHANGED parser PROVE m = n /\ frame' = frame /\ \A f \in DOMAIN frame' : frame'[f].number < m
  BY <1>6, <1>c, <1>j DEF parser
<1>7. ASSUME UNCHANGED parser, InOrder(frame', decoded', codec', parsed', n),
             \A x \in Line(decoded', codec', parsed') :
                x \in Line(decoded, codec, parsed) \/ ~Carries(x)
      PROVE  Goal
  BY <1>6, <1>7, <1>d DEF Carries
<1>8. ASSUME Decode PROVE Goal
  <2>0. parsed # <<>>
    BY <1>a, <1>8 DEF Decode, QueuesTyped
  <2>1. /\ parsed' = Tail(parsed) /\ codec' = Append(codec, Head(parsed))
        /\ UNCHANGED <<decoded, parser>>
    BY <1>8 DEF Decode
  <2>2. InOrder(frame', decoded', codec', parsed', n)
    BY <1>f, <1>i, <2>0, <2>1, LineDecode
  <2>3. /\ Head(parsed) \in Elements(parsed)
        /\ \A x \in Elements(parsed') : x \in Elements(parsed)
        /\ \A x : x \in Elements(codec') <=> x \in Elements(codec) \/ x = Head(parsed)
    BY <1>f, <2>0, <2>1, ElementsTail, ElementsAppend
  <2> QED
    BY <1>7, <2>1, <2>2, <2>3 DEF Line
<1>9. ASSUME DropFrame \/ Forget PROVE Goal
  <2>1. parsed # <<>> /\ parsed' = Tail(parsed) /\ UNCHANGED <<decoded, codec, parser>>
    BY <1>9 DEF DropFrame, Forget
  <2>2. InOrder(frame', decoded', codec', parsed', n)
    BY <1>f, <1>i, <2>1, LineDecode
  <2>3. \A x \in Elements(parsed') : x \in Elements(parsed)
    BY <1>f, <2>1, ElementsTail
  <2> QED
    BY <1>7, <2>1, <2>2, <2>3 DEF Line
<1>10. ASSUME DecodeDone PROVE Goal
  <2>1. /\ codec # <<>> /\ codec' = Tail(codec) /\ UNCHANGED <<parsed, parser>>
        /\ (decoded' = decoded \/ decoded' = Append(decoded, Head(codec)))
    BY <1>10 DEF DecodeDone
  <2>2. InOrder(frame', decoded', codec', parsed', n)
    <3>1. InOrder(frame', decoded, Tail(codec), parsed, n)
      BY <1>f, <1>i, <2>1, LineDone
    <3>2. InOrder(frame', Append(decoded, Head(codec)), Tail(codec), parsed, n)
      BY <1>f, <1>i, <2>1, LineDone
    <3> QED
      BY <2>1, <3>1, <3>2
  <2>3. /\ Head(codec) \in Elements(codec)
        /\ \A x \in Elements(codec') : x \in Elements(codec)
    BY <1>f, <2>1, ElementsTail
  <2>4. \A x \in Elements(decoded') : x \in Elements(decoded) \/ x = Head(codec)
    BY <1>f, <2>1, ElementsAppend
  <2> QED
    BY <1>7, <2>1, <2>2, <2>3, <2>4 DEF Line
<1>11. ASSUME TakeFrame \/ KeepFrame \/ TakeMarker \/ TakeCall PROVE Goal
  <2>1. decoded # <<>> /\ decoded' = Tail(decoded) /\ UNCHANGED <<parsed, codec, parser>>
    BY <1>11 DEF TakeFrame, KeepFrame, TakeMarker, TakeCall, Take, decoder
  <2>2. InOrder(frame', decoded', codec', parsed', n)
    BY <1>f, <1>i, <2>1, LineTake
  <2>3. \A x \in Elements(decoded') : x \in Elements(decoded)
    BY <1>f, <2>1, ElementsTail
  <2> QED
    BY <1>7, <2>1, <2>2, <2>3 DEF Line
<1>12. ASSUME NEW c \in waiting, CallInSequence(c) PROVE Goal
  <2>1. PICK e : e = Entry("call", c)
    OBVIOUS
  <2>2. decoded' = Append(decoded, e) /\ UNCHANGED <<parsed, codec, parser>>
    BY <1>12, <2>1 DEF CallInSequence, decoder
  <2>3. ~Carries(e)
    BY <2>1 DEF Entry, Carries
  <2>4. e \in V
    <3>1. c \in DOMAIN calls'
      BY <1>a, <1>b DEF TablesTyped
    <3> QED
      BY <1>e, <2>1, <3>1 DEF Entry, Leaves
  <2>5. InOrder(frame', decoded', codec', parsed', n)
    BY <1>f, <1>i, <2>2, <2>3, <2>4, LineCall
  <2>6. \A x \in Elements(decoded') : x \in Elements(decoded) \/ x = e
    BY <1>f, <2>2, ElementsAppend
  <2> QED
    BY <1>7, <2>2, <2>3, <2>5, <2>6 DEF Line
<1>13. ASSUME UNCHANGED <<parser, decoded, codec, parsed>> PROVE Goal
  BY <1>7, <1>13, <1>i
<1>14. CASE UNCHANGED vars
  BY <1>13, <1>14 DEF vars, decoder
<1>15. CASE CollateToParse
  BY <1>4, <1>5, <1>15 DEF CollateToParse
<1>16. CASE ParseToDecode
  BY <1>8, <1>9, <1>13, <1>16 DEF ParseToDecode, PassToCodec
<1>17. CASE (\E f \in table : ScanRelease(f)) \/ ScanPassMarker \/ ScanOn \/ TimeOut
  BY <1>13, <1>17 DEF ScanRelease, ScanPassMarker, ScanOn, TimeOut, decoder
<1>18. CASE DecodeToManifest
  BY <1>11, <1>17, <1>18 DEF DecodeToManifest
<1>19. CASE Show \/ Jump \/ CallRead \/ \E policy \in Policies : Drain(policy)
  BY <1>13, <1>19 DEF Show, Jump, CallRead, Drain, decoder
<1>20. CASE Users
  BY <1>2, <1>12, <1>19, <1>20 DEF Users
<1> QED
  BY <1>10, <1>14, <1>15, <1>16, <1>18, <1>19, <1>20 DEF Next

\* The step of the order: only the third process moves what has been seen, its
\* marker and its table, and what it takes is below all that is left.
LEMMA OrderedStep ==
    ASSUME Typed, MarkerAhead, Ordered, [Next]_vars
    PROVE  Ordered'
<1>a. FramesTyped /\ QueuesTyped /\ TablesTyped /\ FramesTyped' /\ QueuesTyped' /\ TablesTyped'
  BY TypedStep DEF Typed
<1>b. /\ DOMAIN frame \subseteq DOMAIN frame'
      /\ \A f \in DOMAIN frame : frame'[f].number = frame[f].number /\ Number(f) \in Nat
  BY <1>a, FramesStep, PlacesTyped
<1>c. PICK n, m : n = NextBufferSequenceNumber /\ m = NextBufferSequenceNumber'
  OBVIOUS
<1>d. /\ n \in Nat /\ m \in Nat /\ seen \in Nat /\ seen' \in Nat
      /\ marker \in Int /\ marker' \in Int
      /\ table \subseteq DOMAIN frame /\ table' \subseteq DOMAIN frame'
  BY <1>a, <1>c DEF FramesTyped, TablesTyped, Invalid
<1>e. PICK K, L : K = Line(decoded, codec, parsed) /\ L = Line(decoded', codec', parsed')
  OBVIOUS
<1>f. /\ InOrder(frame', decoded', codec', parsed', m)
      /\ \A f \in DOMAIN frame' : frame'[f].number < m
      /\ n <= m
      /\ \A x \in L : x \in K \/ (Carries(x) => n <= Num(frame', x))
      /\ \A x \in K : Num(frame', x) = Num(frame, x)
  BY <1>c, <1>e, LineStep
<1>g. /\ seen <= n /\ marker < n
      /\ \A f \in DOMAIN frame : Number(f) < n
      /\ \A x \in K : Carries(x) => /\ seen <= Num(frame, x) /\ marker < Num(frame, x)
                                    /\ \A f \in table : Number(f) < Num(frame, x)
  BY <1>c, <1>e DEF Ordered
<1>h. /\ \A x \in K : Carries(x) => Num(frame, x) \in Nat
      /\ \A x \in L : Carries(x) => Num(frame', x) \in Nat
  <2>1. frame \in Seq(Params) /\ calls \in Seq(Nat) /\ frame' \in Seq(Params) /\ calls' \in Seq(Nat)
    BY <1>a DEF FramesTyped, TablesTyped
  <2>2. PICK U : U = Parses(frame) \cup Leaves(frame, calls)
    OBVIOUS
  <2>3. /\ decoded \in Seq(U) /\ codec \in Seq(U) /\ parsed \in Seq(U)
        /\ \A x \in U : Carries(x) => Num(frame, x) \in Nat
    BY <1>a, <2>1, <2>2, LineTyped
  <2>4. PICK V : V = Parses(frame') \cup Leaves(frame', calls')
    OBVIOUS
  <2>5. /\ decoded' \in Seq(V) /\ codec' \in Seq(V) /\ parsed' \in Seq(V)
    <3>1. /\ Passes(frame') \subseteq V /\ Parses(frame') \subseteq V
          /\ Leaves(frame', calls') \subseteq V
      BY <2>4 DEF Parses
    <3>2. decoded' \in Seq(V)
      BY <1>a, <3>1, SeqWiden DEF QueuesTyped
    <3>3. codec' \in Seq(V)
      BY <1>a, <3>1, SeqWiden DEF QueuesTyped
    <3>4. parsed' \in Seq(V)
      BY <1>a, <3>1, SeqWiden DEF QueuesTyped
    <3> QED
      BY <3>2, <3>3, <3>4
  <2>6. \A x \in V : Carries(x) => Num(frame', x) \in Nat
    <3>1. DOMAIN calls \subseteq DOMAIN calls'
      BY CallsStep
    <3> QED
      BY <1>a, <1>b, <2>1, <2>4, <3>1, LineTyped
  <2>7. \A x \in K : Carries(x) => Num(frame, x) \in Nat
    BY <1>e, <2>3, ElementsOf DEF Line
  <2>8. \A x \in L : Carries(x) => Num(frame', x) \in Nat
    BY <1>e, <2>5, <2>6, ElementsOf DEF Line
  <2> QED
    BY <2>7, <2>8
<1>i. \A a, b \in Int : Larger(a, b) = a \/ Larger(a, b) = b
  BY DEF Larger
<1> DEFINE Floor == /\ seen' <= m /\ marker' < m
                    /\ \A x \in L : Carries(x) =>
                         /\ seen' <= Num(frame', x) /\ marker' < Num(frame', x)
                         /\ \A f \in table' : frame'[f].number < Num(frame', x)
<1> SUFFICES Floor
  BY <1>c, <1>e, <1>f DEF Ordered, Number
<1>1. ASSUME UNCHANGED <<table, seen, marker>> PROVE Floor
  <2>1. seen' <= m /\ marker' < m
    BY <1>1, <1>d, <1>f, <1>g
  <2>2. ASSUME NEW x \in L, Carries(x), NEW f \in table'
        PROVE  frame'[f].number < Num(frame', x)
    <3>1. frame'[f].number = Number(f) /\ Number(f) \in Nat /\ Number(f) < n /\ f \in table
      BY <1>1, <1>b, <1>d, <1>g, <2>2 DEF Number
    <3>2. CASE x \in K
      BY <1>f, <1>g, <2>2, <3>1, <3>2
    <3>3. CASE n <= Num(frame', x)
      BY <1>d, <1>h, <2>2, <3>1, <3>3
    <3> QED
      BY <1>f, <2>2, <3>2, <3>3
  <2>3. ASSUME NEW x \in L, Carries(x)
        PROVE  seen' <= Num(frame', x) /\ marker' < Num(frame', x)
    <3>1. CASE x \in K
      BY <1>1, <1>f, <1>g, <2>3, <3>1
    <3>2. CASE n <= Num(frame', x)
      BY <1>1, <1>d, <1>g, <1>h, <2>3, <3>2
    <3> QED
      BY <1>f, <2>3, <3>1, <3>2
  <2> QED
    BY <2>1, <2>2, <2>3
<1>2. ASSUME UNCHANGED frame, m = n, L = K, table' \subseteq table,
             marker' \in {marker, Invalid}, seen' <= n,
             \A x \in K : Carries(x) => seen' <= Num(frame, x)
      PROVE  Floor
  <2>1. marker' < m
    BY <1>2, <1>d, <1>g DEF Invalid
  <2>2. ASSUME NEW x \in K, Carries(x) PROVE marker' < Num(frame, x)
    <3>1. Num(frame, x) \in Nat /\ marker < Num(frame, x)
      BY <1>g, <1>h, <2>2
    <3> QED
      BY <1>2, <3>1 DEF Invalid
  <2>3. ASSUME NEW x \in K, Carries(x), NEW f \in table' PROVE frame[f].number < Num(frame, x)
    BY <1>2, <1>g, <2>3 DEF Number
  <2> QED
    BY <1>2, <2>1, <2>2, <2>3
<1>3. ASSUME NEW f \in table, ScanRelease(f) PROVE Floor
  <2>1. /\ UNCHANGED <<parser, decoded, codec, parsed, marker>>
        /\ table' = table \ {f} /\ seen' = Larger(Number(f), seen)
    BY <1>3 DEF ScanRelease, decoder, Leave
  <2>2. Number(f) \in Nat /\ Number(f) < n
    BY <1>b, <1>d, <1>g
  <2>3. seen' = Number(f) \/ seen' = seen
    BY <1>d, <1>i, <2>1, <2>2
  <2>4. \A x \in K : Carries(x) => seen' <= Num(frame, x)
    <3> SUFFICES ASSUME NEW x \in K, Carries(x) PROVE seen' <= Num(frame, x)
      OBVIOUS
    <3>1. Number(f) < Num(frame, x) /\ seen <= Num(frame, x) /\ Num(frame, x) \in Nat
      BY <1>g, <1>h
    <3> QED
      BY <1>d, <2>2, <2>3, <3>1
  <2>5. seen' <= n
    BY <1>d, <1>g, <2>2, <2>3
  <2>6. frame' = frame /\ m = n /\ L = K
    BY <1>c, <1>e, <2>1 DEF parser
  <2> QED
    BY <1>2, <2>1, <2>4, <2>5, <2>6
<1>4. ASSUME ScanPassMarker PROVE Floor
  <2>1. /\ UNCHANGED <<parser, decoded, codec, parsed, table>> /\ marker # Invalid
        /\ marker' = Invalid /\ seen' = Larger(marker, seen)
    BY <1>4 DEF ScanPassMarker, decoder
  <2>2. seen' = marker \/ seen' = seen
    BY <1>d, <1>i, <2>1
  <2>4. \A x \in K : Carries(x) => seen' <= Num(frame, x)
    <3> SUFFICES ASSUME NEW x \in K, Carries(x) PROVE seen' <= Num(frame, x)
      OBVIOUS
    <3>1. marker < Num(frame, x) /\ seen <= Num(frame, x) /\ Num(frame, x) \in Nat
      BY <1>g, <1>h
    <3> QED
      BY <1>d, <2>2, <3>1
  <2>5. seen' <= n
    BY <1>d, <1>g, <2>2
  <2>6. frame' = frame /\ m = n /\ L = K
    BY <1>c, <1>e, <2>1 DEF parser
  <2> QED
    BY <1>2, <2>1, <2>4, <2>5, <2>6
<1>5. ASSUME NEW kind, Take(kind)
      PROVE  /\ frame' = frame /\ m = n
             /\ Head(decoded) \in K /\ Head(decoded).kind = kind
             /\ \A x \in L : /\ x \in K
                             /\ Carries(Head(decoded)) /\ Carries(x) =>
                                  Num(frame, Head(decoded)) < Num(frame, x)
  <2>1. /\ UNCHANGED <<parser, codec, parsed>> /\ decoded # <<>> /\ decoded' = Tail(decoded)
        /\ Head(decoded).kind = kind
    BY <1>5 DEF Take, decoder
  <2>2. PICK U : U = Parses(frame) \cup Leaves(frame, calls)
    OBVIOUS
  <2>3. decoded \in Seq(U) /\ codec \in Seq(U) /\ parsed \in Seq(U)
    <3>1. frame \in Seq(Params) /\ calls \in Seq(Nat)
      BY <1>a DEF FramesTyped, TablesTyped
    <3> QED
      BY <1>a, <2>2, <3>1, LineTyped
  <2>4. \A y \in Elements(Tail(decoded)) \cup Elements(codec) \cup Elements(parsed) :
           Carries(Head(decoded)) /\ Carries(y) => Num(frame, Head(decoded)) < Num(frame, y)
    BY <2>1, <2>3, LineTake DEF Ordered
  <2>5. Head(decoded) \in Elements(decoded) /\ \A x \in Elements(decoded') : x \in Elements(decoded)
    BY <2>1, <2>3, ElementsTail
  <2>6. frame' = frame /\ m = n
    BY <1>c, <2>1 DEF parser
  <2> QED
    BY <1>e, <2>1, <2>4, <2>5, <2>6 DEF Line
<1>6. ASSUME TakeFrame \/ KeepFrame PROVE Floor
  <2>0. Take("frame") /\ marker' = marker
    BY <1>6 DEF TakeFrame, KeepFrame
  <2>1. PICK h : h = Head(decoded)
    OBVIOUS
  <2>2. /\ frame' = frame /\ m = n /\ h \in K /\ h.kind = "frame" /\ Carries(h)
        /\ \A x \in L : x \in K /\ (Carries(x) => Num(frame, h) < Num(frame, x))
    BY <1>5, <2>0, <2>1 DEF Carries
  <2>3. Num(frame, h) = Number(h.n) /\ Number(h.n) \in Nat
    BY <1>h, <2>2 DEF Num, Number
  <2>4. Number(h.n) < n
    <3>1. h \in Elements(decoded)
      BY <1>a, <2>0, <2>1, ElementsTail DEF Take, QueuesTyped
    <3> QED
      BY <1>c, <2>2, <2>3, <3>1 DEF Ordered, InOrder, Below
  <2>5. /\ \A f \in table' : f \in table \/ f = h.n
        /\ (seen' = seen \/ seen' = Larger(Number(h.n), seen))
    BY <1>6, <2>1 DEF TakeFrame, KeepFrame, Leave
  <2>6. seen' = seen \/ seen' = Number(h.n)
    BY <1>d, <1>i, <2>3, <2>5
  <2>7. seen' <= m /\ marker' < m
    BY <1>d, <1>g, <2>0, <2>2, <2>3, <2>4, <2>6
  <2>8. ASSUME NEW x \in L, Carries(x)
        PROVE  seen' <= Num(frame, x) /\ marker' < Num(frame, x)
    <3>1. /\ Number(h.n) < Num(frame, x) /\ seen <= Num(frame, x) /\ marker < Num(frame, x)
          /\ Num(frame, x) \in Nat
      BY <1>g, <1>h, <2>2, <2>3, <2>8
    <3> QED
      BY <1>d, <2>0, <2>3, <2>6, <3>1
  <2>9. ASSUME NEW x \in L, Carries(x), NEW f \in table' PROVE frame[f].number < Num(frame, x)
    BY <1>g, <2>2, <2>3, <2>5, <2>9 DEF Number
  <2> QED
    BY <2>2, <2>7, <2>8, <2>9
<1>7. ASSUME TakeMarker PROVE Floor
  <2>0. Take("marker") /\ UNCHANGED <<table, seen>>
    BY <1>7 DEF TakeMarker
  <2>1. PICK h : h = Head(decoded)
    OBVIOUS
  <2>2. /\ frame' = frame /\ m = n /\ h \in K /\ h.kind = "marker" /\ Carries(h)
        /\ \A x \in L : x \in K /\ (Carries(x) => Num(frame, h) < Num(frame, x))
    BY <1>5, <2>0, <2>1 DEF Carries
  <2>3. Num(frame, h) = h.n /\ marker' = h.n
    BY <1>7, <2>1, <2>2 DEF Num, TakeMarker
  <2>4. h.n < n
    <3>1. h \in Elements(decoded)
      BY <1>a, <2>0, <2>1, ElementsTail DEF Take, QueuesTyped
    <3> QED
      BY <1>c, <2>2, <2>3, <3>1 DEF Ordered, InOrder, Below
  <2> QED
    BY <1>g, <2>0, <2>2, <2>3, <2>4 DEF Number
<1>8. ASSUME TakeCall PROVE Floor
  BY <1>1, <1>8 DEF TakeCall
<1>9. ASSUME UNCHANGED reorder PROVE Floor
  BY <1>1, <1>9 DEF reorder
<1>10. CASE UNCHANGED vars
  BY <1>9, <1>10 DEF vars
<1>11. CASE CollateToParse \/ ParseToDecode \/ DecodeDone \/ Show \/ Users
  BY <1>9, <1>11 DEF CollateToParse, ParseJump, ParseMarker, ParseToDecode, PassToCodec, Decode,
                     DropFrame, Forget, DecodeDone, Show, Users, ParseReference, ParseOther, Parse,
                     Jump, CallRead, Drain, CallInSequence
<1>12. CASE ScanOn \/ TimeOut
  BY <1>1, <1>12 DEF ScanOn, TimeOut
<1> QED
  BY <1>3, <1>4, <1>6, <1>7, <1>8, <1>10, <1>11, <1>12 DEF Next, DecodeToManifest

LEMMA InitOrdered == Init => MarkerAhead /\ Ordered
<1> SUFFICES ASSUME Init PROVE Ordered
  BY InitAhead
<1>1. \A x : x \notin Elements(<<>>)
  BY DEF Elements
<1>2. /\ decoded = <<>> /\ codec = <<>> /\ parsed = <<>> /\ frame = <<>> /\ seen = 0
      /\ marker = Invalid /\ NextBufferSequenceNumber = 0
  BY DEF Init
<1>3. \A fr : Rising(fr, <<>>) /\ Precede(fr, <<>>, <<>>) /\ Below(fr, <<>>, 0)
  BY <1>1 DEF Rising, Precede, Below
<1>4. InOrder(frame, decoded, codec, parsed, NextBufferSequenceNumber)
  BY <1>2, <1>3 DEF InOrder
<1>5. \A x : x \notin Line(decoded, codec, parsed)
  BY <1>1, <1>2 DEF Line
<1>6. \A f \in DOMAIN frame : Number(f) < NextBufferSequenceNumber
  BY <1>2
<1>7. seen <= NextBufferSequenceNumber /\ marker < NextBufferSequenceNumber
  BY <1>2 DEF Invalid
<1> QED
  BY <1>4, <1>5, <1>6, <1>7 DEF Ordered

\* Everything that holds of every state, in one formula.
IInv == Typed /\ MarkerAhead /\ Ordered

\* Every state of the specification has its types, its markers ahead and its
\* sequence numbers in order.
THEOREM OrderHolds == Spec => []IInv
<1>1. Init => IInv
  BY InitTyped, InitOrdered DEF IInv
<1>2. IInv /\ [Next]_vars => IInv'
  BY TypedStep, AheadStep, OrderedStep DEF IInv
<1> QED
  BY <1>1, <1>2, PTL DEF Spec

\* What is on its way to the third process, by kind.
LEMMA OnTheWay ==
    ASSUME IInv, NEW f \in Entries(codec, "frame") \cup Entries(decoded, "frame")
    PROVE  /\ f \in DOMAIN frame /\ Number(f) \in Nat
           /\ seen <= Number(f) /\ marker < Number(f)
           /\ \A g \in table : Number(g) < Number(f)
<1>1. PICK x \in Elements(codec) \cup Elements(decoded) : x.kind = "frame" /\ x.n = f
  BY DEF Entries
<1>2. x \in Line(decoded, codec, parsed) /\ Carries(x) /\ Num(frame, x) = Number(f)
  BY <1>1 DEF Line, Carries, Num, Number
<1>3. /\ seen <= Number(f) /\ marker < Number(f)
      /\ \A g \in table : Number(g) < Number(f)
  BY <1>2 DEF IInv, Ordered
<1>4. f \in DOMAIN frame
  <2>1. frame \in Seq(Params) /\ calls \in Seq(Nat) /\ QueuesTyped
    BY DEF IInv, Typed, FramesTyped, TablesTyped
  <2>2. PICK U : U = Parses(frame) \cup Leaves(frame, calls)
    OBVIOUS
  <2>3. /\ decoded \in Seq(U) /\ codec \in Seq(U)
        /\ \A y \in U : y.kind = "frame" => y.n \in DOMAIN frame
    BY <2>1, <2>2, LineTyped
  <2>4. x \in U
    BY <1>1, <2>3, ElementsOf
  <2> QED
    BY <1>1, <2>3, <2>4
<1>5. Number(f) \in Nat
  BY <1>4, PlacesTyped DEF IInv, Typed
<1> QED
  BY <1>3, <1>4, <1>5

\* When ProcessDecodeToManifest passes a marker on
\* (player_process_decode_to_manifest.cpp:206-227), no frame in front of it is
\* left in the table, in the codec or in the ring, but for the deferred one.
THEOREM NothingBehindMarker == Spec => MarkerIsLast
<1>1. ASSUME IInv, [Next]_vars, marker # Invalid, marker' = Invalid,
             NEW f \in table \cup Entries(codec, "frame") \cup Entries(decoded, "frame"),
             Number(f) < marker
      PROVE  f = Deferred
  <2>1. CASE ScanPassMarker
    <3>1. CASE f \in table
      <4>1. ~\E g \in table : Releasable(g)
        BY <2>1 DEF ScanPassMarker, Emptied
      <4> QED
        BY <1>1, <3>1, <4>1, OnlyDeferredLeft DEF IInv
    <3>2. CASE f \in Entries(codec, "frame") \cup Entries(decoded, "frame")
      <4>1. marker < Number(f) /\ Number(f) \in Nat
        BY <1>1, <3>2, OnTheWay
      <4>2. marker \in Int
        BY <1>1 DEF IInv, Typed, TablesTyped, Invalid
      <4> QED
        BY <1>1, <4>1, <4>2
    <3> QED
      BY <1>1, <3>1, <3>2
  <2>2. CASE TakeMarker
    <3>1. decoded # <<>> /\ Head(decoded).kind = "marker" /\ marker' = Head(decoded).n
      BY <2>2 DEF TakeMarker, Take
    <3>2. Head(decoded) \in Leaves(frame, calls)
      BY <1>1, <3>1, SeqMoves DEF IInv, Typed, QueuesTyped
    <3>3. frame \in Seq(Params) /\ calls \in Seq(Nat)
      BY <1>1 DEF IInv, Typed, FramesTyped, TablesTyped
    <3>4. Head(decoded).n \in Nat
      BY <3>1, <3>2, <3>3, PassesTyped
    <3> QED
      BY <1>1, <3>1, <3>4 DEF Invalid
  <2>3. CASE UNCHANGED marker
    BY <1>1, <2>3
  <2>4. CASE CollateToParse \/ ParseToDecode \/ DecodeDone \/ Show \/ Users
    BY <2>3, <2>4 DEF CollateToParse, ParseJump, ParseMarker, ParseToDecode, PassToCodec, Decode,
                      DropFrame, Forget, DecodeDone, Show, Users, ParseReference, ParseOther, Parse,
                      Jump, CallRead, Drain, CallInSequence, reorder
  <2>5. CASE UNCHANGED vars
    BY <2>3, <2>5 DEF vars, reorder
  <2>6. CASE DecodeToManifest
    BY <2>1, <2>2, <2>3, <2>6 DEF DecodeToManifest, ScanRelease, ScanOn, TimeOut, TakeFrame,
                                  KeepFrame, TakeCall
  <2> QED
    BY <1>1, <2>4, <2>5, <2>6 DEF Next
<1>2. IInv /\ [Next]_vars =>
        [marker # Invalid /\ marker' = Invalid =>
           \A f \in table \cup Entries(codec, "frame") \cup Entries(decoded, "frame") :
             Number(f) < marker => f = Deferred]_vars
  BY <1>1
<1> QED
  BY <1>2, OrderHolds, PTL DEF Spec, MarkerIsLast

-----------------------------------------------------------------------------
(* Calls in sequence *)

\* The frames that are still to be shown after a step were there before it: on
\* the way, in the table, or new behind all others.
InFront == Entries(codec, "frame") \cup Entries(decoded, "frame") \cup table

\* A call made while frames leave is at most the least number left.
LEMMA RenumberedLeast ==
    ASSUME Typed, NEW h \in Nat
    PROVE  /\ Renumbered(h) \in Nat /\ Renumbered(h) <= h
           /\ \A f \in table : Renumbered(h) <= Number(f)
<1>1. PICK S : S = {h} \cup {Number(f) : f \in table}
  OBVIOUS
<1>2. S \in SUBSET Nat /\ S # {}
  BY <1>1, PlacesTyped DEF Typed, TablesTyped
<1>3. Min(S) \in S /\ \A n \in S : Min(S) <= n
  BY <1>2, MinOf
<1> QED
  BY <1>1, <1>2, <1>3 DEF Renumbered

SeenBelow ==
    \A f \in Entries(codec, "frame") \cup Entries(decoded, "frame") :
       Number(f) \in Nat /\ seen <= Number(f)

\* A call that waits for its sequence number is made, in
\* ProcessAccumulatedControlMessages, only when no frame with a lower number is
\* left in the codec, the ring or the table; when a marker is passed on, the
\* deferred frame may be left.
CallsInTurn ==
    [][\A c \in before \ before' : \A f \in InFront' :
         \/ Number(f) >= calls[c]
         \/ marker # Invalid /\ marker' = Invalid /\ f = Deferred]_vars

LEMMA InTurnStep ==
    ASSUME IInv, SeenBelow', [Next]_vars,
           NEW c \in before \ before', NEW f \in InFront'
    PROVE  \/ Number(f) >= calls[c]
           \/ marker # Invalid /\ marker' = Invalid /\ f = Deferred
<1>a. Typed /\ FramesTyped /\ TablesTyped
  BY DEF IInv, Typed
<1>b. calls[c] \in Nat /\ c \in before
  BY <1>a DEF TablesTyped
<1>c. seen \in Nat
  BY <1>a DEF TablesTyped
<1>d. \A g \in table : Number(g) \in Nat
  BY <1>a, PlacesTyped DEF TablesTyped
<1>1. ASSUME NEW h \in DOMAIN frame, Leave(h), UNCHANGED frame, table' \subseteq table
      PROVE  Number(f) >= calls[c]
  <2>1. Number(h) \in Nat
    BY <1>1, <1>a, PlacesTyped
  <2>2. seen' \in Nat
    BY <1>1, <1>c, <2>1 DEF Leave, Larger
  <2>3. ~(calls[c] > Renumbered(seen'))
    BY <1>1, <1>b DEF Leave, Perform
  <2>4. /\ Renumbered(seen') \in Nat /\ Renumbered(seen') <= seen'
        /\ \A g \in table : Renumbered(seen') <= Number(g)
    BY <1>a, <2>2, RenumberedLeast
  <2>5. CASE f \in table
    BY <1>b, <1>d, <2>3, <2>4, <2>5
  <2>6. CASE Number(f) \in Nat /\ seen' <= Number(f)
    BY <1>b, <2>2, <2>3, <2>4, <2>6
  <2>7. f \in table \/ (Number(f) \in Nat /\ seen' <= Number(f))
    BY <1>1 DEF InFront, SeenBelow, Number
  <2> QED
    BY <2>5, <2>6, <2>7
<1>2. CASE \E h \in table : ScanRelease(h)
  <2>1. PICK h \in table : ScanRelease(h)
    BY <1>2
  <2>2. h \in DOMAIN frame /\ Leave(h) /\ UNCHANGED frame /\ table' \subseteq table
    BY <1>a, <2>1 DEF ScanRelease, parser, TablesTyped
  <2> QED
    BY <1>1, <2>2
<1>3. CASE TakeFrame
  <2>1. PICK h : h = Head(decoded).n
    OBVIOUS
  <2>2. /\ Leave(h) /\ UNCHANGED frame /\ table' \subseteq table
        /\ decoded # <<>> /\ Head(decoded).kind = "frame"
    BY <1>3, <2>1 DEF TakeFrame, Take, parser
  <2>3. Head(decoded) \in Leaves(frame, calls)
    BY <1>a, <2>2, SeqMoves DEF Typed, QueuesTyped
  <2>4. frame \in Seq(Params) /\ calls \in Seq(Nat)
    BY <1>a DEF FramesTyped, TablesTyped
  <2>5. h \in DOMAIN frame
    BY <2>1, <2>2, <2>3, <2>4, PassesTyped
  <2> QED
    BY <1>1, <2>2, <2>5
<1>4. CASE ScanPassMarker
  <2>1. /\ UNCHANGED <<frame, codec, decoded, table>> /\ marker # Invalid /\ marker' = Invalid
        /\ Perform(marker) /\ ~\E g \in table : Releasable(g)
    BY <1>4 DEF ScanPassMarker, parser, decoder, Emptied
  <2>2. ~(calls[c] > marker) /\ marker \in Nat
    BY <1>a, <1>b, <2>1 DEF Perform, TablesTyped
  <2>3. CASE f \in table
    BY <1>a, <2>1, <2>3, OnlyDeferredLeft
  <2>4. CASE f \in Entries(codec, "frame") \cup Entries(decoded, "frame")
    <3>1. marker < Number(f) /\ Number(f) \in Nat
      BY <2>4, OnTheWay
    <3> QED
      BY <1>b, <2>2, <3>1
  <2> QED
    BY <2>1, <2>3, <2>4 DEF InFront
<1>5. ASSUME before \subseteq before' PROVE FALSE
  BY <1>5
<1>6. CASE UNCHANGED messages
  BY <1>5, <1>6 DEF messages
<1>7. CASE CollateToParse \/ ParseToDecode \/ DecodeDone \/ Show \/ Users
  BY <1>5, <1>7 DEF CollateToParse, ParseJump, ParseMarker, ParseToDecode, PassToCodec, Decode,
                    DropFrame, Forget, DecodeDone, Show, Users, ParseReference, ParseOther, Parse,
                    Jump, CallRead, Drain, CallInSequence, messages
<1>8. CASE UNCHANGED vars
  BY <1>6, <1>8 DEF vars
<1>9. CASE TakeCall
  <2>1. before' = before \/ before' = before \cup {Head(decoded).n}
    BY <1>9 DEF TakeCall
  <2> QED
    BY <1>5, <2>1
<1>10. CASE ScanOn \/ TimeOut \/ KeepFrame \/ TakeMarker
  BY <1>5, <1>10 DEF ScanOn, TimeOut, KeepFrame, TakeMarker, messages
<1> QED
  BY <1>2, <1>3, <1>4, <1>7, <1>8, <1>9, <1>10 DEF Next, DecodeToManifest

\* player_process_decode_to_manifest.cpp:382-393: the number given to what
\* leaves is the least one accumulated, none that was not seen yet, and the
\* calls up to it are made.
THEOREM CallsMadeInTurn == Spec => CallsInTurn
<1>1. IInv => SeenBelow
  BY OnTheWay DEF SeenBelow
<1>2. IInv /\ SeenBelow' /\ [Next]_vars =>
        [\A c \in before \ before' : \A f \in InFront' :
           \/ Number(f) >= calls[c]
           \/ marker # Invalid /\ marker' = Invalid /\ f = Deferred]_vars
  BY InTurnStep
<1> QED
  BY <1>1, <1>2, OrderHolds, PTL DEF Spec, CallsInTurn

-----------------------------------------------------------------------------
(* Without drains *)

\* No marker is anywhere.
NoMarkers ==
    /\ marker = Invalid
    /\ \A x \in Elements(input) : x.kind # "marker"
    /\ \A x \in Line(decoded, codec, parsed) : x.kind # "marker"

LEMMA NoMarkersStep ==
    ASSUME IInv, NoMarkers, MaxDrains = 0, [Next]_vars
    PROVE  NoMarkers'
<1>a. PICK U : U = Parses(frame) \cup Leaves(frame, calls)
  OBVIOUS
<1>b. /\ decoded \in Seq(U) /\ codec \in Seq(U) /\ parsed \in Seq(U) /\ input \in Seq(Waits)
  <2>1. frame \in Seq(Params) /\ calls \in Seq(Nat) /\ QueuesTyped
    BY DEF IInv, Typed, FramesTyped, TablesTyped
  <2> QED
    BY <1>a, <2>1, LineTyped DEF QueuesTyped
<1>c. /\ \A x \in Elements(input) : x.kind # "marker"
      /\ \A x \in Elements(decoded) : x.kind # "marker"
      /\ \A x \in Elements(codec) : x.kind # "marker"
      /\ \A x \in Elements(parsed) : x.kind # "marker"
  BY DEF NoMarkers, Line
<1>1. ASSUME marker' = marker, UNCHANGED input,
             \A x \in Line(decoded', codec', parsed') :
                x \in Line(decoded, codec, parsed) \/ x.kind # "marker"
      PROVE  NoMarkers'
  BY <1>1 DEF NoMarkers
<1>2. CASE ParseReference \/ ParseOther
  <2>1. Parse
    BY <1>2 DEF ParseReference, ParseOther
  <2>2. PICK e : e = Entry("frame", Len(frame) + 1)
    OBVIOUS
  <2>3. /\ parsed' = Append(parsed, e) /\ UNCHANGED <<input, decoded, codec, marker>>
        /\ e.kind # "marker"
    BY <2>1, <2>2 DEF Parse, decoder, reorder, Entry
  <2>4. \A x \in Elements(parsed') : x \in Elements(parsed) \/ x = e
    BY <1>b, <2>3, ElementsAppend
  <2> QED
    BY <1>1, <2>3, <2>4 DEF Line
<1>3. CASE ParseJump
  <2>2. PICK e : e = Entry("forget", None)
    OBVIOUS
  <2>3. /\ parsed' = Append(parsed, e) /\ UNCHANGED <<decoded, codec, marker>>
        /\ e.kind # "marker" /\ input # <<>> /\ input' = Tail(input)
    BY <1>3, <2>2 DEF ParseJump, decoder, reorder, Entry
  <2>4. \A x \in Elements(parsed') : x \in Elements(parsed) \/ x = e
    BY <1>b, <2>3, ElementsAppend
  <2>5. \A x \in Elements(input') : x \in Elements(input)
    BY <1>b, <2>3, ElementsTail
  <2>6. \A x \in Line(decoded', codec', parsed') : x.kind # "marker"
    BY <1>c, <2>3, <2>4 DEF Line
  <2>7. marker' = Invalid
    BY <2>3 DEF NoMarkers
  <2> QED
    BY <1>c, <2>5, <2>6, <2>7 DEF NoMarkers
<1>4. ~ParseMarker
  <2> SUFFICES ASSUME ParseMarker PROVE FALSE
    OBVIOUS
  <2>1. input # <<>> /\ Head(input).kind = "marker"
    BY DEF ParseMarker
  <2>2. Head(input) \in Elements(input)
    BY <1>b, <2>1, ElementsTail
  <2> QED
    BY <1>c, <2>1, <2>2
<1>5. CASE Decode
  <2>0. parsed # <<>>
    BY <1>5 DEF Decode, IInv, Typed, QueuesTyped
  <2>1. /\ parsed' = Tail(parsed) /\ codec' = Append(codec, Head(parsed))
        /\ UNCHANGED <<input, decoded, marker>>
    BY <1>5 DEF Decode, reorder
  <2>2. Head(parsed) \in Elements(parsed) /\ \A x \in Elements(parsed') : x \in Elements(parsed)
    BY <1>b, <2>0, <2>1, ElementsTail
  <2>3. \A x \in Elements(codec') : x \in Elements(codec) \/ x = Head(parsed)
    BY <1>b, <2>1, ElementsAppend
  <2> QED
    BY <1>1, <2>1, <2>2, <2>3 DEF Line
<1>6. CASE DropFrame \/ Forget
  <2>1. parsed # <<>> /\ parsed' = Tail(parsed) /\ UNCHANGED <<input, decoded, codec, marker>>
    BY <1>6 DEF DropFrame, Forget, reorder
  <2>2. \A x \in Elements(parsed') : x \in Elements(parsed)
    BY <1>b, <2>1, ElementsTail
  <2> QED
    BY <1>1, <2>1, <2>2 DEF Line
<1>7. CASE DecodeDone
  <2>1. /\ codec # <<>> /\ codec' = Tail(codec) /\ UNCHANGED <<input, parsed, marker>>
        /\ (decoded' = decoded \/ decoded' = Append(decoded, Head(codec)))
    BY <1>7 DEF DecodeDone, reorder
  <2>2. Head(codec) \in Elements(codec) /\ \A x \in Elements(codec') : x \in Elements(codec)
    BY <1>b, <2>1, ElementsTail
  <2>3. \A x \in Elements(decoded') : x \in Elements(decoded) \/ x = Head(codec)
    BY <1>b, <2>1, ElementsAppend
  <2> QED
    BY <1>1, <2>1, <2>2, <2>3 DEF Line
<1>8. CASE TakeFrame \/ KeepFrame \/ TakeCall
  <2>1. /\ decoded # <<>> /\ decoded' = Tail(decoded)
        /\ UNCHANGED <<input, codec, parsed, marker>>
    BY <1>8 DEF TakeFrame, KeepFrame, TakeCall, Take, decoder
  <2>2. \A x \in Elements(decoded') : x \in Elements(decoded)
    BY <1>b, <2>1, ElementsTail
  <2> QED
    BY <1>1, <2>1, <2>2 DEF Line
<1>9. ~TakeMarker
  <2> SUFFICES ASSUME TakeMarker PROVE FALSE
    OBVIOUS
  <2>1. decoded # <<>> /\ Head(decoded).kind = "marker"
    BY DEF TakeMarker, Take
  <2>2. Head(decoded) \in Elements(decoded)
    BY <1>b, <2>1, ElementsTail
  <2> QED
    BY <1>c, <2>1, <2>2
<1>10. CASE \E c \in waiting : CallInSequence(c)
  <2>0. PICK c : CallInSequence(c)
    BY <1>10
  <2>1. PICK e : e = Entry("call", c)
    OBVIOUS
  <2>2. /\ decoded' = Append(decoded, e) /\ UNCHANGED <<input, codec, parsed, marker>>
        /\ e.kind # "marker"
    BY <2>0, <2>1 DEF CallInSequence, decoder, reorder, Entry
  <2>3. \A x \in Elements(decoded') : x \in Elements(decoded) \/ x = e
    BY <1>b, <2>2, ElementsAppend
  <2> QED
    BY <1>1, <2>2, <2>3 DEF Line
<1>11. CASE Jump
  <2>2. PICK e : e = Entry("jump", None)
    OBVIOUS
  <2>3. /\ input' = Append(input, e) /\ e.kind # "marker"
        /\ UNCHANGED <<decoded, codec, parsed, marker>>
    BY <1>11, <2>2 DEF Jump, decoder, reorder, Entry
  <2>4. \A x \in Elements(input') : x \in Elements(input) \/ x = e
    BY <1>b, <2>3, ElementsAppend
  <2> QED
    BY <1>c, <2>3, <2>4 DEF NoMarkers
<1>12. ~\E policy \in Policies : Drain(policy)
  BY DEF Drain, IInv, MarkerAhead
<1>13. ~ScanPassMarker
  BY DEF ScanPassMarker, NoMarkers
<1>14. ASSUME UNCHANGED <<input, parsed, codec, decoded, marker>> PROVE NoMarkers'
  BY <1>14 DEF NoMarkers
<1>15. CASE UNCHANGED vars
  BY <1>14, <1>15 DEF vars, decoder, reorder
<1>16. CASE PassToCodec \/ ScanOn \/ TimeOut \/ Show \/ CallRead \/ \E f \in table : ScanRelease(f)
  BY <1>14, <1>16 DEF PassToCodec, ScanOn, TimeOut, Show, CallRead, ScanRelease, decoder, reorder
<1>17. CASE CollateToParse
  BY <1>3, <1>4, <1>17 DEF CollateToParse
<1>18. CASE ParseToDecode
  BY <1>5, <1>6, <1>16, <1>18 DEF ParseToDecode
<1>19. CASE DecodeToManifest
  BY <1>8, <1>9, <1>13, <1>16, <1>19 DEF DecodeToManifest
<1>20. CASE Users
  BY <1>2, <1>10, <1>11, <1>12, <1>16, <1>20 DEF Users
<1> QED
  BY <1>7, <1>15, <1>16, <1>17, <1>18, <1>19, <1>20 DEF Next

\* As long as no stream is drained, a call in sequence is never made while a
\* frame with a lower sequence number is still to be shown
\* (ProcessAccumulatedControlMessages of player_process_decode_to_manifest.cpp).
THEOREM CallsWaitForFrames ==
    ASSUME MaxDrains = 0
    PROVE  Spec => CallsNotEarly
<1>1. Init => NoMarkers
  <2>1. \A x : x \notin Elements(<<>>)
    BY DEF Elements
  <2> QED
    BY <2>1 DEF Init, NoMarkers, Line
<1>2. IInv /\ NoMarkers /\ [Next]_vars => NoMarkers'
  BY NoMarkersStep
<1>3. ASSUME NoMarkers,
             [\A c \in before \ before' : \A f \in InFront' :
                \/ Number(f) >= calls[c]
                \/ marker # Invalid /\ marker' = Invalid /\ f = Deferred]_vars
      PROVE  [\A c \in before \ before' :
               \A f \in (Entries(codec, "frame") \cup Entries(decoded, "frame") \cup table)' :
                 Number(f) >= calls[c]]_vars
  BY <1>3 DEF NoMarkers, InFront
<1> QED
  BY <1>1, <1>2, <1>3, OrderHolds, CallsMadeInTurn, PTL DEF Spec, CallsInTurn, CallsNotEarly

-----------------------------------------------------------------------------
(* The places that the parser gives away *)

\* Frame a is shown after frame y, as far as its place is known.
After(fr, a, y) == fr[a].index = Invalid \/ fr[a].index > fr[y].index

\* In the order of decode the numbers rise; no place is given away twice; of
\* the frames decoded before another one, one at most is shown after it; none
\* is shown before a frame that closes a gap and was decoded earlier.
PlacedIn(fr) ==
    /\ \A f, g \in DOMAIN fr : f < g => fr[f].number < fr[g].number
    /\ \A f, g \in DOMAIN fr :
         f # g /\ fr[f].index # Invalid => fr[f].index # fr[g].index
    /\ \A y, a, b \in DOMAIN fr :
         /\ fr[y].index # Invalid /\ a < y /\ b < y
         /\ After(fr, a, y) /\ After(fr, b, y)
         => a = b
    /\ \A x, y \in DOMAIN fr :
         /\ fr[x].index # Invalid /\ fr[y].index # Invalid /\ fr[x].collapse /\ x < y
         => fr[x].index < fr[y].index

Places ==
    /\ PlacedIn(frame)
    /\ CollapseNext /\ Deferred # None => Deferred = Len(frame)

\* The deferred frame gets the next place.
LEMMA PlacedSettled ==
    ASSUME FramesTyped, Places
    PROVE  PlacedIn(Settled)
<1>1. CASE Deferred = None
  BY <1>1 DEF Places, Settled
<1>2. CASE Deferred # None
  <2>1. PICK S : S = Settled
    OBVIOUS
  <2>2. /\ S \in Seq(Params) /\ DOMAIN S = DOMAIN frame /\ Len(S) = Len(frame)
        /\ \A f \in DOMAIN frame : S[f].number = frame[f].number
        /\ \A f \in DOMAIN frame : f # Deferred => S[f] = frame[f]
        /\ Deferred \in DOMAIN frame
        /\ S[Deferred].index = NextDisplayFrameIndex
    BY <1>2, <2>1, SettledFrames DEF FramesTyped
  <2>3. S[Deferred].collapse = CollapseNext
    <3>1. S = [frame EXCEPT ![Deferred] = Placed(frame[Deferred])]
      BY <1>2, <2>1 DEF Settled
    <3>2. frame[Deferred] \in Params
      BY <2>2 DEF FramesTyped
    <3>3. Placed(frame[Deferred]).collapse = CollapseNext
      BY <3>2 DEF Placed, Params
    <3>4. S[Deferred] = Placed(frame[Deferred])
      BY <2>2, <3>1 DEF FramesTyped
    <3> QED
      BY <3>3, <3>4
  <2>4. /\ DOMAIN S \subseteq Nat /\ NextDisplayFrameIndex \in Nat
        /\ \A f \in DOMAIN S : S[f].index \in Int
        /\ \A f \in DOMAIN S : f # Deferred =>
             /\ S[f].index = frame[f].index /\ S[f].collapse = frame[f].collapse
             /\ S[f].index # Invalid
             /\ S[f].index < NextDisplayFrameIndex
    <3>1. DOMAIN frame \subseteq Nat /\ NextDisplayFrameIndex \in Nat
      BY DEF FramesTyped
    <3>2. \A f \in DOMAIN frame : /\ frame[f].index \in Int
                                  /\ frame[f].index < NextDisplayFrameIndex
      BY PlacesTyped DEF Index
    <3>3. \A f \in DOMAIN frame : f # Deferred => frame[f].index # Invalid
      BY DEF FramesTyped, Known, Index
    <3> QED
      BY <2>2, <3>1, <3>2, <3>3
  <2>5. NextDisplayFrameIndex # Invalid
    BY <2>4 DEF Invalid
  <2>6. \A f, g \in DOMAIN S : f < g => S[f].number < S[g].number
    BY <2>2 DEF Places, PlacedIn
  <2>7. \A f, g \in DOMAIN S : f # g => S[f].index # S[g].index
    BY <2>2, <2>4, <2>5 DEF Places, PlacedIn
  <2>8. ASSUME NEW y \in DOMAIN S, NEW a \in DOMAIN S, NEW b \in DOMAIN S,
               a < y, b < y, After(S, a, y), After(S, b, y)
        PROVE  a = b
    <3>1. CASE y = Deferred
      <4>1. a # Deferred /\ S[a].index < NextDisplayFrameIndex /\ S[a].index # Invalid
            /\ S[a].index \in Int
        BY <2>4, <2>8, <3>1
      <4>2. S[a].index > NextDisplayFrameIndex
        BY <2>2, <2>8, <3>1, <4>1 DEF After
      <4> QED
        BY <2>4, <4>1, <4>2
    <3>2. CASE y # Deferred
      <4>1. \A c \in DOMAIN S : After(S, c, y) => After(frame, c, y)
        <5> TAKE c \in DOMAIN S
        <5>1. CASE c = Deferred
          BY <1>2, <2>2, <5>1 DEF After, FramesTyped, Known, Index
        <5>2. CASE c # Deferred
          BY <2>4, <3>2, <5>2 DEF After
        <5> QED
          BY <5>1, <5>2
      <4>2. frame[y].index # Invalid
        BY <2>4, <3>2
      <4> QED
        BY <2>2, <2>8, <4>1, <4>2 DEF Places, PlacedIn
    <3> QED
      BY <3>1, <3>2
  <2>9. ASSUME NEW x \in DOMAIN S, NEW y \in DOMAIN S, S[x].collapse, x < y
        PROVE  S[x].index < S[y].index
    <3>1. CASE x = Deferred
      <4>1. Deferred = Len(frame)
        BY <1>2, <2>3, <2>9, <3>1 DEF Places
      <4>2. Len(S) \in Nat /\ DOMAIN S = 1 .. Len(S)
        BY <2>2
      <4> QED
        BY <2>2, <2>9, <3>1, <4>1, <4>2
    <3>2. CASE x # Deferred /\ y = Deferred
      BY <2>2, <2>4, <3>2
    <3>3. CASE x # Deferred /\ y # Deferred
      BY <2>2, <2>4, <2>9, <3>3 DEF Places, PlacedIn
    <3> QED
      BY <3>1, <3>2, <3>3
  <2>10. PlacedIn(S)
    BY <2>6, <2>7, <2>8, <2>9 DEF PlacedIn
  <2> QED
    BY <2>1, <2>10
<1> QED
  BY <1>1, <1>2

\* A new frame takes the next number, and the next place or none.
LEMMA PlacedAppend ==
    ASSUME NEW fr \in Seq(Params), PlacedIn(fr), NEW u \in Params,
           \A f \in DOMAIN fr : fr[f].number < u.number,
           u.index # Invalid => \A f \in DOMAIN fr : fr[f].index < u.index,
           u.index # Invalid => \A f, g \in DOMAIN fr :
                fr[f].index = Invalid /\ fr[g].index = Invalid => f = g
    PROVE  PlacedIn(Append(fr, u))
<1>1. PICK n, F : n = Len(fr) + 1 /\ F = Append(fr, u)
  OBVIOUS
<1>2. /\ n \in Nat /\ F[n] = u
      /\ DOMAIN F = DOMAIN fr \cup {n} /\ DOMAIN fr \subseteq Nat
      /\ \A f \in DOMAIN fr : F[f] = fr[f] /\ f < n
  BY <1>1
<1>3. \A f \in DOMAIN fr : fr[f].index \in Int /\ fr[f].number \in Nat
  <2>1. \A f \in DOMAIN fr : fr[f] \in Params
    OBVIOUS
  <2> QED
    BY <2>1 DEF Params, Invalid
<1>4. u.index \in Int /\ u.number \in Nat
  BY DEF Params, Invalid
<1>5. \A f, g \in DOMAIN F : f < g => F[f].number < F[g].number
  BY <1>2 DEF PlacedIn
<1>6. \A f, g \in DOMAIN F : f # g /\ F[f].index # Invalid => F[f].index # F[g].index
  BY <1>2, <1>3, <1>4 DEF PlacedIn
<1>7. ASSUME NEW y \in DOMAIN F, NEW a \in DOMAIN F, NEW b \in DOMAIN F,
             F[y].index # Invalid, a < y, b < y, After(F, a, y), After(F, b, y)
      PROVE  a = b
  <2>1. a \in DOMAIN fr /\ b \in DOMAIN fr
    BY <1>2, <1>7
  <2>2. CASE y = n
    <3>1. \A f \in DOMAIN fr : fr[f].index < u.index /\ (After(F, f, y) => fr[f].index = Invalid)
      BY <1>2, <1>3, <1>4, <1>7, <2>2 DEF After
    <3> QED
      BY <1>2, <1>7, <2>1, <2>2, <3>1
  <2>3. CASE y \in DOMAIN fr
    <3>1. After(fr, a, y) /\ After(fr, b, y) /\ fr[y].index # Invalid
      BY <1>2, <1>7, <2>1, <2>3 DEF After
    <3> QED
      BY <1>7, <2>1, <2>3, <3>1 DEF PlacedIn
  <2> QED
    BY <1>2, <2>2, <2>3
<1>8. ASSUME NEW x \in DOMAIN F, NEW y \in DOMAIN F,
             F[x].index # Invalid, F[y].index # Invalid, F[x].collapse, x < y
      PROVE  F[x].index < F[y].index
  <2>1. x \in DOMAIN fr
    BY <1>2, <1>8
  <2>2. CASE y = n
    BY <1>2, <1>8, <2>1, <2>2
  <2>3. CASE y \in DOMAIN fr
    BY <1>2, <1>8, <2>1, <2>3 DEF PlacedIn
  <2> QED
    BY <1>2, <2>2, <2>3
<1>9. PlacedIn(F)
  BY <1>5, <1>6, <1>7, <1>8 DEF PlacedIn
<1> QED
  BY <1>1, <1>9

LEMMA PlacesStep ==
    ASSUME IInv, Places, [Next]_vars
    PROVE  Places'
<1>a. FramesTyped /\ Typed
  BY DEF IInv, Typed
<1>b. /\ frame \in Seq(Params) /\ NextBufferSequenceNumber \in Nat /\ NextDisplayFrameIndex \in Nat
      /\ CollapseNext \in BOOLEAN
      /\ \A f \in DOMAIN frame : frame[f].number < NextBufferSequenceNumber
      /\ \A f \in DOMAIN frame : frame[f].index < NextDisplayFrameIndex
  BY <1>a DEF FramesTyped, IInv, Ordered, Number, Index
<1>1. CASE ParseReference
  <2>1. PICK S, u : S = Settled /\ u = Unplaced(TRUE)
    OBVIOUS
  <2>2. /\ S \in Seq(Params) /\ DOMAIN S = DOMAIN frame /\ Len(S) = Len(frame)
        /\ \A f \in DOMAIN frame : S[f].number = frame[f].number
    BY <1>a, <2>1, SettledFrames
  <2>3. u \in Params /\ u.index = Invalid /\ u.number = NextBufferSequenceNumber
    BY <1>b, <2>1 DEF Unplaced, Params
  <2>4. PlacedIn(S)
    BY <1>a, <2>1, PlacedSettled
  <2>5. PlacedIn(Append(S, u))
    BY <1>b, <2>2, <2>3, <2>4, PlacedAppend
  <2>6. /\ frame' = Append(S, u) /\ Deferred' = Len(S) + 1
    BY <1>1, <2>1, <2>2 DEF ParseReference
  <2>7. Len(frame') = Len(S) + 1
    BY <2>2, <2>6
  <2> QED
    BY <2>5, <2>6, <2>7 DEF Places
<1>2. CASE ParseOther
  <2>1. PICK u : u = Placed(Unplaced(FALSE))
    OBVIOUS
  <2>2. /\ u \in Params /\ u.index = NextDisplayFrameIndex /\ u.number = NextBufferSequenceNumber
    BY <1>b, <2>1 DEF Placed, Unplaced, Params
  <2>3. \A f, g \in DOMAIN frame : frame[f].index = Invalid /\ frame[g].index = Invalid => f = g
    BY <1>a DEF FramesTyped, Known, Index
  <2>4. PlacedIn(Append(frame, u))
    BY <1>b, <2>2, <2>3, PlacedAppend DEF Places
  <2>5. frame' = Append(frame, u) /\ CollapseNext' = FALSE
    BY <1>2, <2>1 DEF ParseOther
  <2> QED
    BY <2>4, <2>5 DEF Places
<1>3. CASE ParseJump
  <2>1. frame' = Settled /\ Deferred' = None
    BY <1>3 DEF ParseJump
  <2>2. PlacedIn(Settled)
    BY <1>a, PlacedSettled
  <2> QED
    BY <2>1, <2>2 DEF Places
<1>4. ASSUME UNCHANGED <<frame, Deferred, CollapseNext>> PROVE Places'
  BY <1>4 DEF Places
<1>5. CASE UNCHANGED vars
  BY <1>4, <1>5 DEF vars, parser
<1>6. CASE ParseMarker \/ ParseToDecode \/ DecodeDone \/ DecodeToManifest \/ Show
  BY <1>4, <1>6 DEF ParseMarker, ParseToDecode, PassToCodec, Decode, DropFrame, Forget, DecodeDone,
       DecodeToManifest, ScanRelease, ScanPassMarker, ScanOn, TimeOut, TakeFrame, KeepFrame,
       TakeMarker, TakeCall, Take, Show, parser
<1>7. CASE Users
  BY <1>1, <1>2, <1>4, <1>7 DEF Users, Jump, CallRead, Drain, CallInSequence, parser
<1> QED
  BY <1>3, <1>5, <1>6, <1>7 DEF Next, CollateToParse

\* A step leaves the frames whose place is known, and a place that is given
\* away is none below the next one.
LEMMA IndexStep ==
    ASSUME Typed, [Next]_vars
    PROVE  /\ \A f \in DOMAIN frame : Known(f) => frame'[f] = frame[f]
           /\ \A f \in DOMAIN frame' : \/ f \in DOMAIN frame /\ frame'[f] = frame[f]
                                       \/ frame'[f].index = Invalid
                                       \/ frame'[f].index = NextDisplayFrameIndex
<1>a. FramesTyped
  BY DEF Typed
<1>b. /\ frame \in Seq(Params)
      /\ \A f \in DOMAIN frame : Known(f) => f # Deferred
      /\ NextBufferSequenceNumber \in Nat /\ NextDisplayFrameIndex \in Nat
      /\ CollapseNext \in BOOLEAN
  BY <1>a DEF FramesTyped
<1> DEFINE Goal == /\ \A f \in DOMAIN frame : Known(f) => frame'[f] = frame[f]
                   /\ \A f \in DOMAIN frame' : \/ f \in DOMAIN frame /\ frame'[f] = frame[f]
                                               \/ frame'[f].index = Invalid
                                               \/ frame'[f].index = NextDisplayFrameIndex
<1>1. CASE ParseReference
  <2>1. PICK S, u : S = Settled /\ u = Unplaced(TRUE)
    OBVIOUS
  <2>2. /\ S \in Seq(Params) /\ DOMAIN S = DOMAIN frame
        /\ \A f \in DOMAIN frame : f # Deferred => S[f] = frame[f]
        /\ \A f \in DOMAIN frame : f = Deferred => S[f].index = NextDisplayFrameIndex
    BY <1>a, <2>1, SettledFrames
  <2>3. u \in Params /\ u.index = Invalid
    BY <1>b, <2>1 DEF Unplaced, Params
  <2>4. frame' = Append(S, u)
    BY <1>1, <2>1 DEF ParseReference
  <2>5. /\ DOMAIN frame' = DOMAIN S \cup {Len(S) + 1} /\ frame'[Len(S) + 1] = u
        /\ \A f \in DOMAIN S : frame'[f] = S[f]
    BY <2>2, <2>3, <2>4
  <2> QED
    BY <1>b, <2>2, <2>3, <2>5
<1>2. CASE ParseOther
  <2>1. PICK u : u = Placed(Unplaced(FALSE))
    OBVIOUS
  <2>2. u \in Params /\ u.index = NextDisplayFrameIndex
    BY <1>b, <2>1 DEF Placed, Unplaced, Params
  <2>3. frame' = Append(frame, u)
    BY <1>2, <2>1 DEF ParseOther
  <2>4. /\ DOMAIN frame' = DOMAIN frame \cup {Len(frame) + 1} /\ frame'[Len(frame) + 1] = u
        /\ \A f \in DOMAIN frame : frame'[f] = frame[f]
    BY <1>b, <2>2, <2>3
  <2> QED
    BY <2>2, <2>4
<1>3. CASE ParseJump
  <2>1. frame' = Settled
    BY <1>3 DEF ParseJump
  <2> QED
    BY <1>a, <1>b, <2>1, SettledFrames
<1>4. ASSUME UNCHANGED frame PROVE Goal
  BY <1>4
<1>5. CASE UNCHANGED vars
  BY <1>4, <1>5 DEF vars, parser
<1>6. CASE ParseMarker \/ ParseToDecode \/ DecodeDone \/ DecodeToManifest \/ Show
  BY <1>4, <1>6 DEF ParseMarker, ParseToDecode, PassToCodec, Decode, DropFrame, Forget, DecodeDone,
       DecodeToManifest, ScanRelease, ScanPassMarker, ScanOn, TimeOut, TakeFrame, KeepFrame,
       TakeMarker, TakeCall, Take, Show, parser
<1>7. CASE Users
  BY <1>1, <1>2, <1>4, <1>7 DEF Users, Jump, CallRead, Drain, CallInSequence, parser
<1> QED
  BY <1>3, <1>5, <1>6, <1>7 DEF Next, CollateToParse

-----------------------------------------------------------------------------
(* The distance of a marker *)

Far(n, m) == m - n > RingSize \div 2

\* A marker is far behind the frames in front of it; while it is held, nothing
\* is added to the table.
Distant ==
    /\ \A x \in Line(decoded, codec, parsed) : x.kind = "marker" =>
         \A f \in DOMAIN frame : Number(f) < x.n => Far(Number(f), x.n)
    /\ scanned => marker = Invalid
    /\ marker # Invalid => \A f \in table : Far(Number(f), marker)

\* When the parser meets a marker, less than half a ring size was numbered since
\* its number was chosen.
LEMMA MarkerFar ==
    ASSUME IInv, ParseMarker, NEW f \in DOMAIN frame
    PROVE  Far(Number(f), Head(input).n)
<1>1. input # <<>> /\ Head(input).kind = "marker" /\ input \in Seq(Waits)
  BY DEF ParseMarker, IInv, Typed, QueuesTyped
<1>2. PICK e : e = Head(input)
  OBVIOUS
<1>3. e \in Elements(input) /\ e \in Waits /\ e.kind = "marker"
  BY <1>1, <1>2, ElementsTail
<1>4. e.n \in Nat
  BY <1>3 DEF Waits
<1>5. Len(input) \in Nat /\ Len(input) >= 1
  BY <1>1
<1>6. NextBufferSequenceNumber + ((MaxFrames - Len(frame)) + Len(input) + (MaxJumps - jumps))
        + RingSize <= e.n + MaxFrames + MaxJumps + MaxDrains + 1
  BY <1>3 DEF IInv, MarkerAhead, Upcoming
<1>7. /\ jumps \in Nat /\ MaxFrames \in Nat /\ MaxJumps \in Nat /\ MaxDrains \in Nat
      /\ Len(frame) <= MaxFrames /\ jumps <= MaxJumps
      /\ RingSize \in Nat /\ RingSize > 2 * (MaxFrames + MaxJumps + MaxDrains)
  BY RingAssumption DEF IInv, MarkerAhead
<1>8. /\ NextBufferSequenceNumber \in Nat /\ Len(frame) \in Nat
      /\ Number(f) \in Nat /\ Number(f) < NextBufferSequenceNumber
  BY PlacesTyped DEF IInv, Typed, FramesTyped, Ordered
<1>9. e.n - Number(f) > RingSize - (MaxFrames + MaxJumps + MaxDrains)
  BY <1>4, <1>5, <1>6, <1>7, <1>8
<1>10. \A k \in Nat : RingSize > 2 * k => RingSize - k > RingSize \div 2
  BY <1>7
<1>11. RingSize - (MaxFrames + MaxJumps + MaxDrains) > RingSize \div 2
  BY <1>7, <1>10
<1>12. RingSize \div 2 \in Int
  BY <1>7
<1> QED
  BY <1>2, <1>4, <1>7, <1>8, <1>9, <1>11, <1>12 DEF Far

\* New frames are numbered behind all markers.
LEMMA DistantStep ==
    ASSUME IInv, Distant, [Next]_vars
    PROVE  Distant'
<1>a. /\ Typed /\ MarkerAhead /\ Ordered /\ FramesTyped /\ QueuesTyped /\ TablesTyped
      /\ frame \in Seq(Params) /\ calls \in Seq(Nat)
  BY DEF IInv, Typed, FramesTyped, TablesTyped
<1>b. /\ DOMAIN frame \subseteq DOMAIN frame'
      /\ \A f \in DOMAIN frame : frame'[f].number = frame[f].number
  BY <1>a, FramesStep
<1>c. \A x \in Line(decoded', codec', parsed') : x.kind = "marker" =>
         x \in Line(decoded, codec, parsed) \/ (ParseMarker /\ x = Head(input))
  BY <1>a, LineStep
<1>d. PICK U : U = Parses(frame) \cup Leaves(frame, calls)
  OBVIOUS
<1>e. /\ decoded \in Seq(U) /\ codec \in Seq(U) /\ parsed \in Seq(U)
      /\ \A x \in U : Carries(x) => Num(frame, x) \in Nat
  BY <1>a, <1>d, LineTyped
<1>f. Line(decoded, codec, parsed) \subseteq U
  BY <1>e, ElementsOf DEF Line
<1>g. NextBufferSequenceNumber \in Nat
  BY <1>a DEF FramesTyped
<1>1. \A x \in Line(decoded, codec, parsed) : x.kind = "marker" =>
         x.n \in Nat /\ x.n < NextBufferSequenceNumber
  <2>1. \A x \in Line(decoded, codec, parsed) : Carries(x) => Num(frame, x) < NextBufferSequenceNumber
    BY <1>a DEF Ordered, InOrder, Below, Line
  <2> QED
    BY <1>e, <1>f, <2>1 DEF Carries, Num
<1>2. \A f \in DOMAIN frame' : f \in DOMAIN frame \/ frame'[f].number = NextBufferSequenceNumber
  <2>1. CASE ParseReference \/ ParseOther
    <3>1. /\ Len(frame') = Len(frame) + 1 /\ Len(frame) \in Nat
          /\ frame'[Len(frame) + 1].number = NextBufferSequenceNumber
      BY <1>a, <2>1, ParseLength
    <3>2. frame' \in Seq(Params)
      BY <1>a, TypedStep DEF Typed, FramesTyped
    <3>3. DOMAIN frame' = 1 .. Len(frame) + 1 /\ DOMAIN frame = 1 .. Len(frame)
      BY <1>a, <3>1, <3>2
    <3> QED
      BY <3>1, <3>3
  <2>2. CASE ParseJump
    BY <1>a, <2>2, SettledFrames DEF ParseJump
  <2>3. CASE UNCHANGED frame
    BY <2>3
  <2>4. CASE UNCHANGED vars
    BY <2>3, <2>4 DEF vars, parser
  <2>5. CASE ParseMarker \/ ParseToDecode \/ DecodeDone \/ DecodeToManifest \/ Show
    BY <2>3, <2>5 DEF ParseMarker, ParseToDecode, PassToCodec, Decode, DropFrame, Forget,
         DecodeDone, DecodeToManifest, ScanRelease, ScanPassMarker, ScanOn, TimeOut, TakeFrame,
         KeepFrame, TakeMarker, TakeCall, Take, Show, parser
  <2>6. CASE Users
    BY <2>1, <2>3, <2>6 DEF Users, Jump, CallRead, Drain, CallInSequence, parser
  <2> QED
    BY <2>2, <2>4, <2>5, <2>6 DEF Next, CollateToParse
<1>3. ASSUME NEW x \in Line(decoded', codec', parsed'), x.kind = "marker",
             NEW f \in DOMAIN frame', frame'[f].number < x.n
      PROVE  Far(frame'[f].number, x.n)
  <2>1. CASE x \in Line(decoded, codec, parsed)
    <3>1. f \in DOMAIN frame
      BY <1>1, <1>2, <1>3, <1>g, <2>1
    <3> QED
      BY <1>3, <1>b, <2>1, <3>1 DEF Distant, Number
  <2>2. CASE ParseMarker /\ x = Head(input)
    <3>1. UNCHANGED frame
      BY <2>2 DEF ParseMarker
    <3>2. Far(Number(f), x.n)
      BY <1>3, <2>2, <3>1, MarkerFar
    <3> QED
      BY <3>1, <3>2 DEF Number
  <2> QED
    BY <1>3, <1>c, <2>1, <2>2
<1>4. SUFFICES /\ scanned' => marker' = Invalid
               /\ marker' # Invalid => \A f \in table' : Far(frame'[f].number, marker')
  BY <1>3 DEF Distant, Number
<1>5. ASSUME marker' = Invalid \/ (marker' = marker /\ table' \subseteq table), scanned' => scanned
      PROVE  /\ scanned' => marker' = Invalid
             /\ marker' # Invalid => \A f \in table' : Far(frame'[f].number, marker')
  <2>1. table \subseteq DOMAIN frame
    BY <1>a DEF TablesTyped
  <2> QED
    BY <1>5, <1>b, <2>1 DEF Distant, Number
<1>6. CASE UNCHANGED reorder
  BY <1>5, <1>6 DEF reorder
<1>7. CASE ScanPassMarker \/ TimeOut \/ TakeFrame \/ TakeCall \/ \E f \in table : ScanRelease(f)
  BY <1>5, <1>7 DEF ScanPassMarker, TimeOut, TakeFrame, TakeCall, Take, ScanRelease
<1>8. CASE ScanOn
  <2>1. marker = Invalid /\ UNCHANGED marker
    BY <1>8 DEF ScanOn, Emptied
  <2> QED
    BY <2>1
<1>9. CASE KeepFrame
  <2>1. scanned /\ ~scanned' /\ UNCHANGED marker
    BY <1>9 DEF KeepFrame, Take
  <2> QED
    BY <2>1 DEF Distant
<1>10. CASE TakeMarker
  <2>1. PICK e : e = Head(decoded)
    OBVIOUS
  <2>2. /\ decoded # <<>> /\ e.kind = "marker" /\ marker' = e.n
        /\ UNCHANGED <<table, frame>> /\ ~scanned'
    BY <1>10, <2>1 DEF TakeMarker, Take, parser
  <2>3. e \in Line(decoded, codec, parsed)
    BY <1>e, <2>1, <2>2, ElementsTail DEF Line
  <2>4. \A f \in table : f \in DOMAIN frame /\ Number(f) < e.n
    BY <1>a, <2>2, <2>3 DEF TablesTyped, Ordered, Carries, Num
  <2>5. \A f \in table : Far(Number(f), e.n)
    BY <2>2, <2>3, <2>4 DEF Distant
  <2> QED
    BY <2>2, <2>5 DEF Number
<1>11. CASE UNCHANGED vars
  BY <1>6, <1>11 DEF vars
<1>12. CASE CollateToParse \/ ParseToDecode \/ DecodeDone \/ Show \/ Users
  BY <1>6, <1>12 DEF CollateToParse, ParseJump, ParseMarker, ParseToDecode, PassToCodec, Decode,
                     DropFrame, Forget, DecodeDone, Show, Users, ParseReference, ParseOther, Parse,
                     Jump, CallRead, Drain, CallInSequence
<1> QED
  BY <1>7, <1>8, <1>9, <1>10, <1>11, <1>12 DEF Next, DecodeToManifest

-----------------------------------------------------------------------------
(* What leaves does not come back *)

\* The frames on their way to the third process.
Coming == {x.n : x \in {y \in Line(decoded, codec, parsed) : y.kind = "frame"}}

\* What was dropped before decode, what left last, what is on its way and what
\* is in the table are different frames.
Apart ==
    /\ \A f \in Coming \cup table : f \notin NonDecoded
    /\ last # None => /\ last \notin Coming \cup table
                      /\ last \in DOMAIN frame /\ Known(last) /\ Index(last) < desired

\* What a step does to the third process: nothing to its table and its place,
\* or one of five others.
LEMMA StepKinds ==
    ASSUME [Next]_vars
    PROVE  \/ UNCHANGED <<table, last, desired, unused>>
           \/ DropFrame
           \/ \E f \in table : ScanRelease(f)
           \/ SkipUnused /\ UNCHANGED <<table, last, parser, decoded, codec, parsed>>
           \/ TakeFrame
           \/ KeepFrame
<1> DEFINE Goal == \/ UNCHANGED <<table, last, desired, unused>>
                   \/ DropFrame
                   \/ \E f \in table : ScanRelease(f)
                   \/ SkipUnused /\ UNCHANGED <<table, last, parser, decoded, codec, parsed>>
                   \/ TakeFrame
                   \/ KeepFrame
<1>1. CASE UNCHANGED vars
  BY <1>1 DEF vars, reorder
<1>2. CASE CollateToParse \/ PassToCodec \/ Decode \/ Forget \/ DecodeDone \/ Show \/ Users
  BY <1>2 DEF CollateToParse, ParseJump, ParseMarker, PassToCodec, Decode, Forget, DecodeDone,
              Show, Users, ParseReference, ParseOther, Parse, Jump, CallRead, Drain,
              CallInSequence, reorder
<1>3. CASE ScanPassMarker \/ ScanOn
  BY <1>3 DEF ScanPassMarker, ScanOn, decoder
<1>4. CASE TimeOut \/ TakeMarker \/ TakeCall
  BY <1>4 DEF TimeOut, TakeMarker, TakeCall, Take
<1> QED
  BY <1>1, <1>2, <1>3, <1>4 DEF Next, ParseToDecode, DecodeToManifest

LEMMA ComingTyped ==
    ASSUME Typed
    PROVE  Coming \subseteq DOMAIN frame
<1>1. frame \in Seq(Params) /\ calls \in Seq(Nat) /\ QueuesTyped
  BY DEF Typed, FramesTyped, TablesTyped
<1>2. PICK U : U = Parses(frame) \cup Leaves(frame, calls)
  OBVIOUS
<1>3. /\ decoded \in Seq(U) /\ codec \in Seq(U) /\ parsed \in Seq(U)
      /\ \A x \in U : x.kind = "frame" => x.n \in DOMAIN frame
  BY <1>1, <1>2, LineTyped
<1>4. Line(decoded, codec, parsed) \subseteq U
  BY <1>3, ElementsOf DEF Line
<1> QED
  BY <1>3, <1>4 DEF Coming

\* Along the line and in the table the frames are in the order of decode.
LEMMA ComingLater ==
    ASSUME IInv, NEW f \in Coming
    PROVE  /\ f \in DOMAIN frame /\ Number(f) \in Nat
           /\ marker < Number(f)
           /\ \A g \in table : Number(g) < Number(f)
<1>1. PICK x \in Line(decoded, codec, parsed) : x.kind = "frame" /\ x.n = f
  BY DEF Coming
<1>2. Carries(x) /\ Num(frame, x) = Number(f)
  BY <1>1 DEF Carries, Num, Number
<1>3. f \in DOMAIN frame
  BY ComingTyped DEF IInv
<1>4. Number(f) \in Nat
  BY <1>3, PlacesTyped DEF IInv, Typed
<1> QED
  BY <1>1, <1>2, <1>3, <1>4 DEF IInv, Ordered

\* Nothing comes that was not there or is new.
LEMMA ComingStep ==
    ASSUME IInv, [Next]_vars, NEW f \in Coming'
    PROVE  f \in Coming \/ f \notin DOMAIN frame
<1>1. PICK x \in Line(decoded', codec', parsed') : x.kind = "frame" /\ x.n = f
  BY DEF Coming
<1>2. CASE x \in Line(decoded, codec, parsed)
  BY <1>1, <1>2 DEF Coming
<1>3. CASE x \notin Line(decoded, codec, parsed)
  <2>1. NextBufferSequenceNumber <= Num(frame', x)
    BY <1>1, <1>3, LineStep DEF IInv, Carries
  <2>2. NextBufferSequenceNumber <= frame'[f].number
    BY <1>1, <2>1 DEF Num
  <2>3. ASSUME f \in DOMAIN frame PROVE FALSE
    <3>1. frame'[f].number = Number(f) /\ Number(f) < NextBufferSequenceNumber
      BY <2>3, FramesStep DEF IInv, Ordered, Number
    <3>2. Number(f) \in Nat /\ NextBufferSequenceNumber \in Nat
      BY <2>3, PlacesTyped DEF IInv, Typed, FramesTyped
    <3> QED
      BY <2>2, <3>1, <3>2
  <2> QED
    BY <2>3
<1> QED
  BY <1>2, <1>3

\* The first of the decoded frames is before all that comes after it.
LEMMA TakenFrame ==
    ASSUME IInv, TakeFrame \/ KeepFrame, NEW h, h = Head(decoded).n
    PROVE  /\ h \in Coming
           /\ \A f \in Coming' : f \in Coming /\ Number(h) < Number(f)
           /\ UNCHANGED parser
<1>1. /\ decoded # <<>> /\ Head(decoded).kind = "frame" /\ decoded' = Tail(decoded)
      /\ UNCHANGED <<codec, parsed, parser>>
  BY DEF TakeFrame, KeepFrame, Take, decoder
<1>2. frame \in Seq(Params) /\ calls \in Seq(Nat) /\ QueuesTyped
  BY DEF IInv, Typed, FramesTyped, TablesTyped
<1>3. PICK U : U = Parses(frame) \cup Leaves(frame, calls)
  OBVIOUS
<1>4. decoded \in Seq(U) /\ codec \in Seq(U) /\ parsed \in Seq(U)
  BY <1>2, <1>3, LineTyped
<1>5. Head(decoded) \in Elements(decoded) /\ \A x \in Elements(Tail(decoded)) : x \in Elements(decoded)
  BY <1>1, <1>4, ElementsTail
<1>6. \A y \in Elements(Tail(decoded)) \cup Elements(codec) \cup Elements(parsed) :
         Carries(Head(decoded)) /\ Carries(y) => Num(frame, Head(decoded)) < Num(frame, y)
  BY <1>1, <1>4, LineTake DEF IInv, Ordered
<1>7. h \in Coming
  BY <1>1, <1>5 DEF Coming, Line
<1>8. ASSUME NEW f \in Coming' PROVE f \in Coming /\ Number(h) < Number(f)
  <2>1. PICK y \in Elements(Tail(decoded)) \cup Elements(codec) \cup Elements(parsed) :
           y.kind = "frame" /\ y.n = f
    BY <1>1, <1>8 DEF Coming, Line
  <2>2. Num(frame, Head(decoded)) < Num(frame, y)
    BY <1>1, <1>6, <2>1 DEF Carries
  <2>3. Number(h) < Number(f)
    BY <1>1, <2>1, <2>2 DEF Num, Number
  <2> QED
    BY <1>5, <2>1, <2>3 DEF Coming, Line
<1> QED
  BY <1>1, <1>7, <1>8

\* The frame that is dropped before decode is none of those that are left.
LEMMA DroppedFrame ==
    ASSUME IInv, DropFrame, NEW h, h = Head(parsed).n
    PROVE  /\ h \in Coming
           /\ \A f \in Coming' : f \in Coming /\ f # h
           /\ UNCHANGED <<parser, reorder>>
           /\ \/ UNCHANGED unused
              \/ /\ NonDecoded' = NonDecoded \cup {h}
                 /\ \/ UNCHANGED DisplayIndicesCollapse
                    \/ DisplayIndicesCollapse' = Larger(DisplayIndicesCollapse, Index(h)) /\ Known(h)
<1>1. /\ parsed # <<>> /\ Head(parsed).kind = "frame" /\ parsed' = Tail(parsed)
      /\ UNCHANGED <<decoded, codec, parser, reorder>>
  BY DEF DropFrame
<1>2. frame \in Seq(Params) /\ calls \in Seq(Nat) /\ QueuesTyped
  BY DEF IInv, Typed, FramesTyped, TablesTyped
<1>3. PICK U : U = Parses(frame) \cup Leaves(frame, calls)
  OBVIOUS
<1>4. /\ decoded \in Seq(U) /\ codec \in Seq(U) /\ parsed \in Seq(U)
      /\ \A x \in U : Carries(x) => Num(frame, x) \in Nat
  BY <1>2, <1>3, LineTyped
<1>5. /\ Head(parsed) \in Elements(parsed) /\ Head(parsed) \in U /\ Tail(parsed) \in Seq(U)
      /\ \A x \in Elements(Tail(parsed)) : x \in Elements(parsed)
  BY <1>1, <1>4, ElementsTail
<1>6. /\ InOrder(frame, decoded, codec, parsed, NextBufferSequenceNumber)
  BY DEF IInv, Ordered
<1>7. \A y \in Elements(Tail(parsed)) : Carries(y) => Num(frame, Head(parsed)) < Num(frame, y)
  BY <1>1, <1>4, <1>6, RisingTail DEF InOrder, Carries
<1>8. \A y \in Elements(decoded) \cup Elements(codec) :
         Carries(y) => Num(frame, y) < Num(frame, Head(parsed))
  BY <1>1, <1>5, <1>6 DEF InOrder, Precede, Carries
<1>9. h \in Coming
  BY <1>1, <1>5 DEF Coming, Line
<1>10. ASSUME NEW f \in Coming' PROVE f \in Coming /\ f # h
  <2>1. PICK y \in Elements(Tail(parsed)) \cup Elements(codec) \cup Elements(decoded) :
           y.kind = "frame" /\ y.n = f
    BY <1>1, <1>10 DEF Coming, Line
  <2>2. y \in U
    BY <1>4, <1>5, <2>1, ElementsOf
  <2>3. Num(frame, Head(parsed)) \in Nat /\ Num(frame, y) \in Nat
    BY <1>1, <1>4, <1>5, <2>1, <2>2 DEF Carries
  <2>4. Num(frame, Head(parsed)) # Num(frame, y)
    BY <1>7, <1>8, <2>1, <2>3 DEF Carries
  <2>5. f # h
    BY <1>1, <2>1, <2>4 DEF Num
  <2> QED
    BY <1>5, <2>1, <2>5 DEF Coming, Line
<1>11. \/ UNCHANGED unused
       \/ /\ NonDecoded' = NonDecoded \cup {h}
          /\ \/ UNCHANGED DisplayIndicesCollapse
             \/ DisplayIndicesCollapse' = Larger(DisplayIndicesCollapse, Index(h)) /\ Known(h)
  BY DEF DropFrame
<1> QED
  BY <1>1, <1>9, <1>10, <1>11

\* What leaves the third process: from the table, or the first on its way.
LEMMA LeavingFrame ==
    ASSUME IInv, NEW f,
           (f \in table /\ ScanRelease(f)) \/ (TakeFrame /\ f = Head(decoded).n)
    PROVE  /\ f \in Coming \cup table /\ f \in DOMAIN frame /\ Known(f) /\ Index(f) \in Nat
           /\ table' = table \ {f}
           /\ \A g \in Coming' : g \in Coming /\ Number(f) < Number(g)
           /\ desired' = Index(f) + 1 /\ last' = f
           /\ UNCHANGED <<parser, unused>>
<1>a. Typed /\ FramesTyped /\ table \subseteq DOMAIN frame
  BY DEF IInv, Typed, TablesTyped
<1>1. CASE f \in table /\ ScanRelease(f)
  <2>1. /\ Known(f) /\ table' = table \ {f} /\ desired' = Index(f) + 1 /\ last' = f
        /\ UNCHANGED <<parser, unused, decoded, codec, parsed>>
    BY <1>1 DEF ScanRelease, Releasable, Lowest, Leave, decoder
  <2>2. Coming' = Coming
    BY <2>1 DEF Coming
  <2>3. \A g \in Coming : Number(f) < Number(g)
    BY <1>1, ComingLater
  <2>4. f \in DOMAIN frame /\ Index(f) \in Nat
    BY <1>1, <1>a, <2>1, PlacesTyped
  <2> QED
    BY <1>1, <2>1, <2>2, <2>3, <2>4
<1>2. CASE TakeFrame /\ f = Head(decoded).n
  <2>1. /\ Known(f) /\ desired' = Index(f) + 1 /\ last' = f /\ UNCHANGED <<table, unused>>
    BY <1>2 DEF TakeFrame, Take, Leave
  <2>2. /\ f \in Coming /\ UNCHANGED parser
        /\ \A g \in Coming' : g \in Coming /\ Number(f) < Number(g)
    BY <1>2, TakenFrame
  <2>3. f \in DOMAIN frame /\ Number(f) \in Nat /\ \A g \in table : Number(g) < Number(f)
    BY <2>2, ComingLater
  <2>4. f \notin table
    BY <2>3
  <2>5. Index(f) \in Nat
    BY <1>a, <2>1, <2>3, PlacesTyped
  <2> QED
    BY <2>1, <2>2, <2>3, <2>4, <2>5
<1> QED
  BY <1>1, <1>2

LEMMA ApartStep ==
    ASSUME IInv, Apart, [Next]_vars
    PROVE  Apart'
<1>a. /\ Typed /\ FramesTyped /\ TablesTyped
      /\ table \subseteq DOMAIN frame /\ NonDecoded \subseteq DOMAIN frame /\ last \in Nat
      /\ desired \in Nat /\ DOMAIN frame \subseteq Nat
  BY DEF IInv, Typed, FramesTyped, TablesTyped
<1>b. /\ DOMAIN frame \subseteq DOMAIN frame'
      /\ \A f \in DOMAIN frame : Known(f) => frame'[f] = frame[f]
  BY <1>a, FramesStep, IndexStep
<1>c. \A f \in Coming' : f \in Coming \/ f \notin DOMAIN frame
  BY ComingStep
<1>1. ASSUME UNCHANGED last, desired <= desired', desired' \in Nat,
             \A f \in Coming' \cup table' : f \in Coming \cup table \/ f \notin DOMAIN frame,
             \A f \in Coming' \cup table' : f \notin NonDecoded'
      PROVE  Apart'
  <2>1. ASSUME last # None
        PROVE  /\ last \notin Coming' \cup table' /\ last \in DOMAIN frame'
               /\ frame'[last].index # Invalid /\ frame'[last].index < desired'
    <3>1. /\ last \notin Coming \cup table /\ last \in DOMAIN frame /\ Known(last)
          /\ Index(last) < desired
      BY <2>1 DEF Apart
    <3>2. frame'[last].index = Index(last) /\ Index(last) \in Nat
      BY <1>a, <1>b, <3>1, PlacesTyped DEF Index
    <3>3. frame'[last].index # Invalid
      BY <3>1, <3>2 DEF Known
    <3>4. frame'[last].index < desired'
      BY <1>1, <1>a, <3>1, <3>2
    <3> QED
      BY <1>1, <1>b, <3>1, <3>3, <3>4
  <2> QED
    BY <1>1, <2>1 DEF Apart, Known, Index
<1>2. CASE UNCHANGED <<table, last, desired, unused>>
  <2>1. desired <= desired' /\ desired' \in Nat
    BY <1>2, <1>a
  <2>2. \A f \in Coming' \cup table' : f \in Coming \cup table \/ f \notin DOMAIN frame
    BY <1>2, <1>c
  <2>3. \A f \in Coming' \cup table' : f \notin NonDecoded'
    BY <1>2, <1>a, <2>2 DEF Apart, unused
  <2> QED
    BY <1>1, <1>2, <2>1, <2>2, <2>3
<1>3. CASE DropFrame
  <2>1. PICK h : h = Head(parsed).n
    OBVIOUS
  <2>2. /\ h \in Coming
        /\ \A f \in Coming' : f \in Coming /\ f # h
        /\ UNCHANGED <<table, last, desired>>
        /\ (UNCHANGED NonDecoded \/ NonDecoded' = NonDecoded \cup {h})
    BY <1>3, <2>1, DroppedFrame DEF reorder, unused
  <2>3. \A f \in table : f # h
    <3>1. Number(h) \in Nat /\ \A f \in table : Number(f) < Number(h)
      BY <2>2, ComingLater
    <3> QED
      BY <3>1
  <2>4. \A f \in Coming' \cup table' : f \in Coming \cup table
    BY <2>2
  <2>5. \A f \in Coming' \cup table' : f \notin NonDecoded'
    BY <2>2, <2>3 DEF Apart
  <2>6. desired <= desired' /\ desired' \in Nat
    BY <2>2, <1>a
  <2> QED
    BY <1>1, <2>2, <2>4, <2>5, <2>6
<1>4. CASE SkipUnused /\ UNCHANGED <<table, last, parser, decoded, codec, parsed>>
  <2>1. Coming' = Coming
    BY <1>4 DEF Coming
  <2>2. /\ desired' \in desired .. NextDisplayFrameIndex
    BY <1>4, <1>a, SkipEnds
  <2>3. desired <= desired' /\ desired' \in Nat
    BY <1>a, <2>2
  <2>4. NonDecoded' \subseteq NonDecoded
    BY <1>4 DEF SkipUnused
  <2>5. \A f \in Coming' \cup table' : f \notin NonDecoded'
    BY <1>4, <2>1, <2>4 DEF Apart
  <2> QED
    BY <1>1, <1>4, <2>1, <2>3, <2>5
<1>5. CASE KeepFrame
  <2>1. PICK h : h = Head(decoded).n
    OBVIOUS
  <2>2. h \in Coming /\ \A f \in Coming' : f \in Coming
    BY <1>5, <2>1, TakenFrame
  <2>3. /\ table' = table \cup {h} /\ UNCHANGED <<desired, last, unused>>
    BY <1>5, <2>1 DEF KeepFrame, Take
  <2>4. \A f \in Coming' \cup table' : f \in Coming \cup table
    BY <2>2, <2>3
  <2>5. \A f \in Coming' \cup table' : f \notin NonDecoded'
    BY <2>3, <2>4 DEF Apart, unused
  <2>6. desired <= desired' /\ desired' \in Nat
    BY <2>3, <1>a
  <2> QED
    BY <1>1, <2>3, <2>4, <2>5, <2>6
<1>6. ASSUME NEW f, (f \in table /\ ScanRelease(f)) \/ (TakeFrame /\ f = Head(decoded).n)
      PROVE  Apart'
  <2>1. /\ f \in Coming \cup table /\ f \in DOMAIN frame /\ Known(f) /\ Index(f) \in Nat
        /\ table' = table \ {f}
        /\ \A g \in Coming' : g \in Coming /\ Number(f) < Number(g)
        /\ desired' = Index(f) + 1 /\ last' = f
        /\ UNCHANGED <<parser, unused>>
    BY <1>6, LeavingFrame
  <2>2. UNCHANGED <<frame, NonDecoded>>
    BY <2>1 DEF parser, unused
  <2>3. \A g \in Coming' \cup table' : g \in Coming \cup table
    BY <2>1
  <2>4. \A g \in Coming' \cup table' : g \notin NonDecoded'
    BY <2>2, <2>3 DEF Apart
  <2>5. f \notin Coming' \cup table'
    <3>1. Number(f) \in Nat
      BY <1>a, <2>1, PlacesTyped
    <3> QED
      BY <2>1, <3>1
  <2>6. Index(f) < desired'
    BY <2>1
  <2> QED
    BY <2>1, <2>2, <2>4, <2>5, <2>6 DEF Apart, Known, Index
<1>7. CASE TakeFrame
  BY <1>6, <1>7
<1> QED
  BY <1>2, <1>3, <1>4, <1>5, <1>6, <1>7, StepKinds

-----------------------------------------------------------------------------
(* The order of display *)

Due(f)       == Index(f) >= desired \/ Index(f) <= DisplayIndicesCollapse
Overtaken(f) == last # None /\ last < f /\ Index(last) > Index(f) /\ MarkerBetween(last, f)

\* What is still to be shown is not in front of the index that is expected next,
\* unless what was given up reaches that far, or a marker was in between.
InTime ==
    /\ \A f \in table : Known(f) => Due(f)
    /\ \A f \in Coming : Known(f) => Due(f) \/ Overtaken(f)

\* Frame f leaves although g, still on its way, is to be shown before it: then
\* nothing else that is decoded before g is shown after it, and a full table,
\* the end of a gap or the expected index cannot be why f leaves.
LEMMA OnlyOneAfter ==
    ASSUME IInv, Places, NEW f \in DOMAIN frame, NEW g \in DOMAIN frame,
           Known(f), Known(g), Number(f) < Number(g), Index(f) > Index(g)
    PROVE  /\ f < g
           /\ ~Collapse(f)
           /\ \A h \in DOMAIN frame : h < g /\ (Known(h) => Index(h) > Index(g)) => h = f
<1>a. /\ DOMAIN frame \subseteq Nat
      /\ \A h \in DOMAIN frame : Number(h) \in Nat /\ Index(h) \in Int
  BY PlacesTyped DEF IInv, Typed
<1>1. f < g
  <2>1. ~(g < f) /\ f # g
    BY <1>a DEF Places, PlacedIn, Number
  <2> QED
    BY <1>a, <2>1
<1>2. ~Collapse(f)
  <2> SUFFICES ASSUME Collapse(f) PROVE FALSE
    OBVIOUS
  <2>1. Index(f) < Index(g)
    BY <1>1 DEF Places, PlacedIn, Known, Index, Collapse
  <2> QED
    BY <1>a, <2>1
<1>3. ASSUME NEW h \in DOMAIN frame, h < g, Known(h) => Index(h) > Index(g)
      PROVE  h = f
  <2>1. After(frame, h, g) /\ After(frame, f, g)
    BY <1>3 DEF After, Known, Index
  <2> QED
    BY <1>1, <1>3, <2>1 DEF Places, PlacedIn, Known, Index
<1> QED
  BY <1>1, <1>2, <1>3

\* What comes is in time, or overtaken by what leaves.
LEMMA LeavingInTime ==
    ASSUME IInv, Places, Distant, Apart, InTime, MaxDecodesOutOfOrder >= 2,
           NEW f, (f \in table /\ ScanRelease(f)) \/ (TakeFrame /\ f = Head(decoded).n),
           f \in Coming \cup table, f \in DOMAIN frame, Known(f), Index(f) \in Nat,
           NEW g \in Coming, g \in DOMAIN frame, Known(g), Number(f) < Number(g),
           Index(f) > Index(g), Index(g) > DisplayIndicesCollapse
    PROVE  MarkerBetween(f, g)
<1>a. /\ FramesTyped /\ TablesTyped /\ Typed
      /\ DOMAIN frame \subseteq Nat /\ table \subseteq DOMAIN frame
      /\ \A h \in DOMAIN frame : Number(h) \in Nat /\ Index(h) \in Int
      /\ desired \in Nat /\ DisplayIndicesCollapse \in Nat
  BY PlacesTyped DEF IInv, Typed, TablesTyped
<1>1. /\ f < g /\ ~Collapse(f)
      /\ \A h \in DOMAIN frame : h < g /\ (Known(h) => Index(h) > Index(g)) => h = f
  BY OnlyOneAfter
<1>2. ~(Index(g) < desired)
  <2> SUFFICES ASSUME Index(g) < desired PROVE FALSE
    OBVIOUS
  <2>1. ~Due(g)
    BY <1>a DEF Due
  <2>2. Overtaken(g)
    BY <2>1 DEF InTime
  <2>3. last # None /\ last \in DOMAIN frame /\ last \notin Coming \cup table
    BY <2>2 DEF Overtaken, Apart
  <2>4. last = f
    BY <1>1, <2>2, <2>3 DEF Overtaken
  <2> QED
    BY <2>3, <2>4
<1>3. Index(f) > desired
  BY <1>2, <1>a
<1>4. f \in table /\ ScanRelease(f)
  <2>1. ASSUME TakeFrame, f = Head(decoded).n PROVE FALSE
    <3>1. Index(f) <= desired
      BY <2>1 DEF TakeFrame
    <3> QED
      BY <1>3, <1>a, <3>1
  <2> QED
    BY <2>1
<1>5. Cardinality(table) >= MaxDecodesOutOfOrder \/ marker # Invalid
  BY <1>1, <1>3, <1>4, <1>a DEF ScanRelease, Releasable
<1>6. marker # Invalid
  <2> SUFFICES ASSUME Cardinality(table) >= MaxDecodesOutOfOrder PROVE FALSE
    BY <1>5
  <2>1. IsFiniteSet(table) /\ Cardinality(table) \in Nat
    BY <1>a, TableFinite
  <2>2. MaxDecodesOutOfOrder \in Nat
    BY BuffersAssumption DEF MaxDecodesOutOfOrder, Smaller
  <2>3. PICK h \in table : h # f
    <3> SUFFICES ASSUME \A h \in table : h = f PROVE FALSE
      OBVIOUS
    <3>1. table = {f}
      BY <1>4
    <3>2. Cardinality({f}) = 1
      BY FS_Singleton
    <3>3. Cardinality(table) = 1
      BY <3>1, <3>2
    <3> QED
      BY <2>1, <2>2, <3>3
  <2>4. Known(h) => Index(f) <= Index(h)
    BY <1>4, <2>3 DEF ScanRelease, Releasable, Lowest
  <2>5. h \in DOMAIN frame /\ Number(h) < Number(g)
    BY <1>a, <2>3, ComingLater
  <2>6. h < g
    <3>1. ~(g < h) /\ g # h
      BY <1>a, <2>5 DEF Places, PlacedIn, Number
    <3> QED
      BY <1>a, <2>5, <3>1
  <2>7. Known(h) => Index(h) > Index(g)
    BY <1>a, <2>4, <2>5
  <2> QED
    BY <1>1, <2>3, <2>5, <2>6, <2>7
<1>7. marker \in Nat /\ marker < Number(g)
  BY <1>a, <1>6, ComingLater DEF TablesTyped
<1>8. Far(Number(f), marker)
  BY <1>4, <1>6 DEF Distant
<1>9. RingSize \div 2 \in Int
  BY RingAssumption
<1> QED
  BY <1>a, <1>7, <1>8, <1>9 DEF Far, MarkerBetween

LEMMA InTimeStep ==
    ASSUME IInv, Places, Distant, Apart, InTime, MaxDecodesOutOfOrder >= 2, [Next]_vars
    PROVE  InTime'
<1>a. /\ Typed /\ FramesTyped /\ TablesTyped
      /\ DOMAIN frame \subseteq Nat /\ table \subseteq DOMAIN frame
      /\ NonDecoded \subseteq DOMAIN frame
      /\ desired \in Nat /\ DisplayIndicesCollapse \in Nat
      /\ desired <= NextDisplayFrameIndex /\ NextDisplayFrameIndex \in Nat
      /\ \A h \in DOMAIN frame : Number(h) \in Nat /\ Index(h) \in Int
      /\ \A h \in DOMAIN frame : Known(h) => Index(h) \in Nat
      /\ Coming \subseteq DOMAIN frame
  BY PlacesTyped, ComingTyped DEF IInv, Typed, FramesTyped, TablesTyped
<1>b. /\ DOMAIN frame \subseteq DOMAIN frame'
      /\ \A f \in DOMAIN frame : frame'[f].number = frame[f].number
      /\ \A f \in DOMAIN frame : Known(f) => frame'[f] = frame[f]
      /\ \A f \in DOMAIN frame' : \/ f \in DOMAIN frame /\ frame'[f] = frame[f]
                                  \/ frame'[f].index = Invalid
                                  \/ frame'[f].index = NextDisplayFrameIndex
  BY <1>a, FramesStep, IndexStep
<1>c. \A f \in Coming' : f \in Coming \/ f \notin DOMAIN frame
  BY ComingStep
<1>d. \A f \in Coming' : f \in DOMAIN frame'
  <2> SUFFICES ASSUME NEW f \in Coming' PROVE f \in DOMAIN frame'
    OBVIOUS
  <2>1. PICK x \in Line(decoded', codec', parsed') : x.kind = "frame" /\ x.n = f
    BY DEF Coming
  <2>2. frame' \in Seq(Params) /\ calls' \in Seq(Nat) /\ QueuesTyped'
    BY <1>a, TypedStep DEF Typed, FramesTyped, TablesTyped
  <2>3. PICK V : V = Parses(frame') \cup Leaves(frame', calls')
    OBVIOUS
  <2>4. /\ Passes(frame') \subseteq V /\ Parses(frame') \subseteq V
        /\ Leaves(frame', calls') \subseteq V
    BY <2>3 DEF Parses
  <2>5. decoded' \in Seq(V) /\ codec' \in Seq(V) /\ parsed' \in Seq(V)
    BY <2>2, <2>4, SeqWiden DEF QueuesTyped
  <2>6. x \in V
    BY <2>1, <2>5, ElementsOf DEF Line
  <2>7. \A y \in V : y.kind = "frame" => y.n \in DOMAIN frame'
    BY <2>2, <2>3, PassesTyped
  <2> QED
    BY <2>1, <2>6, <2>7
<1>1. CASE UNCHANGED <<table, last, desired, unused>>
  <2>1. ASSUME NEW f \in DOMAIN frame', frame'[f].index # Invalid,
               ~(f \in DOMAIN frame /\ frame'[f] = frame[f])
        PROVE  frame'[f].index >= desired
    BY <2>1, <1>a, <1>b
  <2>2. ASSUME NEW f \in table', frame'[f].index # Invalid
        PROVE  frame'[f].index >= desired' \/ frame'[f].index <= DisplayIndicesCollapse'
    <3>1. f \in DOMAIN frame' /\ f \in table
      BY <1>1, <1>a, <1>b
    <3>2. frame'[f] = frame[f] => Due(f)
      BY <2>2, <3>1 DEF InTime, Known, Index
    <3> QED
      BY <1>1, <1>a, <2>1, <2>2, <3>1, <3>2 DEF Due, Index, unused
  <2>3. ASSUME NEW f \in Coming', frame'[f].index # Invalid
        PROVE  \/ frame'[f].index >= desired' \/ frame'[f].index <= DisplayIndicesCollapse'
               \/ /\ last' # None /\ last' < f /\ frame'[last'].index > frame'[f].index
                  /\ frame'[f].number - frame'[last'].number > RingSize \div 2
    <3>1. f \in DOMAIN frame'
      BY <1>d, <2>3
    <3>2. CASE f \in DOMAIN frame /\ frame'[f] = frame[f]
      <4>1. f \in Coming /\ Known(f)
        BY <1>c, <2>3, <3>2 DEF Known, Index
      <4>2. CASE Due(f)
        BY <1>1, <3>2, <4>2 DEF Due, Index, unused
      <4>3. CASE Overtaken(f)
        <5>1. frame'[last] = frame[last]
          BY <1>b, <4>3 DEF Overtaken, Apart
        <5> QED
          BY <1>1, <3>2, <4>3, <5>1 DEF Overtaken, MarkerBetween, Index, Number
      <4> QED
        BY <4>1, <4>2, <4>3 DEF InTime
    <3> QED
      BY <1>1, <2>1, <2>3, <3>1, <3>2
  <2> QED
    BY <2>2, <2>3 DEF InTime, Known, Index, Due, Overtaken, MarkerBetween, Number
<1>2. ASSUME UNCHANGED <<frame, last>>,
             \A f \in Coming' : f \in Coming,
             \A f \in table' : Known(f) => Due(f) \/ Index(f) > desired,
             \A f \in Coming' \cup table' : Known(f) /\ Index(f) >= desired =>
                Index(f) >= desired' \/ Index(f) <= DisplayIndicesCollapse',
             DisplayIndicesCollapse' \in Nat, DisplayIndicesCollapse <= DisplayIndicesCollapse',
             table' \subseteq DOMAIN frame
      PROVE  InTime'
  <2>1. \A f \in Coming' \cup table' : f \in DOMAIN frame
    BY <1>2, <1>a
  <2>2. \A f \in Coming' \cup table' : Known(f) /\ Due(f) =>
           Index(f) >= desired' \/ Index(f) <= DisplayIndicesCollapse'
    <3> SUFFICES ASSUME NEW f \in Coming' \cup table', Known(f), Due(f)
                 PROVE  Index(f) >= desired' \/ Index(f) <= DisplayIndicesCollapse'
      OBVIOUS
    <3>1. Index(f) \in Int
      BY <2>1, <1>a
    <3>2. CASE Index(f) >= desired
      BY <1>2, <3>2
    <3>3. CASE Index(f) <= DisplayIndicesCollapse
      BY <1>2, <1>a, <3>1, <3>3
    <3> QED
      BY <3>2, <3>3 DEF Due
  <2>3. \A f \in table' : Known(f) /\ Index(f) > desired =>
           Index(f) >= desired' \/ Index(f) <= DisplayIndicesCollapse'
    <3> SUFFICES ASSUME NEW f \in table', Known(f), Index(f) > desired
                 PROVE  Index(f) >= desired' \/ Index(f) <= DisplayIndicesCollapse'
      OBVIOUS
    <3>1. Index(f) >= desired
      BY <2>1, <1>a
    <3> QED
      BY <1>2, <3>1
  <2>4. \A f \in table' : Known(f) => Due(f)'
    BY <1>2, <2>2, <2>3 DEF Due, Index
  <2>5. \A f \in Coming' : Known(f) => Due(f)' \/ Overtaken(f)'
    BY <1>2, <2>2 DEF Due, Overtaken, InTime, Index, MarkerBetween, Number
  <2> QED
    BY <1>2, <2>4, <2>5 DEF InTime, Known, Index
<1>3. CASE DropFrame
  <2>1. PICK h : h = Head(parsed).n
    OBVIOUS
  <2>2. /\ h \in Coming
        /\ \A f \in Coming' : f \in Coming
        /\ UNCHANGED <<parser, reorder>>
        /\ \/ UNCHANGED DisplayIndicesCollapse
           \/ DisplayIndicesCollapse' = Larger(DisplayIndicesCollapse, Index(h)) /\ Known(h)
    BY <1>3, <2>1, DroppedFrame DEF unused
  <2>3. UNCHANGED <<frame, last, table, desired>>
    BY <2>2 DEF parser, reorder
  <2>4. DisplayIndicesCollapse' \in Nat /\ DisplayIndicesCollapse <= DisplayIndicesCollapse'
    <3>1. CASE UNCHANGED DisplayIndicesCollapse
      BY <1>a, <3>1
    <3>2. CASE DisplayIndicesCollapse' = Larger(DisplayIndicesCollapse, Index(h)) /\ Known(h)
      <4>1. Index(h) \in Nat
        BY <1>a, <2>2, <3>2
      <4> QED
        BY <1>a, <3>2, <4>1 DEF Larger
    <3> QED
      BY <2>2, <3>1, <3>2
  <2> QED
    BY <1>2, <1>a, <2>2, <2>3, <2>4 DEF InTime
<1>4. CASE SkipUnused /\ UNCHANGED <<table, last, parser, decoded, codec, parsed>>
  <2>1. UNCHANGED <<frame, table, last>> /\ Coming' = Coming
    BY <1>4 DEF Coming, parser
  <2>2. /\ desired' \in desired .. NextDisplayFrameIndex
        /\ \A e \in desired .. desired' - 1 : Skipped(e)
        /\ DisplayIndicesCollapse' = Collapsed
        /\ Collapsed \in Nat /\ DisplayIndicesCollapse <= Collapsed
    BY <1>4, <1>a, SkipEnds
  <2>3. ASSUME NEW f \in Coming \cup table, Known(f), Index(f) >= desired, ~(Index(f) >= desired')
        PROVE  Index(f) <= Collapsed
    <3>1. f \in DOMAIN frame /\ Index(f) \in Nat /\ desired' \in Int
      BY <2>2, <2>3, <1>a
    <3>2. Index(f) \in desired .. desired' - 1
      BY <2>3, <3>1, <1>a
    <3>3. Skipped(Index(f))
      BY <2>2, <3>2
    <3>4. CASE Index(f) < Collapsed
      BY <2>2, <3>1, <3>4
    <3>5. CASE \E h \in NonDecoded : Index(h) = Index(f)
      <4>1. PICK h \in NonDecoded : Index(h) = Index(f)
        BY <3>5
      <4>2. h = f
        BY <1>a, <2>3, <3>1, <4>1 DEF Places, PlacedIn, Known, Index
      <4> QED
        BY <2>3, <4>1, <4>2 DEF Apart
    <3> QED
      BY <3>3, <3>4, <3>5 DEF Skipped
  <2>4. \A f \in Coming' \cup table' : Known(f) /\ Index(f) >= desired =>
           Index(f) >= desired' \/ Index(f) <= DisplayIndicesCollapse'
    BY <2>1, <2>2, <2>3
  <2> QED
    BY <1>2, <1>a, <2>1, <2>2, <2>4 DEF InTime
<1>5. CASE KeepFrame
  <2>1. PICK h : h = Head(decoded).n
    OBVIOUS
  <2>2. h \in Coming /\ (\A f \in Coming' : f \in Coming) /\ UNCHANGED parser
    BY <1>5, <2>1, TakenFrame
  <2>3. /\ table' = table \cup {h} /\ UNCHANGED <<desired, last, unused>>
        /\ ~(Known(h) /\ Index(h) <= desired)
    BY <1>5, <2>1 DEF KeepFrame, Take
  <2>4. UNCHANGED <<frame, last, desired, DisplayIndicesCollapse>>
    BY <2>2, <2>3 DEF parser, unused
  <2>5. Known(h) => Index(h) > desired
    BY <1>a, <2>2, <2>3
  <2>6. \A f \in table' : Known(f) => Due(f) \/ Index(f) > desired
    BY <2>3, <2>5 DEF InTime
  <2>7. table' \subseteq DOMAIN frame
    BY <1>a, <2>2, <2>3
  <2> QED
    BY <1>2, <1>a, <2>2, <2>4, <2>6, <2>7
<1>6. ASSUME NEW f, (f \in table /\ ScanRelease(f)) \/ (TakeFrame /\ f = Head(decoded).n)
      PROVE  InTime'
  <2>1. /\ f \in Coming \cup table /\ f \in DOMAIN frame /\ Known(f) /\ Index(f) \in Nat
        /\ table' = table \ {f}
        /\ \A g \in Coming' : g \in Coming /\ Number(f) < Number(g)
        /\ desired' = Index(f) + 1 /\ last' = f
        /\ UNCHANGED <<parser, unused>>
    BY <1>6, LeavingFrame
  <2>2. UNCHANGED <<frame, DisplayIndicesCollapse>>
    BY <2>1 DEF parser, unused
  <2>3. \A g \in DOMAIN frame : g # f => Index(g) # Index(f)
    BY <2>1 DEF Places, PlacedIn, Known, Index
  <2>4. ASSUME NEW g \in table', Known(g)
        PROVE  Index(g) >= desired' \/ Index(g) <= DisplayIndicesCollapse
    <3>1. g \in table /\ g # f /\ g \in DOMAIN frame /\ Index(g) \in Nat /\ Index(g) # Index(f)
      BY <1>a, <2>1, <2>3, <2>4
    <3>2. CASE f \in table /\ ScanRelease(f)
      <4>1. Index(f) <= Index(g)
        BY <2>4, <3>1, <3>2 DEF ScanRelease, Releasable, Lowest
      <4> QED
        BY <2>1, <3>1, <4>1
    <3>3. CASE TakeFrame /\ f = Head(decoded).n
      <4>1. Index(f) <= desired
        BY <3>3 DEF TakeFrame
      <4>2. Due(g)
        BY <2>4, <3>1 DEF InTime
      <4> QED
        BY <1>a, <2>1, <3>1, <4>1, <4>2 DEF Due
    <3> QED
      BY <1>6, <3>2, <3>3
  <2>5. ASSUME NEW g \in Coming', Known(g)
        PROVE  \/ Index(g) >= desired' \/ Index(g) <= DisplayIndicesCollapse
               \/ f # None /\ f < g /\ Index(f) > Index(g) /\ MarkerBetween(f, g)
    <3>1. g \in Coming /\ Number(f) < Number(g) /\ g \in DOMAIN frame /\ Index(g) \in Nat
      BY <1>a, <2>1, <2>5
    <3>2. g # f
      BY <1>a, <2>1, <3>1
    <3>3. Index(g) # Index(f)
      BY <2>3, <3>1, <3>2
    <3>4. CASE Index(g) > Index(f)
      BY <2>1, <3>1, <3>4
    <3>5. CASE Index(g) < Index(f) /\ Index(g) > DisplayIndicesCollapse
      <4>1. MarkerBetween(f, g)
        BY <1>6, <2>1, <2>5, <3>1, <3>5, LeavingInTime
      <4>2. f < g
        BY <2>1, <2>5, <3>1, <3>5, OnlyOneAfter
      <4>3. f # None
        BY <2>1 DEF IInv, Typed, FramesTyped, None
      <4> QED
        BY <3>5, <4>1, <4>2, <4>3
    <3> QED
      BY <1>a, <2>1, <3>1, <3>3, <3>4, <3>5
  <2> QED
    BY <2>1, <2>2, <2>4, <2>5 DEF InTime, Known, Index, Due, Overtaken, MarkerBetween, Number
<1>7. CASE TakeFrame
  BY <1>6, <1>7
<1> QED
  BY <1>1, <1>3, <1>4, <1>5, <1>6, <1>7, StepKinds

\* The invariants under which frames leave in display order.
ShownInOrder == IInv /\ Places /\ Distant /\ Apart /\ InTime

LEMMA InitShown == Init => ShownInOrder
<1> SUFFICES ASSUME Init PROVE ShownInOrder
  OBVIOUS
<1>1. IInv
  BY InitTyped, InitOrdered DEF IInv
<1>2. \A x : x \notin Elements(<<>>)
  BY DEF Elements
<1>3. /\ frame = <<>> /\ table = {} /\ last = None /\ Deferred = None /\ scanned = FALSE
      /\ marker = Invalid /\ decoded = <<>> /\ codec = <<>> /\ parsed = <<>>
  BY DEF Init
<1>4. \A x : x \notin Line(decoded, codec, parsed)
  BY <1>2, <1>3 DEF Line
<1>5. Coming = {} /\ DOMAIN frame = {}
  BY <1>3, <1>4 DEF Coming
<1>6. Places
  BY <1>3, <1>5 DEF Places, PlacedIn
<1>7. Distant
  BY <1>3, <1>4 DEF Distant
<1>8. Apart /\ InTime
  BY <1>3, <1>5 DEF Apart, InTime
<1> QED
  BY <1>1, <1>6, <1>7, <1>8 DEF ShownInOrder

\* Frames leave ProcessDecodeToManifest for the manifestor in the order of their
\* display indices (player_process_decode_to_manifest.cpp:146-192, 319-331): what
\* lets one leave before its index is due (a full table, the end of a gap, a
\* marker) never lets it overtake a frame that is still on its way, unless a
\* marker is between them, or the index is among those given up by
\* DisplayIndicesCollapse. The table needs room for two frames.
THEOREM FramesLeaveInOrder ==
    ASSUME MaxDecodesOutOfOrder >= 2
    PROVE  Spec => LeavesInOrder
<1>1. Init => ShownInOrder
  BY InitShown
<1>2. ShownInOrder /\ [Next]_vars => ShownInOrder'
  <2>1. IInv /\ [Next]_vars => IInv'
    BY TypedStep, AheadStep, OrderedStep DEF IInv
  <2> QED
    BY <2>1, PlacesStep, DistantStep, ApartStep, InTimeStep DEF ShownInOrder
<1>3. ASSUME ShownInOrder, [Next]_vars, last' # last, last # None
      PROVE  \/ frame'[last].index < frame'[last'].index
             \/ frame'[last'].index <= DisplayIndicesCollapse
             \/ MarkerBetween(last, last')
  <2>1. PICK f : (f \in table /\ ScanRelease(f)) \/ (TakeFrame /\ f = Head(decoded).n)
    <3>1. \/ UNCHANGED last \/ DropFrame \/ (\E f \in table : ScanRelease(f)) \/ TakeFrame
      BY <1>3, StepKinds DEF KeepFrame
    <3>2. DropFrame => UNCHANGED last
      BY DEF DropFrame, reorder
    <3> QED
      BY <1>3, <3>1, <3>2
  <2>2. /\ f \in Coming \cup table /\ f \in DOMAIN frame /\ Known(f) /\ Index(f) \in Nat
        /\ last' = f /\ UNCHANGED frame
    BY <1>3, <2>1, LeavingFrame DEF ShownInOrder, parser
  <2>3. /\ last \in DOMAIN frame /\ Known(last) /\ Index(last) < desired
    BY <1>3 DEF ShownInOrder, Apart
  <2>4. Index(last) \in Int /\ desired \in Nat
    BY <1>3, <2>3, PlacesTyped DEF ShownInOrder, IInv, Typed, TablesTyped
  <2>5. CASE Due(f)
    BY <2>2, <2>3, <2>4, <2>5 DEF Due, Index
  <2>6. CASE Overtaken(f)
    BY <2>2, <2>6 DEF Overtaken
  <2> QED
    BY <1>3, <2>2, <2>5, <2>6 DEF ShownInOrder, InTime
<1>4. ShownInOrder /\ [Next]_vars =>
        [last' # last /\ last # None =>
           \/ frame'[last].index < frame'[last'].index
           \/ frame'[last'].index <= DisplayIndicesCollapse
           \/ MarkerBetween(last, last')]_vars
  BY <1>3
<1> QED
  BY <1>1, <1>2, <1>4, PTL DEF Spec, LeavesInOrder

=============================================================================
