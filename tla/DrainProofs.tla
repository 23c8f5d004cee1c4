---------------------------- MODULE DrainProofs ----------------------------
(***************************************************************************)
(* That a drain does what it promises, for any number of drainers, frames  *)
(* and pauses, and any sizes of the ring, the pools and the tables.        *)
(*                                                                         *)
(* What is before the display is a Line of seven places. Almost every step *)
(* hands the first element of a place to the next one or takes frames out  *)
(* of a place: the steps advance the line (Advances), and what an advance  *)
(* does to the order of the identities and of the numbers is shown once.   *)
(*                                                                         *)
(* The number of a marker is chosen before the marker is in the first      *)
(* ring. It stays ahead of the counter because the frames that may be      *)
(* numbered in between are few: those in the ring, each with a buffer of   *)
(* the pool, and those that overtake the marker (CountInv, AheadInv). What *)
(* has left the line carries a number below all that are on it (LowInv),   *)
(* and what joined it before the marker gets a number that is not above    *)
(* the marker's (BehindInv): a call that waits for the number of the       *)
(* marker is performed when all of them have passed.                       *)
(*                                                                         *)
(* Two drains in turn are kept apart by the index of the marker and by the *)
(* event Drained. FirstInv, RoundsInv and CompleteInv say when the event   *)
(* can be set only by the call of the marker that is under way, so that a  *)
(* wait in front of the insertion finds that the first ring has no marker  *)
(* left. They need drains that exclude each other, and either at most two  *)
(* of them or drains that all wait for their end.                          *)
(***************************************************************************)
EXTENDS PlayerDrain, FiniteSetTheorems, TLAPS

-----------------------------------------------------------------------------
(* The line of frames, and what it means that it advances *)

LineOf(L) == L \in [Places -> Seq(Item)]

\* NumbersFollowOrder of a line, and that its identities and its numbers are
\* below the next ones.
Rising(L) ==
    \A p, q \in Places : \A i \in DOMAIN L[p], j \in DOMAIN L[q] :
        IsFrame(L[p][i]) /\ IsFrame(L[q][j]) /\ (p < q \/ (p = q /\ i < j))
        => /\ L[p][i].id < L[q][j].id
           /\ q # 7 => L[p][i].seq < L[q][j].seq
Bounded(L, nid, nbs) ==
    \A p \in Places : \A k \in DOMAIN L[p] : IsFrame(L[p][k]) =>
        L[p][k].id < nid /\ (p # 7 => L[p][k].seq < nbs)
Ordered(L, nid, nbs) == Rising(L) /\ Bounded(L, nid, nbs)

NumberedIn(L, x) == \E p \in 1 .. 6 : \E k \in DOMAIN L[p] : IsFrame(L[p][k]) /\ x = L[p][k]
IdIn(L, n) == \E p \in Places : \E k \in DOMAIN L[p] : IsFrame(L[p][k]) /\ n = L[p][k].id

\* M keeps the order of L, and has no number and no identity that L has not.
Advances(L, M) ==
    /\ LineOf(M)
    /\ \A nid, nbs \in Nat : Ordered(L, nid, nbs) => Ordered(M, nid, nbs)
    /\ \A x \in Item : NumberedIn(M, x) => NumberedIn(L, x)
    /\ \A n \in Nat : IdIn(M, n) => IdIn(L, n)

\* The frames of t are frames of s, in the same order.
Thins(s, t) ==
    \E f \in [DOMAIN t -> Nat] :
        /\ \A j \in DOMAIN t : IsFrame(t[j]) => f[j] \in DOMAIN s /\ t[j] = s[f[j]]
        /\ \A i, j \in DOMAIN t : i < j => f[i] < f[j]
Thinned(L, M) == \A p \in Places : Thins(L[p], M[p])

LEMMA ThinsSame == ASSUME NEW s \in Seq(Item) PROVE Thins(s, s)
<1>1. PICK f : f = [j \in DOMAIN s |-> j]
  OBVIOUS
<1>2. f \in [DOMAIN s -> Nat] /\ \A j \in DOMAIN s : f[j] = j
  BY <1>1
<1> QED
  BY <1>2 DEF Thins

LEMMA ThinsTail == ASSUME NEW s \in Seq(Item), s # <<>> PROVE Thins(s, Tail(s))
<1>1. PICK f : f = [j \in DOMAIN Tail(s) |-> j + 1]
  OBVIOUS
<1>2. f \in [DOMAIN Tail(s) -> Nat] /\ \A j \in DOMAIN Tail(s) : f[j] = j + 1
  BY <1>1
<1>3. \A j \in DOMAIN Tail(s) : j + 1 \in DOMAIN s /\ Tail(s)[j] = s[j + 1]
  OBVIOUS
<1> QED
  BY <1>2, <1>3 DEF Thins

LEMMA ThinsCall ==
    ASSUME NEW s \in Seq(Item), NEW x \in Item, ~IsFrame(x)
    PROVE  Thins(s, Append(s, x))
<1>1. PICK f : f = [j \in DOMAIN Append(s, x) |-> j]
  OBVIOUS
<1>2. f \in [DOMAIN Append(s, x) -> Nat] /\ \A j \in DOMAIN Append(s, x) : f[j] = j
  BY <1>1
<1>3. \A j \in DOMAIN Append(s, x) : IsFrame(Append(s, x)[j]) =>
          j \in DOMAIN s /\ Append(s, x)[j] = s[j]
  OBVIOUS
<1> QED
  BY <1>2, <1>3 DEF Thins

LEMMA WithoutSeq ==
    ASSUME NEW s \in Seq(Item), NEW k \in DOMAIN s
    PROVE  /\ Without(s, k) \in Seq(Item)
           /\ Len(Without(s, k)) = Len(s) - 1
           /\ \A j \in 1 .. Len(s) - 1 : Without(s, k)[j] = s[IF j < k THEN j ELSE j + 1]
<1>1. k \in 1 .. Len(s) /\ Len(s) \in Nat
  OBVIOUS
<1>2. SubSeq(s, 1, k - 1) \in Seq(Item) /\ Len(SubSeq(s, 1, k - 1)) = k - 1
        /\ \A j \in 1 .. k - 1 : SubSeq(s, 1, k - 1)[j] = s[j]
  BY <1>1
<1>3. SubSeq(s, k + 1, Len(s)) \in Seq(Item) /\ Len(SubSeq(s, k + 1, Len(s))) = Len(s) - k
        /\ \A j \in 1 .. Len(s) - k : SubSeq(s, k + 1, Len(s))[j] = s[j + k]
  BY <1>1
<1> DEFINE a == SubSeq(s, 1, k - 1)
           b == SubSeq(s, k + 1, Len(s))
<1>4. a \in Seq(Item) /\ b \in Seq(Item) /\ Len(a) = k - 1 /\ Len(b) = Len(s) - k
  BY <1>2, <1>3
<1>5. a \o b \in Seq(Item) /\ Len(a \o b) = Len(s) - 1
  <2> HIDE DEF a, b
  <2> QED
    BY <1>1, <1>4
<1>6. \A j \in 1 .. Len(s) - 1 : (a \o b)[j] = IF j < k THEN a[j] ELSE b[j - (k - 1)]
  <2> HIDE DEF a, b
  <2> QED
    BY <1>1, <1>4
<1>7. ASSUME NEW j \in 1 .. Len(s) - 1 PROVE (a \o b)[j] = s[IF j < k THEN j ELSE j + 1]
  <2>1. CASE j < k
    <3>1. j \in 1 .. k - 1
      BY <1>1, <2>1
    <3> QED
      BY <1>2, <1>6, <2>1, <3>1
  <2>2. CASE ~(j < k)
    <3>1. j - (k - 1) \in 1 .. Len(s) - k /\ j - (k - 1) + k = j + 1
      BY <1>1, <2>2
    <3>2. b[j - (k - 1)] = s[j - (k - 1) + k]
      BY <1>3, <3>1
    <3> HIDE DEF a, b
    <3> QED
      BY <1>6, <2>2, <3>1, <3>2
  <2> QED
    BY <2>1, <2>2
<1> QED
  BY <1>5, <1>7 DEF Without

LEMMA ThinsWithout ==
    ASSUME NEW s \in Seq(Item), NEW k \in DOMAIN s
    PROVE  Thins(s, Without(s, k))
<1>1. PICK f : f = [j \in DOMAIN Without(s, k) |-> IF j < k THEN j ELSE j + 1]
  OBVIOUS
<1>2. DOMAIN Without(s, k) = 1 .. Len(s) - 1 /\ k \in 1 .. Len(s) /\ Len(s) \in Nat
  BY WithoutSeq
<1>3. f \in [DOMAIN Without(s, k) -> Nat]
  BY <1>1, <1>2
<1>4. \A j \in DOMAIN Without(s, k) : f[j] = IF j < k THEN j ELSE j + 1
  BY <1>1
<1>5. ASSUME NEW j \in DOMAIN Without(s, k)
      PROVE  f[j] \in DOMAIN s /\ Without(s, k)[j] = s[f[j]]
  <2>1. f[j] \in 1 .. Len(s) /\ j \in 1 .. Len(s) - 1
    BY <1>2, <1>4
  <2>2. Without(s, k)[j] = s[IF j < k THEN j ELSE j + 1]
    BY <2>1, WithoutSeq
  <2> QED
    BY <1>4, <2>1, <2>2
<1>6. \A i, j \in DOMAIN Without(s, k) : i < j => f[i] < f[j]
  BY <1>2, <1>4
<1> QED
  BY <1>3, <1>5, <1>6 DEF Thins

LEMMA ThinnedAdvances ==
    ASSUME NEW L, NEW M, LineOf(L), LineOf(M), Thinned(L, M)
    PROVE  Advances(L, M)
<1>1. \A p \in Places : \E f \in [DOMAIN M[p] -> Nat] :
        /\ \A j \in DOMAIN M[p] : IsFrame(M[p][j]) => f[j] \in DOMAIN L[p] /\ M[p][j] = L[p][f[j]]
        /\ \A i, j \in DOMAIN M[p] : i < j => f[i] < f[j]
  BY DEF Thinned, Thins
<1>2. PICK g \in [Places -> UNION {[DOMAIN M[p] -> Nat] : p \in Places}] : \A p \in Places :
        /\ g[p] \in [DOMAIN M[p] -> Nat]
        /\ \A j \in DOMAIN M[p] : IsFrame(M[p][j]) => g[p][j] \in DOMAIN L[p] /\ M[p][j] = L[p][g[p][j]]
        /\ \A i, j \in DOMAIN M[p] : i < j => g[p][i] < g[p][j]
  <2>1. PICK g : g = [p \in Places |-> CHOOSE f \in [DOMAIN M[p] -> Nat] :
        /\ \A j \in DOMAIN M[p] : IsFrame(M[p][j]) => f[j] \in DOMAIN L[p] /\ M[p][j] = L[p][f[j]]
        /\ \A i, j \in DOMAIN M[p] : i < j => f[i] < f[j]]
    OBVIOUS
  <2>2. \A p \in Places :
        /\ g[p] \in [DOMAIN M[p] -> Nat]
        /\ \A j \in DOMAIN M[p] : IsFrame(M[p][j]) => g[p][j] \in DOMAIN L[p] /\ M[p][j] = L[p][g[p][j]]
        /\ \A i, j \in DOMAIN M[p] : i < j => g[p][i] < g[p][j]
    BY <1>1, <2>1
  <2>3. g \in [Places -> UNION {[DOMAIN M[p] -> Nat] : p \in Places}]
    BY <2>1, <2>2
  <2> QED
    BY <2>2, <2>3
<1>3. \A p \in Places : \A j \in DOMAIN M[p] : IsFrame(M[p][j]) =>
        g[p][j] \in DOMAIN L[p] /\ M[p][j] = L[p][g[p][j]]
  BY <1>2
<1>4. \A p \in Places : \A i, j \in DOMAIN M[p] : i < j => g[p][i] < g[p][j]
  BY <1>2
<1>5. ASSUME Rising(L) PROVE Rising(M)
  <2>1. SUFFICES ASSUME NEW p \in Places, NEW q \in Places,
                        NEW i \in DOMAIN M[p], NEW j \in DOMAIN M[q],
                        IsFrame(M[p][i]), IsFrame(M[q][j]), p < q \/ (p = q /\ i < j)
                 PROVE  /\ M[p][i].id < M[q][j].id
                        /\ q # 7 => M[p][i].seq < M[q][j].seq
    BY DEF Rising
  <2> DEFINE a == g[p][i]
             b == g[q][j]
  <2>2. a \in DOMAIN L[p] /\ M[p][i] = L[p][a] /\ b \in DOMAIN L[q] /\ M[q][j] = L[q][b]
    BY <1>3, <2>1
  <2>3. p < q \/ (p = q /\ a < b)
    BY <1>4, <2>1
  <2>4. IsFrame(L[p][a]) /\ IsFrame(L[q][b])
    BY <2>1, <2>2
  <2> HIDE DEF a, b
  <2>5. /\ L[p][a].id < L[q][b].id
        /\ q # 7 => L[p][a].seq < L[q][b].seq
    BY <1>5, <2>2, <2>3, <2>4 DEF Rising
  <2> QED
    BY <2>2, <2>5
<1>6. ASSUME NEW nid \in Nat, NEW nbs \in Nat, Bounded(L, nid, nbs) PROVE Bounded(M, nid, nbs)
  BY <1>6, <1>3, SMTT(30) DEF Bounded
<1>7. ASSUME NEW x \in Item, NumberedIn(M, x) PROVE NumberedIn(L, x)
  BY <1>7, <1>3 DEF NumberedIn, Places
<1>8. ASSUME NEW n \in Nat, IdIn(M, n) PROVE IdIn(L, n)
  <2>1. PICK p \in Places : \E k \in DOMAIN M[p] : IsFrame(M[p][k]) /\ n = M[p][k].id
    BY <1>8 DEF IdIn
  <2>2. PICK k \in DOMAIN M[p] : IsFrame(M[p][k]) /\ n = M[p][k].id
    BY <2>1
  <2>3. g[p][k] \in DOMAIN L[p] /\ M[p][k] = L[p][g[p][k]]
    BY <1>3, <2>2
  <2>4. IsFrame(L[p][g[p][k]]) /\ n = L[p][g[p][k]].id
    BY <2>2, <2>3
  <2> QED
    BY <2>3, <2>4 DEF IdIn
<1> QED
  BY <1>5, <1>6, <1>7, <1>8 DEF Advances, Ordered

LEMMA AdvancesTwice ==
    ASSUME NEW L, NEW N, NEW M, Advances(L, N), Advances(N, M)
    PROVE  Advances(L, M)
BY DEF Advances

-----------------------------------------------------------------------------
(* A frame is handed to the next place, gets its number, or joins the line *)

\* The first of one place becomes the last of the place before it.
Handed(L, M, o, p, x) ==
    /\ o \in 1 .. 6 /\ p = o + 1
    /\ L[p] # <<>>
    /\ M[p] = Tail(L[p])
    /\ M[o] = Append(L[o], x)
    /\ \A q \in Places : q # p /\ q # o => M[q] = L[q]
    /\ x.id = L[p][1].id
    /\ IsFrame(x) = IsFrame(L[p][1])

HandedFacts(L, M, o, p, x) ==
    /\ DOMAIN L[p] = 1 .. Len(L[p]) /\ Len(L[p]) \in Nat /\ 1 \in DOMAIN L[p]
    /\ Len(L[o]) \in Nat /\ DOMAIN L[o] = 1 .. Len(L[o])
    /\ \A j \in DOMAIN M[p] : j \in Nat /\ j > 0 /\ j + 1 \in DOMAIN L[p] /\ M[p][j] = L[p][j + 1]
    /\ \A j \in DOMAIN M[o] : j \in 1 .. Len(L[o]) + 1
    /\ \A j \in DOMAIN M[o] : j # Len(L[o]) + 1 => j \in DOMAIN L[o] /\ M[o][j] = L[o][j]
    /\ M[o][Len(L[o]) + 1] = x

LEMMA HandedPlaces ==
    ASSUME NEW L, NEW M, LineOf(L), LineOf(M), NEW o \in 1 .. 6, NEW p \in 2 .. 7, NEW x \in Item,
           Handed(L, M, o, p, x)
    PROVE  HandedFacts(L, M, o, p, x)
<1>1. p \in Places /\ o \in Places /\ L[p] \in Seq(Item) /\ L[o] \in Seq(Item)
        /\ p = o + 1
  <2>1. p \in Places /\ o \in Places
    BY DEF Places
  <2> QED
    BY <2>1 DEF LineOf, Handed
<1> DEFINE a == L[p]
           b == L[o]
<1>2. a \in Seq(Item) /\ b \in Seq(Item) /\ a # <<>> /\ M[p] = Tail(a) /\ M[o] = Append(b, x)
  BY <1>1 DEF Handed
<1> HIDE DEF a, b
<1>3. DOMAIN a = 1 .. Len(a) /\ Len(a) \in Nat /\ 1 \in DOMAIN a /\ Len(b) \in Nat
        /\ DOMAIN b = 1 .. Len(b)
  BY <1>2
<1>4. \A j \in DOMAIN Tail(a) : j \in Nat /\ j > 0 /\ j + 1 \in DOMAIN a /\ Tail(a)[j] = a[j + 1]
  BY <1>2
<1>5. DOMAIN Append(b, x) = 1 .. Len(b) + 1 /\ Append(b, x)[Len(b) + 1] = x
        /\ \A j \in 1 .. Len(b) : Append(b, x)[j] = b[j]
  BY <1>2
<1>6. \A j \in DOMAIN Append(b, x) : j # Len(b) + 1 => j \in DOMAIN b /\ Append(b, x)[j] = b[j]
  BY <1>3, <1>5
<1> QED
  BY <1>2, <1>3, <1>4, <1>5, <1>6 DEF a, b, HandedFacts

LEMMA HandedRising ==
    ASSUME NEW L, NEW M, LineOf(L), LineOf(M), NEW o \in 1 .. 6, NEW p \in 2 .. 7, NEW x \in Item,
           Handed(L, M, o, p, x), Rising(L),
           p # 7 => x = L[p][1],
           p = 7 => \A q \in 1 .. 6 : \A k \in DOMAIN L[q] : IsFrame(L[q][k]) => L[q][k].seq < x.seq
    PROVE  Rising(M)
<1>1. SUFFICES ASSUME NEW q \in Places, NEW r \in Places,
                      NEW i \in DOMAIN M[q], NEW j \in DOMAIN M[r],
                      IsFrame(M[q][i]), IsFrame(M[r][j]), q < r \/ (q = r /\ i < j)
               PROVE  /\ M[q][i].id < M[r][j].id
                      /\ r # 7 => M[q][i].seq < M[r][j].seq
  BY DEF Rising
<1> DEFINE n == Len(L[o]) + 1
<1>0. HandedFacts(L, M, o, p, x)
  BY HandedPlaces
<1>2. n \in Nat /\ p \in Int
  BY <1>0 DEF HandedFacts
<1>3. \A k \in DOMAIN M[p] : k \in Nat /\ k > 0 /\ k + 1 \in DOMAIN L[p] /\ M[p][k] = L[p][k + 1]
  BY <1>0 DEF HandedFacts
<1>4. \A k \in DOMAIN M[o] : k \in 1 .. n /\ (k # n => k \in DOMAIN L[o] /\ M[o][k] = L[o][k])
  BY <1>0 DEF HandedFacts
<1>5. M[o][n] = x /\ 1 \in DOMAIN L[p]
  BY <1>0 DEF HandedFacts
<1>6. \A s \in Places : s # p /\ s # o => M[s] = L[s]
  BY DEF Handed
<1>7. x.id = L[p][1].id /\ IsFrame(x) = IsFrame(L[p][1])
  BY DEF Handed
<1>8. \A s, t \in Places : \A k \in DOMAIN L[s], l \in DOMAIN L[t] :
        IsFrame(L[s][k]) /\ IsFrame(L[t][l]) /\ (s < t \/ (s = t /\ k < l))
        => /\ L[s][k].id < L[t][l].id
           /\ t # 7 => L[s][k].seq < L[t][l].seq
  BY DEF Rising
<1>9. q \in Int /\ r \in Int /\ p \in Places /\ o \in Places /\ p = o + 1 /\ o \in Int /\ p \in Int
  BY DEF Places, Handed
<1>10. \A s \in Places : \A k \in DOMAIN L[s] : k \in Nat
  BY DEF LineOf
<1> HIDE DEF n
\* where a position of M comes from
<1>11. \/ q = p /\ i + 1 \in DOMAIN L[p] /\ M[q][i] = L[p][i + 1]
       \/ q = o /\ i = n /\ M[q][i] = x
       \/ q # p /\ ~(q = o /\ i = n) /\ i \in DOMAIN L[q] /\ M[q][i] = L[q][i]
  BY <1>3, <1>4, <1>5, <1>6
<1>12. \/ r = p /\ j + 1 \in DOMAIN L[p] /\ M[r][j] = L[p][j + 1]
       \/ r = o /\ j = n /\ M[r][j] = x
       \/ r # p /\ ~(r = o /\ j = n) /\ j \in DOMAIN L[r] /\ M[r][j] = L[r][j]
  BY <1>3, <1>4, <1>5, <1>6
<1>13. i \in Nat /\ j \in Nat
  BY <1>10, <1>11, <1>12, <1>2, <1>9, <1>3
<1>a. CASE q = p /\ i + 1 \in DOMAIN L[p] /\ M[q][i] = L[p][i + 1]
  <2>1. CASE r = p /\ j + 1 \in DOMAIN L[p] /\ M[r][j] = L[p][j + 1]
    <3>1. i + 1 < j + 1
      BY <1>1, <1>a, <1>13, <2>1, <1>9
    <3> QED
      BY <1>1, <1>8, <1>9, <1>a, <2>1, <3>1
  <2>2. CASE r # p /\ ~(r = o /\ j = n) /\ j \in DOMAIN L[r] /\ M[r][j] = L[r][j]
    <3>1. p < r
      BY <1>1, <1>a, <2>2, <1>9
    <3> QED
      BY <1>1, <1>8, <1>9, <1>a, <2>2, <3>1
  <2> QED
    BY <1>1, <1>12, <1>9, <1>a, <2>1, <2>2
<1>b. CASE q = o /\ i = n /\ M[q][i] = x
  <2>1. CASE r = p /\ j + 1 \in DOMAIN L[p] /\ M[r][j] = L[p][j + 1]
    <3>1. 1 < j + 1
      BY <1>3, <1>1, <1>10, <2>1, <1>9, <1>13
    <3>2. /\ L[p][1].id < L[p][j + 1].id
          /\ p # 7 => L[p][1].seq < L[p][j + 1].seq
      BY <1>1, <1>5, <1>7, <1>8, <1>9, <1>b, <2>1, <3>1
    <3> QED
      BY <1>7, <1>b, <2>1, <3>2
  <2>2. CASE r # p /\ ~(r = o /\ j = n) /\ j \in DOMAIN L[r] /\ M[r][j] = L[r][j]
    <3>1. p < r
      BY <1>1, <1>b, <2>2, <1>9, <1>4, <1>13, <1>2
    <3>2. /\ L[p][1].id < L[r][j].id
          /\ r # 7 => L[p][1].seq < L[r][j].seq
      BY <1>1, <1>5, <1>7, <1>8, <1>9, <1>b, <2>2, <3>1
    <3>3. p # 7
      BY <3>1, <1>9 DEF Places
    <3> QED
      BY <1>7, <1>b, <2>2, <3>2, <3>3
  <2> QED
    BY <1>1, <1>12, <1>9, <1>b, <2>1, <2>2, <1>13
<1>c. CASE q # p /\ ~(q = o /\ i = n) /\ i \in DOMAIN L[q] /\ M[q][i] = L[q][i]
  <2>1. CASE r = p /\ j + 1 \in DOMAIN L[p] /\ M[r][j] = L[p][j + 1]
    <3>1. q < p
      BY <1>1, <1>c, <2>1, <1>9
    <3> QED
      BY <1>1, <1>8, <1>9, <1>c, <2>1, <3>1
  <2>2. CASE r = o /\ j = n /\ M[r][j] = x
    <3>1. q < p
      BY <1>1, <1>c, <2>2, <1>9
    <3>2. /\ L[q][i].id < L[p][1].id
          /\ p # 7 => L[q][i].seq < L[p][1].seq
      BY <1>1, <1>5, <1>7, <1>8, <1>9, <1>c, <2>2, <3>1
    <3>3. p = 7 => L[q][i].seq < x.seq
      BY <1>1, <1>c, <3>1, <1>9 DEF Places
    <3> QED
      BY <1>7, <1>c, <2>2, <3>2, <3>3
  <2>3. CASE r # p /\ ~(r = o /\ j = n) /\ j \in DOMAIN L[r] /\ M[r][j] = L[r][j]
    BY <1>1, <1>8, <1>c, <2>3
  <2> QED
    BY <1>12, <2>1, <2>2, <2>3
<1> QED
  BY <1>11, <1>a, <1>b, <1>c

LEMMA HandedFrames ==
    ASSUME NEW L, NEW M, LineOf(L), LineOf(M), NEW o \in 1 .. 6, NEW p \in 2 .. 7, NEW x \in Item,
           Handed(L, M, o, p, x), NEW q \in Places, NEW j \in DOMAIN M[q], IsFrame(M[q][j])
    PROVE  \/ M[q][j] = x /\ q = o /\ 1 \in DOMAIN L[p] /\ IsFrame(L[p][1])
           \/ \E k \in DOMAIN L[q] : IsFrame(L[q][k]) /\ M[q][j] = L[q][k]
<1>0. HandedFacts(L, M, o, p, x)
  BY HandedPlaces
<1>1. CASE q = p
  BY <1>0, <1>1 DEF HandedFacts
<1>2. CASE q = o
  BY <1>0, <1>2 DEF HandedFacts, Handed
<1>3. CASE q # p /\ q # o
  BY <1>3 DEF Handed
<1> QED
  BY <1>1, <1>2, <1>3

LEMMA HandedAdvances ==
    ASSUME NEW L, NEW M, LineOf(L), LineOf(M), NEW o \in 1 .. 5, NEW p \in 2 .. 6,
           Handed(L, M, o, p, L[p][1])
    PROVE  Advances(L, M)
<1> DEFINE x == L[p][1]
<1>0. L[p] \in Seq(Item) /\ L[p] # <<>>
  <2>1. p \in Places
    BY DEF Places
  <2> QED
    BY <2>1 DEF LineOf, Handed
<1>1. x \in Item /\ p \in 2 .. 7 /\ o \in 1 .. 6 /\ p # 7 /\ o # 7 /\ p \in Places /\ p \in 1 .. 6 /\ o \in 1 .. 6
        /\ o \in Places
  BY <1>0 DEF Places
<1>2. Rising(L) => Rising(M)
  BY <1>1, HandedRising
<1>3. \A q \in Places : \A j \in DOMAIN M[q] : IsFrame(M[q][j]) =>
        \/ M[q][j] = x /\ q = o /\ 1 \in DOMAIN L[p] /\ IsFrame(L[p][1])
        \/ \E k \in DOMAIN L[q] : IsFrame(L[q][k]) /\ M[q][j] = L[q][k]
  BY <1>1, HandedFrames
<1>4. ASSUME NEW nid \in Nat, NEW nbs \in Nat, Bounded(L, nid, nbs) PROVE Bounded(M, nid, nbs)
  BY <1>1, <1>3, <1>4 DEF Bounded
<1>5. ASSUME NEW y \in Item, NumberedIn(M, y) PROVE NumberedIn(L, y)
  <2>1. PICK q \in 1 .. 6 : \E k \in DOMAIN M[q] : IsFrame(M[q][k]) /\ y = M[q][k]
    BY <1>5 DEF NumberedIn
  <2>2. q \in Places
    BY DEF Places
  <2> QED
    BY <1>1, <1>3, <2>1, <2>2 DEF NumberedIn
<1>6. ASSUME NEW n \in Nat, IdIn(M, n) PROVE IdIn(L, n)
  <2>1. PICK q \in Places : \E k \in DOMAIN M[q] : IsFrame(M[q][k]) /\ n = M[q][k].id
    BY <1>6 DEF IdIn
  <2> QED
    BY <1>1, <1>3, <2>1 DEF IdIn
<1> QED
  BY <1>2, <1>4, <1>5, <1>6 DEF Advances, Ordered

\* The first of the last place gets its number.
LEMMA HandedNumbered ==
    ASSUME NEW L, NEW M, LineOf(L), LineOf(M), NEW x \in Item, Handed(L, M, 6, 7, x),
           NEW nid \in Nat, NEW nbs \in Nat, Ordered(L, nid, nbs), nbs <= x.seq
    PROVE  /\ Ordered(M, nid, x.seq + 1)
           /\ \A y \in Item : NumberedIn(M, y) => y = x \/ NumberedIn(L, y)
           /\ \A n \in Nat : IdIn(M, n) => IdIn(L, n)
<1>1. 7 \in 2 .. 7 /\ 6 \in 1 .. 6 /\ 7 \in Places /\ 6 \in Places /\ x.seq \in Nat
  BY DEF Places, Item
<1>2. \A q \in Places : \A j \in DOMAIN M[q] : IsFrame(M[q][j]) =>
        \/ M[q][j] = x /\ q = 6 /\ 1 \in DOMAIN L[7] /\ IsFrame(L[7][1])
        \/ \E k \in DOMAIN L[q] : IsFrame(L[q][k]) /\ M[q][j] = L[q][k]
  BY <1>1, HandedFrames
<1>3. \A q \in Places : \A k \in DOMAIN L[q] : L[q][k] \in Item
  BY DEF LineOf
<1>4. \A q \in 1 .. 6 : \A k \in DOMAIN L[q] : IsFrame(L[q][k]) => L[q][k].seq < x.seq
  BY <1>1, <1>3 DEF Ordered, Bounded, Item, Places
<1>5. Rising(M)
  BY <1>1, <1>4, HandedRising DEF Ordered
<1>6. x.id = L[7][1].id
  BY DEF Handed
<1>7. Bounded(M, nid, x.seq + 1)
  <2>1. SUFFICES ASSUME NEW q \in Places, NEW k \in DOMAIN M[q], IsFrame(M[q][k])
                 PROVE  M[q][k].id < nid /\ (q # 7 => M[q][k].seq < x.seq + 1)
    BY DEF Bounded
  <2>2. CASE M[q][k] = x /\ q = 6 /\ 1 \in DOMAIN L[7] /\ IsFrame(L[7][1])
    BY <1>1, <1>6, <2>2 DEF Ordered, Bounded
  <2>3. CASE \E l \in DOMAIN L[q] : IsFrame(L[q][l]) /\ M[q][k] = L[q][l]
    <3>1. PICK l \in DOMAIN L[q] : IsFrame(L[q][l]) /\ M[q][k] = L[q][l]
      BY <2>3
    <3>2. L[q][l].id < nid /\ (q # 7 => L[q][l].seq < nbs)
      BY <3>1 DEF Ordered, Bounded
    <3>3. L[q][l].seq \in Nat
      BY <1>3 DEF Item
    <3> QED
      BY <1>1, <3>1, <3>2, <3>3
  <2> QED
    BY <1>2, <2>1, <2>2, <2>3
<1>8. ASSUME NEW y \in Item, NumberedIn(M, y) PROVE y = x \/ NumberedIn(L, y)
  <2>1. PICK q \in 1 .. 6 : \E k \in DOMAIN M[q] : IsFrame(M[q][k]) /\ y = M[q][k]
    BY <1>8 DEF NumberedIn
  <2>2. q \in Places
    BY DEF Places
  <2> QED
    BY <1>2, <2>1, <2>2 DEF NumberedIn
<1>9. ASSUME NEW n \in Nat, IdIn(M, n) PROVE IdIn(L, n)
  <2>1. PICK q \in Places : \E k \in DOMAIN M[q] : IsFrame(M[q][k]) /\ n = M[q][k].id
    BY <1>9 DEF IdIn
  <2> QED
    BY <1>1, <1>2, <1>6, <2>1 DEF IdIn
<1> QED
  BY <1>5, <1>7, <1>8, <1>9 DEF Ordered

\* A frame with a fresh identity joins the last place.
Joined(L, M, x) ==
    /\ M[7] = Append(L[7], x)
    /\ \A q \in 1 .. 6 : M[q] = L[q]

LEMMA JoinedOrdered ==
    ASSUME NEW L, NEW M, LineOf(L), LineOf(M), NEW x \in Item, Joined(L, M, x),
           NEW nid \in Nat, NEW nbs \in Nat, Ordered(L, nid, nbs), x.id = nid
    PROVE  /\ Ordered(M, nid + 1, nbs)
           /\ \A y \in Item : NumberedIn(M, y) => NumberedIn(L, y)
           /\ \A n \in Nat : IdIn(M, n) => n = nid \/ IdIn(L, n)
<1> DEFINE s == L[7]
           l == Len(s) + 1
<1>1. s \in Seq(Item) /\ M[7] = Append(s, x) /\ 7 \in Places
  BY DEF LineOf, Joined, Places
<1>2. DOMAIN s = 1 .. Len(s) /\ Len(s) \in Nat /\ DOMAIN M[7] = 1 .. l /\ M[7][l] = x
        /\ \A j \in 1 .. Len(s) : M[7][j] = s[j]
  <2> HIDE DEF s
  <2> QED BY <1>1
<1>3. \A q \in Places : \A j \in DOMAIN M[q] :
        \/ q = 7 /\ j = l /\ M[q][j] = x
        \/ j \in DOMAIN L[q] /\ M[q][j] = L[q][j] /\ (q # 7 \/ j < l)
  <2> SUFFICES ASSUME NEW q \in Places, NEW j \in DOMAIN M[q]
               PROVE  \/ q = 7 /\ j = l /\ M[q][j] = x
                      \/ j \in DOMAIN L[q] /\ M[q][j] = L[q][j] /\ (q # 7 \/ j < l)
    OBVIOUS
  <2>1. CASE q = 7
    BY <1>2, <2>1, SMTT(30)
  <2>2. CASE q # 7
    BY <2>2 DEF Joined, Places
  <2> QED
    BY <2>1, <2>2
<1>4. l \in Nat /\ \A q \in Places : \A k \in DOMAIN L[q] : L[q][k] \in Item /\ k \in Nat
  BY <1>2 DEF LineOf
<1> HIDE DEF l, s
<1>5. Bounded(M, nid + 1, nbs)
  <2>1. SUFFICES ASSUME NEW q \in Places, NEW k \in DOMAIN M[q], IsFrame(M[q][k])
                 PROVE  M[q][k].id < nid + 1 /\ (q # 7 => M[q][k].seq < nbs)
    BY DEF Bounded
  <2>2. CASE q = 7 /\ k = l /\ M[q][k] = x
    BY <2>2
  <2>3. CASE k \in DOMAIN L[q] /\ M[q][k] = L[q][k]
    <3>1. L[q][k].id < nid /\ (q # 7 => L[q][k].seq < nbs)
      BY <2>1, <2>3 DEF Ordered, Bounded
    <3>2. L[q][k].id \in Nat
      BY <1>4, <2>3 DEF Item
    <3> QED
      BY <2>3, <3>1, <3>2
  <2> QED
    BY <1>3, <2>2, <2>3
<1>6. Rising(M)
  <2>1. SUFFICES ASSUME NEW p \in Places, NEW q \in Places,
                        NEW i \in DOMAIN M[p], NEW j \in DOMAIN M[q],
                        IsFrame(M[p][i]), IsFrame(M[q][j]), p < q \/ (p = q /\ i < j)
                 PROVE  /\ M[p][i].id < M[q][j].id
                        /\ q # 7 => M[p][i].seq < M[q][j].seq
    BY DEF Rising
  <2>2. ~(p = 7 /\ i = l)
    <3> SUFFICES ASSUME p = 7, i = l PROVE FALSE
      OBVIOUS
    <3>1. q = 7
      BY <2>1 DEF Places
    <3>2. j \in 1 .. l
      BY <1>2, <3>1
    <3> QED
      BY <2>1, <1>4, <3>1, <3>2
  <2>3. i \in DOMAIN L[p] /\ M[p][i] = L[p][i]
    BY <1>3, <2>2
  <2>4. CASE q = 7 /\ j = l /\ M[q][j] = x
    BY <2>1, <2>3, <2>4 DEF Ordered, Bounded
  <2>5. CASE j \in DOMAIN L[q] /\ M[q][j] = L[q][j]
    BY <2>1, <2>3, <2>5 DEF Ordered, Rising
  <2> QED
    BY <1>3, <2>4, <2>5
<1>7. ASSUME NEW y \in Item, NumberedIn(M, y) PROVE NumberedIn(L, y)
  <2>1. PICK q \in 1 .. 6 : \E k \in DOMAIN M[q] : IsFrame(M[q][k]) /\ y = M[q][k]
    BY <1>7 DEF NumberedIn
  <2>2. M[q] = L[q]
    BY DEF Joined
  <2> QED
    BY <2>1, <2>2 DEF NumberedIn
<1>8. ASSUME NEW n \in Nat, IdIn(M, n) PROVE n = nid \/ IdIn(L, n)
  BY <1>8, <1>3 DEF IdIn
<1> QED
  BY <1>5, <1>6, <1>7, <1>8 DEF Ordered

LEMMA BoundedMore ==
    ASSUME NEW L, LineOf(L), NEW nid \in Nat, NEW nbs \in Nat, NEW nbs2 \in Nat, nbs <= nbs2,
           Ordered(L, nid, nbs)
    PROVE  Ordered(L, nid, nbs2)
<1>0. \A q \in Places : \A k \in DOMAIN L[q] : L[q][k] \in Item
  BY DEF LineOf
<1>1. \A q \in Places : \A k \in DOMAIN L[q] : L[q][k].seq \in Nat
  BY <1>0 DEF Item
<1> QED
  BY <1>1 DEF Ordered, Bounded

-----------------------------------------------------------------------------
(* The types of the state *)

\* Every step is one of these.
Step1 == Inject \/ InputExit \/ SetPlaybackSpeed
Step2 == CtoPTake \/ CtoPParse \/ PtoDTake \/ PtoDCheck \/ PtoDWindow \/ PtoDDecode
Step3 == DecodeCompletes \/ MarkerPassesOn \/ DtoMMarker \/ DtoMClear \/ DtoMTake
Step4 == DtoMPause \/ DtoMDrop \/ DtoMTime \/ DtoMQueue \/ DtoMCall \/ Show \/ PostMFrame \/ PostMCall
StepD(d) ==
    \/ \E p \in Policies, b \in BOOLEAN : (\E n \in NonBlocking : b = ~n) /\ DrainStart(d, p, b)
    \/ DrainJump(d) \/ DrainFlush(d) \/ DrainRounds(d) \/ DrainGet(d)
    \/ DrainNumber(d) \/ DrainReset(d) \/ DrainMark(d) \/ DrainInsert(d)
    \/ DrainCallReset(d) \/ DrainCallDrained(d) \/ DrainSucceeds(d) \/ DrainTimesOut(d)

LEMMA StepCases == Next => Step1 \/ Step2 \/ Step3 \/ Step4 \/ \E d \in Drainers : StepD(d)
<1>1. ASSUME NEW d \in Drainers, Starts(d) \/ Goes(d) \/ DrainTimesOut(d) PROVE StepD(d)
  BY <1>1 DEF Starts, Goes, StepD
<1> QED
  BY <1>1 DEF Next, CtoP, PtoD, Codec, DtoM, PostM, Step1, Step2, Step3, Step4

\* The conjuncts of TypeOK, by what they are about; a process in DropsOK never
\* finds more to drop than the codec holds in front of its marker.
Pcs == {"take", "parse", "check", "window", "decode", "clear", "pause", "time", "queue"}
PipeOK ==
    /\ ring \in [Rings -> Seq(Item)]
    /\ codec \in Seq(Item)
    /\ display \in Seq(Item)
    /\ hold \in [Holds -> Seq(Item)]
    /\ marker \in [Drainers -> Item]
    /\ {MarkerInCodedFrameIndex, NextBufferSequenceNumber, DrainSequenceNumber} \subseteq Nat
    /\ nextId \in Nat /\ drains \in Nat
HandOK ==
    /\ pc \in [Holds -> Pcs]
    /\ pc["CtoP"] \in {"take", "parse"}
    /\ pc["PtoD"] \in {"take", "check", "window", "decode"}
    /\ pc["DtoM"] \in {"take", "clear", "pause", "time", "queue"}
    /\ \A p \in Holds : Len(hold[p]) = IF pc[p] \in {"take", "clear"} THEN 0 ELSE 1
TableOK ==
    /\ seen \in [{"DtoM", "PostM"} -> Nat]
    /\ accumulated \in [{"DtoM", "PostM"} -> [Slots -> Seq(Item)]]
FlagsOK ==
    /\ discarding \in [Stages -> BOOLEAN]
    /\ {Drained, BuffersComingOutOfManifestation, UnPlayable, paused, Step, jump} \subseteq BOOLEAN
    /\ frames \in 0 .. MaxFrames /\ drains \in 0 .. MaxDrains /\ pauses \in 0 .. MaxPauses
    /\ overtaking \in 0 .. MaxOvertaking
    /\ dpc \in [Drainers -> DSteps]
    /\ policy \in [Drainers -> {"playout", "discard", "parseAll"}]
    /\ blocking \in [Drainers -> BOOLEAN]
DropsOK ==
    /\ \A j, k \in Waiting : j = k
    /\ dropping \in Nat /\ dropping <= Prepared

LEMMA SendTyped ==
    ASSUME ring \in [Rings -> Seq(Item)], NEW r \in Rings, NEW i \in Item, Send(r, i)
    PROVE  ring' \in [Rings -> Seq(Item)]
<1>1. ring[r] \in Seq(Item)
  OBVIOUS
<1>2. Append(ring[r], i) \in Seq(Item)
  BY <1>1
<1> QED
  BY <1>2 DEF Send

LEMMA ReceiveTyped ==
    ASSUME ring \in [Rings -> Seq(Item)], NEW r \in Rings, ring[r] # <<>>
    PROVE  /\ Head(ring[r]) \in Item /\ Head(ring[r]) = ring[r][1]
           /\ Receive(r) => ring' \in [Rings -> Seq(Item)]
<1>1. ring[r] \in Seq(Item)
  OBVIOUS
<1>2. Tail(ring[r]) \in Seq(Item) /\ Head(ring[r]) \in Item /\ Head(ring[r]) = ring[r][1]
  BY <1>1
<1> QED
  BY <1>2 DEF Receive

LEMMA ItemParts ==
    ASSUME NEW i \in Item
    PROVE  i.id \in Nat /\ i.seq \in Nat /\ i.token \in Nat
             /\ i.kind \in {"data", "jump", "marker", "blank", "reset", "drained"}
BY DEF Item, Calls

LEMMA MadeItem ==
    ASSUME NEW kind \in {"data", "jump", "marker", "blank", "reset", "drained"},
           NEW n \in Nat, NEW s \in Nat, NEW t \in Nat
    PROVE  MakeItem(kind, n, s, t) \in Item
BY DEF Item, MakeItem, Calls

LEMMA ChangedItem ==
    ASSUME NEW i \in Item, NEW n \in Nat
    PROVE  /\ [i EXCEPT !.id = n] \in Item
           /\ [i EXCEPT !.seq = n] \in Item
           /\ [i EXCEPT !.seq = n, !.kind = IF @ = "marker" THEN "blank" ELSE @] \in Item
BY DEF Item

LEMMA InHandTyped ==
    ASSUME PipeOK, HandOK, NEW p \in Holds, pc[p] \notin {"take", "clear"}
    PROVE  InHand(p) \in Item /\ hold[p] = <<InHand(p)>> /\ hold[p] # <<>>
<1>1. hold[p] \in Seq(Item) /\ Len(hold[p]) = 1
  BY DEF PipeOK, HandOK
<1>2. hold[p][1] \in Item /\ hold[p] = <<hold[p][1]>>
  BY <1>1
<1> QED
  BY <1>2, <1>1 DEF InHand

LEMMA CollateTyped ==
    ASSUME PipeOK, NEW i \in Item, Collate(i)
    PROVE  ring' \in [Rings -> Seq(Item)] /\ nextId' \in Nat
<1>1. [i EXCEPT !.id = nextId] \in Item /\ "collated" \in Rings
  BY ChangedItem DEF PipeOK, Rings
<1>2. Send("collated", [i EXCEPT !.id = nextId])
  BY DEF Collate
<1>3. ring' \in [Rings -> Seq(Item)]
  BY <1>1, <1>2, SendTyped DEF PipeOK
<1> QED
  BY <1>3 DEF Collate, PipeOK

LEMMA NumberedTyped ==
    ASSUME PipeOK, NEW i \in Item
    PROVE  Numbered(i) \in Item
BY ChangedItem DEF Numbered, PipeOK

LEMMA GivesTyped ==
    ASSUME hold \in [Holds -> Seq(Item)], NEW p \in Holds, Gives(p)
    PROVE  hold' \in [Holds -> Seq(Item)]
<1>1. <<>> \in Seq(Item)
  OBVIOUS
<1> QED
  BY <1>1 DEF Gives

LEMMA PrefixTyped ==
    ASSUME NEW s \in Seq(Item), s # <<>>
    PROVE  <<Head(s)>> \in Seq(Item) /\ Tail(s) \in Seq(Item)
OBVIOUS

LEMMA PipeStep ==
    ASSUME PipeOK, HandOK, [Next]_vars
    PROVE  PipeOK'
<1>Inject. ASSUME Inject PROVE PipeOK'
  <2>1. MakeItem("data", 0, 0, 0) \in Item
    BY MadeItem
  <2>2. Collate(MakeItem("data", 0, 0, 0))
    BY <1>Inject DEF Inject
  <2> QED
    BY <1>Inject, <2>1, <2>2, CollateTyped DEF Inject, PipeOK, pipe, procs, shared, play, counts, drain
<1>InputExit. ASSUME InputExit PROVE PipeOK'
  <2>1. MakeItem("jump", 0, 0, 0) \in Item
    BY MadeItem
  <2>2. Collate(MakeItem("jump", 0, 0, 0))
    BY <1>InputExit DEF InputExit
  <2> QED
    BY <1>InputExit, <2>1, <2>2, CollateTyped DEF InputExit, PipeOK, pipe, procs, shared, play, counts, drain
<1>SetPlaybackSpeed. ASSUME SetPlaybackSpeed PROVE PipeOK'
  BY <1>SetPlaybackSpeed DEF SetPlaybackSpeed, pipe, procs, shared, play, counts, drain, PipeOK, Rings, Holds
<1>CtoPTake. ASSUME CtoPTake PROVE PipeOK'
  <2> DEFINE i == Head(ring["collated"])
  <2>1. i \in Item /\ ring' \in [Rings -> Seq(Item)]
    BY <1>CtoPTake, ReceiveTyped DEF CtoPTake, PipeOK, Rings
  <2>2. Numbered(i) \in Item /\ Numbered(i).seq \in Nat
    BY <2>1, NumberedTyped, ItemParts
  <2>3. hold' = hold \/ hold' = [hold EXCEPT !["CtoP"] = <<Numbered(i)>>]
    BY <1>CtoPTake DEF CtoPTake, Takes
  <2>4. <<Numbered(i)>> \in Seq(Item)
    BY <2>2
  <2>5. hold' \in [Holds -> Seq(Item)]
    BY <2>3, <2>4 DEF PipeOK
  <2>6. NextBufferSequenceNumber' = Numbered(i).seq + 1 /\ MarkerInCodedFrameIndex' \in Nat
    BY <1>CtoPTake DEF CtoPTake, PipeOK, NoIndex
  <2>7. codec' = codec /\ display' = display /\ marker' = marker /\ nextId' = nextId /\ drains' = drains
          /\ DrainSequenceNumber' = DrainSequenceNumber
    BY <1>CtoPTake DEF CtoPTake, pipe, procs, shared, play, counts, drain
  <2> HIDE DEF i
  <2>8. NextBufferSequenceNumber' \in Nat
    BY <2>2, <2>6
  <2> QED
    BY <2>1, <2>5, <2>6, <2>7, <2>8 DEF PipeOK
<1>CtoPParse. ASSUME CtoPParse PROVE PipeOK'
  <2>1. InHand("CtoP") \in Item /\ "parsed" \in Rings
    BY <1>CtoPParse, InHandTyped DEF CtoPParse, Goto, Holds, Rings
  <2>2. ring' \in [Rings -> Seq(Item)]
    BY <1>CtoPParse, <2>1, SendTyped DEF CtoPParse, PipeOK
  <2>3. hold' \in [Holds -> Seq(Item)]
    BY <1>CtoPParse, GivesTyped DEF CtoPParse, PipeOK, Holds
  <2> QED
    BY <1>CtoPParse, <2>2, <2>3 DEF CtoPParse, PipeOK, pipe, procs, shared, play, counts, drain
<1>PtoDTake. ASSUME PtoDTake PROVE PipeOK'
  BY <1>PtoDTake DEF PtoDTake, Goto, Receive, Takes, ClearAtMarker, pipe, procs, shared, play, counts, drain, PipeOK, Rings, Holds
<1>PtoDCheck. ASSUME PtoDCheck PROVE PipeOK'
  <2>1. hold' = hold \/ Gives("PtoD")
    BY <1>PtoDCheck DEF PtoDCheck, PtoDDiscard
  <2>2. hold' \in [Holds -> Seq(Item)]
    BY <2>1, GivesTyped DEF PipeOK, Holds
  <2>3. ring' = ring /\ codec' = codec /\ display' = display /\ marker' = marker /\ nextId' = nextId
          /\ drains' = drains /\ UNCHANGED shared
    BY <1>PtoDCheck DEF PtoDCheck, pipe, procs, shared, play, counts, drain
  <2> QED
    BY <2>2, <2>3 DEF PipeOK, shared
<1>PtoDWindow. ASSUME PtoDWindow PROVE PipeOK'
  <2>1. hold' = hold \/ Gives("PtoD")
    BY <1>PtoDWindow DEF PtoDWindow, PtoDDiscard
  <2>2. hold' \in [Holds -> Seq(Item)]
    BY <2>1, GivesTyped DEF PipeOK, Holds
  <2>3. ring' = ring /\ codec' = codec /\ display' = display /\ marker' = marker /\ nextId' = nextId
          /\ drains' = drains /\ UNCHANGED shared
    BY <1>PtoDWindow DEF PtoDWindow, pipe, procs, shared, play, counts, drain
  <2> QED
    BY <2>2, <2>3 DEF PipeOK, shared
<1>PtoDDecode. ASSUME PtoDDecode PROVE PipeOK'
  <2>1. InHand("PtoD") \in Item
    BY <1>PtoDDecode, InHandTyped DEF PtoDDecode, Goto, Holds
  <2>2. \A k \in Waiting : Without(codec, k) \in Seq(Item)
    BY WithoutSeq DEF Waiting, PipeOK
  <2>3. codec' \in Seq(Item)
    <3>1. codec' = Append(codec, InHand("PtoD"))
            \/ \E k \in Waiting : codec' = Append(Without(codec, k), InHand("PtoD"))
      BY <1>PtoDDecode DEF PtoDDecode
    <3>2. codec \in Seq(Item)
      BY DEF PipeOK
    <3>3. ASSUME NEW s \in Seq(Item), codec' = Append(s, InHand("PtoD")) PROVE codec' \in Seq(Item)
      BY <2>1, <3>3
    <3> QED
      BY <2>2, <3>1, <3>2, <3>3
  <2>4. hold' \in [Holds -> Seq(Item)]
    BY <1>PtoDDecode, GivesTyped DEF PtoDDecode, PipeOK, Holds
  <2> QED
    BY <1>PtoDDecode, <2>3, <2>4 DEF PtoDDecode, PipeOK, pipe, procs, shared, play, counts, drain
<1>DecodeCompletes. ASSUME DecodeCompletes PROVE PipeOK'
  <2>1. Head(codec) \in Item /\ Tail(codec) \in Seq(Item) /\ "decoded" \in Rings
    BY <1>DecodeCompletes DEF DecodeCompletes, PipeOK, Rings
  <2>2. ring' \in [Rings -> Seq(Item)]
    BY <1>DecodeCompletes, <2>1, SendTyped DEF DecodeCompletes, PipeOK
  <2> QED
    BY <1>DecodeCompletes, <2>1, <2>2 DEF DecodeCompletes, PipeOK, pipe, procs, shared, play, counts, drain
<1>MarkerPassesOn. ASSUME MarkerPassesOn PROVE PipeOK'
  <2>1. Head(codec) \in Item /\ Tail(codec) \in Seq(Item) /\ "decoded" \in Rings
    BY <1>MarkerPassesOn DEF MarkerPassesOn, PipeOK, Rings
  <2>2. ring' \in [Rings -> Seq(Item)]
    BY <1>MarkerPassesOn, <2>1, SendTyped DEF MarkerPassesOn, PipeOK
  <2> QED
    BY <1>MarkerPassesOn, <2>1, <2>2 DEF MarkerPassesOn, PipeOK, pipe, procs, shared, play, counts, drain
<1>DtoMMarker. ASSUME DtoMMarker PROVE PipeOK'
  <2> DEFINE i == Head(ring["decoded"])
  <2>1. i \in Item /\ ring["decoded"] # <<>> /\ ring["decoded"] \in Seq(Item)
          /\ ring["manifested"] \in Seq(Item)
    BY <1>DtoMMarker, ReceiveTyped DEF DtoMMarker, PipeOK, Rings
  <2>2. Tail(ring["decoded"]) \in Seq(Item) /\ Append(ring["manifested"], i) \in Seq(Item)
    <3> HIDE DEF i
    <3> QED BY <2>1
  <2>3. ring' = [ring EXCEPT !["decoded"] = Tail(@), !["manifested"] = Append(@, i)]
    BY <1>DtoMMarker DEF DtoMMarker, Pass
  <2> HIDE DEF i
  <2>4. ring' \in [Rings -> Seq(Item)]
    BY <2>2, <2>3 DEF PipeOK, Rings
  <2> QED
    BY <1>DtoMMarker, <2>4 DEF DtoMMarker, PipeOK, pipe, procs, shared, play, counts, drain
<1>DtoMClear. ASSUME DtoMClear PROVE PipeOK'
  BY <1>DtoMClear DEF DtoMClear, Goto, pipe, procs, shared, play, counts, drain, PipeOK, Rings, Holds
<1>DtoMTake. ASSUME DtoMTake PROVE PipeOK'
  BY <1>DtoMTake DEF DtoMTake, Goto, Receive, Takes, ProcessAccumulated, pipe, procs, shared, play, counts, drain, PipeOK, Rings, Holds
<1>DtoMPause. ASSUME DtoMPause PROVE PipeOK'
  BY <1>DtoMPause DEF DtoMPause, Goto, pipe, procs, shared, play, counts, drain, PipeOK, Rings, Holds
<1>DtoMDrop. ASSUME DtoMDrop PROVE PipeOK'
  BY <1>DtoMDrop DEF DtoMDrop, Goto, Gives, pipe, procs, shared, play, counts, drain, PipeOK, Rings, Holds
<1>DtoMTime. ASSUME DtoMTime PROVE PipeOK'
  BY <1>DtoMTime DEF DtoMTime, Goto, pipe, procs, shared, play, counts, drain, PipeOK, Rings, Holds
<1>DtoMQueue. ASSUME DtoMQueue PROVE PipeOK'
  <2>1. InHand("DtoM") \in Item
    BY <1>DtoMQueue, InHandTyped DEF DtoMQueue, Goto, Holds
  <2>2. hold' \in [Holds -> Seq(Item)] /\ display' \in Seq(Item)
    BY <1>DtoMQueue, <2>1, GivesTyped DEF DtoMQueue, PipeOK, Holds
  <2> QED
    BY <1>DtoMQueue, <2>2 DEF DtoMQueue, PipeOK, pipe, procs, shared, play, counts, drain
<1>DtoMCall. ASSUME DtoMCall PROVE PipeOK'
  BY <1>DtoMCall DEF DtoMCall, Receive, pipe, procs, shared, play, counts, drain, PipeOK, Rings, Holds
<1>Show. ASSUME Show PROVE PipeOK'
  <2>1. display # <<>>
    BY <1>Show DEF Show, PipeOK
  <2>2. Head(display) \in Item /\ Tail(display) \in Seq(Item) /\ "manifested" \in Rings
    BY <2>1 DEF PipeOK, Rings
  <2>3. ring' \in [Rings -> Seq(Item)]
    BY <1>Show, <2>2, SendTyped DEF Show, PipeOK
  <2> QED
    BY <1>Show, <2>2, <2>3 DEF Show, PipeOK, pipe, procs, shared, play, counts, drain
<1>PostMFrame. ASSUME PostMFrame PROVE PipeOK'
  BY <1>PostMFrame DEF PostMFrame, Receive, ClearAtMarker, ProcessAccumulated, pipe, procs, shared, play, counts, drain, PipeOK, Rings, Holds
<1>PostMCall. ASSUME PostMCall PROVE PipeOK'
  BY <1>PostMCall DEF PostMCall, Receive, pipe, procs, shared, play, counts, drain, PipeOK, Rings, Holds
<1>DrainStart. ASSUME NEW d \in Drainers, NEW p \in Policies, NEW b \in BOOLEAN, DrainStart(d, p, b) PROVE PipeOK'
  <2>1. MakeItem("marker", 0, 0, drains + 1) \in Item
    BY MadeItem DEF PipeOK
  <2> QED
    BY <1>DrainStart, <2>1 DEF DrainStart, PipeOK, pipe, procs, shared, play, counts, drain
<1>DrainJump. ASSUME NEW d \in Drainers, DrainJump(d) PROVE PipeOK'
  <2>1. MakeItem("jump", 0, 0, 0) \in Item
    BY MadeItem
  <2>2. CASE Collate(MakeItem("jump", 0, 0, 0))
    BY <1>DrainJump, <2>1, <2>2, CollateTyped DEF DrainJump, PipeOK, pipe, procs, shared, play, counts, drain
  <2>3. CASE UNCHANGED <<ring, nextId>>
    BY <1>DrainJump, <2>3 DEF DrainJump, PipeOK, pipe, procs, shared, play, counts, drain
  <2> QED
    BY <1>DrainJump, <2>2, <2>3 DEF DrainJump
<1>DrainFlush. ASSUME NEW d \in Drainers, DrainFlush(d) PROVE PipeOK'
  <2>1. CASE display = <<>>
    BY <1>DrainFlush, <2>1 DEF DrainFlush, PipeOK, pipe, procs, shared, play, counts, drain
  <2>2. CASE display # <<>>
    <3>1. <<Head(display)>> \in Seq(Item) /\ Tail(display) \in Seq(Item)
            /\ ring["manifested"] \in Seq(Item)
      BY <2>2, PrefixTyped DEF PipeOK, Rings
    <3>2. ring["manifested"] \o Tail(display) \in Seq(Item)
      BY <3>1
    <3>3. ring' \in [Rings -> Seq(Item)] /\ display' \in Seq(Item)
      BY <1>DrainFlush, <2>2, <3>1, <3>2 DEF DrainFlush, PipeOK
    <3> QED
      BY <1>DrainFlush, <3>3 DEF DrainFlush, PipeOK, pipe, procs, shared, play, counts, drain
  <2> QED
    BY <2>1, <2>2
<1>DrainRounds. ASSUME NEW d \in Drainers, DrainRounds(d) PROVE PipeOK'
  BY <1>DrainRounds DEF DrainRounds, Then, StartsWait, pipe, procs, shared, play, counts, drain, PipeOK, Rings, Holds
<1>DrainGet. ASSUME NEW d \in Drainers, DrainGet(d) PROVE PipeOK'
  BY <1>DrainGet DEF DrainGet, Then, pipe, procs, shared, play, counts, drain, PipeOK, Rings, Holds
<1>DrainNumber. ASSUME NEW d \in Drainers, DrainNumber(d) PROVE PipeOK'
  <2>1. DrainSequenceNumber' \in Nat
    BY <1>DrainNumber, RingSizeAssumption DEF DrainNumber, NumberAhead, PipeOK
  <2>2. [marker[d] EXCEPT !.seq = DrainSequenceNumber'] \in Item
    BY <2>1, ChangedItem DEF PipeOK
  <2>3. marker' \in [Drainers -> Item]
    BY <1>DrainNumber, <2>2 DEF DrainNumber, PipeOK
  <2> QED
    BY <1>DrainNumber, <2>1, <2>3 DEF DrainNumber, PipeOK, pipe, procs, shared, play, counts, drain
<1>DrainReset. ASSUME NEW d \in Drainers, DrainReset(d) PROVE PipeOK'
  BY <1>DrainReset DEF DrainReset, Then, pipe, procs, shared, play, counts, drain, PipeOK, Rings, Holds
<1>DrainMark. ASSUME NEW d \in Drainers, DrainMark(d) PROVE PipeOK'
  <2>1. marker[d].token \in Nat
    BY ItemParts DEF PipeOK
  <2> QED
    BY <1>DrainMark, <2>1 DEF DrainMark, PipeOK, pipe, procs, shared, play, counts, drain
<1>DrainInsert. ASSUME NEW d \in Drainers, DrainInsert(d) PROVE PipeOK'
  <2>1. marker[d] \in Item /\ [marker[d] EXCEPT !.id = nextId] \in Item
    BY ChangedItem DEF PipeOK
  <2>2. ring' \in [Rings -> Seq(Item)] /\ nextId' \in Nat
    BY <1>DrainInsert, <2>1, CollateTyped DEF DrainInsert
  <2>3. marker' \in [Drainers -> Item]
    BY <1>DrainInsert, <2>1 DEF DrainInsert, PipeOK
  <2> QED
    BY <1>DrainInsert, <2>2, <2>3 DEF DrainInsert, PipeOK, pipe, procs, shared, play, counts, drain
<1>DrainCallReset. ASSUME NEW d \in Drainers, DrainCallReset(d) PROVE PipeOK'
  <2>1. MakeItem("reset", 0, DrainSequenceNumber, 0) \in Item /\ "decoded" \in Rings
    BY MadeItem DEF PipeOK, Rings
  <2>2. ring' \in [Rings -> Seq(Item)]
    BY <1>DrainCallReset, <2>1, SendTyped DEF DrainCallReset, PipeOK
  <2> QED
    BY <1>DrainCallReset, <2>2 DEF DrainCallReset, PipeOK, pipe, procs, shared, play, counts, drain
<1>DrainCallDrained. ASSUME NEW d \in Drainers, DrainCallDrained(d) PROVE PipeOK'
  <2>1. MakeItem("drained", 0, DrainSequenceNumber, 0) \in Item /\ "manifested" \in Rings
    BY MadeItem DEF PipeOK, Rings
  <2>2. ring' \in [Rings -> Seq(Item)]
    BY <1>DrainCallDrained, <2>1, SendTyped DEF DrainCallDrained, PipeOK
  <2> QED
    BY <1>DrainCallDrained, <2>2 DEF DrainCallDrained, PipeOK, pipe, procs, shared, play, counts, drain
<1>DrainSucceeds. ASSUME NEW d \in Drainers, DrainSucceeds(d) PROVE PipeOK'
  BY <1>DrainSucceeds DEF DrainSucceeds, Then, pipe, procs, shared, play, counts, drain, PipeOK, Rings, Holds
<1>DrainTimesOut. ASSUME NEW d \in Drainers, DrainTimesOut(d) PROVE PipeOK'
  BY <1>DrainTimesOut DEF DrainTimesOut, StartsWait, pipe, procs, shared, play, counts, drain, PipeOK, Rings, Holds
<1>stutter. ASSUME vars' = vars PROVE PipeOK'
  BY <1>stutter DEF vars, pipe, procs, shared, play, counts, drain, PipeOK, Rings, Holds
<1>1. ASSUME NEW d \in Drainers, StepD(d) PROVE PipeOK'
  BY <1>1, <1>DrainStart, <1>DrainJump, <1>DrainFlush, <1>DrainRounds, <1>DrainGet, <1>DrainNumber, <1>DrainReset, <1>DrainMark, <1>DrainInsert, <1>DrainCallReset, <1>DrainCallDrained, <1>DrainSucceeds, <1>DrainTimesOut DEF StepD
<1> QED
  BY StepCases, <1>1, <1>stutter, <1>Inject, <1>InputExit, <1>SetPlaybackSpeed, <1>CtoPTake, <1>CtoPParse, <1>PtoDTake, <1>PtoDCheck, <1>PtoDWindow, <1>PtoDDecode, <1>DecodeCompletes, <1>MarkerPassesOn, <1>DtoMMarker, <1>DtoMClear, <1>DtoMTake, <1>DtoMPause, <1>DtoMDrop, <1>DtoMTime, <1>DtoMQueue, <1>DtoMCall, <1>Show, <1>PostMFrame, <1>PostMCall DEF Step1, Step2, Step3, Step4

LEMMA HandStep ==
    ASSUME PipeOK, HandOK, [Next]_vars
    PROVE  HandOK'
<1>Inject. ASSUME Inject PROVE HandOK'
  BY <1>Inject DEF Inject, Collate, Send, pipe, procs, shared, play, counts, drain, PipeOK, HandOK, Rings, Holds, Pcs
<1>InputExit. ASSUME InputExit PROVE HandOK'
  BY <1>InputExit DEF InputExit, Collate, Send, pipe, procs, shared, play, counts, drain, PipeOK, HandOK, Rings, Holds, Pcs
<1>SetPlaybackSpeed. ASSUME SetPlaybackSpeed PROVE HandOK'
  BY <1>SetPlaybackSpeed DEF SetPlaybackSpeed, pipe, procs, shared, play, counts, drain, PipeOK, HandOK, Rings, Holds, Pcs
<1>CtoPTake. ASSUME CtoPTake PROVE HandOK'
  <2>1. (hold' = hold /\ pc' = pc) \/ (pc["CtoP"] = "take" /\ pc' = [pc EXCEPT !["CtoP"] = "parse"]
          /\ hold' = [hold EXCEPT !["CtoP"] = <<Numbered(Head(ring["collated"]))>>])
    BY <1>CtoPTake DEF CtoPTake, Takes
  <2>2. Len(<<Numbered(Head(ring["collated"]))>>) = 1
    OBVIOUS
  <2>4. CASE hold' = hold /\ pc' = pc
    BY <2>4 DEF HandOK
  <2>5. CASE pc["CtoP"] = "take" /\ pc' = [pc EXCEPT !["CtoP"] = "parse"]
          /\ hold' = [hold EXCEPT !["CtoP"] = <<Numbered(Head(ring["collated"]))>>]
    BY <2>2, <2>5 DEF PipeOK, HandOK, Holds, Pcs
  <2> QED
    BY <2>1, <2>4, <2>5
<1>CtoPParse. ASSUME CtoPParse PROVE HandOK'
  BY <1>CtoPParse DEF CtoPParse, Goto, Gives, Send, InHand, pipe, procs, shared, play, counts, drain, PipeOK, HandOK, Rings, Holds, Pcs
<1>PtoDTake. ASSUME PtoDTake PROVE HandOK'
  BY <1>PtoDTake DEF PtoDTake, Goto, Receive, Takes, ClearAtMarker, pipe, procs, shared, play, counts, drain, PipeOK, HandOK, Rings, Holds, Pcs
<1>PtoDCheck. ASSUME PtoDCheck PROVE HandOK'
  <2>1. \/ pc' = [pc EXCEPT !["PtoD"] = "take"] /\ hold' = [hold EXCEPT !["PtoD"] = <<>>]
        \/ pc["PtoD"] \in {"check", "window"} /\ hold' = hold
             /\ \E t \in {"decode", "window"} : pc' = [pc EXCEPT !["PtoD"] = t]
    BY <1>PtoDCheck DEF PtoDCheck, PtoDDiscard, Gives, Goto
  <2>2. CASE pc' = [pc EXCEPT !["PtoD"] = "take"] /\ hold' = [hold EXCEPT !["PtoD"] = <<>>]
    BY <2>2 DEF PipeOK, HandOK, Holds, Pcs
  <2>3. CASE pc["PtoD"] \in {"check", "window"} /\ hold' = hold
               /\ \E t \in {"decode", "window"} : pc' = [pc EXCEPT !["PtoD"] = t]
    BY <2>3 DEF PipeOK, HandOK, Holds, Pcs
  <2> QED
    BY <2>1, <2>2, <2>3
<1>PtoDWindow. ASSUME PtoDWindow PROVE HandOK'
  <2>1. \/ pc' = [pc EXCEPT !["PtoD"] = "take"] /\ hold' = [hold EXCEPT !["PtoD"] = <<>>]
        \/ pc["PtoD"] \in {"check", "window"} /\ hold' = hold
             /\ \E t \in {"decode", "window"} : pc' = [pc EXCEPT !["PtoD"] = t]
    BY <1>PtoDWindow DEF PtoDWindow, PtoDDiscard, Gives, Goto
  <2>2. CASE pc' = [pc EXCEPT !["PtoD"] = "take"] /\ hold' = [hold EXCEPT !["PtoD"] = <<>>]
    BY <2>2 DEF PipeOK, HandOK, Holds, Pcs
  <2>3. CASE pc["PtoD"] \in {"check", "window"} /\ hold' = hold
               /\ \E t \in {"decode", "window"} : pc' = [pc EXCEPT !["PtoD"] = t]
    BY <2>3 DEF PipeOK, HandOK, Holds, Pcs
  <2> QED
    BY <2>1, <2>2, <2>3
<1>PtoDDecode. ASSUME PtoDDecode PROVE HandOK'
  BY <1>PtoDDecode DEF PtoDDecode, Goto, Gives, InHand, Waiting, pipe, procs, shared, play, counts, drain, PipeOK, HandOK, Rings, Holds, Pcs
<1>DecodeCompletes. ASSUME DecodeCompletes PROVE HandOK'
  BY <1>DecodeCompletes DEF DecodeCompletes, Send, pipe, procs, shared, play, counts, drain, PipeOK, HandOK, Rings, Holds, Pcs
<1>MarkerPassesOn. ASSUME MarkerPassesOn PROVE HandOK'
  BY <1>MarkerPassesOn DEF MarkerPassesOn, Send, pipe, procs, shared, play, counts, drain, PipeOK, HandOK, Rings, Holds, Pcs
<1>DtoMMarker. ASSUME DtoMMarker PROVE HandOK'
  BY <1>DtoMMarker DEF DtoMMarker, Goto, Pass, ProcessAccumulated, pipe, procs, shared, play, counts, drain, PipeOK, HandOK, Rings, Holds, Pcs
<1>DtoMClear. ASSUME DtoMClear PROVE HandOK'
  BY <1>DtoMClear DEF DtoMClear, Goto, pipe, procs, shared, play, counts, drain, PipeOK, HandOK, Rings, Holds, Pcs
<1>DtoMTake. ASSUME DtoMTake PROVE HandOK'
  BY <1>DtoMTake DEF DtoMTake, Goto, Receive, Takes, ProcessAccumulated, pipe, procs, shared, play, counts, drain, PipeOK, HandOK, Rings, Holds, Pcs
<1>DtoMPause. ASSUME DtoMPause PROVE HandOK'
  BY <1>DtoMPause DEF DtoMPause, Goto, pipe, procs, shared, play, counts, drain, PipeOK, HandOK, Rings, Holds, Pcs
<1>DtoMDrop. ASSUME DtoMDrop PROVE HandOK'
  BY <1>DtoMDrop DEF DtoMDrop, Goto, Gives, pipe, procs, shared, play, counts, drain, PipeOK, HandOK, Rings, Holds, Pcs
<1>DtoMTime. ASSUME DtoMTime PROVE HandOK'
  BY <1>DtoMTime DEF DtoMTime, Goto, pipe, procs, shared, play, counts, drain, PipeOK, HandOK, Rings, Holds, Pcs
<1>DtoMQueue. ASSUME DtoMQueue PROVE HandOK'
  BY <1>DtoMQueue DEF DtoMQueue, Goto, Gives, InHand, pipe, procs, shared, play, counts, drain, PipeOK, HandOK, Rings, Holds, Pcs
<1>DtoMCall. ASSUME DtoMCall PROVE HandOK'
  BY <1>DtoMCall DEF DtoMCall, Receive, pipe, procs, shared, play, counts, drain, PipeOK, HandOK, Rings, Holds, Pcs
<1>Show. ASSUME Show PROVE HandOK'
  BY <1>Show DEF Show, Send, pipe, procs, shared, play, counts, drain, PipeOK, HandOK, Rings, Holds, Pcs
<1>PostMFrame. ASSUME PostMFrame PROVE HandOK'
  BY <1>PostMFrame DEF PostMFrame, Receive, ClearAtMarker, ProcessAccumulated, pipe, procs, shared, play, counts, drain, PipeOK, HandOK, Rings, Holds, Pcs
<1>PostMCall. ASSUME PostMCall PROVE HandOK'
  BY <1>PostMCall DEF PostMCall, Receive, pipe, procs, shared, play, counts, drain, PipeOK, HandOK, Rings, Holds, Pcs
<1>DrainStart. ASSUME NEW d \in Drainers, NEW p \in Policies, NEW b \in BOOLEAN, DrainStart(d, p, b) PROVE HandOK'
  BY <1>DrainStart DEF DrainStart, pipe, procs, shared, play, counts, drain, PipeOK, HandOK, Rings, Holds, Pcs
<1>DrainJump. ASSUME NEW d \in Drainers, DrainJump(d) PROVE HandOK'
  BY <1>DrainJump DEF DrainJump, Then, Collate, Send, pipe, procs, shared, play, counts, drain, PipeOK, HandOK, Rings, Holds, Pcs
<1>DrainFlush. ASSUME NEW d \in Drainers, DrainFlush(d) PROVE HandOK'
  BY <1>DrainFlush DEF DrainFlush, Then, pipe, procs, shared, play, counts, drain, PipeOK, HandOK, Rings, Holds, Pcs
<1>DrainRounds. ASSUME NEW d \in Drainers, DrainRounds(d) PROVE HandOK'
  BY <1>DrainRounds DEF DrainRounds, Then, StartsWait, pipe, procs, shared, play, counts, drain, PipeOK, HandOK, Rings, Holds, Pcs
<1>DrainGet. ASSUME NEW d \in Drainers, DrainGet(d) PROVE HandOK'
  BY <1>DrainGet DEF DrainGet, Then, pipe, procs, shared, play, counts, drain, PipeOK, HandOK, Rings, Holds, Pcs
<1>DrainNumber. ASSUME NEW d \in Drainers, DrainNumber(d) PROVE HandOK'
  BY <1>DrainNumber DEF DrainNumber, Then, NumberAhead, pipe, procs, shared, play, counts, drain, PipeOK, HandOK, Rings, Holds, Pcs
<1>DrainReset. ASSUME NEW d \in Drainers, DrainReset(d) PROVE HandOK'
  BY <1>DrainReset DEF DrainReset, Then, pipe, procs, shared, play, counts, drain, PipeOK, HandOK, Rings, Holds, Pcs
<1>DrainMark. ASSUME NEW d \in Drainers, DrainMark(d) PROVE HandOK'
  BY <1>DrainMark DEF DrainMark, Then, pipe, procs, shared, play, counts, drain, PipeOK, HandOK, Rings, Holds, Pcs
<1>DrainInsert. ASSUME NEW d \in Drainers, DrainInsert(d) PROVE HandOK'
  BY <1>DrainInsert DEF DrainInsert, Then, Collate, Send, pipe, procs, shared, play, counts, drain, PipeOK, HandOK, Rings, Holds, Pcs
<1>DrainCallReset. ASSUME NEW d \in Drainers, DrainCallReset(d) PROVE HandOK'
  BY <1>DrainCallReset DEF DrainCallReset, Then, Send, pipe, procs, shared, play, counts, drain, PipeOK, HandOK, Rings, Holds, Pcs
<1>DrainCallDrained. ASSUME NEW d \in Drainers, DrainCallDrained(d) PROVE HandOK'
  BY <1>DrainCallDrained DEF DrainCallDrained, Then, Send, StartsWait, pipe, procs, shared, play, counts, drain, PipeOK, HandOK, Rings, Holds, Pcs
<1>DrainSucceeds. ASSUME NEW d \in Drainers, DrainSucceeds(d) PROVE HandOK'
  BY <1>DrainSucceeds DEF DrainSucceeds, Then, pipe, procs, shared, play, counts, drain, PipeOK, HandOK, Rings, Holds, Pcs
<1>DrainTimesOut. ASSUME NEW d \in Drainers, DrainTimesOut(d) PROVE HandOK'
  BY <1>DrainTimesOut DEF DrainTimesOut, StartsWait, pipe, procs, shared, play, counts, drain, PipeOK, HandOK, Rings, Holds, Pcs
<1>stutter. ASSUME vars' = vars PROVE HandOK'
  BY <1>stutter DEF vars, pipe, procs, shared, play, counts, drain, PipeOK, HandOK, Rings, Holds, Pcs
<1>1. ASSUME NEW d \in Drainers, StepD(d) PROVE HandOK'
  BY <1>1, <1>DrainStart, <1>DrainJump, <1>DrainFlush, <1>DrainRounds, <1>DrainGet, <1>DrainNumber, <1>DrainReset, <1>DrainMark, <1>DrainInsert, <1>DrainCallReset, <1>DrainCallDrained, <1>DrainSucceeds, <1>DrainTimesOut DEF StepD
<1> QED
  BY StepCases, <1>1, <1>stutter, <1>Inject, <1>InputExit, <1>SetPlaybackSpeed, <1>CtoPTake, <1>CtoPParse, <1>PtoDTake, <1>PtoDCheck, <1>PtoDWindow, <1>PtoDDecode, <1>DecodeCompletes, <1>MarkerPassesOn, <1>DtoMMarker, <1>DtoMClear, <1>DtoMTake, <1>DtoMPause, <1>DtoMDrop, <1>DtoMTime, <1>DtoMQueue, <1>DtoMCall, <1>Show, <1>PostMFrame, <1>PostMCall DEF Step1, Step2, Step3, Step4

LEMMA ProcessedTyped ==
    ASSUME TableOK, NEW p \in {"DtoM", "PostM"}, NEW n, ProcessAccumulated(p, n)
    PROVE  accumulated' \in [{"DtoM", "PostM"} -> [Slots -> Seq(Item)]]
<1>1. [k \in Slots |-> IF k \in DueNow(p, n) THEN <<>> ELSE accumulated[p][k]]
        \in [Slots -> Seq(Item)]
  BY DEF TableOK
<1> QED
  BY <1>1 DEF TableOK, ProcessAccumulated

LEMMA AccumulatedTyped ==
    ASSUME TableOK, NEW p \in {"DtoM", "PostM"}, NEW i \in Item, Accumulate(p, i)
    PROVE  accumulated' \in [{"DtoM", "PostM"} -> [Slots -> Seq(Item)]]
<1>1. <<i>> \in Seq(Item)
  OBVIOUS
<1>2. CASE accumulated' = accumulated
  BY <1>2 DEF TableOK
<1>3. CASE \E k \in Free(p) : accumulated' = [accumulated EXCEPT ![p][k] = <<i>>]
  <2>1. PICK k \in Slots : accumulated' = [accumulated EXCEPT ![p][k] = <<i>>]
    BY <1>3 DEF Free
  <2>2. accumulated[p] \in [Slots -> Seq(Item)]
    BY DEF TableOK
  <2>3. [accumulated[p] EXCEPT ![k] = <<i>>] \in [Slots -> Seq(Item)]
    BY <1>1, <2>2
  <2> QED
    BY <2>1, <2>3 DEF TableOK
<1> QED
  BY <1>2, <1>3 DEF Accumulate

LEMMA Max2Typed == ASSUME NEW a \in Nat, NEW b \in Nat PROVE Max2(a, b) \in Nat
BY DEF Max2

LEMMA TableStep ==
    ASSUME PipeOK, TableOK, [Next]_vars
    PROVE  TableOK'
<1>Inject. ASSUME Inject PROVE TableOK'
  BY <1>Inject DEF Inject, Collate, Send, pipe, procs, shared, play, counts, drain, PipeOK, TableOK, Rings, Calls
<1>InputExit. ASSUME InputExit PROVE TableOK'
  BY <1>InputExit DEF InputExit, Collate, Send, pipe, procs, shared, play, counts, drain, PipeOK, TableOK, Rings, Calls
<1>SetPlaybackSpeed. ASSUME SetPlaybackSpeed PROVE TableOK'
  BY <1>SetPlaybackSpeed DEF SetPlaybackSpeed, pipe, procs, shared, play, counts, drain, PipeOK, TableOK, Rings, Calls
<1>CtoPTake. ASSUME CtoPTake PROVE TableOK'
  BY <1>CtoPTake DEF CtoPTake, Receive, Takes, Numbered, Recognised, pipe, procs, shared, play, counts, drain, PipeOK, TableOK, Rings, Calls
<1>CtoPParse. ASSUME CtoPParse PROVE TableOK'
  BY <1>CtoPParse DEF CtoPParse, Goto, Gives, Send, InHand, pipe, procs, shared, play, counts, drain, PipeOK, TableOK, Rings, Calls
<1>PtoDTake. ASSUME PtoDTake PROVE TableOK'
  BY <1>PtoDTake DEF PtoDTake, Goto, Receive, Takes, ClearAtMarker, pipe, procs, shared, play, counts, drain, PipeOK, TableOK, Rings, Calls
<1>PtoDCheck. ASSUME PtoDCheck PROVE TableOK'
  BY <1>PtoDCheck DEF PtoDCheck, PtoDDiscard, Goto, Gives, pipe, procs, shared, play, counts, drain, PipeOK, TableOK, Rings, Calls
<1>PtoDWindow. ASSUME PtoDWindow PROVE TableOK'
  BY <1>PtoDWindow DEF PtoDWindow, PtoDDiscard, Goto, Gives, pipe, procs, shared, play, counts, drain, PipeOK, TableOK, Rings, Calls
<1>PtoDDecode. ASSUME PtoDDecode PROVE TableOK'
  BY <1>PtoDDecode DEF PtoDDecode, Goto, Gives, InHand, Waiting, pipe, procs, shared, play, counts, drain, PipeOK, TableOK, Rings, Calls
<1>DecodeCompletes. ASSUME DecodeCompletes PROVE TableOK'
  BY <1>DecodeCompletes DEF DecodeCompletes, Send, pipe, procs, shared, play, counts, drain, PipeOK, TableOK, Rings, Calls
<1>MarkerPassesOn. ASSUME MarkerPassesOn PROVE TableOK'
  BY <1>MarkerPassesOn DEF MarkerPassesOn, Send, pipe, procs, shared, play, counts, drain, PipeOK, TableOK, Rings, Calls
<1>DtoMMarker. ASSUME DtoMMarker PROVE TableOK'
  <2>1. Head(ring["decoded"]) \in Item /\ Head(ring["decoded"]).seq \in Nat
    BY <1>DtoMMarker, ReceiveTyped, ItemParts DEF DtoMMarker, PipeOK, Rings
  <2>2. accumulated' \in [{"DtoM", "PostM"} -> [Slots -> Seq(Item)]]
    BY <1>DtoMMarker, ProcessedTyped DEF DtoMMarker
  <2>3. Max2(seen["DtoM"], Head(ring["decoded"]).seq) \in Nat
    BY <2>1, Max2Typed DEF TableOK
  <2> QED
    BY <1>DtoMMarker, <2>2, <2>3 DEF DtoMMarker, TableOK
<1>DtoMClear. ASSUME DtoMClear PROVE TableOK'
  BY <1>DtoMClear DEF DtoMClear, Goto, pipe, procs, shared, play, counts, drain, PipeOK, TableOK, Rings, Calls
<1>DtoMTake. ASSUME DtoMTake PROVE TableOK'
  <2>1. Head(ring["decoded"]) \in Item /\ Head(ring["decoded"]).seq \in Nat
    BY <1>DtoMTake, ReceiveTyped, ItemParts DEF DtoMTake, PipeOK, Rings
  <2>2. accumulated' \in [{"DtoM", "PostM"} -> [Slots -> Seq(Item)]]
    BY <1>DtoMTake, ProcessedTyped DEF DtoMTake
  <2>3. Max2(seen["DtoM"], Head(ring["decoded"]).seq) \in Nat
    BY <2>1, Max2Typed DEF TableOK
  <2> QED
    BY <1>DtoMTake, <2>2, <2>3 DEF DtoMTake, TableOK
<1>DtoMPause. ASSUME DtoMPause PROVE TableOK'
  BY <1>DtoMPause DEF DtoMPause, Goto, pipe, procs, shared, play, counts, drain, PipeOK, TableOK, Rings, Calls
<1>DtoMDrop. ASSUME DtoMDrop PROVE TableOK'
  BY <1>DtoMDrop DEF DtoMDrop, Goto, Gives, pipe, procs, shared, play, counts, drain, PipeOK, TableOK, Rings, Calls
<1>DtoMTime. ASSUME DtoMTime PROVE TableOK'
  BY <1>DtoMTime DEF DtoMTime, Goto, pipe, procs, shared, play, counts, drain, PipeOK, TableOK, Rings, Calls
<1>DtoMQueue. ASSUME DtoMQueue PROVE TableOK'
  BY <1>DtoMQueue DEF DtoMQueue, Goto, Gives, InHand, pipe, procs, shared, play, counts, drain, PipeOK, TableOK, Rings, Calls
<1>DtoMCall. ASSUME DtoMCall PROVE TableOK'
  <2>1. Head(ring["decoded"]) \in Item
    BY <1>DtoMCall, ReceiveTyped DEF DtoMCall, PipeOK, Rings
  <2>2. accumulated' = accumulated \/ Accumulate("DtoM", Head(ring["decoded"]))
    BY <1>DtoMCall DEF DtoMCall
  <2>3. accumulated' \in [{"DtoM", "PostM"} -> [Slots -> Seq(Item)]]
    BY <2>1, <2>2, AccumulatedTyped DEF TableOK
  <2> QED
    BY <1>DtoMCall, <2>3 DEF DtoMCall, TableOK
<1>Show. ASSUME Show PROVE TableOK'
  BY <1>Show DEF Show, Send, pipe, procs, shared, play, counts, drain, PipeOK, TableOK, Rings, Calls
<1>PostMFrame. ASSUME PostMFrame PROVE TableOK'
  <2>1. Head(ring["manifested"]) \in Item /\ Head(ring["manifested"]).seq \in Nat
    BY <1>PostMFrame, ReceiveTyped, ItemParts DEF PostMFrame, PipeOK, Rings
  <2>2. accumulated' \in [{"DtoM", "PostM"} -> [Slots -> Seq(Item)]]
    BY <1>PostMFrame, ProcessedTyped DEF PostMFrame
  <2>3. Max2(seen["PostM"], Head(ring["manifested"]).seq) \in Nat
    BY <2>1, Max2Typed DEF TableOK
  <2> QED
    BY <1>PostMFrame, <2>2, <2>3 DEF PostMFrame, TableOK
<1>PostMCall. ASSUME PostMCall PROVE TableOK'
  <2>1. Head(ring["manifested"]) \in Item
    BY <1>PostMCall, ReceiveTyped DEF PostMCall, PipeOK, Rings
  <2>2. accumulated' = accumulated \/ Accumulate("PostM", Head(ring["manifested"]))
    BY <1>PostMCall DEF PostMCall
  <2>3. accumulated' \in [{"DtoM", "PostM"} -> [Slots -> Seq(Item)]]
    BY <2>1, <2>2, AccumulatedTyped DEF TableOK
  <2> QED
    BY <1>PostMCall, <2>3 DEF PostMCall, TableOK
<1>DrainStart. ASSUME NEW d \in Drainers, NEW p \in Policies, NEW b \in BOOLEAN, DrainStart(d, p, b) PROVE TableOK'
  BY <1>DrainStart DEF DrainStart, pipe, procs, shared, play, counts, drain, PipeOK, TableOK, Rings, Calls
<1>DrainJump. ASSUME NEW d \in Drainers, DrainJump(d) PROVE TableOK'
  BY <1>DrainJump DEF DrainJump, Then, Collate, Send, pipe, procs, shared, play, counts, drain, PipeOK, TableOK, Rings, Calls
<1>DrainFlush. ASSUME NEW d \in Drainers, DrainFlush(d) PROVE TableOK'
  BY <1>DrainFlush DEF DrainFlush, Then, pipe, procs, shared, play, counts, drain, PipeOK, TableOK, Rings, Calls
<1>DrainRounds. ASSUME NEW d \in Drainers, DrainRounds(d) PROVE TableOK'
  BY <1>DrainRounds DEF DrainRounds, Then, StartsWait, pipe, procs, shared, play, counts, drain, PipeOK, TableOK, Rings, Calls
<1>DrainGet. ASSUME NEW d \in Drainers, DrainGet(d) PROVE TableOK'
  BY <1>DrainGet DEF DrainGet, Then, pipe, procs, shared, play, counts, drain, PipeOK, TableOK, Rings, Calls
<1>DrainNumber. ASSUME NEW d \in Drainers, DrainNumber(d) PROVE TableOK'
  BY <1>DrainNumber DEF DrainNumber, Then, NumberAhead, pipe, procs, shared, play, counts, drain, PipeOK, TableOK, Rings, Calls
<1>DrainReset. ASSUME NEW d \in Drainers, DrainReset(d) PROVE TableOK'
  BY <1>DrainReset DEF DrainReset, Then, pipe, procs, shared, play, counts, drain, PipeOK, TableOK, Rings, Calls
<1>DrainMark. ASSUME NEW d \in Drainers, DrainMark(d) PROVE TableOK'
  BY <1>DrainMark DEF DrainMark, Then, pipe, procs, shared, play, counts, drain, PipeOK, TableOK, Rings, Calls
<1>DrainInsert. ASSUME NEW d \in Drainers, DrainInsert(d) PROVE TableOK'
  BY <1>DrainInsert DEF DrainInsert, Then, Collate, Send, pipe, procs, shared, play, counts, drain, PipeOK, TableOK, Rings, Calls
<1>DrainCallReset. ASSUME NEW d \in Drainers, DrainCallReset(d) PROVE TableOK'
  BY <1>DrainCallReset DEF DrainCallReset, Then, Send, pipe, procs, shared, play, counts, drain, PipeOK, TableOK, Rings, Calls
<1>DrainCallDrained. ASSUME NEW d \in Drainers, DrainCallDrained(d) PROVE TableOK'
  BY <1>DrainCallDrained DEF DrainCallDrained, Then, Send, StartsWait, pipe, procs, shared, play, counts, drain, PipeOK, TableOK, Rings, Calls
<1>DrainSucceeds. ASSUME NEW d \in Drainers, DrainSucceeds(d) PROVE TableOK'
  BY <1>DrainSucceeds DEF DrainSucceeds, Then, pipe, procs, shared, play, counts, drain, PipeOK, TableOK, Rings, Calls
<1>DrainTimesOut. ASSUME NEW d \in Drainers, DrainTimesOut(d) PROVE TableOK'
  BY <1>DrainTimesOut DEF DrainTimesOut, StartsWait, pipe, procs, shared, play, counts, drain, PipeOK, TableOK, Rings, Calls
<1>stutter. ASSUME vars' = vars PROVE TableOK'
  BY <1>stutter DEF vars, pipe, procs, shared, play, counts, drain, PipeOK, TableOK, Rings, Calls
<1>1. ASSUME NEW d \in Drainers, StepD(d) PROVE TableOK'
  BY <1>1, <1>DrainStart, <1>DrainJump, <1>DrainFlush, <1>DrainRounds, <1>DrainGet, <1>DrainNumber, <1>DrainReset, <1>DrainMark, <1>DrainInsert, <1>DrainCallReset, <1>DrainCallDrained, <1>DrainSucceeds, <1>DrainTimesOut DEF StepD
<1> QED
  BY StepCases, <1>1, <1>stutter, <1>Inject, <1>InputExit, <1>SetPlaybackSpeed, <1>CtoPTake, <1>CtoPParse, <1>PtoDTake, <1>PtoDCheck, <1>PtoDWindow, <1>PtoDDecode, <1>DecodeCompletes, <1>MarkerPassesOn, <1>DtoMMarker, <1>DtoMClear, <1>DtoMTake, <1>DtoMPause, <1>DtoMDrop, <1>DtoMTime, <1>DtoMQueue, <1>DtoMCall, <1>Show, <1>PostMFrame, <1>PostMCall DEF Step1, Step2, Step3, Step4

LEMMA FlagsStep ==
    ASSUME PipeOK, FlagsOK, [Next]_vars
    PROVE  FlagsOK'
<1>Inject. ASSUME Inject PROVE FlagsOK'
  BY <1>Inject, RingSizeAssumption, SizesAssumption, DrainersAssumption DEF Inject, Collate, Send, pipe, procs, shared, play, counts, drain, FlagsOK, DSteps, Ended, Before, Marking, HasNumber, Stages
<1>InputExit. ASSUME InputExit PROVE FlagsOK'
  BY <1>InputExit, RingSizeAssumption, SizesAssumption, DrainersAssumption DEF InputExit, Collate, Send, pipe, procs, shared, play, counts, drain, FlagsOK, DSteps, Ended, Before, Marking, HasNumber, Stages
<1>SetPlaybackSpeed. ASSUME SetPlaybackSpeed PROVE FlagsOK'
  <2>1. pauses' \in 0 .. MaxPauses
    BY <1>SetPlaybackSpeed, SizesAssumption DEF SetPlaybackSpeed, FlagsOK
  <2>2. paused' \in BOOLEAN
    BY <1>SetPlaybackSpeed DEF SetPlaybackSpeed
  <2> QED
    BY <1>SetPlaybackSpeed, <2>1, <2>2 DEF SetPlaybackSpeed, FlagsOK, pipe, procs, shared, play, counts, drain
<1>CtoPTake. ASSUME CtoPTake PROVE FlagsOK'
  BY <1>CtoPTake, RingSizeAssumption, SizesAssumption, DrainersAssumption DEF CtoPTake, Receive, Takes, Numbered, Recognised, pipe, procs, shared, play, counts, drain, FlagsOK, DSteps, Ended, Before, Marking, HasNumber, Stages, PipeOK
<1>CtoPParse. ASSUME CtoPParse PROVE FlagsOK'
  BY <1>CtoPParse, RingSizeAssumption, SizesAssumption, DrainersAssumption DEF CtoPParse, Goto, Gives, Send, InHand, pipe, procs, shared, play, counts, drain, FlagsOK, DSteps, Ended, Before, Marking, HasNumber, Stages
<1>PtoDTake. ASSUME PtoDTake PROVE FlagsOK'
  BY <1>PtoDTake, RingSizeAssumption, SizesAssumption, DrainersAssumption DEF PtoDTake, Goto, Receive, Takes, ClearAtMarker, pipe, procs, shared, play, counts, drain, FlagsOK, DSteps, Ended, Before, Marking, HasNumber, Stages, ClearAtMarker
<1>PtoDCheck. ASSUME PtoDCheck PROVE FlagsOK'
  BY <1>PtoDCheck, RingSizeAssumption, SizesAssumption, DrainersAssumption DEF PtoDCheck, PtoDDiscard, Goto, Gives, pipe, procs, shared, play, counts, drain, FlagsOK, DSteps, Ended, Before, Marking, HasNumber, Stages
<1>PtoDWindow. ASSUME PtoDWindow PROVE FlagsOK'
  BY <1>PtoDWindow, RingSizeAssumption, SizesAssumption, DrainersAssumption DEF PtoDWindow, PtoDDiscard, Goto, Gives, pipe, procs, shared, play, counts, drain, FlagsOK, DSteps, Ended, Before, Marking, HasNumber, Stages
<1>PtoDDecode. ASSUME PtoDDecode PROVE FlagsOK'
  BY <1>PtoDDecode, RingSizeAssumption, SizesAssumption, DrainersAssumption DEF PtoDDecode, Goto, Gives, InHand, Waiting, pipe, procs, shared, play, counts, drain, FlagsOK, DSteps, Ended, Before, Marking, HasNumber, Stages
<1>DecodeCompletes. ASSUME DecodeCompletes PROVE FlagsOK'
  BY <1>DecodeCompletes, RingSizeAssumption, SizesAssumption, DrainersAssumption DEF DecodeCompletes, Send, pipe, procs, shared, play, counts, drain, FlagsOK, DSteps, Ended, Before, Marking, HasNumber, Stages
<1>MarkerPassesOn. ASSUME MarkerPassesOn PROVE FlagsOK'
  BY <1>MarkerPassesOn, RingSizeAssumption, SizesAssumption, DrainersAssumption DEF MarkerPassesOn, Send, pipe, procs, shared, play, counts, drain, FlagsOK, DSteps, Ended, Before, Marking, HasNumber, Stages
<1>DtoMMarker. ASSUME DtoMMarker PROVE FlagsOK'
  BY <1>DtoMMarker, RingSizeAssumption, SizesAssumption, DrainersAssumption DEF DtoMMarker, Goto, Pass, ProcessAccumulated, pipe, procs, shared, play, counts, drain, FlagsOK, DSteps, Ended, Before, Marking, HasNumber, Stages
<1>DtoMClear. ASSUME DtoMClear PROVE FlagsOK'
  BY <1>DtoMClear, RingSizeAssumption, SizesAssumption, DrainersAssumption DEF DtoMClear, Goto, pipe, procs, shared, play, counts, drain, FlagsOK, DSteps, Ended, Before, Marking, HasNumber, Stages
<1>DtoMTake. ASSUME DtoMTake PROVE FlagsOK'
  BY <1>DtoMTake, RingSizeAssumption, SizesAssumption, DrainersAssumption DEF DtoMTake, Goto, Receive, Takes, ProcessAccumulated, pipe, procs, shared, play, counts, drain, FlagsOK, DSteps, Ended, Before, Marking, HasNumber, Stages
<1>DtoMPause. ASSUME DtoMPause PROVE FlagsOK'
  BY <1>DtoMPause, RingSizeAssumption, SizesAssumption, DrainersAssumption DEF DtoMPause, Goto, pipe, procs, shared, play, counts, drain, FlagsOK, DSteps, Ended, Before, Marking, HasNumber, Stages
<1>DtoMDrop. ASSUME DtoMDrop PROVE FlagsOK'
  BY <1>DtoMDrop, RingSizeAssumption, SizesAssumption, DrainersAssumption DEF DtoMDrop, Goto, Gives, pipe, procs, shared, play, counts, drain, FlagsOK, DSteps, Ended, Before, Marking, HasNumber, Stages
<1>DtoMTime. ASSUME DtoMTime PROVE FlagsOK'
  BY <1>DtoMTime, RingSizeAssumption, SizesAssumption, DrainersAssumption DEF DtoMTime, Goto, pipe, procs, shared, play, counts, drain, FlagsOK, DSteps, Ended, Before, Marking, HasNumber, Stages
<1>DtoMQueue. ASSUME DtoMQueue PROVE FlagsOK'
  BY <1>DtoMQueue, RingSizeAssumption, SizesAssumption, DrainersAssumption DEF DtoMQueue, Goto, Gives, InHand, pipe, procs, shared, play, counts, drain, FlagsOK, DSteps, Ended, Before, Marking, HasNumber, Stages
<1>DtoMCall. ASSUME DtoMCall PROVE FlagsOK'
  BY <1>DtoMCall, RingSizeAssumption, SizesAssumption, DrainersAssumption DEF DtoMCall, Receive, pipe, procs, shared, play, counts, drain, FlagsOK, DSteps, Ended, Before, Marking, HasNumber, Stages
<1>Show. ASSUME Show PROVE FlagsOK'
  BY <1>Show, RingSizeAssumption, SizesAssumption, DrainersAssumption DEF Show, Send, pipe, procs, shared, play, counts, drain, FlagsOK, DSteps, Ended, Before, Marking, HasNumber, Stages
<1>PostMFrame. ASSUME PostMFrame PROVE FlagsOK'
  BY <1>PostMFrame, RingSizeAssumption, SizesAssumption, DrainersAssumption DEF PostMFrame, Receive, ClearAtMarker, ProcessAccumulated, pipe, procs, shared, play, counts, drain, FlagsOK, DSteps, Ended, Before, Marking, HasNumber, Stages
<1>PostMCall. ASSUME PostMCall PROVE FlagsOK'
  BY <1>PostMCall, RingSizeAssumption, SizesAssumption, DrainersAssumption DEF PostMCall, Receive, pipe, procs, shared, play, counts, drain, FlagsOK, DSteps, Ended, Before, Marking, HasNumber, Stages
<1>DrainStart. ASSUME NEW d \in Drainers, NEW p \in Policies, NEW b \in BOOLEAN, DrainStart(d, p, b) PROVE FlagsOK'
  <2>1. UnPlayable' \in BOOLEAN
    BY <1>DrainStart DEF DrainStart, FlagsOK
  <2>2. discarding' \in [Stages -> BOOLEAN]
    BY <1>DrainStart DEF DrainStart, SetFlags, FlagsOK
  <2>3. drains' \in 0 .. MaxDrains
    BY <1>DrainStart, SizesAssumption DEF DrainStart, FlagsOK
  <2>4. dpc' \in [Drainers -> DSteps]
    BY <1>DrainStart DEF DrainStart, FlagsOK, DSteps, Before
  <2>5. policy' \in [Drainers -> {"playout", "discard", "parseAll"}]
          /\ blocking' \in [Drainers -> BOOLEAN]
    BY <1>DrainStart, DrainersAssumption DEF DrainStart, FlagsOK
  <2>6. Drained' = Drained /\ BuffersComingOutOfManifestation' = BuffersComingOutOfManifestation
          /\ paused' = paused /\ Step' = Step /\ jump' = jump /\ frames' = frames /\ pauses' = pauses
          /\ overtaking' = overtaking
    BY <1>DrainStart DEF DrainStart, pipe, procs, shared, play, counts, drain
  <2> QED
    BY <2>1, <2>2, <2>3, <2>4, <2>5, <2>6 DEF FlagsOK
<1>DrainJump. ASSUME NEW d \in Drainers, DrainJump(d) PROVE FlagsOK'
  BY <1>DrainJump, RingSizeAssumption, SizesAssumption, DrainersAssumption DEF DrainJump, Then, Collate, Send, pipe, procs, shared, play, counts, drain, FlagsOK, DSteps, Ended, Before, Marking, HasNumber, Stages
<1>DrainFlush. ASSUME NEW d \in Drainers, DrainFlush(d) PROVE FlagsOK'
  BY <1>DrainFlush, RingSizeAssumption, SizesAssumption, DrainersAssumption DEF DrainFlush, Then, pipe, procs, shared, play, counts, drain, FlagsOK, DSteps, Ended, Before, Marking, HasNumber, Stages
<1>DrainRounds. ASSUME NEW d \in Drainers, DrainRounds(d) PROVE FlagsOK'
  BY <1>DrainRounds, RingSizeAssumption, SizesAssumption, DrainersAssumption DEF DrainRounds, Then, StartsWait, pipe, procs, shared, play, counts, drain, FlagsOK, DSteps, Ended, Before, Marking, HasNumber, Stages
<1>DrainGet. ASSUME NEW d \in Drainers, DrainGet(d) PROVE FlagsOK'
  BY <1>DrainGet, RingSizeAssumption, SizesAssumption, DrainersAssumption DEF DrainGet, Then, pipe, procs, shared, play, counts, drain, FlagsOK, DSteps, Ended, Before, Marking, HasNumber, Stages
<1>DrainNumber. ASSUME NEW d \in Drainers, DrainNumber(d) PROVE FlagsOK'
  BY <1>DrainNumber, RingSizeAssumption, SizesAssumption, DrainersAssumption DEF DrainNumber, Then, NumberAhead, pipe, procs, shared, play, counts, drain, FlagsOK, DSteps, Ended, Before, Marking, HasNumber, Stages
<1>DrainReset. ASSUME NEW d \in Drainers, DrainReset(d) PROVE FlagsOK'
  BY <1>DrainReset, RingSizeAssumption, SizesAssumption, DrainersAssumption DEF DrainReset, Then, pipe, procs, shared, play, counts, drain, FlagsOK, DSteps, Ended, Before, Marking, HasNumber, Stages
<1>DrainMark. ASSUME NEW d \in Drainers, DrainMark(d) PROVE FlagsOK'
  BY <1>DrainMark, RingSizeAssumption, SizesAssumption, DrainersAssumption DEF DrainMark, Then, pipe, procs, shared, play, counts, drain, FlagsOK, DSteps, Ended, Before, Marking, HasNumber, Stages
<1>DrainInsert. ASSUME NEW d \in Drainers, DrainInsert(d) PROVE FlagsOK'
  BY <1>DrainInsert, RingSizeAssumption, SizesAssumption, DrainersAssumption DEF DrainInsert, Then, Collate, Send, pipe, procs, shared, play, counts, drain, FlagsOK, DSteps, Ended, Before, Marking, HasNumber, Stages
<1>DrainCallReset. ASSUME NEW d \in Drainers, DrainCallReset(d) PROVE FlagsOK'
  BY <1>DrainCallReset, RingSizeAssumption, SizesAssumption, DrainersAssumption DEF DrainCallReset, Then, Send, pipe, procs, shared, play, counts, drain, FlagsOK, DSteps, Ended, Before, Marking, HasNumber, Stages
<1>DrainCallDrained. ASSUME NEW d \in Drainers, DrainCallDrained(d) PROVE FlagsOK'
  BY <1>DrainCallDrained, RingSizeAssumption, SizesAssumption, DrainersAssumption DEF DrainCallDrained, Then, Send, StartsWait, pipe, procs, shared, play, counts, drain, FlagsOK, DSteps, Ended, Before, Marking, HasNumber, Stages
<1>DrainSucceeds. ASSUME NEW d \in Drainers, DrainSucceeds(d) PROVE FlagsOK'
  BY <1>DrainSucceeds, RingSizeAssumption, SizesAssumption, DrainersAssumption DEF DrainSucceeds, Then, pipe, procs, shared, play, counts, drain, FlagsOK, DSteps, Ended, Before, Marking, HasNumber, Stages
<1>DrainTimesOut. ASSUME NEW d \in Drainers, DrainTimesOut(d) PROVE FlagsOK'
  BY <1>DrainTimesOut, RingSizeAssumption, SizesAssumption, DrainersAssumption DEF DrainTimesOut, StartsWait, pipe, procs, shared, play, counts, drain, FlagsOK, DSteps, Ended, Before, Marking, HasNumber, Stages
<1>stutter. ASSUME vars' = vars PROVE FlagsOK'
  BY <1>stutter, RingSizeAssumption, SizesAssumption, DrainersAssumption DEF vars, pipe, procs, shared, play, counts, drain, FlagsOK, DSteps, Ended, Before, Marking, HasNumber, Stages
<1>1. ASSUME NEW d \in Drainers, StepD(d) PROVE FlagsOK'
  BY <1>1, <1>DrainStart, <1>DrainJump, <1>DrainFlush, <1>DrainRounds, <1>DrainGet, <1>DrainNumber, <1>DrainReset, <1>DrainMark, <1>DrainInsert, <1>DrainCallReset, <1>DrainCallDrained, <1>DrainSucceeds, <1>DrainTimesOut DEF StepD
<1> QED
  BY StepCases, <1>1, <1>stutter, <1>Inject, <1>InputExit, <1>SetPlaybackSpeed, <1>CtoPTake, <1>CtoPParse, <1>PtoDTake, <1>PtoDCheck, <1>PtoDWindow, <1>PtoDDecode, <1>DecodeCompletes, <1>MarkerPassesOn, <1>DtoMMarker, <1>DtoMClear, <1>DtoMTake, <1>DtoMPause, <1>DtoMDrop, <1>DtoMTime, <1>DtoMQueue, <1>DtoMCall, <1>Show, <1>PostMFrame, <1>PostMCall DEF Step1, Step2, Step3, Step4

-----------------------------------------------------------------------------
(* The codec, the identities, and the type invariant *)

LEMMA DecodeAdds ==
    ASSUME PipeOK, DropsOK, PtoDDecode, InHand("PtoD") \in Item
    PROVE  DropsOK'
<1> DEFINE i == InHand("PtoD")
           n == Len(codec)
<1>1. codec \in Seq(Item) /\ n \in Nat /\ DOMAIN codec = 1 .. n
  BY DEF PipeOK
<1>2. dropping' = dropping /\ dropping \in Nat /\ dropping <= Prepared
  BY DEF PtoDDecode, DropsOK
<1>3. \A j, k \in Waiting : j = k
  BY DEF DropsOK
<1>4. CASE i.kind = "data"
  <2>1. codec' = Append(codec, i)
    BY <1>4 DEF PtoDDecode
  <2>2. DOMAIN codec' = 1 .. n + 1 /\ Len(codec') = n + 1 /\ codec'[n + 1] = i
          /\ \A k \in 1 .. n : codec'[k] = codec[k]
    <3> HIDE DEF i
    <3> QED BY <1>1, <2>1
  <2>3. Waiting' = Waiting
    BY <1>1, <1>4, <2>2 DEF Waiting
  <2>4. Prepared' = Prepared + 1 /\ Prepared \in Int
    BY <1>1, <2>2, <2>3 DEF Prepared
  <2> QED
    BY <1>2, <1>3, <2>3, <2>4 DEF DropsOK
<1>5. CASE i.kind # "data" /\ Waiting = {}
  <2>1. codec' = Append(codec, i)
    BY <1>5 DEF PtoDDecode
  <2>2. DOMAIN codec' = 1 .. n + 1 /\ Len(codec') = n + 1 /\ codec'[n + 1] = i
          /\ \A k \in 1 .. n : codec'[k] = codec[k]
    <3> HIDE DEF i
    <3> QED BY <1>1, <2>1
  <2>3. Waiting' = {n + 1}
    BY <1>1, <1>5, <2>2 DEF Waiting
  <2>4. Prepared' = n /\ Prepared = n
    <3>1. Waiting' # {}
      BY <2>3
    <3>2. Prepared' = Len(codec') - 1
      BY <3>1 DEF Prepared
    <3>3. Prepared = n
      BY <1>5 DEF Prepared
    <3> QED
      BY <1>1, <2>2, <3>2, <3>3
  <2> QED
    BY <1>2, <2>3, <2>4 DEF DropsOK
<1>6. CASE i.kind # "data" /\ Waiting # {}
  <2>1. PICK w \in Waiting : codec' = Append(Without(codec, w), i)
    BY <1>6 DEF PtoDDecode
  <2>2. w \in 1 .. n /\ w \in DOMAIN codec
    BY <1>1 DEF Waiting
  <2> DEFINE c == Without(codec, w)
  <2>3. c \in Seq(Item) /\ Len(c) = n - 1 /\ \A j \in 1 .. n - 1 : c[j] = codec[IF j < w THEN j ELSE j + 1]
    BY <1>1, <2>2, WithoutSeq
  <2>4. codec' = Append(c, i)
    BY <2>1
  <2> HIDE DEF c
  <2>5. DOMAIN codec' = 1 .. n /\ Len(codec') = n /\ codec'[n] = i
          /\ \A k \in 1 .. n - 1 : codec'[k] = c[k]
    <3>1. i \in Item
      OBVIOUS
    <3> HIDE DEF i
    <3>2. DOMAIN codec' = 1 .. Len(c) + 1 /\ Len(codec') = Len(c) + 1 /\ codec'[Len(c) + 1] = i
            /\ \A k \in 1 .. Len(c) : codec'[k] = c[k]
      BY <2>3, <2>4, <3>1
    <3>3. Len(c) = n - 1 /\ Len(c) + 1 = n
      BY <1>1, <2>3
    <3> QED BY <3>2, <3>3
  <2>6. \A j \in 1 .. n - 1 : c[j].kind = "data"
    <3>1. SUFFICES ASSUME NEW j \in 1 .. n - 1 PROVE c[j].kind = "data"
      OBVIOUS
    <3> DEFINE l == IF j < w THEN j ELSE j + 1
    <3>2. l \in 1 .. n /\ l # w /\ c[j] = codec[l]
      BY <1>1, <2>2, <2>3
    <3> HIDE DEF l
    <3>3. l \notin Waiting
      BY <1>3, <2>1, <3>2
    <3> QED
      BY <1>1, <3>2, <3>3 DEF Waiting
  <2>7. Waiting' = {n}
    BY <1>1, <1>6, <2>2, <2>5, <2>6 DEF Waiting
  <2>8. Prepared' = n - 1 /\ Prepared = n - 1
    BY <1>1, <1>6, <2>5, <2>7 DEF Prepared
  <2> QED
    BY <1>2, <2>7, <2>8 DEF DropsOK
<1> QED
  BY <1>4, <1>5, <1>6

LEMMA DecodeLeaves ==
    ASSUME PipeOK, DropsOK, DecodeCompletes \/ MarkerPassesOn
    PROVE  DropsOK'
<1> DEFINE n == Len(codec)
<1>1. codec \in Seq(Item) /\ n \in Nat /\ DOMAIN codec = 1 .. n /\ codec # <<>> /\ n > 0
        /\ codec' = Tail(codec) /\ Head(codec) = codec[1]
  BY DEF PipeOK, DecodeCompletes, MarkerPassesOn
<1>2. DOMAIN codec' = 1 .. n - 1 /\ Len(codec') = n - 1 /\ \A k \in 1 .. n - 1 : codec'[k] = codec[k + 1]
  BY <1>1
<1>3. \A j, k \in Waiting : j = k
  BY DEF DropsOK
<1>4. dropping \in Nat /\ dropping <= Prepared
  BY DEF DropsOK
<1>5. \A k \in 1 .. n - 1 : k \in Waiting' <=> k + 1 \in Waiting
  BY <1>1, <1>2 DEF Waiting
<1>6. Waiting' \subseteq 1 .. n - 1 /\ Waiting \subseteq 1 .. n
  BY <1>1, <1>2 DEF Waiting
<1>7. \A j, k \in Waiting' : j = k
  <2>1. SUFFICES ASSUME NEW j \in Waiting', NEW k \in Waiting' PROVE j = k
    OBVIOUS
  <2>2. j + 1 = k + 1 /\ j \in Int /\ k \in Int
    BY <1>3, <1>5, <1>6
  <2> QED
    BY <2>2
<1>8. CASE DecodeCompletes
  <2>1. 1 \notin Waiting
    BY <1>1, <1>8 DEF DecodeCompletes, Waiting
  <2>2. dropping' = IF dropping > 0 THEN dropping - 1 ELSE dropping
    BY <1>8 DEF DecodeCompletes
  <2>3. CASE Waiting = {}
    <3>1. Waiting' = {}
      BY <1>1, <1>5, <1>6, <2>3
    <3> QED
      BY <1>1, <1>2, <1>4, <1>7, <2>2, <2>3, <3>1 DEF DropsOK, Prepared
  <2>4. CASE Waiting # {}
    <3>1. PICK w \in Waiting : TRUE
      BY <2>4
    <3>2. w \in 2 .. n
      BY <1>1, <1>6, <2>1
    <3>3. w - 1 \in Waiting'
      BY <1>1, <1>5, <3>2
    <3>5. Waiting' # {}
      BY <3>3
    <3>6. Prepared' = Len(codec') - 1 /\ Prepared = n - 1
      BY <2>4, <3>5 DEF Prepared
    <3>4. Prepared = n - 1 /\ Prepared' = n - 2 /\ n >= 2
      BY <1>1, <1>2, <3>2, <3>6
    <3> QED
      BY <1>1, <1>4, <1>7, <2>2, <3>4 DEF DropsOK
  <2> QED
    BY <2>3, <2>4
<1>9. CASE MarkerPassesOn
  <2>1. 1 \in Waiting
    BY <1>1, <1>9 DEF MarkerPassesOn, Waiting
  <2>2. Waiting' = {}
    <3>1. SUFFICES ASSUME NEW k \in Waiting' PROVE FALSE
      OBVIOUS
    <3>2. k + 1 \in Waiting /\ k \in 1 .. n - 1
      BY <1>5, <1>6
    <3> QED
      BY <1>3, <2>1, <3>2
  <2>3. Prepared = n - 1 /\ Prepared' = n - 1 /\ dropping' = dropping
    BY <1>1, <1>2, <1>9, <2>1, <2>2 DEF Prepared, MarkerPassesOn
  <2> QED
    BY <1>4, <1>7, <2>3 DEF DropsOK
<1> QED
  BY <1>8, <1>9

LEMMA PreparedNat == PipeOK => Prepared \in Nat /\ Prepared <= Len(codec)
<1> SUFFICES ASSUME PipeOK PROVE Prepared \in Nat /\ Prepared <= Len(codec)
  OBVIOUS
<1>1. codec \in Seq(Item) /\ Len(codec) \in Nat /\ DOMAIN codec = 1 .. Len(codec)
  BY DEF PipeOK
<1>2. Waiting \subseteq 1 .. Len(codec)
  BY <1>1 DEF Waiting
<1>3. ASSUME NEW w \in Waiting PROVE Len(codec) > 0
  BY <1>1, <1>2
<1> QED
  BY <1>1, <1>3 DEF Prepared


LEMMA DropsStep ==
    ASSUME PipeOK, HandOK, DropsOK, [Next]_vars
    PROVE  DropsOK'
<1>Inject. ASSUME Inject PROVE DropsOK'
  BY <1>Inject DEF Inject, Collate, Send, pipe, procs, shared, play, counts, drain, DropsOK, Prepared, Waiting
<1>InputExit. ASSUME InputExit PROVE DropsOK'
  BY <1>InputExit DEF InputExit, Collate, Send, pipe, procs, shared, play, counts, drain, DropsOK, Prepared, Waiting
<1>SetPlaybackSpeed. ASSUME SetPlaybackSpeed PROVE DropsOK'
  BY <1>SetPlaybackSpeed DEF SetPlaybackSpeed, pipe, procs, shared, play, counts, drain, DropsOK, Prepared, Waiting
<1>CtoPTake. ASSUME CtoPTake PROVE DropsOK'
  BY <1>CtoPTake DEF CtoPTake, Receive, Takes, Numbered, Recognised, pipe, procs, shared, play, counts, drain, DropsOK, Prepared, Waiting
<1>CtoPParse. ASSUME CtoPParse PROVE DropsOK'
  BY <1>CtoPParse DEF CtoPParse, Goto, Gives, Send, InHand, pipe, procs, shared, play, counts, drain, DropsOK, Prepared, Waiting
<1>PtoDTake. ASSUME PtoDTake PROVE DropsOK'
  BY <1>PtoDTake DEF PtoDTake, Goto, Receive, Takes, ClearAtMarker, pipe, procs, shared, play, counts, drain, DropsOK, Prepared, Waiting
<1>PtoDCheck. ASSUME PtoDCheck PROVE DropsOK'
  BY <1>PtoDCheck DEF PtoDCheck, PtoDDiscard, Goto, Gives, pipe, procs, shared, play, counts, drain, DropsOK, Prepared, Waiting
<1>PtoDWindow. ASSUME PtoDWindow PROVE DropsOK'
  BY <1>PtoDWindow DEF PtoDWindow, PtoDDiscard, Goto, Gives, pipe, procs, shared, play, counts, drain, DropsOK, Prepared, Waiting
<1>PtoDDecode. ASSUME PtoDDecode PROVE DropsOK'
  BY <1>PtoDDecode, DecodeAdds, InHandTyped DEF PtoDDecode, Goto, Holds
<1>DecodeCompletes. ASSUME DecodeCompletes PROVE DropsOK'
  BY <1>DecodeCompletes, DecodeLeaves
<1>MarkerPassesOn. ASSUME MarkerPassesOn PROVE DropsOK'
  BY <1>MarkerPassesOn, DecodeLeaves
<1>DtoMMarker. ASSUME DtoMMarker PROVE DropsOK'
  BY <1>DtoMMarker DEF DtoMMarker, Goto, Pass, ProcessAccumulated, pipe, procs, shared, play, counts, drain, DropsOK, Prepared, Waiting
<1>DtoMClear. ASSUME DtoMClear PROVE DropsOK'
  BY <1>DtoMClear DEF DtoMClear, Goto, pipe, procs, shared, play, counts, drain, DropsOK, Prepared, Waiting
<1>DtoMTake. ASSUME DtoMTake PROVE DropsOK'
  BY <1>DtoMTake DEF DtoMTake, Goto, Receive, Takes, ProcessAccumulated, pipe, procs, shared, play, counts, drain, DropsOK, Prepared, Waiting
<1>DtoMPause. ASSUME DtoMPause PROVE DropsOK'
  BY <1>DtoMPause DEF DtoMPause, Goto, pipe, procs, shared, play, counts, drain, DropsOK, Prepared, Waiting
<1>DtoMDrop. ASSUME DtoMDrop PROVE DropsOK'
  BY <1>DtoMDrop DEF DtoMDrop, Goto, Gives, pipe, procs, shared, play, counts, drain, DropsOK, Prepared, Waiting
<1>DtoMTime. ASSUME DtoMTime PROVE DropsOK'
  BY <1>DtoMTime DEF DtoMTime, Goto, pipe, procs, shared, play, counts, drain, DropsOK, Prepared, Waiting
<1>DtoMQueue. ASSUME DtoMQueue PROVE DropsOK'
  BY <1>DtoMQueue DEF DtoMQueue, Goto, Gives, InHand, pipe, procs, shared, play, counts, drain, DropsOK, Prepared, Waiting
<1>DtoMCall. ASSUME DtoMCall PROVE DropsOK'
  BY <1>DtoMCall DEF DtoMCall, Receive, pipe, procs, shared, play, counts, drain, DropsOK, Prepared, Waiting
<1>Show. ASSUME Show PROVE DropsOK'
  BY <1>Show DEF Show, Send, pipe, procs, shared, play, counts, drain, DropsOK, Prepared, Waiting
<1>PostMFrame. ASSUME PostMFrame PROVE DropsOK'
  BY <1>PostMFrame DEF PostMFrame, Receive, ClearAtMarker, ProcessAccumulated, pipe, procs, shared, play, counts, drain, DropsOK, Prepared, Waiting
<1>PostMCall. ASSUME PostMCall PROVE DropsOK'
  BY <1>PostMCall DEF PostMCall, Receive, pipe, procs, shared, play, counts, drain, DropsOK, Prepared, Waiting
<1>DrainStart. ASSUME NEW d \in Drainers, NEW p \in Policies, NEW b \in BOOLEAN, DrainStart(d, p, b) PROVE DropsOK'
  BY <1>DrainStart DEF DrainStart, pipe, procs, shared, play, counts, drain, DropsOK, Prepared, Waiting
<1>DrainJump. ASSUME NEW d \in Drainers, DrainJump(d) PROVE DropsOK'
  BY <1>DrainJump DEF DrainJump, Then, Collate, Send, pipe, procs, shared, play, counts, drain, DropsOK, Prepared, Waiting
<1>DrainFlush. ASSUME NEW d \in Drainers, DrainFlush(d) PROVE DropsOK'
  BY <1>DrainFlush, PreparedNat DEF DrainFlush, DropsOK, Prepared, Waiting
<1>DrainRounds. ASSUME NEW d \in Drainers, DrainRounds(d) PROVE DropsOK'
  BY <1>DrainRounds DEF DrainRounds, Then, StartsWait, pipe, procs, shared, play, counts, drain, DropsOK, Prepared, Waiting
<1>DrainGet. ASSUME NEW d \in Drainers, DrainGet(d) PROVE DropsOK'
  BY <1>DrainGet DEF DrainGet, Then, pipe, procs, shared, play, counts, drain, DropsOK, Prepared, Waiting
<1>DrainNumber. ASSUME NEW d \in Drainers, DrainNumber(d) PROVE DropsOK'
  BY <1>DrainNumber DEF DrainNumber, Then, NumberAhead, pipe, procs, shared, play, counts, drain, DropsOK, Prepared, Waiting
<1>DrainReset. ASSUME NEW d \in Drainers, DrainReset(d) PROVE DropsOK'
  BY <1>DrainReset DEF DrainReset, Then, pipe, procs, shared, play, counts, drain, DropsOK, Prepared, Waiting
<1>DrainMark. ASSUME NEW d \in Drainers, DrainMark(d) PROVE DropsOK'
  BY <1>DrainMark DEF DrainMark, Then, pipe, procs, shared, play, counts, drain, DropsOK, Prepared, Waiting
<1>DrainInsert. ASSUME NEW d \in Drainers, DrainInsert(d) PROVE DropsOK'
  BY <1>DrainInsert DEF DrainInsert, Then, Collate, Send, pipe, procs, shared, play, counts, drain, DropsOK, Prepared, Waiting
<1>DrainCallReset. ASSUME NEW d \in Drainers, DrainCallReset(d) PROVE DropsOK'
  BY <1>DrainCallReset DEF DrainCallReset, Then, Send, pipe, procs, shared, play, counts, drain, DropsOK, Prepared, Waiting
<1>DrainCallDrained. ASSUME NEW d \in Drainers, DrainCallDrained(d) PROVE DropsOK'
  BY <1>DrainCallDrained DEF DrainCallDrained, Then, Send, StartsWait, pipe, procs, shared, play, counts, drain, DropsOK, Prepared, Waiting
<1>DrainSucceeds. ASSUME NEW d \in Drainers, DrainSucceeds(d) PROVE DropsOK'
  BY <1>DrainSucceeds DEF DrainSucceeds, Then, pipe, procs, shared, play, counts, drain, DropsOK, Prepared, Waiting
<1>DrainTimesOut. ASSUME NEW d \in Drainers, DrainTimesOut(d) PROVE DropsOK'
  BY <1>DrainTimesOut DEF DrainTimesOut, StartsWait, pipe, procs, shared, play, counts, drain, DropsOK, Prepared, Waiting
<1>stutter. ASSUME vars' = vars PROVE DropsOK'
  BY <1>stutter DEF vars, pipe, procs, shared, play, counts, drain, DropsOK, Prepared, Waiting
<1>1. ASSUME NEW d \in Drainers, StepD(d) PROVE DropsOK'
  BY <1>1, <1>DrainStart, <1>DrainJump, <1>DrainFlush, <1>DrainRounds, <1>DrainGet, <1>DrainNumber, <1>DrainReset, <1>DrainMark, <1>DrainInsert, <1>DrainCallReset, <1>DrainCallDrained, <1>DrainSucceeds, <1>DrainTimesOut DEF StepD
<1> QED
  BY StepCases, <1>1, <1>stutter, <1>Inject, <1>InputExit, <1>SetPlaybackSpeed, <1>CtoPTake, <1>CtoPParse, <1>PtoDTake, <1>PtoDCheck, <1>PtoDWindow, <1>PtoDDecode, <1>DecodeCompletes, <1>MarkerPassesOn, <1>DtoMMarker, <1>DtoMClear, <1>DtoMTake, <1>DtoMPause, <1>DtoMDrop, <1>DtoMTime, <1>DtoMQueue, <1>DtoMCall, <1>Show, <1>PostMFrame, <1>PostMCall DEF Step1, Step2, Step3, Step4

One(P) == IF P THEN 1 ELSE 0
At(P)  == {d \in Drainers : dpc[d] \in P}

LEMMA AtNat == ASSUME NEW P PROVE IsFiniteSet(At(P)) /\ Cardinality(At(P)) \in Nat
<1>1. At(P) \subseteq Drainers
  BY DEF At
<1> QED
  BY <1>1, DrainersAssumption, FS_Subset, FS_CardinalityType

LEMMA AtMoved ==
    ASSUME NEW P, NEW d \in Drainers, NEW t, dpc \in [Drainers -> DSteps],
           dpc' = [dpc EXCEPT ![d] = t]
    PROVE  Cardinality(At(P)') = Cardinality(At(P)) - One(dpc[d] \in P) + One(t \in P)
<1> DEFINE R == At(P) \ {d}
<1>1. IsFiniteSet(R) /\ d \notin R /\ Cardinality(R) \in Nat
  BY AtNat, FS_Subset, FS_CardinalityType
<1>2. Cardinality(R \cup {d}) = Cardinality(R) + 1
  BY <1>1, FS_AddElement
<1>3. At(P) = IF dpc[d] \in P THEN R \cup {d} ELSE R
  BY DEF At
<1>4. At(P)' = IF t \in P THEN R \cup {d} ELSE R
  BY DEF At
<1> HIDE DEF R
<1> QED
  BY <1>1, <1>2, <1>3, <1>4 DEF One

IdsOK ==
    /\ nextId \in Nat \ {0}
    /\ nextId - 1 + One(jump) + Cardinality(At({"jump"})) + Cardinality(At(Before))
         <= frames + 2 * drains

LEMMA IdsStep ==
    ASSUME FlagsOK, IdsOK, [Next]_vars
    PROVE  IdsOK'
<1>Inject. ASSUME Inject PROVE IdsOK'
  <2>1. Cardinality(At({"jump"})) \in Nat /\ Cardinality(At(Before)) \in Nat
    BY AtNat
  <2>2. One(jump) \in 0 .. 1 /\ frames \in Nat /\ drains \in Nat /\ nextId \in Nat \ {0}
    BY DEF One, IdsOK, FlagsOK
  <2>3. dpc' = dpc /\ nextId' = nextId + 1 /\ frames' = frames + 1 /\ drains' = drains /\ jump' = jump
    BY <1>Inject DEF Inject, Collate, drain
  <2>4. At({"jump"})' = At({"jump"}) /\ At(Before)' = At(Before)
    BY <2>3 DEF At
  <2>5. Cardinality(At({"jump"})') = Cardinality(At({"jump"})) /\ Cardinality(At(Before)') = Cardinality(At(Before))
    BY <2>4
  <2> QED
    BY <2>1, <2>2, <2>3, <2>5 DEF IdsOK
<1>InputExit. ASSUME InputExit PROVE IdsOK'
  <2>1. Cardinality(At({"jump"})) \in Nat /\ Cardinality(At(Before)) \in Nat
    BY AtNat
  <2>2. One(jump) \in 0 .. 1 /\ frames \in Nat /\ drains \in Nat /\ nextId \in Nat \ {0}
    BY DEF One, IdsOK, FlagsOK
  <2>3. dpc' = dpc /\ nextId' = nextId + 1 /\ frames' = frames /\ drains' = drains
    BY <1>InputExit DEF InputExit, Collate, drain
  <2>4. At({"jump"})' = At({"jump"}) /\ At(Before)' = At(Before)
    BY <2>3 DEF At
  <2>5. One(jump') = 0 /\ One(jump) = 1
    BY <1>InputExit DEF InputExit, One
  <2>6. Cardinality(At({"jump"})') = Cardinality(At({"jump"})) /\ Cardinality(At(Before)') = Cardinality(At(Before))
    BY <2>4
  <2> QED
    BY <2>1, <2>2, <2>3, <2>5, <2>6 DEF IdsOK
<1>SetPlaybackSpeed. ASSUME SetPlaybackSpeed PROVE IdsOK'
  BY <1>SetPlaybackSpeed DEF SetPlaybackSpeed, pipe, procs, shared, play, counts, drain, IdsOK, At
<1>CtoPTake. ASSUME CtoPTake PROVE IdsOK'
  BY <1>CtoPTake DEF CtoPTake, Receive, Takes, Numbered, Recognised, pipe, procs, shared, play, counts, drain, IdsOK, At
<1>CtoPParse. ASSUME CtoPParse PROVE IdsOK'
  BY <1>CtoPParse DEF CtoPParse, Goto, Gives, Send, InHand, pipe, procs, shared, play, counts, drain, IdsOK, At
<1>PtoDTake. ASSUME PtoDTake PROVE IdsOK'
  BY <1>PtoDTake DEF PtoDTake, Goto, Receive, Takes, ClearAtMarker, pipe, procs, shared, play, counts, drain, IdsOK, At
<1>PtoDCheck. ASSUME PtoDCheck PROVE IdsOK'
  BY <1>PtoDCheck DEF PtoDCheck, PtoDDiscard, Goto, Gives, pipe, procs, shared, play, counts, drain, IdsOK, At
<1>PtoDWindow. ASSUME PtoDWindow PROVE IdsOK'
  BY <1>PtoDWindow DEF PtoDWindow, PtoDDiscard, Goto, Gives, pipe, procs, shared, play, counts, drain, IdsOK, At
<1>PtoDDecode. ASSUME PtoDDecode PROVE IdsOK'
  BY <1>PtoDDecode DEF PtoDDecode, Goto, Gives, InHand, Waiting, pipe, procs, shared, play, counts, drain, IdsOK, At
<1>DecodeCompletes. ASSUME DecodeCompletes PROVE IdsOK'
  BY <1>DecodeCompletes DEF DecodeCompletes, Send, pipe, procs, shared, play, counts, drain, IdsOK, At
<1>MarkerPassesOn. ASSUME MarkerPassesOn PROVE IdsOK'
  BY <1>MarkerPassesOn DEF MarkerPassesOn, Send, pipe, procs, shared, play, counts, drain, IdsOK, At
<1>DtoMMarker. ASSUME DtoMMarker PROVE IdsOK'
  BY <1>DtoMMarker DEF DtoMMarker, Goto, Pass, ProcessAccumulated, pipe, procs, shared, play, counts, drain, IdsOK, At
<1>DtoMClear. ASSUME DtoMClear PROVE IdsOK'
  BY <1>DtoMClear DEF DtoMClear, Goto, pipe, procs, shared, play, counts, drain, IdsOK, At
<1>DtoMTake. ASSUME DtoMTake PROVE IdsOK'
  BY <1>DtoMTake DEF DtoMTake, Goto, Receive, Takes, ProcessAccumulated, pipe, procs, shared, play, counts, drain, IdsOK, At
<1>DtoMPause. ASSUME DtoMPause PROVE IdsOK'
  BY <1>DtoMPause DEF DtoMPause, Goto, pipe, procs, shared, play, counts, drain, IdsOK, At
<1>DtoMDrop. ASSUME DtoMDrop PROVE IdsOK'
  BY <1>DtoMDrop DEF DtoMDrop, Goto, Gives, pipe, procs, shared, play, counts, drain, IdsOK, At
<1>DtoMTime. ASSUME DtoMTime PROVE IdsOK'
  BY <1>DtoMTime DEF DtoMTime, Goto, pipe, procs, shared, play, counts, drain, IdsOK, At
<1>DtoMQueue. ASSUME DtoMQueue PROVE IdsOK'
  BY <1>DtoMQueue DEF DtoMQueue, Goto, Gives, InHand, pipe, procs, shared, play, counts, drain, IdsOK, At
<1>DtoMCall. ASSUME DtoMCall PROVE IdsOK'
  BY <1>DtoMCall DEF DtoMCall, Receive, pipe, procs, shared, play, counts, drain, IdsOK, At
<1>Show. ASSUME Show PROVE IdsOK'
  BY <1>Show DEF Show, Send, pipe, procs, shared, play, counts, drain, IdsOK, At
<1>PostMFrame. ASSUME PostMFrame PROVE IdsOK'
  BY <1>PostMFrame DEF PostMFrame, Receive, ClearAtMarker, ProcessAccumulated, pipe, procs, shared, play, counts, drain, IdsOK, At
<1>PostMCall. ASSUME PostMCall PROVE IdsOK'
  BY <1>PostMCall DEF PostMCall, Receive, pipe, procs, shared, play, counts, drain, IdsOK, At
<1>DrainStart. ASSUME NEW d \in Drainers, NEW p \in Policies, NEW b \in BOOLEAN, DrainStart(d, p, b) PROVE IdsOK'
  <2>1. Cardinality(At({"jump"})) \in Nat /\ Cardinality(At(Before)) \in Nat
    BY AtNat
  <2>2. One(jump) \in 0 .. 1 /\ frames \in Nat /\ drains \in Nat /\ nextId \in Nat \ {0}
    BY DEF One, IdsOK, FlagsOK
  <2>3. PICK t : t \in {"rounds", "jump"} /\ dpc' = [dpc EXCEPT ![d] = t]
    BY <1>DrainStart DEF DrainStart
  <2>4. dpc[d] \in Ended
    BY <1>DrainStart DEF DrainStart
  <2>5. Cardinality(At({"jump"})') = Cardinality(At({"jump"})) - One(dpc[d] \in {"jump"}) + One(t \in {"jump"})
          /\ Cardinality(At(Before)') = Cardinality(At(Before)) - One(dpc[d] \in Before) + One(t \in Before)
    BY <2>3, AtMoved DEF FlagsOK
  <2>6. Cardinality(At({"jump"})') <= Cardinality(At({"jump"})) + 1
          /\ Cardinality(At(Before)') = Cardinality(At(Before)) + 1
          /\ Cardinality(At({"jump"})') \in Int
    BY <2>1, <2>3, <2>4, <2>5 DEF One, Before, Marking, HasNumber, Ended
  <2>7. drains' = drains + 1 /\ frames' = frames /\ jump' = jump /\ nextId' = nextId
    BY <1>DrainStart DEF DrainStart
  <2> QED
    BY <2>1, <2>2, <2>6, <2>7 DEF IdsOK
<1>DrainJump. ASSUME NEW d \in Drainers, DrainJump(d) PROVE IdsOK'
  <2>1. Cardinality(At({"jump"})) \in Nat /\ Cardinality(At(Before)) \in Nat
    BY AtNat
  <2>2. One(jump) \in 0 .. 1 /\ frames \in Nat /\ drains \in Nat /\ nextId \in Nat \ {0}
    BY DEF One, IdsOK, FlagsOK
  <2>3. dpc[d] = "jump" /\ dpc' = [dpc EXCEPT ![d] = "flush"]
    BY <1>DrainJump DEF DrainJump, Then
  <2>4. Cardinality(At({"jump"})') = Cardinality(At({"jump"})) - One(dpc[d] \in {"jump"}) + One("flush" \in {"jump"})
          /\ Cardinality(At(Before)') = Cardinality(At(Before)) - One(dpc[d] \in Before) + One("flush" \in Before)
    BY <2>3, AtMoved DEF FlagsOK
  <2>5. Cardinality(At({"jump"})') = Cardinality(At({"jump"})) - 1 + 0
          /\ Cardinality(At(Before)') = Cardinality(At(Before)) - 1 + 1
    BY <2>3, <2>4 DEF One, Before, Marking, HasNumber
  <2>6. nextId' + One(jump') <= nextId + One(jump) + 1 /\ nextId' \in Nat \ {0} /\ One(jump') \in 0 .. 1
    BY <1>DrainJump, <2>2 DEF DrainJump, Collate, One
  <2>7. frames' = frames /\ drains' = drains
    BY <1>DrainJump DEF DrainJump
  <2> QED
    BY <2>1, <2>2, <2>5, <2>6, <2>7 DEF IdsOK
<1>DrainFlush. ASSUME NEW d \in Drainers, DrainFlush(d) PROVE IdsOK'
  <2>1. Cardinality(At({"jump"})) \in Nat /\ Cardinality(At(Before)) \in Nat
    BY AtNat
  <2>2. One(jump) \in 0 .. 1 /\ frames \in Nat /\ drains \in Nat /\ nextId \in Nat \ {0}
    BY DEF One, IdsOK, FlagsOK
  <2>3. dpc[d] = "flush" /\ dpc' = [dpc EXCEPT ![d] = "rounds"]
    BY <1>DrainFlush DEF DrainFlush, Then
  <2>4. Cardinality(At({"jump"})') = Cardinality(At({"jump"})) - One(dpc[d] \in {"jump"}) + One("rounds" \in {"jump"})
          /\ Cardinality(At(Before)') = Cardinality(At(Before)) - One(dpc[d] \in Before) + One("rounds" \in Before)
    BY <2>3, AtMoved DEF FlagsOK
  <2>5. Cardinality(At({"jump"})') = Cardinality(At({"jump"})) - 0 + 0
          /\ Cardinality(At(Before)') = Cardinality(At(Before)) - 1 + 1
    BY <2>3, <2>4 DEF One, Before, Marking, HasNumber
  <2> QED
    BY <1>DrainFlush, <2>1, <2>2, <2>5 DEF DrainFlush, IdsOK, pipe, procs, shared, play, counts, drain
<1>DrainRounds. ASSUME NEW d \in Drainers, DrainRounds(d) PROVE IdsOK'
  <2>1. Cardinality(At({"jump"})) \in Nat /\ Cardinality(At(Before)) \in Nat
    BY AtNat
  <2>2. One(jump) \in 0 .. 1 /\ frames \in Nat /\ drains \in Nat /\ nextId \in Nat \ {0}
    BY DEF One, IdsOK, FlagsOK
  <2>3. PICK t : t \in {"get", "waitRounds"} /\ dpc' = [dpc EXCEPT ![d] = t]
    BY <1>DrainRounds DEF DrainRounds, Then
  <2>4. dpc[d] \in {"rounds"}
    BY <1>DrainRounds DEF DrainRounds, Then
  <2>5. Cardinality(At({"jump"})') = Cardinality(At({"jump"})) - One(dpc[d] \in {"jump"}) + One(t \in {"jump"})
          /\ Cardinality(At(Before)') = Cardinality(At(Before)) - One(dpc[d] \in Before) + One(t \in Before)
    BY <2>3, AtMoved DEF FlagsOK
  <2>6. Cardinality(At({"jump"})') = Cardinality(At({"jump"}))
          /\ Cardinality(At(Before)') = Cardinality(At(Before))
          /\ Cardinality(At({"jump"})') \in Nat /\ Cardinality(At(Before)') \in Nat
    BY <2>1, <2>3, <2>4, <2>5 DEF One, Before, Marking, HasNumber, Ended
  <2> QED
    BY <1>DrainRounds, <2>1, <2>2, <2>6 DEF DrainRounds, StartsWait, IdsOK, pipe, procs, shared, play, counts, drain
<1>DrainGet. ASSUME NEW d \in Drainers, DrainGet(d) PROVE IdsOK'
  <2>1. Cardinality(At({"jump"})) \in Nat /\ Cardinality(At(Before)) \in Nat
    BY AtNat
  <2>2. One(jump) \in 0 .. 1 /\ frames \in Nat /\ drains \in Nat /\ nextId \in Nat \ {0}
    BY DEF One, IdsOK, FlagsOK
  <2>3. dpc[d] = "get" /\ dpc' = [dpc EXCEPT ![d] = "number"]
    BY <1>DrainGet DEF DrainGet, Then
  <2>4. Cardinality(At({"jump"})') = Cardinality(At({"jump"})) - One(dpc[d] \in {"jump"}) + One("number" \in {"jump"})
          /\ Cardinality(At(Before)') = Cardinality(At(Before)) - One(dpc[d] \in Before) + One("number" \in Before)
    BY <2>3, AtMoved DEF FlagsOK
  <2>5. Cardinality(At({"jump"})') = Cardinality(At({"jump"})) - 0 + 0
          /\ Cardinality(At(Before)') = Cardinality(At(Before)) - 1 + 1
    BY <2>3, <2>4 DEF One, Before, Marking, HasNumber
  <2> QED
    BY <1>DrainGet, <2>1, <2>2, <2>5 DEF DrainGet, IdsOK, pipe, procs, shared, play, counts, drain
<1>DrainNumber. ASSUME NEW d \in Drainers, DrainNumber(d) PROVE IdsOK'
  <2>1. Cardinality(At({"jump"})) \in Nat /\ Cardinality(At(Before)) \in Nat
    BY AtNat
  <2>2. One(jump) \in 0 .. 1 /\ frames \in Nat /\ drains \in Nat /\ nextId \in Nat \ {0}
    BY DEF One, IdsOK, FlagsOK
  <2>3. dpc[d] = "number" /\ dpc' = [dpc EXCEPT ![d] = "resetEvent"]
    BY <1>DrainNumber DEF DrainNumber, Then
  <2>4. Cardinality(At({"jump"})') = Cardinality(At({"jump"})) - One(dpc[d] \in {"jump"}) + One("resetEvent" \in {"jump"})
          /\ Cardinality(At(Before)') = Cardinality(At(Before)) - One(dpc[d] \in Before) + One("resetEvent" \in Before)
    BY <2>3, AtMoved DEF FlagsOK
  <2>5. Cardinality(At({"jump"})') = Cardinality(At({"jump"})) - 0 + 0
          /\ Cardinality(At(Before)') = Cardinality(At(Before)) - 1 + 1
    BY <2>3, <2>4 DEF One, Before, Marking, HasNumber
  <2> QED
    BY <1>DrainNumber, <2>1, <2>2, <2>5 DEF DrainNumber, IdsOK, pipe, procs, shared, play, counts, drain
<1>DrainReset. ASSUME NEW d \in Drainers, DrainReset(d) PROVE IdsOK'
  <2>1. Cardinality(At({"jump"})) \in Nat /\ Cardinality(At(Before)) \in Nat
    BY AtNat
  <2>2. One(jump) \in 0 .. 1 /\ frames \in Nat /\ drains \in Nat /\ nextId \in Nat \ {0}
    BY DEF One, IdsOK, FlagsOK
  <2>3. dpc[d] = "resetEvent" /\ dpc' = [dpc EXCEPT ![d] = "mark"]
    BY <1>DrainReset DEF DrainReset, Then
  <2>4. Cardinality(At({"jump"})') = Cardinality(At({"jump"})) - One(dpc[d] \in {"jump"}) + One("mark" \in {"jump"})
          /\ Cardinality(At(Before)') = Cardinality(At(Before)) - One(dpc[d] \in Before) + One("mark" \in Before)
    BY <2>3, AtMoved DEF FlagsOK
  <2>5. Cardinality(At({"jump"})') = Cardinality(At({"jump"})) - 0 + 0
          /\ Cardinality(At(Before)') = Cardinality(At(Before)) - 1 + 1
    BY <2>3, <2>4 DEF One, Before, Marking, HasNumber
  <2> QED
    BY <1>DrainReset, <2>1, <2>2, <2>5 DEF DrainReset, IdsOK, pipe, procs, shared, play, counts, drain
<1>DrainMark. ASSUME NEW d \in Drainers, DrainMark(d) PROVE IdsOK'
  <2>1. Cardinality(At({"jump"})) \in Nat /\ Cardinality(At(Before)) \in Nat
    BY AtNat
  <2>2. One(jump) \in 0 .. 1 /\ frames \in Nat /\ drains \in Nat /\ nextId \in Nat \ {0}
    BY DEF One, IdsOK, FlagsOK
  <2>3. dpc[d] = "mark" /\ dpc' = [dpc EXCEPT ![d] = "insert"]
    BY <1>DrainMark DEF DrainMark, Then
  <2>4. Cardinality(At({"jump"})') = Cardinality(At({"jump"})) - One(dpc[d] \in {"jump"}) + One("insert" \in {"jump"})
          /\ Cardinality(At(Before)') = Cardinality(At(Before)) - One(dpc[d] \in Before) + One("insert" \in Before)
    BY <2>3, AtMoved DEF FlagsOK
  <2>5. Cardinality(At({"jump"})') = Cardinality(At({"jump"})) - 0 + 0
          /\ Cardinality(At(Before)') = Cardinality(At(Before)) - 1 + 1
    BY <2>3, <2>4 DEF One, Before, Marking, HasNumber
  <2> QED
    BY <1>DrainMark, <2>1, <2>2, <2>5 DEF DrainMark, IdsOK, pipe, procs, shared, play, counts, drain
<1>DrainInsert. ASSUME NEW d \in Drainers, DrainInsert(d) PROVE IdsOK'
  <2>1. Cardinality(At({"jump"})) \in Nat /\ Cardinality(At(Before)) \in Nat
    BY AtNat
  <2>2. One(jump) \in 0 .. 1 /\ frames \in Nat /\ drains \in Nat /\ nextId \in Nat \ {0}
    BY DEF One, IdsOK, FlagsOK
  <2>3. dpc[d] = "insert" /\ dpc' = [dpc EXCEPT ![d] = "callReset"]
    BY <1>DrainInsert DEF DrainInsert, Then
  <2>4. Cardinality(At({"jump"})') = Cardinality(At({"jump"})) - One(dpc[d] \in {"jump"}) + One("callReset" \in {"jump"})
          /\ Cardinality(At(Before)') = Cardinality(At(Before)) - One(dpc[d] \in Before) + One("callReset" \in Before)
    BY <2>3, AtMoved DEF FlagsOK
  <2>5. Cardinality(At({"jump"})') = Cardinality(At({"jump"})) - 0 + 0
          /\ Cardinality(At(Before)') = Cardinality(At(Before)) - 1 + 0
    BY <2>3, <2>4 DEF One, Before, Marking, HasNumber
  <2> QED
    BY <1>DrainInsert, <2>1, <2>2, <2>5 DEF DrainInsert, Collate, IdsOK, pipe, procs, shared, play, counts, drain
<1>DrainCallReset. ASSUME NEW d \in Drainers, DrainCallReset(d) PROVE IdsOK'
  <2>1. Cardinality(At({"jump"})) \in Nat /\ Cardinality(At(Before)) \in Nat
    BY AtNat
  <2>2. One(jump) \in 0 .. 1 /\ frames \in Nat /\ drains \in Nat /\ nextId \in Nat \ {0}
    BY DEF One, IdsOK, FlagsOK
  <2>3. dpc[d] = "callReset" /\ dpc' = [dpc EXCEPT ![d] = "callDrained"]
    BY <1>DrainCallReset DEF DrainCallReset, Then
  <2>4. Cardinality(At({"jump"})') = Cardinality(At({"jump"})) - One(dpc[d] \in {"jump"}) + One("callDrained" \in {"jump"})
          /\ Cardinality(At(Before)') = Cardinality(At(Before)) - One(dpc[d] \in Before) + One("callDrained" \in Before)
    BY <2>3, AtMoved DEF FlagsOK
  <2>5. Cardinality(At({"jump"})') = Cardinality(At({"jump"})) - 0 + 0
          /\ Cardinality(At(Before)') = Cardinality(At(Before)) - 0 + 0
    BY <2>3, <2>4 DEF One, Before, Marking, HasNumber
  <2> QED
    BY <1>DrainCallReset, <2>1, <2>2, <2>5 DEF DrainCallReset, IdsOK, pipe, procs, shared, play, counts, drain
<1>DrainCallDrained. ASSUME NEW d \in Drainers, DrainCallDrained(d) PROVE IdsOK'
  <2>1. Cardinality(At({"jump"})) \in Nat /\ Cardinality(At(Before)) \in Nat
    BY AtNat
  <2>2. One(jump) \in 0 .. 1 /\ frames \in Nat /\ drains \in Nat /\ nextId \in Nat \ {0}
    BY DEF One, IdsOK, FlagsOK
  <2>3. PICK t : t \in {"wait", "launched"} /\ dpc' = [dpc EXCEPT ![d] = t]
    BY <1>DrainCallDrained DEF DrainCallDrained, Then
  <2>4. dpc[d] \in {"callDrained"}
    BY <1>DrainCallDrained DEF DrainCallDrained, Then
  <2>5. Cardinality(At({"jump"})') = Cardinality(At({"jump"})) - One(dpc[d] \in {"jump"}) + One(t \in {"jump"})
          /\ Cardinality(At(Before)') = Cardinality(At(Before)) - One(dpc[d] \in Before) + One(t \in Before)
    BY <2>3, AtMoved DEF FlagsOK
  <2>6. Cardinality(At({"jump"})') = Cardinality(At({"jump"}))
          /\ Cardinality(At(Before)') = Cardinality(At(Before))
          /\ Cardinality(At({"jump"})') \in Nat /\ Cardinality(At(Before)') \in Nat
    BY <2>1, <2>3, <2>4, <2>5 DEF One, Before, Marking, HasNumber, Ended
  <2> QED
    BY <1>DrainCallDrained, <2>1, <2>2, <2>6 DEF DrainCallDrained, StartsWait, IdsOK, pipe, procs, shared, play, counts, drain
<1>DrainSucceeds. ASSUME NEW d \in Drainers, DrainSucceeds(d) PROVE IdsOK'
  <2>1. Cardinality(At({"jump"})) \in Nat /\ Cardinality(At(Before)) \in Nat
    BY AtNat
  <2>2. One(jump) \in 0 .. 1 /\ frames \in Nat /\ drains \in Nat /\ nextId \in Nat \ {0}
    BY DEF One, IdsOK, FlagsOK
  <2>a. CASE Then(d, "waitRounds", "get")
    <3>3. dpc[d] = "waitRounds" /\ dpc' = [dpc EXCEPT ![d] = "get"]
      BY <2>a DEF Then
    <3>4. Cardinality(At({"jump"})') = Cardinality(At({"jump"})) - One(dpc[d] \in {"jump"}) + One("get" \in {"jump"})
            /\ Cardinality(At(Before)') = Cardinality(At(Before)) - One(dpc[d] \in Before) + One("get" \in Before)
      BY <3>3, AtMoved DEF FlagsOK
    <3>5. Cardinality(At({"jump"})') = Cardinality(At({"jump"})) /\ Cardinality(At(Before)') = Cardinality(At(Before))
      BY <2>1, <3>3, <3>4 DEF One, Before, Marking, HasNumber
    <3> QED
      BY <1>DrainSucceeds, <2>1, <2>2, <3>5 DEF DrainSucceeds, IdsOK, pipe, procs, shared, play, counts, drain
  <2>b. CASE Then(d, "wait", "drained")
    <3>3. dpc[d] = "wait" /\ dpc' = [dpc EXCEPT ![d] = "drained"]
      BY <2>b DEF Then
    <3>4. Cardinality(At({"jump"})') = Cardinality(At({"jump"})) - One(dpc[d] \in {"jump"}) + One("drained" \in {"jump"})
            /\ Cardinality(At(Before)') = Cardinality(At(Before)) - One(dpc[d] \in Before) + One("drained" \in Before)
      BY <3>3, AtMoved DEF FlagsOK
    <3>5. Cardinality(At({"jump"})') = Cardinality(At({"jump"})) /\ Cardinality(At(Before)') = Cardinality(At(Before))
      BY <2>1, <3>3, <3>4 DEF One, Before, Marking, HasNumber
    <3> QED
      BY <1>DrainSucceeds, <2>1, <2>2, <3>5 DEF DrainSucceeds, IdsOK, pipe, procs, shared, play, counts, drain
  <2> QED
    BY <1>DrainSucceeds, <2>a, <2>b DEF DrainSucceeds
<1>DrainTimesOut. ASSUME NEW d \in Drainers, DrainTimesOut(d) PROVE IdsOK'
  <2>1. Cardinality(At({"jump"})) \in Nat /\ Cardinality(At(Before)) \in Nat
    BY AtNat
  <2>2. One(jump) \in 0 .. 1 /\ frames \in Nat /\ drains \in Nat /\ nextId \in Nat \ {0}
    BY DEF One, IdsOK, FlagsOK
  <2>a. CASE dpc' = dpc
    BY <1>DrainTimesOut, <2>a DEF DrainTimesOut, At, IdsOK, pipe, procs, shared, play, counts, drain
  <2>b. CASE dpc' # dpc
    <3>3. PICK t : t \in {"late", "unset"} /\ dpc' = [dpc EXCEPT ![d] = t]
      BY <1>DrainTimesOut, <2>b DEF DrainTimesOut
    <3>4. dpc[d] \in {"waitRounds", "wait"}
      BY <1>DrainTimesOut DEF DrainTimesOut
    <3>5. Cardinality(At({"jump"})') = Cardinality(At({"jump"})) - One(dpc[d] \in {"jump"}) + One(t \in {"jump"})
            /\ Cardinality(At(Before)') = Cardinality(At(Before)) - One(dpc[d] \in Before) + One(t \in Before)
      BY <3>3, AtMoved DEF FlagsOK
    <3>6. Cardinality(At({"jump"})') = Cardinality(At({"jump"})) /\ Cardinality(At(Before)') <= Cardinality(At(Before))
            /\ Cardinality(At(Before)') \in Int
      BY <2>1, <3>3, <3>4, <3>5 DEF One, Before, Marking, HasNumber
    <3> QED
      BY <1>DrainTimesOut, <2>1, <2>2, <3>6 DEF DrainTimesOut, IdsOK, pipe, procs, shared, play, counts, drain
  <2> QED
    BY <2>a, <2>b
<1>stutter. ASSUME vars' = vars PROVE IdsOK'
  BY <1>stutter DEF vars, pipe, procs, shared, play, counts, drain, IdsOK, At
<1>1. ASSUME NEW d \in Drainers, StepD(d) PROVE IdsOK'
  BY <1>1, <1>DrainStart, <1>DrainJump, <1>DrainFlush, <1>DrainRounds, <1>DrainGet, <1>DrainNumber, <1>DrainReset, <1>DrainMark, <1>DrainInsert, <1>DrainCallReset, <1>DrainCallDrained, <1>DrainSucceeds, <1>DrainTimesOut DEF StepD
<1> QED
  BY StepCases, <1>1, <1>stutter, <1>Inject, <1>InputExit, <1>SetPlaybackSpeed, <1>CtoPTake, <1>CtoPParse, <1>PtoDTake, <1>PtoDCheck, <1>PtoDWindow, <1>PtoDDecode, <1>DecodeCompletes, <1>MarkerPassesOn, <1>DtoMMarker, <1>DtoMClear, <1>DtoMTake, <1>DtoMPause, <1>DtoMDrop, <1>DtoMTime, <1>DtoMQueue, <1>DtoMCall, <1>Show, <1>PostMFrame, <1>PostMCall DEF Step1, Step2, Step3, Step4

Typed == PipeOK /\ HandOK /\ TableOK /\ FlagsOK /\ DropsOK /\ IdsOK

LEMMA TypedInit == Init => Typed
<1> SUFFICES ASSUME Init PROVE Typed
  OBVIOUS
<1>1. <<>> \in Seq(Item) /\ MakeItem("marker", 0, 0, 0) \in Item
  BY MadeItem
<1>2. PipeOK
  BY <1>1 DEF Init, PipeOK, NoIndex
<1>3. HandOK
  BY DEF Init, HandOK, Pcs, Holds
<1>4. [k \in Slots |-> <<>>] \in [Slots -> Seq(Item)]
  BY <1>1
<1>5. TableOK
  BY <1>4 DEF Init, TableOK
<1>6. FlagsOK
  <2>1. 0 \in 0 .. MaxFrames /\ 0 \in 0 .. MaxDrains /\ 0 \in 0 .. MaxPauses /\ 0 \in 0 .. MaxOvertaking
    BY RingSizeAssumption, SizesAssumption
  <2> QED
    BY <2>1 DEF Init, FlagsOK, DSteps, Ended
<1>7. Waiting = {}
  BY DEF Init, Waiting
<1>8. DropsOK
  BY <1>7 DEF Init, DropsOK, Prepared
<1>9. At({"jump"}) = {} /\ At(Before) = {}
  BY DEF Init, At, Before, Marking, HasNumber
<1>10. IdsOK
  <2>1. Cardinality(At({"jump"})) = 0 /\ Cardinality(At(Before)) = 0
    BY <1>9, FS_EmptySet
  <2>2. nextId = 1 /\ jump = FALSE /\ frames = 0 /\ drains = 0
    BY DEF Init
  <2> QED
    BY <2>1, <2>2 DEF IdsOK, One
<1> QED
  BY <1>2, <1>3, <1>5, <1>6, <1>8, <1>10 DEF Typed

LEMMA TypedStep == Typed /\ [Next]_vars => Typed'
BY PipeStep, HandStep, TableStep, FlagsStep, DropsStep, IdsStep DEF Typed

LEMMA TypedTypeOK == Typed => TypeOK
<1> SUFFICES ASSUME Typed PROVE TypeOK
  OBVIOUS
<1>1. dropping \in 0 .. Len(codec)
  <2>1. codec \in Seq(Item) /\ Len(codec) \in Nat
    BY DEF Typed, PipeOK
  <2> QED
    BY <2>1, PreparedNat DEF Typed, DropsOK
<1>2. nextId \in 1 .. 1 + MaxFrames + 2 * MaxDrains
  <2>1. Cardinality(At({"jump"})) \in Nat /\ Cardinality(At(Before)) \in Nat
    BY AtNat
  <2>2. One(jump) \in 0 .. 1 /\ frames \in 0 .. MaxFrames /\ drains \in 0 .. MaxDrains
    BY DEF One, Typed, FlagsOK
  <2> QED
    BY <2>1, <2>2, SizesAssumption DEF Typed, IdsOK
<1> QED
  BY <1>1, <1>2 DEF Typed, PipeOK, HandOK, TableOK, FlagsOK, TypeOK

\* Every variable of the drain has its type, the buffers in the rings, in the
\* codec and in the hands of the processes included; a process holds a buffer
\* exactly at the steps between the Extract that takes it from its ring and the
\* Insert or release that ends the loop (player_process_*.cpp), and the codec never
\* discards more decodes than it holds.
THEOREM TypeCorrect == Spec => []TypeOK
<1>1. Spec => []Typed
  BY TypedInit, TypedStep, PTL DEF Spec
<1>2. Typed => TypeOK
  BY TypedTypeOK
<1> QED
  BY <1>1, <1>2, PTL

-----------------------------------------------------------------------------
(* Every process and the codec advance the line *)

LEMMA PlaceCases ==
    ASSUME NEW p \in Places
    PROVE  p = 1 \/ p = 2 \/ p = 3 \/ p = 4 \/ p = 5 \/ p = 6 \/ p = 7
BY DEF Places

LEMMA DroppedAdvances ==
    ASSUME NEW L, NEW M, LineOf(L), LineOf(M), NEW p \in Places,
           L[p] # <<>>, M[p] = Tail(L[p]), \A q \in Places : q # p => M[q] = L[q]
    PROVE  Advances(L, M)
<1>1. \A q \in Places : L[q] \in Seq(Item)
  BY DEF LineOf
<1>2. Thinned(L, M)
  BY <1>1, ThinsSame, ThinsTail DEF Thinned
<1> QED
  BY <1>2, ThinnedAdvances

LEMMA CalledAdvances ==
    ASSUME NEW L, NEW M, LineOf(L), LineOf(M), NEW p \in Places, NEW x \in Item, ~IsFrame(x),
           M[p] = Append(L[p], x), \A q \in Places : q # p => M[q] = L[q]
    PROVE  Advances(L, M)
<1>1. \A q \in Places : L[q] \in Seq(Item)
  BY DEF LineOf
<1>2. Thinned(L, M)
  BY <1>1, ThinsSame, ThinsCall DEF Thinned
<1> QED
  BY <1>2, ThinnedAdvances

LEMMA SameAdvances ==
    ASSUME NEW L, LineOf(L)
    PROVE  Advances(L, L)
<1>1. Thinned(L, L)
  BY ThinsSame DEF Thinned, LineOf
<1> QED
  BY <1>1, ThinnedAdvances

LEMMA WithoutAdvances ==
    ASSUME NEW L, NEW M, LineOf(L), LineOf(M), NEW p \in Places, NEW k \in DOMAIN L[p],
           M[p] = Without(L[p], k), \A q \in Places : q # p => M[q] = L[q]
    PROVE  Advances(L, M)
<1>1. \A q \in Places : L[q] \in Seq(Item)
  BY DEF LineOf
<1>2. Thins(L[p], M[p])
  BY <1>1, ThinsWithout
<1>3. Thinned(L, M)
  BY <1>1, <1>2, ThinsSame DEF Thinned
<1> QED
  BY <1>3, ThinnedAdvances

LEMMA LinePlaces ==
    /\ Line[1] = hold["DtoM"] /\ Line[2] = ring["decoded"] /\ Line[3] = codec
    /\ Line[4] = hold["PtoD"] /\ Line[5] = ring["parsed"] /\ Line[6] = hold["CtoP"]
    /\ Line[7] = ring["collated"]
BY DEF Line

LEMMA LinePlacesNext ==
    /\ Line'[1] = hold'["DtoM"] /\ Line'[2] = ring'["decoded"] /\ Line'[3] = codec'
    /\ Line'[4] = hold'["PtoD"] /\ Line'[5] = ring'["parsed"] /\ Line'[6] = hold'["CtoP"]
    /\ Line'[7] = ring'["collated"]
BY DEF Line

LEMMA LineTyped == PipeOK => LineOf(Line)
<1> SUFFICES ASSUME PipeOK PROVE LineOf(Line)
  OBVIOUS
<1>1. ring \in [Rings -> Seq(Item)] /\ codec \in Seq(Item) /\ hold \in [Holds -> Seq(Item)]
  BY DEF PipeOK
<1>2. \A p \in Places : Line[p] \in Seq(Item)
  BY <1>1, PlaceCases, LinePlaces DEF Rings, Holds
<1>3. Line = [p \in Places |-> Line[p]]
  BY DEF Line, Places
<1> QED
  BY <1>2, <1>3 DEF LineOf

LEMMA LineTypedNext == PipeOK' => LineOf(Line')
<1> SUFFICES ASSUME PipeOK' PROVE LineOf(Line')
  OBVIOUS
<1>1. ring' \in [Rings -> Seq(Item)] /\ codec' \in Seq(Item) /\ hold' \in [Holds -> Seq(Item)]
  BY DEF PipeOK
<1>2. \A p \in Places : Line'[p] \in Seq(Item)
  BY <1>1, PlaceCases, LinePlacesNext DEF Rings, Holds
<1>3. Line' = [p \in Places |-> Line'[p]]
  BY DEF Line, Places
<1> QED
  BY <1>2, <1>3 DEF LineOf

\* What the places are after a step: the same, except for those of S.
Others(S) ==
    \A p \in Places : p \notin S => Line'[p] = Line[p]

LEMMA LineStays ==
    ASSUME PipeOK, PipeOK', Others({})
    PROVE  Line' = Line
<1>1. LineOf(Line) /\ LineOf(Line')
  BY LineTyped, LineTypedNext
<1> QED
  BY <1>1 DEF Others, LineOf

LEMMA LineSame ==
    ASSUME PipeOK, PipeOK',
           \/ SetPlaybackSpeed \/ DtoMClear \/ DtoMPause \/ DtoMTime \/ PostMFrame \/ PostMCall \/ Show
           \/ \E d \in Drainers :
                 \/ \E p \in Policies, b \in BOOLEAN : DrainStart(d, p, b)
                 \/ DrainFlush(d) \/ DrainRounds(d) \/ DrainGet(d) \/ DrainNumber(d) \/ DrainReset(d)
                 \/ DrainMark(d) \/ DrainCallDrained(d) \/ DrainSucceeds(d) \/ DrainTimesOut(d)
           \/ \E d \in Drainers : DrainJump(d) /\ UNCHANGED <<ring, nextId>>
    PROVE  Line' = Line
<1>SetPlaybackSpeed. ASSUME SetPlaybackSpeed PROVE (hold' = hold /\ codec' = codec /\ \A r \in {"collated", "parsed", "decoded"} : ring'[r] = ring[r])
  BY <1>SetPlaybackSpeed DEF SetPlaybackSpeed, pipe, procs, shared, play, counts, drain, PipeOK, Rings
<1>DtoMClear. ASSUME DtoMClear PROVE (hold' = hold /\ codec' = codec /\ \A r \in {"collated", "parsed", "decoded"} : ring'[r] = ring[r])
  BY <1>DtoMClear DEF DtoMClear, Goto, pipe, procs, shared, play, counts, drain, PipeOK, Rings
<1>DtoMPause. ASSUME DtoMPause PROVE (hold' = hold /\ codec' = codec /\ \A r \in {"collated", "parsed", "decoded"} : ring'[r] = ring[r])
  BY <1>DtoMPause DEF DtoMPause, Goto, pipe, procs, shared, play, counts, drain, PipeOK, Rings
<1>DtoMTime. ASSUME DtoMTime PROVE (hold' = hold /\ codec' = codec /\ \A r \in {"collated", "parsed", "decoded"} : ring'[r] = ring[r])
  BY <1>DtoMTime DEF DtoMTime, Goto, pipe, procs, shared, play, counts, drain, PipeOK, Rings
<1>PostMFrame. ASSUME PostMFrame PROVE (hold' = hold /\ codec' = codec /\ \A r \in {"collated", "parsed", "decoded"} : ring'[r] = ring[r])
  BY <1>PostMFrame DEF PostMFrame, Receive, ClearAtMarker, ProcessAccumulated, pipe, procs, shared, play, counts, drain, PipeOK, Rings
<1>PostMCall. ASSUME PostMCall PROVE (hold' = hold /\ codec' = codec /\ \A r \in {"collated", "parsed", "decoded"} : ring'[r] = ring[r])
  BY <1>PostMCall DEF PostMCall, Receive, pipe, procs, shared, play, counts, drain, PipeOK, Rings
<1>Show. ASSUME Show PROVE (hold' = hold /\ codec' = codec /\ \A r \in {"collated", "parsed", "decoded"} : ring'[r] = ring[r])
  BY <1>Show DEF Show, Send, pipe, procs, shared, play, counts, drain, PipeOK, Rings
<1>DrainStart. ASSUME NEW d \in Drainers, NEW p \in Policies, NEW b \in BOOLEAN, DrainStart(d, p, b) PROVE (hold' = hold /\ codec' = codec /\ \A r \in {"collated", "parsed", "decoded"} : ring'[r] = ring[r])
  BY <1>DrainStart DEF DrainStart, pipe, procs, shared, play, counts, drain, PipeOK, Rings
<1>DrainFlush. ASSUME NEW d \in Drainers, DrainFlush(d) PROVE (hold' = hold /\ codec' = codec /\ \A r \in {"collated", "parsed", "decoded"} : ring'[r] = ring[r])
  BY <1>DrainFlush DEF DrainFlush, Then, pipe, procs, shared, play, counts, drain, PipeOK, Rings
<1>DrainRounds. ASSUME NEW d \in Drainers, DrainRounds(d) PROVE (hold' = hold /\ codec' = codec /\ \A r \in {"collated", "parsed", "decoded"} : ring'[r] = ring[r])
  BY <1>DrainRounds DEF DrainRounds, Then, StartsWait, pipe, procs, shared, play, counts, drain, PipeOK, Rings
<1>DrainGet. ASSUME NEW d \in Drainers, DrainGet(d) PROVE (hold' = hold /\ codec' = codec /\ \A r \in {"collated", "parsed", "decoded"} : ring'[r] = ring[r])
  BY <1>DrainGet DEF DrainGet, Then, pipe, procs, shared, play, counts, drain, PipeOK, Rings
<1>DrainNumber. ASSUME NEW d \in Drainers, DrainNumber(d) PROVE (hold' = hold /\ codec' = codec /\ \A r \in {"collated", "parsed", "decoded"} : ring'[r] = ring[r])
  BY <1>DrainNumber DEF DrainNumber, Then, NumberAhead, pipe, procs, shared, play, counts, drain, PipeOK, Rings
<1>DrainReset. ASSUME NEW d \in Drainers, DrainReset(d) PROVE (hold' = hold /\ codec' = codec /\ \A r \in {"collated", "parsed", "decoded"} : ring'[r] = ring[r])
  BY <1>DrainReset DEF DrainReset, Then, pipe, procs, shared, play, counts, drain, PipeOK, Rings
<1>DrainMark. ASSUME NEW d \in Drainers, DrainMark(d) PROVE (hold' = hold /\ codec' = codec /\ \A r \in {"collated", "parsed", "decoded"} : ring'[r] = ring[r])
  BY <1>DrainMark DEF DrainMark, Then, pipe, procs, shared, play, counts, drain, PipeOK, Rings
<1>DrainCallDrained. ASSUME NEW d \in Drainers, DrainCallDrained(d) PROVE (hold' = hold /\ codec' = codec /\ \A r \in {"collated", "parsed", "decoded"} : ring'[r] = ring[r])
  BY <1>DrainCallDrained DEF DrainCallDrained, Then, Send, StartsWait, pipe, procs, shared, play, counts, drain, PipeOK, Rings
<1>DrainSucceeds. ASSUME NEW d \in Drainers, DrainSucceeds(d) PROVE (hold' = hold /\ codec' = codec /\ \A r \in {"collated", "parsed", "decoded"} : ring'[r] = ring[r])
  BY <1>DrainSucceeds DEF DrainSucceeds, Then, pipe, procs, shared, play, counts, drain, PipeOK, Rings
<1>DrainTimesOut. ASSUME NEW d \in Drainers, DrainTimesOut(d) PROVE (hold' = hold /\ codec' = codec /\ \A r \in {"collated", "parsed", "decoded"} : ring'[r] = ring[r])
  BY <1>DrainTimesOut DEF DrainTimesOut, StartsWait, pipe, procs, shared, play, counts, drain, PipeOK, Rings
<1>DrainJump. ASSUME NEW d \in Drainers, DrainJump(d), UNCHANGED <<ring, nextId>> PROVE (hold' = hold /\ codec' = codec /\ \A r \in {"collated", "parsed", "decoded"} : ring'[r] = ring[r])
  BY <1>DrainJump DEF DrainJump, pipe, procs, shared, play, counts, drain
<1>1. (hold' = hold /\ codec' = codec /\ \A r \in {"collated", "parsed", "decoded"} : ring'[r] = ring[r])
  BY <1>SetPlaybackSpeed, <1>DtoMClear, <1>DtoMPause, <1>DtoMTime, <1>PostMFrame, <1>PostMCall, <1>Show, <1>DrainStart, <1>DrainFlush, <1>DrainRounds, <1>DrainGet, <1>DrainNumber, <1>DrainReset, <1>DrainMark, <1>DrainCallDrained, <1>DrainSucceeds, <1>DrainTimesOut, <1>DrainJump
<1>2. Others({})
  BY <1>1, PlaceCases, LinePlaces, LinePlacesNext DEF Others
<1> QED
  BY <1>2, LineStays

LEMMA HeldTail ==
    ASSUME PipeOK, HandOK, NEW p \in Holds, pc[p] \notin {"take", "clear"}
    PROVE  hold[p] # <<>> /\ Tail(hold[p]) = <<>> /\ hold[p][1] = InHand(p) /\ InHand(p) \in Item
<1>1. hold[p] = <<InHand(p)>> /\ InHand(p) \in Item
  BY InHandTyped
<1> QED
  BY <1>1

LEMMA HeldNone ==
    ASSUME PipeOK, HandOK, NEW p \in Holds, pc[p] \in {"take", "clear"}
    PROVE  hold[p] = <<>>
<1>1. Len(hold[p]) = 0 /\ hold[p] \in Seq(Item)
  BY DEF PipeOK, HandOK
<1> QED
  BY <1>1

LEMMA HandedOver ==
    ASSUME PipeOK, PipeOK', NEW o \in 1 .. 5, NEW p \in 2 .. 6, p = o + 1,
           Line[p] # <<>>, Line'[p] = Tail(Line[p]), Line'[o] = Append(Line[o], Line[p][1]),
           Others({o, p})
    PROVE  Advances(Line, Line')
<1>1. LineOf(Line) /\ LineOf(Line')
  BY LineTyped, LineTypedNext
<1>2. Handed(Line, Line', o, p, Line[p][1])
  BY DEF Handed, Others
<1> HIDE DEF Line
<1>3. \A L, M : LineOf(L) /\ LineOf(M) /\ Handed(L, M, o, p, L[p][1]) => Advances(L, M)
  BY HandedAdvances
<1> QED
  BY <1>1, <1>2, <1>3

LEMMA TakenAway ==
    ASSUME PipeOK, PipeOK', NEW p \in Places,
           Line[p] # <<>>, Line'[p] = Tail(Line[p]), Others({p})
    PROVE  Advances(Line, Line')
<1>1. LineOf(Line) /\ LineOf(Line')
  BY LineTyped, LineTypedNext
<1>2. \A q \in Places : q # p => Line'[q] = Line[q]
  BY DEF Others
<1>3. \A L, M : LineOf(L) /\ LineOf(M) /\ L[p] # <<>> /\ M[p] = Tail(L[p])
          /\ (\A q \in Places : q # p => M[q] = L[q]) => Advances(L, M)
  BY DroppedAdvances
<1> QED
  BY <1>1, <1>2, <1>3

LEMMA CtoPParseLine == ASSUME Typed, PipeOK', CtoPParse PROVE Advances(Line, Line')
<1>1. PipeOK /\ HandOK
  BY DEF Typed
<1>2. pc["CtoP"] = "parse" /\ hold' = [hold EXCEPT !["CtoP"] = <<>>] /\ codec' = codec
  BY DEF CtoPParse, Goto, Gives
<1>3. hold["CtoP"] # <<>> /\ Tail(hold["CtoP"]) = <<>> /\ hold["CtoP"][1] = InHand("CtoP")
  BY <1>1, <1>2, HeldTail DEF Holds
<1>4. hold'["CtoP"] = <<>> /\ hold'["PtoD"] = hold["PtoD"] /\ hold'["DtoM"] = hold["DtoM"]
  BY <1>1, <1>2 DEF PipeOK, Holds
<1>5. CASE Send("parsed", InHand("CtoP"))
  <2>1. ring'["parsed"] = Append(ring["parsed"], InHand("CtoP")) /\ ring'["collated"] = ring["collated"]
          /\ ring'["decoded"] = ring["decoded"]
    BY <1>1, <1>5 DEF Send, PipeOK, Rings
  <2>2. Others({5, 6})
    BY <1>2, <1>4, <2>1, PlaceCases, LinePlaces, LinePlacesNext DEF Others
  <2>3. Line[6] # <<>> /\ Line'[6] = Tail(Line[6]) /\ Line'[5] = Append(Line[5], Line[6][1])
    BY <1>3, <1>4, <2>1, PlaceCases, LinePlaces, LinePlacesNext
  <2> QED
    BY <1>1, <2>2, <2>3, HandedOver
<1>6. CASE UNCHANGED ring
  <2>1. Others({6})
    BY <1>2, <1>4, <1>6, PlaceCases, LinePlaces, LinePlacesNext DEF Others
  <2>2. Line[6] # <<>> /\ Line'[6] = Tail(Line[6]) /\ 6 \in Places
    BY <1>3, <1>4, PlaceCases, LinePlaces, LinePlacesNext DEF Places
  <2> QED
    BY <1>1, <2>1, <2>2, TakenAway
<1> QED
  BY <1>5, <1>6 DEF CtoPParse

LEMMA PtoDTakeLine == ASSUME Typed, PipeOK', PtoDTake PROVE Advances(Line, Line')
<1>1. PipeOK /\ HandOK
  BY DEF Typed
<1>2. pc["PtoD"] = "take" /\ hold' = [hold EXCEPT !["PtoD"] = <<Head(ring["parsed"])>>] /\ codec' = codec
        /\ ring["parsed"] # <<>> /\ ring' = [ring EXCEPT !["parsed"] = Tail(@)]
  BY DEF PtoDTake, Goto, Takes, Receive
<1>3. hold["PtoD"] = <<>>
  BY <1>1, <1>2, HeldNone DEF Holds
<1>4. hold'["PtoD"] = <<Head(ring["parsed"])>> /\ hold'["CtoP"] = hold["CtoP"] /\ hold'["DtoM"] = hold["DtoM"]
        /\ ring'["parsed"] = Tail(ring["parsed"]) /\ ring'["collated"] = ring["collated"]
        /\ ring'["decoded"] = ring["decoded"]
  BY <1>1, <1>2 DEF PipeOK, Holds, Rings
<1>5. <<Head(ring["parsed"])>> = Append(<<>>, ring["parsed"][1])
  BY <1>1, <1>2, ReceiveTyped DEF PipeOK, Rings
<1>6. Others({4, 5})
  BY <1>2, <1>4, PlaceCases, LinePlaces, LinePlacesNext DEF Others
<1>7. Line[5] # <<>> /\ Line'[5] = Tail(Line[5]) /\ Line'[4] = Append(Line[4], Line[5][1])
  BY <1>2, <1>3, <1>4, <1>5, PlaceCases, LinePlaces, LinePlacesNext
<1> QED
  BY <1>1, <1>6, <1>7, HandedOver

LEMMA PtoDDiscardLine ==
    ASSUME Typed, PipeOK', NEW from \in {"check", "window"}, PtoDDiscard(from), codec' = codec, ring' = ring
    PROVE  Advances(Line, Line')
<1>1. PipeOK /\ HandOK
  BY DEF Typed
<1>2. pc["PtoD"] = from /\ hold' = [hold EXCEPT !["PtoD"] = <<>>]
  BY DEF PtoDDiscard, Goto, Gives
<1>3. hold["PtoD"] # <<>> /\ Tail(hold["PtoD"]) = <<>>
  BY <1>1, <1>2, HeldTail DEF Holds
<1>4. hold'["PtoD"] = <<>> /\ hold'["CtoP"] = hold["CtoP"] /\ hold'["DtoM"] = hold["DtoM"]
  BY <1>1, <1>2 DEF PipeOK, Holds
<1>5. Others({4})
  BY <1>4, PlaceCases, LinePlaces, LinePlacesNext DEF Others
<1>6. Line[4] # <<>> /\ Line'[4] = Tail(Line[4]) /\ 4 \in Places
  BY <1>3, <1>4, PlaceCases, LinePlaces, LinePlacesNext DEF Places
<1> QED
  BY <1>1, <1>5, <1>6, TakenAway

LEMMA PtoDKeepsLine == ASSUME Typed, PipeOK', PtoDCheck \/ PtoDWindow PROVE Advances(Line, Line')
<1>1. codec' = codec /\ ring' = ring
  BY DEF PtoDCheck, PtoDWindow, pipe
<1>2. CASE \E from \in {"check", "window"} : PtoDDiscard(from)
  BY <1>1, <1>2, PtoDDiscardLine
<1>3. CASE hold' = hold
  <2>1. Others({})
    BY <1>1, <1>3, PlaceCases, LinePlaces, LinePlacesNext DEF Others
  <2>2. Line' = Line /\ LineOf(Line)
    BY <2>1, LineStays, LineTyped DEF Typed
  <2> QED
    BY <2>2, SameAdvances
<1> QED
  BY <1>2, <1>3 DEF PtoDCheck, PtoDWindow

LEMMA PtoDDecodeLine == ASSUME Typed, PipeOK', PtoDDecode PROVE Advances(Line, Line')
<1>1. PipeOK /\ HandOK
  BY DEF Typed
<1>2. pc["PtoD"] = "decode" /\ hold' = [hold EXCEPT !["PtoD"] = <<>>] /\ ring' = ring
  BY DEF PtoDDecode, Goto, Gives
<1>3. hold["PtoD"] # <<>> /\ Tail(hold["PtoD"]) = <<>> /\ hold["PtoD"][1] = InHand("PtoD")
        /\ InHand("PtoD") \in Item
  BY <1>1, <1>2, HeldTail DEF Holds
<1>4. hold'["PtoD"] = <<>> /\ hold'["CtoP"] = hold["CtoP"] /\ hold'["DtoM"] = hold["DtoM"]
  BY <1>1, <1>2 DEF PipeOK, Holds
<1>5. Others({3, 4})
  BY <1>2, <1>4, PlaceCases, LinePlaces, LinePlacesNext DEF Others
<1>6. CASE codec' = Append(codec, InHand("PtoD"))
  <2>1. Line[4] # <<>> /\ Line'[4] = Tail(Line[4]) /\ Line'[3] = Append(Line[3], Line[4][1])
    BY <1>3, <1>4, <1>6, PlaceCases, LinePlaces, LinePlacesNext
  <2> QED
    BY <1>1, <1>5, <2>1, HandedOver
<1>7. CASE \E k \in Waiting : codec' = Append(Without(codec, k), InHand("PtoD"))
  <2>1. PICK k \in DOMAIN codec : codec' = Append(Without(codec, k), InHand("PtoD"))
    BY <1>7 DEF Waiting
  <2>2. Without(codec, k) \in Seq(Item)
    BY <1>1, WithoutSeq DEF PipeOK
  <2>3. LineOf(Line) /\ LineOf(Line')
    BY <1>1, LineTyped, LineTypedNext
  <2>4. PICK N : N = [Line EXCEPT ![3] = Without(codec, k)]
    OBVIOUS
  <2>5. LineOf(N) /\ N[3] = Without(codec, k) /\ \A q \in Places : q # 3 => N[q] = Line[q]
    BY <2>2, <2>3, <2>4, SMTT(30) DEF LineOf, Places
  <2>6. Advances(Line, N)
    <3>1. 3 \in Places /\ k \in DOMAIN Line[3] /\ N[3] = Without(Line[3], k)
      BY <2>5, LinePlaces DEF Places
    <3> QED
      BY <2>3, <2>5, <3>1, WithoutAdvances
  <2>7. Handed(N, Line', 3, 4, N[4][1])
    <3>1. N[4] = hold["PtoD"]
      BY <2>5, LinePlaces DEF Places
    <3>2. Line'[3] = Append(N[3], N[4][1]) /\ N[4] # <<>> /\ Line'[4] = Tail(N[4])
      BY <1>3, <1>4, <2>1, <2>5, <3>1, LinePlacesNext
    <3>3. \A q \in Places : q # 3 /\ q # 4 => Line'[q] = N[q]
      BY <1>5, <2>5 DEF Others
    <3> QED
      BY <3>2, <3>3 DEF Handed
  <2>8. Advances(N, Line')
    BY <2>3, <2>5, <2>7, HandedAdvances
  <2> QED
    BY <2>6, <2>8, AdvancesTwice
<1> QED
  BY <1>6, <1>7 DEF PtoDDecode

LEMMA CodecLine == ASSUME Typed, PipeOK', DecodeCompletes \/ MarkerPassesOn PROVE Advances(Line, Line')
<1>1. PipeOK
  BY DEF Typed
<1>2. codec # <<>> /\ codec' = Tail(codec) /\ hold' = hold
  BY DEF DecodeCompletes, MarkerPassesOn, procs
<1>3. Head(codec) = codec[1]
  BY <1>1, <1>2 DEF PipeOK
<1>4. CASE Send("decoded", Head(codec))
  <2>1. ring'["decoded"] = Append(ring["decoded"], Head(codec)) /\ ring'["collated"] = ring["collated"]
          /\ ring'["parsed"] = ring["parsed"]
    BY <1>1, <1>4 DEF Send, PipeOK, Rings
  <2>2. Others({2, 3})
    BY <1>2, <2>1, PlaceCases, LinePlaces, LinePlacesNext DEF Others
  <2>3. Line[3] # <<>> /\ Line'[3] = Tail(Line[3]) /\ Line'[2] = Append(Line[2], Line[3][1])
    BY <1>2, <1>3, <2>1, PlaceCases, LinePlaces, LinePlacesNext
  <2> QED
    BY <1>1, <2>2, <2>3, HandedOver
<1>5. CASE UNCHANGED ring
  <2>1. Others({3})
    BY <1>2, <1>5, PlaceCases, LinePlaces, LinePlacesNext DEF Others
  <2>2. Line[3] # <<>> /\ Line'[3] = Tail(Line[3]) /\ 3 \in Places
    BY <1>2, PlaceCases, LinePlaces, LinePlacesNext DEF Places
  <2> QED
    BY <1>1, <2>1, <2>2, TakenAway
<1> QED
  BY <1>4, <1>5 DEF DecodeCompletes, MarkerPassesOn

LEMMA DtoMMarkerLine == ASSUME Typed, PipeOK', DtoMMarker PROVE Advances(Line, Line')
<1>1. PipeOK
  BY DEF Typed
<1>2. ring["decoded"] # <<>> /\ codec' = codec /\ hold' = hold
        /\ ring'["decoded"] = Tail(ring["decoded"]) /\ ring'["collated"] = ring["collated"]
        /\ ring'["parsed"] = ring["parsed"]
  BY <1>1 DEF DtoMMarker, Pass, PipeOK, Rings
<1>3. Others({2})
  BY <1>2, PlaceCases, LinePlaces, LinePlacesNext DEF Others
<1>4. Line[2] # <<>> /\ Line'[2] = Tail(Line[2]) /\ 2 \in Places
  BY <1>2, PlaceCases, LinePlaces, LinePlacesNext DEF Places
<1> QED
  BY <1>1, <1>3, <1>4, TakenAway

LEMMA DtoMTakeLine == ASSUME Typed, PipeOK', DtoMTake PROVE Advances(Line, Line')
<1>1. PipeOK /\ HandOK
  BY DEF Typed
<1>2. pc["DtoM"] = "take" /\ hold' = [hold EXCEPT !["DtoM"] = <<Head(ring["decoded"])>>] /\ codec' = codec
        /\ ring["decoded"] # <<>> /\ ring' = [ring EXCEPT !["decoded"] = Tail(@)]
  BY DEF DtoMTake, Goto, Takes, Receive
<1>3. hold["DtoM"] = <<>>
  BY <1>1, <1>2, HeldNone DEF Holds
<1>4. hold'["DtoM"] = <<Head(ring["decoded"])>> /\ hold'["CtoP"] = hold["CtoP"] /\ hold'["PtoD"] = hold["PtoD"]
        /\ ring'["decoded"] = Tail(ring["decoded"]) /\ ring'["collated"] = ring["collated"]
        /\ ring'["parsed"] = ring["parsed"]
  BY <1>1, <1>2 DEF PipeOK, Holds, Rings
<1>5. <<Head(ring["decoded"])>> = Append(<<>>, ring["decoded"][1])
  BY <1>1, <1>2, ReceiveTyped DEF PipeOK, Rings
<1>6. Others({1, 2})
  BY <1>2, <1>4, PlaceCases, LinePlaces, LinePlacesNext DEF Others
<1>7. Line[2] # <<>> /\ Line'[2] = Tail(Line[2]) /\ Line'[1] = Append(Line[1], Line[2][1])
  BY <1>2, <1>3, <1>4, <1>5, PlaceCases, LinePlaces, LinePlacesNext
<1> QED
  BY <1>1, <1>6, <1>7, HandedOver

LEMMA DtoMGivesLine == ASSUME Typed, PipeOK', DtoMDrop \/ DtoMQueue PROVE Advances(Line, Line')
<1>1. PipeOK /\ HandOK
  BY DEF Typed
<1>2. pc["DtoM"] \in {"time", "queue"} /\ hold' = [hold EXCEPT !["DtoM"] = <<>>]
        /\ codec' = codec /\ ring' = ring
  BY DEF DtoMDrop, DtoMQueue, Goto, Gives, pipe
<1>3. hold["DtoM"] # <<>> /\ Tail(hold["DtoM"]) = <<>>
  BY <1>1, <1>2, HeldTail DEF Holds
<1>4. hold'["DtoM"] = <<>> /\ hold'["CtoP"] = hold["CtoP"] /\ hold'["PtoD"] = hold["PtoD"]
  BY <1>1, <1>2 DEF PipeOK, Holds
<1>5. Others({1})
  BY <1>2, <1>4, PlaceCases, LinePlaces, LinePlacesNext DEF Others
<1>6. Line[1] # <<>> /\ Line'[1] = Tail(Line[1]) /\ 1 \in Places
  BY <1>3, <1>4, PlaceCases, LinePlaces, LinePlacesNext DEF Places
<1> QED
  BY <1>1, <1>5, <1>6, TakenAway

LEMMA DtoMCallLine == ASSUME Typed, PipeOK', DtoMCall PROVE Advances(Line, Line')
<1>1. PipeOK
  BY DEF Typed
<1>2. ring["decoded"] # <<>> /\ codec' = codec /\ hold' = hold
        /\ ring'["decoded"] = Tail(ring["decoded"]) /\ ring'["collated"] = ring["collated"]
        /\ ring'["parsed"] = ring["parsed"]
  BY <1>1 DEF DtoMCall, Receive, PipeOK, Rings
<1>3. Others({2})
  BY <1>2, PlaceCases, LinePlaces, LinePlacesNext DEF Others
<1>4. Line[2] # <<>> /\ Line'[2] = Tail(Line[2]) /\ 2 \in Places
  BY <1>2, PlaceCases, LinePlaces, LinePlacesNext DEF Places
<1> QED
  BY <1>1, <1>3, <1>4, TakenAway

LEMMA CallResetLine ==
    ASSUME Typed, PipeOK', NEW d \in Drainers, DrainCallReset(d)
    PROVE  Advances(Line, Line')
<1>1. PipeOK
  BY DEF Typed
<1> DEFINE c == MakeItem("reset", 0, DrainSequenceNumber, 0)
<1>2. c \in Item
  BY <1>1, MadeItem DEF PipeOK
<1>3. ~IsFrame(c)
  BY DEF IsFrame, MakeItem, Calls
<1>4. codec' = codec /\ hold' = hold /\ ring' = [ring EXCEPT !["decoded"] = Append(@, c)]
  BY DEF DrainCallReset, Send, procs
<1> HIDE DEF c
<1>5. ring'["decoded"] = Append(ring["decoded"], c) /\ ring'["collated"] = ring["collated"]
        /\ ring'["parsed"] = ring["parsed"]
  BY <1>1, <1>4 DEF PipeOK, Rings
<1>6. \A q \in Places : q # 2 => Line'[q] = Line[q]
  BY <1>4, <1>5, PlaceCases, LinePlaces, LinePlacesNext
<1>7. LineOf(Line) /\ LineOf(Line') /\ 2 \in Places /\ Line'[2] = Append(Line[2], c)
  BY <1>1, <1>5, LineTyped, LineTypedNext, LinePlaces, LinePlacesNext DEF Places
<1> QED
  BY <1>2, <1>3, <1>6, <1>7, CalledAdvances

LEMMA CollateLine ==
    ASSUME Typed, PipeOK', NEW i \in Item, Collate(i), hold' = hold, codec' = codec
    PROVE  /\ Joined(Line, Line', [i EXCEPT !.id = nextId])
           /\ [i EXCEPT !.id = nextId] \in Item
<1>1. PipeOK
  BY DEF Typed
<1>2. ring'["collated"] = Append(ring["collated"], [i EXCEPT !.id = nextId])
        /\ ring'["parsed"] = ring["parsed"] /\ ring'["decoded"] = ring["decoded"]
  BY <1>1 DEF Collate, Send, PipeOK, Rings
<1>3. \A q \in 1 .. 6 : q \in Places /\ q # 7
  BY DEF Places
<1>4. \A q \in 1 .. 6 : Line'[q] = Line[q]
  BY <1>2, <1>3, PlaceCases, LinePlaces, LinePlacesNext
<1>5. Line'[7] = Append(Line[7], [i EXCEPT !.id = nextId])
  BY <1>2, LinePlaces, LinePlacesNext
<1> QED
  BY <1>1, <1>4, <1>5, ChangedItem DEF Joined, PipeOK

-----------------------------------------------------------------------------
(* The invariant, and two of its parts: one drain at a time, and the kinds of
   frames that can be where *)

\* Drains of one stream do not overlap, and every one of them is waited for until
\* it has ended, as DrainStream does for a caller that wants to wait, in a
\* playback whose waits do not run out (player_playback.cpp:1103-1105).
OneAtATime == Exclusive \/ \A d, e \in Drainers : d = e
Complete   == NonBlocking = {FALSE} /\ ~TimeOuts

\* Steps at which a drain has inserted its marker and waits for what comes of it.
Inserted   == {"callReset", "callDrained", "wait"}
Collated   == ring["collated"]
Manifested == ring["manifested"]
Table      == accumulated["PostM"]
Marked(s)  == \E k \in DOMAIN s : IsMarker(s[k])

\* At most one drain is under way.
OneActive == \A d, e \in Drainers : dpc[d] \notin Ended /\ dpc[e] \notin Ended => d = e

\* What kinds of frames and of calls a place can hold.
OfKinds(s, K) == \A k \in DOMAIN s : s[k].kind \in K
KindsOK ==
    /\ OfKinds(hold["DtoM"], {"data"})
    /\ OfKinds(ring["decoded"], {"data", "marker", "reset"})
    /\ OfKinds(codec, {"data", "marker"})
    /\ OfKinds(hold["PtoD"], {"data", "marker"})
    /\ OfKinds(ring["parsed"], {"data", "marker"})
    /\ OfKinds(hold["CtoP"], {"data", "jump", "marker"})
    /\ OfKinds(Collated, {"data", "jump", "marker"})
    /\ OfKinds(display, {"data"})
    /\ OfKinds(Manifested, {"data", "marker", "drained"})
    /\ \A k \in Slots : OfKinds(Table[k], {"drained"})
    /\ pc["PtoD"] = "window" => OfKinds(hold["PtoD"], {"data"})

\* MarkerInCodedFrameIndex names the marker that is in the first ring, or the one
\* that is about to be inserted: no frame but that one can be taken for it.
MarksOK ==
    /\ \A k \in DOMAIN Collated :
         /\ IsMarker(Collated[k]) => /\ Collated[k].token = MarkerInCodedFrameIndex
                                     /\ MarkerInCodedFrameIndex # NoIndex
                                     /\ Collated[k].seq = DrainSequenceNumber
         /\ ~IsMarker(Collated[k]) => Collated[k].token = NoIndex
    /\ \A j, k \in DOMAIN Collated : IsMarker(Collated[j]) /\ IsMarker(Collated[k]) => j = k
    /\ MarkerInCodedFrameIndex # NoIndex =>
         Marked(Collated) \/ \E d \in Drainers : dpc[d] = "insert"
MarkerOf(d) ==
    /\ marker[d].kind = "marker" /\ marker[d].id < nextId
    /\ dpc[d] = "insert" => MarkerInCodedFrameIndex = marker[d].token /\ ~Marked(Collated)
    /\ dpc[d] \in {"get", "number", "resetEvent", "mark"} =>
          MarkerInCodedFrameIndex = NoIndex /\ ~Marked(Collated)
    /\ dpc[d] \notin Ended => marker[d].token # NoIndex
    /\ dpc[d] \in HasNumber \cup Inserted => marker[d].seq = DrainSequenceNumber
    /\ dpc[d] \in Inserted => \A k \in DOMAIN Collated :
           IsMarker(Collated[k]) => Collated[k].id = marker[d].id
MarkInv == MarksOK /\ \A d \in Drainers : MarkerOf(d)

\* Each frame in the first ring has a buffer of the pool, and so has the marker
\* that a drain is about to insert.
Pending == \E d \in Drainers : dpc[d] \in Marking
CountInv == Len(Collated) + One(Pending) <= CodedFrames

\* The counter does not reach the number of a marker before the marker itself.
AheadOf(d) ==
    dpc[d] \in HasNumber =>
        NextBufferSequenceNumber + Len(Collated) + (MaxOvertaking - overtaking) + One(jump) + 1
           <= DrainSequenceNumber
AheadInv ==
    /\ \A k \in DOMAIN Collated :
          IsMarker(Collated[k]) => NextBufferSequenceNumber + k <= DrainSequenceNumber
    /\ \A d \in Drainers : AheadOf(d)
    /\ Overtaken \/ overtaking = 0

OrderInv == Ordered(Line, nextId, NextBufferSequenceNumber)

\* The number n is below all that are on the line, and all that are still given.
LowBound(n) ==
    /\ n < NextBufferSequenceNumber
    /\ \A y \in Item : NumberedIn(Line, y) => n < y.seq
LowItems == {i \in Item : IsFrame(i) => LowBound(i.seq)}
LowInv ==
    /\ display \in Seq(LowItems)
    /\ Manifested \in Seq(LowItems)
    /\ seen["PostM"] = 0 \/ LowBound(seen["PostM"])

\* What joined the line before the marker of d has, or will get, a number that is
\* not above the marker's.
BehindOf(d) ==
    dpc[d] \in Inserted =>
        /\ DrainSequenceNumber > 0
        /\ \A y \in Item : NumberedIn(Line, y) /\ y.id <= marker[d].id => y.seq <= DrainSequenceNumber
        /\ \A k \in DOMAIN Collated : Collated[k].id <= marker[d].id =>
              NextBufferSequenceNumber + k <= DrainSequenceNumber
BehindInv == \A d \in Drainers : BehindOf(d)

\* The calls that will set the event, in the ring to the last process and in its
\* table: there are none, or they wait for the number n.
NoCalls   == /\ \A k \in DOMAIN Manifested : IsFrame(Manifested[k])
             /\ \A k \in Slots : Table[k] = <<>>
CallsAt(n) == /\ \A k \in DOMAIN Manifested : ~IsFrame(Manifested[k]) => Manifested[k].seq = n
              /\ \A k \in Slots : Table[k] # <<>> => Table[k][1].seq = n
OneCall ==
    /\ \A j, k \in DOMAIN Manifested : ~IsFrame(Manifested[j]) /\ ~IsFrame(Manifested[k]) => j = k
    /\ \A j, k \in Slots : Table[j] # <<>> /\ Table[k] # <<>> => j = k
    /\ \A j \in DOMAIN Manifested, k \in Slots : IsFrame(Manifested[j]) \/ Table[k] = <<>>

\* A first drain finds no calls of another one, and nothing sets the event between
\* its reset and the call.
Calling == {"mark", "insert", "callReset", "callDrained"}
FirstInv ==
    /\ drains = 0 => \A d \in Drainers : dpc[d] = "idle"
    /\ drains <= 1 => \A d, e \in Drainers : dpc[d] # "idle" /\ dpc[e] # "idle" => d = e
    /\ drains <= 1 /\ (\A d \in Drainers : dpc[d] \notin {"wait"} \cup (Ended \ {"idle"})) => NoCalls
    /\ (drains <= 1 \/ Complete) => \A d \in Drainers : dpc[d] \in Calling => ~Drained
\* While the marker of the last drain is in the first ring the event is not set,
\* as long as the calls under way are those of this drain.
Starting == {"jump", "flush", "rounds", "waitRounds"}
RoundsInv ==
    (Complete \/ drains <= 1 \/ \E d \in Drainers : dpc[d] \in Starting) /\ Marked(Collated)
      => ~Drained /\ CallsAt(DrainSequenceNumber)
\* Among drains that are waited for, the call under way is that of the drain that
\* waits, and when it is performed the last process has seen its marker's number.
CompleteInv ==
    Complete =>
    /\ \A d \in Drainers : dpc[d] \notin Ended => blocking[d]
    /\ OneCall
    /\ NoCalls \/ (~Drained /\ CallsAt(DrainSequenceNumber) /\ \E d \in Drainers : dpc[d] = "wait")
    /\ \A d \in Drainers : dpc[d] = "wait" /\ Drained => seen["PostM"] >= DrainSequenceNumber

\* Every flag has a drain that has still to insert its marker, or a marker that
\* has still to reach the process of the flag.
IsMarked(s) == \E p \in Reaching[s] : Marked(Line[p])
FlagInv ==
    \A s \in Stages : discarding[s] =>
        \/ \E d \in Drainers : dpc[d] \in Before \ {"waitRounds"}
        \/ s = "DtoM" /\ pc["DtoM"] = "clear"
        \/ IsMarked(s)
        \/ s = "PostM" /\ Marked(Manifested)

\* The line holds nothing older than the marker of a drain that has ended.
EmptyInv ==
    \A d \in Drainers : dpc[d] = "drained" => \A n \in Nat : IdIn(Line, n) => n > marker[d].id

\* What holds of every state, the order of the line and the flags included.
Inv == /\ Typed /\ OneActive /\ KindsOK /\ MarkInv /\ CountInv /\ AheadInv /\ OrderInv /\ LowInv
       /\ BehindInv /\ FirstInv /\ RoundsInv /\ CompleteInv /\ FlagInv


LEMMA KindsAppend ==
    ASSUME NEW s \in Seq(Item), NEW x \in Item, NEW K, OfKinds(s, K), x.kind \in K
    PROVE  OfKinds(Append(s, x), K)
<1>1. \A k \in DOMAIN Append(s, x) : (k \in DOMAIN s /\ Append(s, x)[k] = s[k]) \/ Append(s, x)[k] = x
  OBVIOUS
<1> QED
  BY <1>1 DEF OfKinds

LEMMA KindsTail ==
    ASSUME NEW s \in Seq(Item), s # <<>>, NEW K, OfKinds(s, K)
    PROVE  OfKinds(Tail(s), K) /\ Head(s).kind \in K /\ Head(s) = s[1] /\ Head(s) \in Item
<1>1. \A k \in DOMAIN Tail(s) : k + 1 \in DOMAIN s /\ Tail(s)[k] = s[k + 1]
  OBVIOUS
<1>2. 1 \in DOMAIN s /\ Head(s) = s[1] /\ Head(s) \in Item
  OBVIOUS
<1> QED
  BY <1>1, <1>2 DEF OfKinds

LEMMA KindsWithout ==
    ASSUME NEW s \in Seq(Item), NEW k \in DOMAIN s, NEW K, OfKinds(s, K)
    PROVE  OfKinds(Without(s, k), K)
<1>1. Without(s, k) \in Seq(Item) /\ Len(Without(s, k)) = Len(s) - 1
        /\ \A j \in 1 .. Len(s) - 1 : Without(s, k)[j] = s[IF j < k THEN j ELSE j + 1]
  BY WithoutSeq
<1>2. DOMAIN Without(s, k) = 1 .. Len(s) - 1 /\ DOMAIN s = 1 .. Len(s) /\ Len(s) \in Nat /\ k \in 1 .. Len(s)
  BY <1>1
<1>3. SUFFICES ASSUME NEW j \in 1 .. Len(s) - 1 PROVE Without(s, k)[j].kind \in K
  BY <1>2 DEF OfKinds
<1>4. (IF j < k THEN j ELSE j + 1) \in DOMAIN s
  BY <1>2
<1> QED
  BY <1>1, <1>4 DEF OfKinds

LEMMA KindsConcat ==
    ASSUME NEW s \in Seq(Item), NEW t \in Seq(Item), NEW K, OfKinds(s, K), OfKinds(t, K)
    PROVE  OfKinds(s \o t, K)
<1>1. Len(s) \in Nat /\ Len(t) \in Nat /\ DOMAIN s = 1 .. Len(s) /\ DOMAIN t = 1 .. Len(t)
        /\ DOMAIN (s \o t) = 1 .. Len(s) + Len(t)
        /\ \A k \in 1 .. Len(s) + Len(t) : (s \o t)[k] = IF k <= Len(s) THEN s[k] ELSE t[k - Len(s)]
  OBVIOUS
<1>2. SUFFICES ASSUME NEW k \in 1 .. Len(s) + Len(t) PROVE (s \o t)[k].kind \in K
  BY <1>1 DEF OfKinds
<1>3. CASE k <= Len(s)
  BY <1>1, <1>3 DEF OfKinds
<1>4. CASE k > Len(s)
  <2>1. k - Len(s) \in DOMAIN t /\ (s \o t)[k] = t[k - Len(s)]
    BY <1>1, <1>4
  <2> QED
    BY <2>1 DEF OfKinds
<1> QED
  BY <1>1, <1>3, <1>4

LEMMA KindsOne ==
    ASSUME NEW x, NEW K, x.kind \in K
    PROVE  OfKinds(<<x>>, K)
BY DEF OfKinds

LEMMA KindsNone == ASSUME NEW K PROVE OfKinds(<<>>, K)
BY DEF OfKinds

LEMMA HeldKind ==
    ASSUME Typed, NEW p \in Holds, NEW K, OfKinds(hold[p], K), pc[p] \notin {"take", "clear"}
    PROVE  InHand(p) \in Item /\ InHand(p).kind \in K
<1>1. InHand(p) \in Item /\ hold[p] = <<InHand(p)>>
  BY InHandTyped DEF Typed
<1>2. 1 \in DOMAIN hold[p] /\ hold[p][1] = InHand(p)
  BY <1>1
<1> QED
  BY <1>1, <1>2 DEF OfKinds

LEMMA OneStep ==
    ASSUME OneAtATime, Typed, OneActive, [Next]_vars
    PROVE  OneActive'
<1>Inject. ASSUME Inject PROVE OneActive'
  BY <1>Inject DEF Inject, Collate, Send, pipe, procs, shared, play, counts, drain, OneActive
<1>InputExit. ASSUME InputExit PROVE OneActive'
  BY <1>InputExit DEF InputExit, Collate, Send, pipe, procs, shared, play, counts, drain, OneActive
<1>SetPlaybackSpeed. ASSUME SetPlaybackSpeed PROVE OneActive'
  BY <1>SetPlaybackSpeed DEF SetPlaybackSpeed, pipe, procs, shared, play, counts, drain, OneActive
<1>CtoPTake. ASSUME CtoPTake PROVE OneActive'
  BY <1>CtoPTake DEF CtoPTake, Receive, Takes, Numbered, Recognised, pipe, procs, shared, play, counts, drain, OneActive
<1>CtoPParse. ASSUME CtoPParse PROVE OneActive'
  BY <1>CtoPParse DEF CtoPParse, Goto, Gives, Send, InHand, pipe, procs, shared, play, counts, drain, OneActive
<1>PtoDTake. ASSUME PtoDTake PROVE OneActive'
  BY <1>PtoDTake DEF PtoDTake, Goto, Receive, Takes, ClearAtMarker, pipe, procs, shared, play, counts, drain, OneActive
<1>PtoDCheck. ASSUME PtoDCheck PROVE OneActive'
  BY <1>PtoDCheck DEF PtoDCheck, PtoDDiscard, Goto, Gives, pipe, procs, shared, play, counts, drain, OneActive
<1>PtoDWindow. ASSUME PtoDWindow PROVE OneActive'
  BY <1>PtoDWindow DEF PtoDWindow, PtoDDiscard, Goto, Gives, pipe, procs, shared, play, counts, drain, OneActive
<1>PtoDDecode. ASSUME PtoDDecode PROVE OneActive'
  BY <1>PtoDDecode DEF PtoDDecode, Goto, Gives, InHand, Waiting, pipe, procs, shared, play, counts, drain, OneActive
<1>DecodeCompletes. ASSUME DecodeCompletes PROVE OneActive'
  BY <1>DecodeCompletes DEF DecodeCompletes, Send, pipe, procs, shared, play, counts, drain, OneActive
<1>MarkerPassesOn. ASSUME MarkerPassesOn PROVE OneActive'
  BY <1>MarkerPassesOn DEF MarkerPassesOn, Send, pipe, procs, shared, play, counts, drain, OneActive
<1>DtoMMarker. ASSUME DtoMMarker PROVE OneActive'
  BY <1>DtoMMarker DEF DtoMMarker, Goto, Pass, ProcessAccumulated, pipe, procs, shared, play, counts, drain, OneActive
<1>DtoMClear. ASSUME DtoMClear PROVE OneActive'
  BY <1>DtoMClear DEF DtoMClear, Goto, pipe, procs, shared, play, counts, drain, OneActive
<1>DtoMTake. ASSUME DtoMTake PROVE OneActive'
  BY <1>DtoMTake DEF DtoMTake, Goto, Receive, Takes, ProcessAccumulated, pipe, procs, shared, play, counts, drain, OneActive
<1>DtoMPause. ASSUME DtoMPause PROVE OneActive'
  BY <1>DtoMPause DEF DtoMPause, Goto, pipe, procs, shared, play, counts, drain, OneActive
<1>DtoMDrop. ASSUME DtoMDrop PROVE OneActive'
  BY <1>DtoMDrop DEF DtoMDrop, Goto, Gives, pipe, procs, shared, play, counts, drain, OneActive
<1>DtoMTime. ASSUME DtoMTime PROVE OneActive'
  BY <1>DtoMTime DEF DtoMTime, Goto, pipe, procs, shared, play, counts, drain, OneActive
<1>DtoMQueue. ASSUME DtoMQueue PROVE OneActive'
  BY <1>DtoMQueue DEF DtoMQueue, Goto, Gives, InHand, pipe, procs, shared, play, counts, drain, OneActive
<1>DtoMCall. ASSUME DtoMCall PROVE OneActive'
  BY <1>DtoMCall DEF DtoMCall, Receive, pipe, procs, shared, play, counts, drain, OneActive
<1>Show. ASSUME Show PROVE OneActive'
  BY <1>Show DEF Show, Send, pipe, procs, shared, play, counts, drain, OneActive
<1>PostMFrame. ASSUME PostMFrame PROVE OneActive'
  BY <1>PostMFrame DEF PostMFrame, Receive, ClearAtMarker, ProcessAccumulated, pipe, procs, shared, play, counts, drain, OneActive
<1>PostMCall. ASSUME PostMCall PROVE OneActive'
  BY <1>PostMCall DEF PostMCall, Receive, pipe, procs, shared, play, counts, drain, OneActive
<1>DrainStart. ASSUME NEW d \in Drainers, NEW p \in Policies, NEW b \in BOOLEAN, DrainStart(d, p, b) PROVE OneActive'
  <2>1. \A e \in Drainers : e # d => dpc[e] \in Ended
    BY <1>DrainStart DEF DrainStart, OneAtATime
  <2>2. \A e \in Drainers : e # d => dpc'[e] = dpc[e]
    BY <1>DrainStart DEF DrainStart, Typed, FlagsOK
  <2> QED
    BY <2>1, <2>2 DEF OneActive
<1>DrainJump. ASSUME NEW d \in Drainers, DrainJump(d) PROVE OneActive'
  <2>1. \A e \in Drainers : dpc'[e] \notin Ended => dpc[e] \notin Ended
    BY <1>DrainJump DEF DrainJump, Then, Collate, Send, Typed, FlagsOK, Ended
  <2> QED
    BY <2>1 DEF OneActive
<1>DrainFlush. ASSUME NEW d \in Drainers, DrainFlush(d) PROVE OneActive'
  <2>1. \A e \in Drainers : dpc'[e] \notin Ended => dpc[e] \notin Ended
    BY <1>DrainFlush DEF DrainFlush, Then, Typed, FlagsOK, Ended
  <2> QED
    BY <2>1 DEF OneActive
<1>DrainRounds. ASSUME NEW d \in Drainers, DrainRounds(d) PROVE OneActive'
  <2>1. \A e \in Drainers : dpc'[e] \notin Ended => dpc[e] \notin Ended
    BY <1>DrainRounds DEF DrainRounds, Then, StartsWait, Typed, FlagsOK, Ended
  <2> QED
    BY <2>1 DEF OneActive
<1>DrainGet. ASSUME NEW d \in Drainers, DrainGet(d) PROVE OneActive'
  <2>1. \A e \in Drainers : dpc'[e] \notin Ended => dpc[e] \notin Ended
    BY <1>DrainGet DEF DrainGet, Then, Typed, FlagsOK, Ended
  <2> QED
    BY <2>1 DEF OneActive
<1>DrainNumber. ASSUME NEW d \in Drainers, DrainNumber(d) PROVE OneActive'
  <2>1. \A e \in Drainers : dpc'[e] \notin Ended => dpc[e] \notin Ended
    BY <1>DrainNumber DEF DrainNumber, Then, NumberAhead, Typed, FlagsOK, Ended
  <2> QED
    BY <2>1 DEF OneActive
<1>DrainReset. ASSUME NEW d \in Drainers, DrainReset(d) PROVE OneActive'
  <2>1. \A e \in Drainers : dpc'[e] \notin Ended => dpc[e] \notin Ended
    BY <1>DrainReset DEF DrainReset, Then, Typed, FlagsOK, Ended
  <2> QED
    BY <2>1 DEF OneActive
<1>DrainMark. ASSUME NEW d \in Drainers, DrainMark(d) PROVE OneActive'
  <2>1. \A e \in Drainers : dpc'[e] \notin Ended => dpc[e] \notin Ended
    BY <1>DrainMark DEF DrainMark, Then, Typed, FlagsOK, Ended
  <2> QED
    BY <2>1 DEF OneActive
<1>DrainInsert. ASSUME NEW d \in Drainers, DrainInsert(d) PROVE OneActive'
  <2>1. \A e \in Drainers : dpc'[e] \notin Ended => dpc[e] \notin Ended
    BY <1>DrainInsert DEF DrainInsert, Then, Collate, Send, Typed, FlagsOK, Ended
  <2> QED
    BY <2>1 DEF OneActive
<1>DrainCallReset. ASSUME NEW d \in Drainers, DrainCallReset(d) PROVE OneActive'
  <2>1. \A e \in Drainers : dpc'[e] \notin Ended => dpc[e] \notin Ended
    BY <1>DrainCallReset DEF DrainCallReset, Then, Send, Typed, FlagsOK, Ended
  <2> QED
    BY <2>1 DEF OneActive
<1>DrainCallDrained. ASSUME NEW d \in Drainers, DrainCallDrained(d) PROVE OneActive'
  <2>1. \A e \in Drainers : dpc'[e] \notin Ended => dpc[e] \notin Ended
    BY <1>DrainCallDrained DEF DrainCallDrained, Then, Send, StartsWait, Typed, FlagsOK, Ended
  <2> QED
    BY <2>1 DEF OneActive
<1>DrainSucceeds. ASSUME NEW d \in Drainers, DrainSucceeds(d) PROVE OneActive'
  <2>1. \A e \in Drainers : dpc'[e] \notin Ended => dpc[e] \notin Ended
    BY <1>DrainSucceeds DEF DrainSucceeds, Then, Typed, FlagsOK, Ended
  <2> QED
    BY <2>1 DEF OneActive
<1>DrainTimesOut. ASSUME NEW d \in Drainers, DrainTimesOut(d) PROVE OneActive'
  <2>1. \A e \in Drainers : dpc'[e] \notin Ended => dpc[e] \notin Ended
    BY <1>DrainTimesOut DEF DrainTimesOut, StartsWait, Typed, FlagsOK, Ended
  <2> QED
    BY <2>1 DEF OneActive
<1>stutter. ASSUME vars' = vars PROVE OneActive'
  BY <1>stutter DEF vars, pipe, procs, shared, play, counts, drain, OneActive
<1>1. ASSUME NEW d \in Drainers, StepD(d) PROVE OneActive'
  BY <1>1, <1>DrainStart, <1>DrainJump, <1>DrainFlush, <1>DrainRounds, <1>DrainGet, <1>DrainNumber, <1>DrainReset, <1>DrainMark, <1>DrainInsert, <1>DrainCallReset, <1>DrainCallDrained, <1>DrainSucceeds, <1>DrainTimesOut DEF StepD
<1> QED
  BY StepCases, <1>1, <1>stutter, <1>Inject, <1>InputExit, <1>SetPlaybackSpeed, <1>CtoPTake, <1>CtoPParse, <1>PtoDTake, <1>PtoDCheck, <1>PtoDWindow, <1>PtoDDecode, <1>DecodeCompletes, <1>MarkerPassesOn, <1>DtoMMarker, <1>DtoMClear, <1>DtoMTake, <1>DtoMPause, <1>DtoMDrop, <1>DtoMTime, <1>DtoMQueue, <1>DtoMCall, <1>Show, <1>PostMFrame, <1>PostMCall DEF Step1, Step2, Step3, Step4

LEMMA KindsStep ==
    ASSUME Typed, KindsOK, MarkInv, [Next]_vars
    PROVE  KindsOK'
<1>Inject. ASSUME Inject PROVE KindsOK'
  <2>1. [MakeItem("data", 0, 0, 0) EXCEPT !.id = nextId] \in Item
          /\ [MakeItem("data", 0, 0, 0) EXCEPT !.id = nextId].kind = "data"
    BY MadeItem, ChangedItem DEF Typed, PipeOK, MakeItem
  <2>2. Collated \in Seq(Item) /\ Collated' = Append(Collated, [MakeItem("data", 0, 0, 0) EXCEPT !.id = nextId])
          /\ ring'["parsed"] = ring["parsed"] /\ ring'["decoded"] = ring["decoded"] /\ Manifested' = Manifested
    BY <1>Inject DEF Inject, Collate, Send, Typed, PipeOK, HandOK, TableOK, Rings, Holds, Collated, Manifested
  <2>3. OfKinds(Collated', {"data", "jump", "marker"})
    BY <2>1, <2>2, KindsAppend DEF KindsOK
  <2> QED
    BY <1>Inject, <2>2, <2>3 DEF Inject, pipe, procs, shared, play, counts, drain, KindsOK, Table
<1>InputExit. ASSUME InputExit PROVE KindsOK'
  <2>1. [MakeItem("jump", 0, 0, 0) EXCEPT !.id = nextId] \in Item
          /\ [MakeItem("jump", 0, 0, 0) EXCEPT !.id = nextId].kind = "jump"
    BY MadeItem, ChangedItem DEF Typed, PipeOK, MakeItem
  <2>2. Collated \in Seq(Item) /\ Collated' = Append(Collated, [MakeItem("jump", 0, 0, 0) EXCEPT !.id = nextId])
          /\ ring'["parsed"] = ring["parsed"] /\ ring'["decoded"] = ring["decoded"] /\ Manifested' = Manifested
    BY <1>InputExit DEF InputExit, Collate, Send, Typed, PipeOK, HandOK, TableOK, Rings, Holds, Collated, Manifested
  <2>3. OfKinds(Collated', {"data", "jump", "marker"})
    BY <2>1, <2>2, KindsAppend DEF KindsOK
  <2> QED
    BY <1>InputExit, <2>2, <2>3 DEF InputExit, pipe, procs, shared, play, counts, drain, KindsOK, Table
<1>SetPlaybackSpeed. ASSUME SetPlaybackSpeed PROVE KindsOK'
  BY <1>SetPlaybackSpeed DEF SetPlaybackSpeed, pipe, procs, shared, play, counts, drain, KindsOK, Collated, Manifested, Table
<1>CtoPTake. ASSUME CtoPTake PROVE KindsOK'
  <2> DEFINE i == Head(Collated)
  <2>1. Collated \in Seq(Item) /\ Collated # <<>> /\ Collated' = Tail(Collated)
          /\ ring'["parsed"] = ring["parsed"] /\ ring'["decoded"] = ring["decoded"] /\ Manifested' = Manifested
    BY <1>CtoPTake DEF CtoPTake, Receive, Typed, PipeOK, HandOK, TableOK, Rings, Holds, Collated, Manifested
  <2>2. OfKinds(Collated', {"data", "jump", "marker"}) /\ i.kind \in {"data", "jump", "marker"} /\ i = Collated[1]
          /\ i \in Item
    BY <2>1, KindsTail DEF KindsOK
  <2>3. i.kind = "marker" => Recognised(i)
    <3>1. 1 \in DOMAIN Collated
      BY <2>1
    <3> QED
      BY <2>2, <3>1 DEF MarkInv, MarksOK, IsMarker, Recognised
  <2>4. Numbered(i).kind = i.kind
    BY <2>2, <2>3 DEF Numbered, Item
  <2>5. hold' = hold \/ hold' = [hold EXCEPT !["CtoP"] = <<Numbered(i)>>]
    BY <1>CtoPTake DEF CtoPTake, Takes, Collated
  <2>6. OfKinds(<<Numbered(i)>>, {"data", "jump", "marker"})
    BY <2>2, <2>4, KindsOne
  <2> HIDE DEF i
  <2>7. OfKinds(hold'["CtoP"], {"data", "jump", "marker"}) /\ hold'["PtoD"] = hold["PtoD"] /\ hold'["DtoM"] = hold["DtoM"]
    BY <2>5, <2>6 DEF KindsOK, Typed, PipeOK, HandOK, TableOK, Rings, Holds
  <2>8. pc'["PtoD"] = pc["PtoD"] /\ codec' = codec /\ display' = display /\ accumulated' = accumulated
    BY <1>CtoPTake DEF CtoPTake, Typed, PipeOK, HandOK, TableOK, Rings, Holds
  <2> QED
    BY <2>1, <2>2, <2>7, <2>8 DEF KindsOK, Table
<1>CtoPParse. ASSUME CtoPParse PROVE KindsOK'
  <2>1. InHand("CtoP") \in Item /\ InHand("CtoP").kind \in {"data", "jump", "marker"}
    BY <1>CtoPParse, HeldKind DEF CtoPParse, Goto, KindsOK, Holds
  <2>2. hold'["CtoP"] = <<>> /\ hold'["PtoD"] = hold["PtoD"] /\ hold'["DtoM"] = hold["DtoM"] /\ pc'["PtoD"] = pc["PtoD"]
    BY <1>CtoPParse DEF CtoPParse, Goto, Gives, Typed, PipeOK, HandOK, TableOK, Rings, Holds
  <2>3. CASE InHand("CtoP").kind # "jump" /\ Send("parsed", InHand("CtoP"))
    <3>1. ring["parsed"] \in Seq(Item) /\ ring'["parsed"] = Append(ring["parsed"], InHand("CtoP"))
            /\ ring'["collated"] = ring["collated"] /\ ring'["decoded"] = ring["decoded"] /\ Manifested' = Manifested
      BY <2>3 DEF Send, Typed, PipeOK, HandOK, TableOK, Rings, Holds, Manifested
    <3>2. OfKinds(ring'["parsed"], {"data", "marker"})
      BY <2>1, <2>3, <3>1, KindsAppend DEF KindsOK
    <3> QED
      BY <1>CtoPParse, <2>2, <3>1, <3>2, KindsNone DEF CtoPParse, pipe, procs, shared, play, counts, drain, KindsOK, Table, Collated
  <2>4. CASE UNCHANGED ring
    BY <1>CtoPParse, <2>2, <2>4, KindsNone DEF CtoPParse, pipe, procs, shared, play, counts, drain, KindsOK, Table, Collated, Manifested
  <2> QED
    BY <1>CtoPParse, <2>3, <2>4 DEF CtoPParse
<1>PtoDTake. ASSUME PtoDTake PROVE KindsOK'
  <2>1. ring["parsed"] \in Seq(Item) /\ ring["parsed"] # <<>> /\ ring'["parsed"] = Tail(ring["parsed"])
          /\ ring'["collated"] = ring["collated"] /\ ring'["decoded"] = ring["decoded"] /\ Manifested' = Manifested
    BY <1>PtoDTake DEF PtoDTake, Receive, Typed, PipeOK, HandOK, TableOK, Rings, Holds, Manifested
  <2>2. OfKinds(ring'["parsed"], {"data", "marker"}) /\ Head(ring["parsed"]).kind \in {"data", "marker"}
    BY <2>1, KindsTail DEF KindsOK
  <2>3. hold'["PtoD"] = <<Head(ring["parsed"])>> /\ hold'["CtoP"] = hold["CtoP"] /\ hold'["DtoM"] = hold["DtoM"]
          /\ pc'["PtoD"] = "check"
    BY <1>PtoDTake DEF PtoDTake, Takes, Goto, Typed, PipeOK, HandOK, TableOK, Rings, Holds
  <2>4. OfKinds(hold'["PtoD"], {"data", "marker"})
    BY <2>2, <2>3, KindsOne
  <2> QED
    BY <1>PtoDTake, <2>1, <2>2, <2>3, <2>4 DEF PtoDTake, pipe, procs, shared, play, counts, drain, KindsOK, Table, Collated
<1>PtoDCheck. ASSUME PtoDCheck PROVE KindsOK'
  <2>1. UNCHANGED pipe /\ UNCHANGED accumulated
    BY <1>PtoDCheck DEF PtoDCheck
  <2>2. CASE PtoDDiscard("check")
    <3>1. hold'["PtoD"] = <<>> /\ hold'["CtoP"] = hold["CtoP"] /\ hold'["DtoM"] = hold["DtoM"]
      BY <2>2 DEF PtoDDiscard, Gives, Typed, PipeOK, HandOK, TableOK, Rings, Holds
    <3> QED
      BY <2>1, <3>1, KindsNone DEF pipe, KindsOK, Table, Collated, Manifested
  <2>3. CASE Goto("PtoD", "check", IF InHand("PtoD").kind = "marker" THEN "decode" ELSE "window") /\ hold' = hold
    <3>1. InHand("PtoD").kind \in {"data", "marker"} /\ hold["PtoD"] = <<InHand("PtoD")>>
      BY <2>3, HeldKind, InHandTyped DEF Goto, KindsOK, Holds, Typed
    <3>2. pc'["PtoD"] = "window" => InHand("PtoD").kind # "marker"
      BY <2>3 DEF Goto, Typed, PipeOK, HandOK, TableOK, Rings, Holds
    <3>3. pc'["PtoD"] = "window" => OfKinds(hold["PtoD"], {"data"})
      BY <3>1, <3>2, KindsOne
    <3> QED
      BY <2>1, <2>3, <3>3 DEF pipe, KindsOK, Table, Collated, Manifested
  <2> QED
    BY <1>PtoDCheck, <2>2, <2>3 DEF PtoDCheck
<1>PtoDWindow. ASSUME PtoDWindow PROVE KindsOK'
  <2>1. UNCHANGED pipe /\ UNCHANGED accumulated
    BY <1>PtoDWindow DEF PtoDWindow
  <2>2. CASE PtoDDiscard("window")
    <3>1. hold'["PtoD"] = <<>> /\ hold'["CtoP"] = hold["CtoP"] /\ hold'["DtoM"] = hold["DtoM"]
      BY <2>2 DEF PtoDDiscard, Gives, Typed, PipeOK, HandOK, TableOK, Rings, Holds
    <3> QED
      BY <2>1, <3>1, KindsNone DEF pipe, KindsOK, Table, Collated, Manifested
  <2>3. CASE Goto("PtoD", "window", "decode") /\ hold' = hold
    <3>2. pc'["PtoD"] = "decode"
      BY <2>3 DEF Goto, Typed, PipeOK, HandOK, TableOK, Rings, Holds
    <3> QED
      BY <2>1, <2>3, <3>2 DEF pipe, KindsOK, Table, Collated, Manifested
  <2> QED
    BY <1>PtoDWindow, <2>2, <2>3 DEF PtoDWindow
<1>PtoDDecode. ASSUME PtoDDecode PROVE KindsOK'
  <2>1. InHand("PtoD") \in Item /\ InHand("PtoD").kind \in {"data", "marker"}
    BY <1>PtoDDecode, HeldKind DEF PtoDDecode, Goto, KindsOK, Holds
  <2>2. hold'["PtoD"] = <<>> /\ hold'["CtoP"] = hold["CtoP"] /\ hold'["DtoM"] = hold["DtoM"]
    BY <1>PtoDDecode DEF PtoDDecode, Gives, Typed, PipeOK, HandOK, TableOK, Rings, Holds
  <2>3. codec \in Seq(Item) /\ OfKinds(codec, {"data", "marker"})
    BY DEF Typed, PipeOK, HandOK, TableOK, Rings, Holds, KindsOK
  <2>5. CASE \E k \in Waiting : codec' = Append(Without(codec, k), InHand("PtoD"))
    <3>1. PICK k \in DOMAIN codec : codec' = Append(Without(codec, k), InHand("PtoD"))
      BY <2>5 DEF Waiting
    <3>2. Without(codec, k) \in Seq(Item) /\ OfKinds(Without(codec, k), {"data", "marker"})
      BY <2>3, WithoutSeq, KindsWithout
    <3>3. OfKinds(codec', {"data", "marker"})
      BY <2>1, <3>1, <3>2, KindsAppend
    <3> QED
      BY <1>PtoDDecode, <2>2, <3>3, KindsNone DEF PtoDDecode, pipe, procs, shared, play, counts, drain, KindsOK, Table, Collated, Manifested, Goto, Typed, PipeOK, HandOK, TableOK, Rings, Holds
  <2>6. CASE OfKinds(codec', {"data", "marker"})
    BY <1>PtoDDecode, <2>2, <2>6, KindsNone DEF PtoDDecode, pipe, procs, shared, play, counts, drain, KindsOK, Table, Collated, Manifested, Goto, Typed, PipeOK, HandOK, TableOK, Rings, Holds
  <2>7. CASE codec' = Append(codec, InHand("PtoD"))
    <3>1. OfKinds(codec', {"data", "marker"})
      BY <2>1, <2>3, <2>7, KindsAppend
    <3> QED
      BY <2>6, <3>1
  <2> QED
    BY <1>PtoDDecode, <2>5, <2>7 DEF PtoDDecode
<1>DecodeCompletes. ASSUME DecodeCompletes PROVE KindsOK'
  <2>1. codec \in Seq(Item) /\ codec # <<>> /\ codec' = Tail(codec)
    BY <1>DecodeCompletes DEF DecodeCompletes, Typed, PipeOK, HandOK, TableOK, Rings, Holds
  <2>2. OfKinds(codec', {"data", "marker"}) /\ Head(codec).kind \in {"data", "marker"} /\ Head(codec) \in Item
    BY <2>1, KindsTail DEF KindsOK
  <2>3. CASE UNCHANGED ring
    BY <1>DecodeCompletes, <2>2, <2>3 DEF DecodeCompletes, pipe, procs, shared, play, counts, drain, KindsOK, Table, Collated, Manifested
  <2>4. CASE Send("decoded", Head(codec))
    <3>1. ring["decoded"] \in Seq(Item) /\ ring'["decoded"] = Append(ring["decoded"], Head(codec))
            /\ ring'["collated"] = ring["collated"] /\ ring'["parsed"] = ring["parsed"] /\ Manifested' = Manifested
      BY <2>4 DEF Send, Typed, PipeOK, HandOK, TableOK, Rings, Holds, Manifested
    <3>2. OfKinds(ring'["decoded"], {"data", "marker", "reset"})
      BY <2>2, <3>1, KindsAppend DEF KindsOK
    <3> QED
      BY <1>DecodeCompletes, <2>2, <3>1, <3>2 DEF DecodeCompletes, pipe, procs, shared, play, counts, drain, KindsOK, Table, Collated
  <2> QED
    BY <1>DecodeCompletes, <2>3, <2>4 DEF DecodeCompletes
<1>MarkerPassesOn. ASSUME MarkerPassesOn PROVE KindsOK'
  <2>1. codec \in Seq(Item) /\ codec # <<>> /\ codec' = Tail(codec)
    BY <1>MarkerPassesOn DEF MarkerPassesOn, Typed, PipeOK, HandOK, TableOK, Rings, Holds
  <2>2. OfKinds(codec', {"data", "marker"}) /\ Head(codec).kind \in {"data", "marker"} /\ Head(codec) \in Item
    BY <2>1, KindsTail DEF KindsOK
  <2>3. CASE UNCHANGED ring
    BY <1>MarkerPassesOn, <2>2, <2>3 DEF MarkerPassesOn, pipe, procs, shared, play, counts, drain, KindsOK, Table, Collated, Manifested
  <2>4. CASE Send("decoded", Head(codec))
    <3>1. ring["decoded"] \in Seq(Item) /\ ring'["decoded"] = Append(ring["decoded"], Head(codec))
            /\ ring'["collated"] = ring["collated"] /\ ring'["parsed"] = ring["parsed"] /\ Manifested' = Manifested
      BY <2>4 DEF Send, Typed, PipeOK, HandOK, TableOK, Rings, Holds, Manifested
    <3>2. OfKinds(ring'["decoded"], {"data", "marker", "reset"})
      BY <2>2, <3>1, KindsAppend DEF KindsOK
    <3> QED
      BY <1>MarkerPassesOn, <2>2, <3>1, <3>2 DEF MarkerPassesOn, pipe, procs, shared, play, counts, drain, KindsOK, Table, Collated
  <2> QED
    BY <1>MarkerPassesOn, <2>3, <2>4 DEF MarkerPassesOn
<1>DtoMMarker. ASSUME DtoMMarker PROVE KindsOK'
  <2> DEFINE i == Head(ring["decoded"])
  <2>1. ring["decoded"] \in Seq(Item) /\ ring["decoded"] # <<>> /\ i.kind = "marker" /\ Manifested \in Seq(Item)
    BY <1>DtoMMarker DEF DtoMMarker, Typed, PipeOK, HandOK, TableOK, Rings, Holds, Manifested
  <2>2. ring'["decoded"] = Tail(ring["decoded"]) /\ Manifested' = Append(Manifested, i)
          /\ ring'["collated"] = ring["collated"] /\ ring'["parsed"] = ring["parsed"]
    BY <1>DtoMMarker DEF DtoMMarker, Pass, Typed, PipeOK, HandOK, TableOK, Rings, Holds, Manifested
  <2>3. i \in Item /\ OfKinds(Tail(ring["decoded"]), {"data", "marker", "reset"})
    BY <2>1, KindsTail DEF KindsOK
  <2> HIDE DEF i
  <2>4. OfKinds(Manifested', {"data", "marker", "drained"})
    BY <2>1, <2>2, <2>3, KindsAppend DEF KindsOK
  <2>5. Table' = Table
    BY <1>DtoMMarker DEF DtoMMarker, ProcessAccumulated, Typed, PipeOK, HandOK, TableOK, Rings, Holds, Table
  <2>6. pc'["PtoD"] = pc["PtoD"]
    BY <1>DtoMMarker DEF DtoMMarker, Goto, Typed, PipeOK, HandOK, TableOK, Rings, Holds
  <2> QED
    BY <1>DtoMMarker, <2>2, <2>3, <2>4, <2>5, <2>6 DEF DtoMMarker, pipe, procs, shared, play, counts, drain, KindsOK, Collated
<1>DtoMClear. ASSUME DtoMClear PROVE KindsOK'
  <2>1. pc'["PtoD"] = pc["PtoD"]
    BY <1>DtoMClear DEF DtoMClear, Goto, Typed, PipeOK, HandOK, TableOK, Rings, Holds
  <2> QED
    BY <1>DtoMClear, <2>1 DEF DtoMClear, pipe, procs, shared, play, counts, drain, KindsOK, Collated, Manifested, Table
<1>DtoMTake. ASSUME DtoMTake PROVE KindsOK'
  <2> DEFINE i == Head(ring["decoded"])
  <2>1. ring["decoded"] \in Seq(Item) /\ ring["decoded"] # <<>> /\ i.kind \in {"data", "blank"}
    BY <1>DtoMTake DEF DtoMTake, Typed, PipeOK, HandOK, TableOK, Rings, Holds
  <2>2. ring'["decoded"] = Tail(ring["decoded"]) /\ Manifested' = Manifested
          /\ ring'["collated"] = ring["collated"] /\ ring'["parsed"] = ring["parsed"]
    BY <1>DtoMTake DEF DtoMTake, Receive, Typed, PipeOK, HandOK, TableOK, Rings, Holds, Manifested
  <2>3. i.kind \in {"data", "marker", "reset"} /\ OfKinds(Tail(ring["decoded"]), {"data", "marker", "reset"})
    BY <2>1, KindsTail DEF KindsOK
  <2>4. hold'["DtoM"] = <<i>> /\ hold'["CtoP"] = hold["CtoP"] /\ hold'["PtoD"] = hold["PtoD"] /\ pc'["PtoD"] = pc["PtoD"]
    BY <1>DtoMTake DEF DtoMTake, Takes, Goto, Typed, PipeOK, HandOK, TableOK, Rings, Holds
  <2> HIDE DEF i
  <2>5. OfKinds(hold'["DtoM"], {"data"})
    BY <2>1, <2>3, <2>4, KindsOne
  <2>6. Table' = Table
    BY <1>DtoMTake DEF DtoMTake, ProcessAccumulated, Typed, PipeOK, HandOK, TableOK, Rings, Holds, Table
  <2> QED
    BY <1>DtoMTake, <2>2, <2>3, <2>4, <2>5, <2>6 DEF DtoMTake, pipe, procs, shared, play, counts, drain, KindsOK, Collated
<1>DtoMPause. ASSUME DtoMPause PROVE KindsOK'
  <2>1. pc'["PtoD"] = pc["PtoD"]
    BY <1>DtoMPause DEF DtoMPause, Goto, Typed, PipeOK, HandOK, TableOK, Rings, Holds
  <2> QED
    BY <1>DtoMPause, <2>1 DEF DtoMPause, pipe, procs, shared, play, counts, drain, KindsOK, Collated, Manifested, Table
<1>DtoMDrop. ASSUME DtoMDrop PROVE KindsOK'
  <2>1. pc'["PtoD"] = pc["PtoD"] /\ hold'["DtoM"] = <<>> /\ hold'["CtoP"] = hold["CtoP"] /\ hold'["PtoD"] = hold["PtoD"]
    BY <1>DtoMDrop DEF DtoMDrop, Goto, Gives, Typed, PipeOK, HandOK, TableOK, Rings, Holds
  <2> QED
    BY <1>DtoMDrop, <2>1, KindsNone DEF DtoMDrop, pipe, procs, shared, play, counts, drain, KindsOK, Collated, Manifested, Table
<1>DtoMTime. ASSUME DtoMTime PROVE KindsOK'
  <2>1. pc'["PtoD"] = pc["PtoD"]
    BY <1>DtoMTime DEF DtoMTime, Goto, Typed, PipeOK, HandOK, TableOK, Rings, Holds
  <2> QED
    BY <1>DtoMTime, <2>1 DEF DtoMTime, pipe, procs, shared, play, counts, drain, KindsOK, Collated, Manifested, Table
<1>DtoMQueue. ASSUME DtoMQueue PROVE KindsOK'
  <2>1. pc'["PtoD"] = pc["PtoD"] /\ hold'["DtoM"] = <<>> /\ hold'["CtoP"] = hold["CtoP"] /\ hold'["PtoD"] = hold["PtoD"]
    BY <1>DtoMQueue DEF DtoMQueue, Goto, Gives, Typed, PipeOK, HandOK, TableOK, Rings, Holds
  <2>2. InHand("DtoM") \in Item /\ InHand("DtoM").kind \in {"data"}
    BY <1>DtoMQueue, HeldKind DEF DtoMQueue, Goto, KindsOK, Holds
  <2>3. display \in Seq(Item) /\ display' = Append(display, InHand("DtoM"))
    BY <1>DtoMQueue DEF DtoMQueue, Typed, PipeOK, HandOK, TableOK, Rings, Holds
  <2>4. OfKinds(display', {"data"})
    BY <2>2, <2>3, KindsAppend DEF KindsOK
  <2> QED
    BY <1>DtoMQueue, <2>1, <2>4, KindsNone DEF DtoMQueue, pipe, procs, shared, play, counts, drain, KindsOK, Collated, Manifested, Table
<1>DtoMCall. ASSUME DtoMCall PROVE KindsOK'
  <2>1. ring["decoded"] \in Seq(Item) /\ ring["decoded"] # <<>>
    BY <1>DtoMCall DEF DtoMCall, Typed, PipeOK, HandOK, TableOK, Rings, Holds
  <2>2. ring'["decoded"] = Tail(ring["decoded"]) /\ Manifested' = Manifested
          /\ ring'["collated"] = ring["collated"] /\ ring'["parsed"] = ring["parsed"]
    BY <1>DtoMCall DEF DtoMCall, Receive, Typed, PipeOK, HandOK, TableOK, Rings, Holds, Manifested
  <2>3. OfKinds(Tail(ring["decoded"]), {"data", "marker", "reset"})
    BY <2>1, KindsTail DEF KindsOK
  <2>4. Table' = Table
    BY <1>DtoMCall DEF DtoMCall, Accumulate, Typed, PipeOK, HandOK, TableOK, Rings, Holds, Table
  <2> QED
    BY <1>DtoMCall, <2>2, <2>3, <2>4 DEF DtoMCall, pipe, procs, shared, play, counts, drain, KindsOK, Collated
<1>Show. ASSUME Show PROVE KindsOK'
  <2>1. display \in Seq(Item) /\ display # <<>> /\ Manifested \in Seq(Item)
    BY <1>Show DEF Show, Typed, PipeOK, HandOK, TableOK, Rings, Holds, Manifested
  <2>2. OfKinds(Tail(display), {"data"}) /\ Head(display).kind \in {"data"} /\ Head(display) \in Item
    BY <2>1, KindsTail DEF KindsOK
  <2>3. display' = Tail(display) /\ Manifested' = Append(Manifested, Head(display))
          /\ ring'["collated"] = ring["collated"] /\ ring'["parsed"] = ring["parsed"] /\ ring'["decoded"] = ring["decoded"]
    BY <1>Show DEF Show, Send, Typed, PipeOK, HandOK, TableOK, Rings, Holds, Manifested
  <2>4. OfKinds(Manifested', {"data", "marker", "drained"})
    BY <2>1, <2>2, <2>3, KindsAppend DEF KindsOK
  <2> QED
    BY <1>Show, <2>2, <2>3, <2>4 DEF Show, pipe, procs, shared, play, counts, drain, KindsOK, Collated, Table
<1>PostMFrame. ASSUME PostMFrame PROVE KindsOK'
  <2>1. Manifested \in Seq(Item) /\ Manifested # <<>> /\ Manifested' = Tail(Manifested)
          /\ ring'["collated"] = ring["collated"] /\ ring'["parsed"] = ring["parsed"] /\ ring'["decoded"] = ring["decoded"]
    BY <1>PostMFrame DEF PostMFrame, Receive, Typed, PipeOK, HandOK, TableOK, Rings, Holds, Manifested
  <2>2. OfKinds(Manifested', {"data", "marker", "drained"})
    BY <2>1, KindsTail DEF KindsOK
  <2>3. \A k \in Slots : Table'[k] = <<>> \/ Table'[k] = Table[k]
    BY <1>PostMFrame DEF PostMFrame, ProcessAccumulated, Table, Typed, PipeOK, HandOK, TableOK, Rings, Holds
  <2>4. \A k \in Slots : OfKinds(Table'[k], {"drained"})
    BY <2>3, KindsNone DEF KindsOK
  <2> QED
    BY <1>PostMFrame, <2>1, <2>2, <2>4 DEF PostMFrame, pipe, procs, shared, play, counts, drain, KindsOK, Collated
<1>PostMCall. ASSUME PostMCall PROVE KindsOK'
  <2>1. Manifested \in Seq(Item) /\ Manifested # <<>> /\ Manifested' = Tail(Manifested) /\ ~IsFrame(Head(Manifested))
          /\ ring'["collated"] = ring["collated"] /\ ring'["parsed"] = ring["parsed"] /\ ring'["decoded"] = ring["decoded"]
    BY <1>PostMCall DEF PostMCall, Receive, Typed, PipeOK, HandOK, TableOK, Rings, Holds, Manifested
  <2>2. OfKinds(Manifested', {"data", "marker", "drained"}) /\ Head(Manifested).kind \in {"data", "marker", "drained"}
    BY <2>1, KindsTail DEF KindsOK
  <2>3. Head(Manifested).kind \in {"drained"}
    BY <2>1, <2>2 DEF IsFrame, Calls
  <2>4. \A k \in Slots : Table'[k] = Table[k] \/ Table'[k] = <<Head(Manifested)>>
    BY <1>PostMCall, SMTT(30)
    DEF PostMCall, Accumulate, Free, Table, Manifested, Typed, PipeOK, HandOK, TableOK, Rings, Holds
  <2>5. \A k \in Slots : OfKinds(Table'[k], {"drained"})
    BY <2>3, <2>4, KindsOne DEF KindsOK
  <2> QED
    BY <1>PostMCall, <2>1, <2>2, <2>5 DEF PostMCall, pipe, procs, shared, play, counts, drain, KindsOK, Collated
<1>DrainStart. ASSUME NEW d \in Drainers, NEW p \in Policies, NEW b \in BOOLEAN, DrainStart(d, p, b) PROVE KindsOK'
  BY <1>DrainStart DEF DrainStart, pipe, procs, shared, play, counts, drain, KindsOK, Collated, Manifested, Table
<1>DrainJump. ASSUME NEW d \in Drainers, DrainJump(d) PROVE KindsOK'
  <2>0. CASE UNCHANGED ring
    BY <1>DrainJump, <2>0 DEF DrainJump, pipe, procs, shared, play, counts, drain, KindsOK, Collated, Manifested, Table
  <2>1. [MakeItem("jump", 0, 0, 0) EXCEPT !.id = nextId] \in Item
          /\ [MakeItem("jump", 0, 0, 0) EXCEPT !.id = nextId].kind = "jump"
    BY MadeItem, ChangedItem DEF Typed, PipeOK, MakeItem
  <2>5. CASE Collate(MakeItem("jump", 0, 0, 0))
    <3>2. Collated \in Seq(Item) /\ Collated' = Append(Collated, [MakeItem("jump", 0, 0, 0) EXCEPT !.id = nextId])
            /\ ring'["parsed"] = ring["parsed"] /\ ring'["decoded"] = ring["decoded"] /\ Manifested' = Manifested
      BY <2>5 DEF Collate, Send, Typed, PipeOK, HandOK, TableOK, Rings, Holds, Collated, Manifested
    <3>3. OfKinds(Collated', {"data", "jump", "marker"})
      BY <2>1, <3>2, KindsAppend DEF KindsOK
    <3> QED
      BY <1>DrainJump, <3>2, <3>3 DEF DrainJump, pipe, procs, shared, play, counts, drain, KindsOK, Table
  <2> QED
    BY <1>DrainJump, <2>0, <2>5 DEF DrainJump
<1>DrainFlush. ASSUME NEW d \in Drainers, DrainFlush(d) PROVE KindsOK'
  <2>0. CASE UNCHANGED <<display, ring>>
    BY <1>DrainFlush, <2>0 DEF DrainFlush, pipe, procs, shared, play, counts, drain, KindsOK, Collated, Manifested, Table
  <2>1. CASE display # <<>>
    <3>1. display \in Seq(Item) /\ Manifested \in Seq(Item) /\ Tail(display) \in Seq(Item)
      BY <2>1, PrefixTyped DEF Typed, PipeOK, HandOK, TableOK, Rings, Holds, Manifested
    <3>2. OfKinds(Tail(display), {"data"}) /\ Head(display).kind \in {"data"}
      BY <2>1, <3>1, KindsTail DEF KindsOK
    <3>3. display' = <<Head(display)>> /\ Manifested' = Manifested \o Tail(display)
            /\ ring'["collated"] = ring["collated"] /\ ring'["parsed"] = ring["parsed"] /\ ring'["decoded"] = ring["decoded"]
      BY <1>DrainFlush, <2>1 DEF DrainFlush, Typed, PipeOK, HandOK, TableOK, Rings, Holds, Manifested
    <3>4. OfKinds(Tail(display), {"data", "marker", "drained"})
      BY <3>2 DEF OfKinds
    <3>5. OfKinds(Manifested', {"data", "marker", "drained"})
      BY <3>1, <3>3, <3>4, KindsConcat DEF KindsOK
    <3>6. OfKinds(display', {"data"})
      BY <3>2, <3>3, KindsOne
    <3> QED
      BY <1>DrainFlush, <3>3, <3>5, <3>6 DEF DrainFlush, pipe, procs, shared, play, counts, drain, KindsOK, Collated, Table
  <2> QED
    BY <1>DrainFlush, <2>0, <2>1 DEF DrainFlush
<1>DrainRounds. ASSUME NEW d \in Drainers, DrainRounds(d) PROVE KindsOK'
  BY <1>DrainRounds DEF DrainRounds, Then, StartsWait, pipe, procs, shared, play, counts, drain, KindsOK, Collated, Manifested, Table
<1>DrainGet. ASSUME NEW d \in Drainers, DrainGet(d) PROVE KindsOK'
  BY <1>DrainGet DEF DrainGet, Then, pipe, procs, shared, play, counts, drain, KindsOK, Collated, Manifested, Table
<1>DrainNumber. ASSUME NEW d \in Drainers, DrainNumber(d) PROVE KindsOK'
  BY <1>DrainNumber DEF DrainNumber, Then, NumberAhead, pipe, procs, shared, play, counts, drain, KindsOK, Collated, Manifested, Table
<1>DrainReset. ASSUME NEW d \in Drainers, DrainReset(d) PROVE KindsOK'
  BY <1>DrainReset DEF DrainReset, Then, pipe, procs, shared, play, counts, drain, KindsOK, Collated, Manifested, Table
<1>DrainMark. ASSUME NEW d \in Drainers, DrainMark(d) PROVE KindsOK'
  BY <1>DrainMark DEF DrainMark, Then, pipe, procs, shared, play, counts, drain, KindsOK, Collated, Manifested, Table
<1>DrainInsert. ASSUME NEW d \in Drainers, DrainInsert(d) PROVE KindsOK'
  <2>1. [marker[d] EXCEPT !.id = nextId] \in Item /\ [marker[d] EXCEPT !.id = nextId].kind = "marker"
    <3>1. marker[d] \in Item /\ nextId \in Nat /\ marker[d].kind = "marker"
      BY DEF Typed, PipeOK, MarkInv, MarkerOf
    <3> QED
      BY <3>1, ChangedItem DEF Item
  <2>2. Collated \in Seq(Item) /\ Collated' = Append(Collated, [marker[d] EXCEPT !.id = nextId])
          /\ ring'["parsed"] = ring["parsed"] /\ ring'["decoded"] = ring["decoded"] /\ Manifested' = Manifested
    BY <1>DrainInsert DEF DrainInsert, Collate, Send, Typed, PipeOK, HandOK, TableOK, Rings, Holds, Collated, Manifested
  <2>3. OfKinds(Collated', {"data", "jump", "marker"})
    BY <2>1, <2>2, KindsAppend DEF KindsOK
  <2> QED
    BY <1>DrainInsert, <2>2, <2>3 DEF DrainInsert, pipe, procs, shared, play, counts, drain, KindsOK, Table
<1>DrainCallReset. ASSUME NEW d \in Drainers, DrainCallReset(d) PROVE KindsOK'
  <2> DEFINE c == MakeItem("reset", 0, DrainSequenceNumber, 0)
  <2>1. c \in Item /\ c.kind = "reset"
    BY MadeItem DEF Typed, PipeOK, HandOK, TableOK, Rings, Holds, MakeItem
  <2>2. ring' = [ring EXCEPT !["decoded"] = Append(@, c)]
    BY <1>DrainCallReset DEF DrainCallReset, Send
  <2> HIDE DEF c
  <2>3. ring["decoded"] \in Seq(Item) /\ ring'["decoded"] = Append(ring["decoded"], c)
          /\ ring'["collated"] = ring["collated"] /\ ring'["parsed"] = ring["parsed"] /\ Manifested' = Manifested
    BY <2>2 DEF Typed, PipeOK, HandOK, TableOK, Rings, Holds, Manifested
  <2>4. OfKinds(ring'["decoded"], {"data", "marker", "reset"})
    BY <2>1, <2>3, KindsAppend DEF KindsOK
  <2> QED
    BY <1>DrainCallReset, <2>3, <2>4 DEF DrainCallReset, pipe, procs, shared, play, counts, drain, KindsOK, Collated, Table
<1>DrainCallDrained. ASSUME NEW d \in Drainers, DrainCallDrained(d) PROVE KindsOK'
  <2> DEFINE c == MakeItem("drained", 0, DrainSequenceNumber, 0)
  <2>1. c \in Item /\ c.kind = "drained"
    BY MadeItem DEF Typed, PipeOK, HandOK, TableOK, Rings, Holds, MakeItem
  <2>2. ring' = [ring EXCEPT !["manifested"] = Append(@, c)]
    BY <1>DrainCallDrained DEF DrainCallDrained, Send
  <2> HIDE DEF c
  <2>3. Manifested \in Seq(Item) /\ Manifested' = Append(Manifested, c)
          /\ ring'["collated"] = ring["collated"] /\ ring'["parsed"] = ring["parsed"] /\ ring'["decoded"] = ring["decoded"]
    BY <2>2 DEF Typed, PipeOK, HandOK, TableOK, Rings, Holds, Manifested
  <2>4. OfKinds(Manifested', {"data", "marker", "drained"})
    BY <2>1, <2>3, KindsAppend DEF KindsOK
  <2> QED
    BY <1>DrainCallDrained, <2>3, <2>4 DEF DrainCallDrained, pipe, procs, shared, play, counts, drain, KindsOK, Collated, Table
<1>DrainSucceeds. ASSUME NEW d \in Drainers, DrainSucceeds(d) PROVE KindsOK'
  BY <1>DrainSucceeds DEF DrainSucceeds, Then, pipe, procs, shared, play, counts, drain, KindsOK, Collated, Manifested, Table
<1>DrainTimesOut. ASSUME NEW d \in Drainers, DrainTimesOut(d) PROVE KindsOK'
  BY <1>DrainTimesOut DEF DrainTimesOut, StartsWait, pipe, procs, shared, play, counts, drain, KindsOK, Collated, Manifested, Table
<1>stutter. ASSUME vars' = vars PROVE KindsOK'
  BY <1>stutter DEF vars, pipe, procs, shared, play, counts, drain, KindsOK, Collated, Manifested, Table
<1>1. ASSUME NEW d \in Drainers, StepD(d) PROVE KindsOK'
  BY <1>1, <1>DrainStart, <1>DrainJump, <1>DrainFlush, <1>DrainRounds, <1>DrainGet, <1>DrainNumber, <1>DrainReset, <1>DrainMark, <1>DrainInsert, <1>DrainCallReset, <1>DrainCallDrained, <1>DrainSucceeds, <1>DrainTimesOut DEF StepD
<1> QED
  BY StepCases, <1>1, <1>stutter, <1>Inject, <1>InputExit, <1>SetPlaybackSpeed, <1>CtoPTake, <1>CtoPParse, <1>PtoDTake, <1>PtoDCheck, <1>PtoDWindow, <1>PtoDDecode, <1>DecodeCompletes, <1>MarkerPassesOn, <1>DtoMMarker, <1>DtoMClear, <1>DtoMTake, <1>DtoMPause, <1>DtoMDrop, <1>DtoMTime, <1>DtoMQueue, <1>DtoMCall, <1>Show, <1>PostMFrame, <1>PostMCall DEF Step1, Step2, Step3, Step4

-----------------------------------------------------------------------------
(* The marks: the index of the marker and the marker it stands for *)

\* What the marks and the counts speak of: most steps leave it alone, and most
\* steps of a drain change no more than its place in the program.
Kept ==
    /\ Collated' = Collated /\ NextBufferSequenceNumber' = NextBufferSequenceNumber
    /\ DrainSequenceNumber' = DrainSequenceNumber
    /\ MarkerInCodedFrameIndex' = MarkerInCodedFrameIndex
    /\ marker' = marker /\ nextId' = nextId /\ jump' = jump /\ frames' = frames
    /\ drains' = drains /\ overtaking' = overtaking
Quiet == Kept /\ dpc' = dpc

PlainMoves ==
    { <<"flush", "rounds">>, <<"rounds", "waitRounds">>, <<"get", "number">>,
      <<"resetEvent", "mark">>, <<"callReset", "callDrained">>, <<"callDrained", "wait">>,
      <<"callDrained", "launched">>, <<"wait", "drained">>, <<"wait", "late">>,
      <<"waitRounds", "unset">> }
Moves(d) ==
    /\ Kept
    /\ \E t \in DSteps :
          /\ dpc' = [dpc EXCEPT ![d] = t]
          /\ t = "number" => Coded < CodedFrames
          /\ \/ <<dpc[d], t>> \in PlainMoves
             \/ t = "get" /\ dpc[d] = "rounds" /\ MarkerInCodedFrameIndex = NoIndex
             \/ t = "get" /\ dpc[d] = "waitRounds" /\ Drained
Acts(d) ==
    \/ \E p \in Policies, b \in BOOLEAN : DrainStart(d, p, b)
    \/ DrainJump(d) \/ DrainNumber(d) \/ DrainMark(d) \/ DrainInsert(d)

LEMMA StepKinds ==
    ASSUME Typed, [Next]_vars
    PROVE  \/ Quiet \/ Inject \/ InputExit \/ CtoPTake
           \/ \E d \in Drainers : Acts(d) \/ Moves(d)
<1>0. PipeOK /\ FlagsOK
  BY DEF Typed
<1>SetPlaybackSpeed. ASSUME SetPlaybackSpeed PROVE Quiet
  BY <1>0, <1>SetPlaybackSpeed DEF Quiet, SetPlaybackSpeed, PipeOK, Rings, Kept, Collated, pipe, procs, shared, play, counts, drain
<1>CtoPParse. ASSUME CtoPParse PROVE Quiet
  BY <1>0, <1>CtoPParse DEF Quiet, CtoPParse, Goto, Gives, Send, InHand, PipeOK, Rings, Kept, Collated, pipe, procs, shared, play, counts, drain
<1>PtoDTake. ASSUME PtoDTake PROVE Quiet
  BY <1>0, <1>PtoDTake DEF Quiet, PtoDTake, Goto, Receive, Takes, ClearAtMarker, PipeOK, Rings, Kept, Collated, pipe, procs, shared, play, counts, drain
<1>PtoDCheck. ASSUME PtoDCheck PROVE Quiet
  BY <1>0, <1>PtoDCheck DEF Quiet, PtoDCheck, PtoDDiscard, Goto, Gives, PipeOK, Rings, Kept, Collated, pipe, procs, shared, play, counts, drain
<1>PtoDWindow. ASSUME PtoDWindow PROVE Quiet
  BY <1>0, <1>PtoDWindow DEF Quiet, PtoDWindow, PtoDDiscard, Goto, Gives, PipeOK, Rings, Kept, Collated, pipe, procs, shared, play, counts, drain
<1>PtoDDecode. ASSUME PtoDDecode PROVE Quiet
  BY <1>0, <1>PtoDDecode DEF Quiet, PtoDDecode, Goto, Gives, InHand, Waiting, PipeOK, Rings, Kept, Collated, pipe, procs, shared, play, counts, drain
<1>DecodeCompletes. ASSUME DecodeCompletes PROVE Quiet
  BY <1>0, <1>DecodeCompletes DEF Quiet, DecodeCompletes, Send, PipeOK, Rings, Kept, Collated, pipe, procs, shared, play, counts, drain
<1>MarkerPassesOn. ASSUME MarkerPassesOn PROVE Quiet
  BY <1>0, <1>MarkerPassesOn DEF Quiet, MarkerPassesOn, Send, PipeOK, Rings, Kept, Collated, pipe, procs, shared, play, counts, drain
<1>DtoMMarker. ASSUME DtoMMarker PROVE Quiet
  BY <1>0, <1>DtoMMarker DEF Quiet, DtoMMarker, Goto, Pass, ProcessAccumulated, PipeOK, Rings, Kept, Collated, pipe, procs, shared, play, counts, drain
<1>DtoMClear. ASSUME DtoMClear PROVE Quiet
  BY <1>0, <1>DtoMClear DEF Quiet, DtoMClear, Goto, PipeOK, Rings, Kept, Collated, pipe, procs, shared, play, counts, drain
<1>DtoMTake. ASSUME DtoMTake PROVE Quiet
  BY <1>0, <1>DtoMTake DEF Quiet, DtoMTake, Goto, Receive, Takes, ProcessAccumulated, PipeOK, Rings, Kept, Collated, pipe, procs, shared, play, counts, drain
<1>DtoMPause. ASSUME DtoMPause PROVE Quiet
  BY <1>0, <1>DtoMPause DEF Quiet, DtoMPause, Goto, PipeOK, Rings, Kept, Collated, pipe, procs, shared, play, counts, drain
<1>DtoMDrop. ASSUME DtoMDrop PROVE Quiet
  BY <1>0, <1>DtoMDrop DEF Quiet, DtoMDrop, Goto, Gives, PipeOK, Rings, Kept, Collated, pipe, procs, shared, play, counts, drain
<1>DtoMTime. ASSUME DtoMTime PROVE Quiet
  BY <1>0, <1>DtoMTime DEF Quiet, DtoMTime, Goto, PipeOK, Rings, Kept, Collated, pipe, procs, shared, play, counts, drain
<1>DtoMQueue. ASSUME DtoMQueue PROVE Quiet
  BY <1>0, <1>DtoMQueue DEF Quiet, DtoMQueue, Goto, Gives, InHand, PipeOK, Rings, Kept, Collated, pipe, procs, shared, play, counts, drain
<1>DtoMCall. ASSUME DtoMCall PROVE Quiet
  BY <1>0, <1>DtoMCall DEF Quiet, DtoMCall, Receive, PipeOK, Rings, Kept, Collated, pipe, procs, shared, play, counts, drain
<1>Show. ASSUME Show PROVE Quiet
  BY <1>0, <1>Show DEF Quiet, Show, Send, PipeOK, Rings, Kept, Collated, pipe, procs, shared, play, counts, drain
<1>PostMFrame. ASSUME PostMFrame PROVE Quiet
  BY <1>0, <1>PostMFrame DEF Quiet, PostMFrame, Receive, ClearAtMarker, ProcessAccumulated, PipeOK, Rings, Kept, Collated, pipe, procs, shared, play, counts, drain
<1>PostMCall. ASSUME PostMCall PROVE Quiet
  BY <1>0, <1>PostMCall DEF Quiet, PostMCall, Receive, PipeOK, Rings, Kept, Collated, pipe, procs, shared, play, counts, drain
<1>DrainFlush. ASSUME NEW d \in Drainers, DrainFlush(d) PROVE Moves(d)
  <2>1. Kept
    BY <1>0, <1>DrainFlush DEF DrainFlush, Then, PipeOK, Rings, Kept, Collated, pipe, procs, shared, play, counts, drain
  <2> QED
    BY <2>1, <1>DrainFlush DEF DrainFlush, Then, Moves, PlainMoves, DSteps, Ended, Before, Marking, HasNumber
<1>DrainRounds. ASSUME NEW d \in Drainers, DrainRounds(d) PROVE Moves(d)
  <2>1. Kept
    BY <1>0, <1>DrainRounds DEF DrainRounds, Then, StartsWait, PipeOK, Rings, Kept, Collated, pipe, procs, shared, play, counts, drain
  <2> QED
    BY <2>1, <1>DrainRounds DEF DrainRounds, Then, StartsWait, Moves, PlainMoves, DSteps, Ended, Before, Marking, HasNumber
<1>DrainGet. ASSUME NEW d \in Drainers, DrainGet(d) PROVE Moves(d)
  <2>1. Kept
    BY <1>0, <1>DrainGet DEF DrainGet, Then, PipeOK, Rings, Kept, Collated, pipe, procs, shared, play, counts, drain
  <2> QED
    BY <2>1, <1>DrainGet DEF DrainGet, Then, Moves, PlainMoves, DSteps, Ended, Before, Marking, HasNumber
<1>DrainReset. ASSUME NEW d \in Drainers, DrainReset(d) PROVE Moves(d)
  <2>1. Kept
    BY <1>0, <1>DrainReset DEF DrainReset, Then, PipeOK, Rings, Kept, Collated, pipe, procs, shared, play, counts, drain
  <2> QED
    BY <2>1, <1>DrainReset DEF DrainReset, Then, Moves, PlainMoves, DSteps, Ended, Before, Marking, HasNumber
<1>DrainCallReset. ASSUME NEW d \in Drainers, DrainCallReset(d) PROVE Moves(d)
  <2>1. Kept
    BY <1>0, <1>DrainCallReset DEF DrainCallReset, Then, Send, PipeOK, Rings, Kept, Collated, pipe, procs, shared, play, counts, drain
  <2> QED
    BY <2>1, <1>DrainCallReset DEF DrainCallReset, Then, Send, Moves, PlainMoves, DSteps, Ended, Before, Marking, HasNumber
<1>DrainCallDrained. ASSUME NEW d \in Drainers, DrainCallDrained(d) PROVE Moves(d)
  <2>1. Kept
    BY <1>0, <1>DrainCallDrained DEF DrainCallDrained, Then, Send, StartsWait, PipeOK, Rings, Kept, Collated, pipe, procs, shared, play, counts, drain
  <2> QED
    BY <2>1, <1>DrainCallDrained DEF DrainCallDrained, Then, Send, StartsWait, Moves, PlainMoves, DSteps, Ended, Before, Marking, HasNumber
<1>DrainSucceeds. ASSUME NEW d \in Drainers, DrainSucceeds(d) PROVE Moves(d)
  <2>1. Kept
    BY <1>0, <1>DrainSucceeds DEF DrainSucceeds, Then, PipeOK, Rings, Kept, Collated, pipe, procs, shared, play, counts, drain
  <2> QED
    BY <2>1, <1>DrainSucceeds DEF DrainSucceeds, Then, Moves, PlainMoves, DSteps, Ended, Before, Marking, HasNumber
<1>DrainTimesOut. ASSUME NEW d \in Drainers, DrainTimesOut(d) PROVE Quiet \/ Moves(d)
  <2>1. Kept
    BY <1>0, <1>DrainTimesOut DEF DrainTimesOut, StartsWait, PipeOK, Rings, Kept, Collated, pipe, procs, shared, play, counts, drain
  <2>2. CASE dpc' = dpc
    BY <2>1, <2>2 DEF Quiet
  <2>3. CASE dpc' = [dpc EXCEPT ![d] = IF @ = "wait" THEN "late" ELSE "unset"]
    <3>1. dpc' = [dpc EXCEPT ![d] = IF dpc[d] = "wait" THEN "late" ELSE "unset"]
      BY <1>0, <2>3 DEF FlagsOK
    <3>2. dpc[d] \in {"waitRounds", "wait"}
      BY <1>DrainTimesOut DEF DrainTimesOut
    <3> QED
      BY <2>1, <3>1, <3>2 DEF Moves, PlainMoves, DSteps, Ended
  <2> QED
    BY <1>DrainTimesOut, <2>2, <2>3 DEF DrainTimesOut
<1>stutter. ASSUME vars' = vars PROVE Quiet
  BY <1>stutter DEF vars, Quiet, Kept, Collated, pipe, procs, shared, play, counts, drain
<1>1. ASSUME NEW d \in Drainers, StepD(d) PROVE Quiet \/ Acts(d) \/ Moves(d)
  BY <1>1, <1>DrainFlush, <1>DrainRounds, <1>DrainGet, <1>DrainReset, <1>DrainCallReset, <1>DrainCallDrained, <1>DrainSucceeds, <1>DrainTimesOut DEF StepD, Acts
<1> QED
  BY StepCases, <1>1, <1>stutter, <1>SetPlaybackSpeed, <1>CtoPParse, <1>PtoDTake, <1>PtoDCheck, <1>PtoDWindow, <1>PtoDDecode, <1>DecodeCompletes, <1>MarkerPassesOn, <1>DtoMMarker, <1>DtoMClear, <1>DtoMTake, <1>DtoMPause, <1>DtoMDrop, <1>DtoMTime, <1>DtoMQueue, <1>DtoMCall, <1>Show, <1>PostMFrame, <1>PostMCall DEF Step1, Step2, Step3, Step4

LEMMA Alone ==
    ASSUME OneActive, NEW d \in Drainers, dpc[d] \notin Ended, NEW e \in Drainers, e # d
    PROVE  dpc[e] \in Ended
BY DEF OneActive

\* A step of a drain that cannot disturb the marks.
Steady(e) ==
    \/ dpc'[e] = dpc[e]
    \/ dpc[e] \notin Ended \cup {"insert"} /\ dpc'[e] \in {"flush", "rounds", "waitRounds"} \cup Ended
    \/ dpc[e] \in Inserted /\ dpc'[e] \in Inserted
    \/ dpc[e] = "get" /\ dpc'[e] = "number"
    \/ dpc[e] = "resetEvent" /\ dpc'[e] = "mark"

LEMMA MarkKept ==
    ASSUME MarkInv, Collated' = Collated, MarkerInCodedFrameIndex' = MarkerInCodedFrameIndex,
           DrainSequenceNumber' = DrainSequenceNumber, marker' = marker, nextId' = nextId,
           \A e \in Drainers : Steady(e)
    PROVE  MarkInv'
<1>1. MarksOK'
  <2>1. \A e \in Drainers : dpc[e] = "insert" => dpc'[e] = "insert"
    BY DEF Steady, Inserted
  <2> QED
    BY <2>1 DEF MarkInv, MarksOK, Marked
<1>2. ASSUME NEW e \in Drainers PROVE MarkerOf(e)'
  <2>1. MarkerOf(e) /\ Steady(e)
    BY DEF MarkInv
  <2>2. /\ dpc'[e] = "insert" => dpc[e] = "insert"
        /\ dpc'[e] \in {"get", "number", "resetEvent", "mark"} => dpc[e] \in {"get", "number", "resetEvent", "mark"}
        /\ dpc'[e] \notin Ended => dpc[e] \notin Ended
        /\ dpc'[e] \in HasNumber \cup Inserted => dpc[e] \in HasNumber \cup Inserted
        /\ dpc'[e] \in Inserted => dpc[e] \in Inserted
    BY <2>1 DEF Steady, HasNumber, Inserted, Ended
  <2> QED
    BY <2>1, <2>2 DEF MarkerOf, Marked
<1> QED
  BY <1>1, <1>2 DEF MarkInv

LEMMA AppendParts ==
    ASSUME NEW s \in Seq(Item), NEW x \in Item
    PROVE  /\ DOMAIN s = 1 .. Len(s) /\ Len(s) \in Nat
           /\ DOMAIN Append(s, x) = 1 .. Len(s) + 1 /\ Len(Append(s, x)) = Len(s) + 1
           /\ Append(s, x)[Len(s) + 1] = x
           /\ \A k \in 1 .. Len(s) : Append(s, x)[k] = s[k]
           /\ \A k \in DOMAIN Append(s, x) : (k \in DOMAIN s /\ Append(s, x)[k] = s[k]) \/ (k = Len(s) + 1 /\ Append(s, x)[k] = x)
OBVIOUS

LEMMA MarkedAppend ==
    ASSUME NEW s \in Seq(Item), NEW x \in Item
    PROVE  Marked(Append(s, x)) <=> Marked(s) \/ IsMarker(x)
<1>1. /\ DOMAIN Append(s, x) = 1 .. Len(s) + 1 /\ Len(s) \in Nat
      /\ DOMAIN s = 1 .. Len(s)
      /\ Append(s, x)[Len(s) + 1] = x
      /\ \A k \in 1 .. Len(s) : Append(s, x)[k] = s[k]
      /\ \A k \in DOMAIN Append(s, x) : (k \in DOMAIN s /\ Append(s, x)[k] = s[k]) \/ (k = Len(s) + 1 /\ Append(s, x)[k] = x)
  BY AppendParts
<1>2. Len(s) + 1 \in DOMAIN Append(s, x) /\ \A k \in DOMAIN s : k \in DOMAIN Append(s, x)
  BY <1>1
<1> QED
  BY <1>1, <1>2 DEF Marked

LEMMA MarkJoined ==
    ASSUME MarkInv, Collated \in Seq(Item), NEW x \in Item, ~IsMarker(x), x.token = NoIndex,
           Collated' = Append(Collated, x), MarkerInCodedFrameIndex' = MarkerInCodedFrameIndex,
           DrainSequenceNumber' = DrainSequenceNumber, marker' = marker,
           nextId \in Nat, nextId' = nextId + 1, \A e \in Drainers : marker[e].id \in Nat,
           \A e \in Drainers : Steady(e)
    PROVE  MarkInv'
<1>0. \A k \in DOMAIN Collated' : (k \in DOMAIN Collated /\ Collated'[k] = Collated[k]) \/ Collated'[k] = x
  BY AppendParts
<1>a. Marked(Collated') <=> Marked(Collated)
  BY MarkedAppend
<1>1. MarksOK'
  <2>1. \A e \in Drainers : dpc[e] = "insert" => dpc'[e] = "insert"
    BY DEF Steady, Inserted
  <2>2. \A k \in DOMAIN Collated' : IsMarker(Collated'[k]) => k \in DOMAIN Collated /\ Collated'[k] = Collated[k]
    BY <1>0
  <2>3. \A k \in DOMAIN Collated' : ~IsMarker(Collated'[k]) => Collated'[k].token = NoIndex
    BY <1>0 DEF MarkInv, MarksOK
  <2> QED
    BY <1>a, <2>1, <2>2, <2>3 DEF MarkInv, MarksOK
<1>2. ASSUME NEW e \in Drainers PROVE MarkerOf(e)'
  <2>1. MarkerOf(e) /\ Steady(e)
    BY DEF MarkInv
  <2>2. /\ dpc'[e] = "insert" => dpc[e] = "insert"
        /\ dpc'[e] \in {"get", "number", "resetEvent", "mark"} => dpc[e] \in {"get", "number", "resetEvent", "mark"}
        /\ dpc'[e] \notin Ended => dpc[e] \notin Ended
        /\ dpc'[e] \in HasNumber \cup Inserted => dpc[e] \in HasNumber \cup Inserted
        /\ dpc'[e] \in Inserted => dpc[e] \in Inserted
    BY <2>1 DEF Steady, HasNumber, Inserted, Ended
  <2>3. marker'[e].id < nextId'
    BY <2>1 DEF MarkerOf
  <2>4. \A k \in DOMAIN Collated' : IsMarker(Collated'[k]) => k \in DOMAIN Collated /\ Collated'[k] = Collated[k]
    BY <1>0
  <2> QED
    BY <1>a, <2>1, <2>2, <2>3, <2>4 DEF MarkerOf
<1> QED
  BY <1>1, <1>2 DEF MarkInv

-----------------------------------------------------------------------------
(* The marks when frames are taken from the first ring, and when a drain moves *)

LEMMA TailParts ==
    ASSUME NEW s \in Seq(Item), s # <<>>
    PROVE  /\ DOMAIN s = 1 .. Len(s) /\ Len(s) \in Nat /\ Len(s) > 0
           /\ DOMAIN Tail(s) = 1 .. Len(s) - 1 /\ Len(Tail(s)) = Len(s) - 1
           /\ Tail(s) \in Seq(Item)
           /\ \A k \in 1 .. Len(s) - 1 : Tail(s)[k] = s[k + 1] /\ k + 1 \in DOMAIN s
           /\ Head(s) = s[1] /\ 1 \in DOMAIN s /\ Head(s) \in Item
OBVIOUS

LEMMA MarkedTail ==
    ASSUME NEW s \in Seq(Item), s # <<>>
    PROVE  Marked(s) <=> Marked(Tail(s)) \/ IsMarker(Head(s))
<1>0. /\ DOMAIN s = 1 .. Len(s) /\ Len(s) \in Nat /\ Len(s) > 0
      /\ DOMAIN Tail(s) = 1 .. Len(s) - 1
      /\ \A k \in 1 .. Len(s) - 1 : Tail(s)[k] = s[k + 1] /\ k + 1 \in DOMAIN s
      /\ Head(s) = s[1] /\ 1 \in DOMAIN s
  BY TailParts
<1>1. ASSUME NEW k \in DOMAIN s, k # 1 PROVE k - 1 \in DOMAIN Tail(s) /\ Tail(s)[k - 1] = s[k]
  <2>1. k - 1 \in 1 .. Len(s) - 1
    BY <1>0, <1>1
  <2>2. Tail(s)[k - 1] = s[(k - 1) + 1]
    BY <1>0, <2>1
  <2> QED
    BY <1>0, <2>1, <2>2
<1> QED
  BY <1>0, <1>1 DEF Marked

\* The marker is the only coded frame that has an index.
LEMMA HeadRecognised ==
    ASSUME MarkInv, Collated \in Seq(Item), Collated # <<>>
    PROVE  Recognised(Head(Collated)) <=> IsMarker(Head(Collated))
<1>1. Head(Collated) = Collated[1] /\ 1 \in DOMAIN Collated
  BY TailParts
<1> QED
  BY <1>1 DEF MarkInv, MarksOK, Recognised

LEMMA TakenMarks ==
    ASSUME Typed, MarkInv, CtoPTake
    PROVE  /\ Collated \in Seq(Item) /\ Collated # <<>> /\ Collated' = Tail(Collated)
           /\ DrainSequenceNumber' = DrainSequenceNumber /\ marker' = marker /\ nextId' = nextId
           /\ dpc' = dpc /\ jump' = jump /\ frames' = frames /\ drains' = drains /\ overtaking' = overtaking
           /\ MarkerInCodedFrameIndex' = IF IsMarker(Head(Collated)) THEN NoIndex ELSE MarkerInCodedFrameIndex
           /\ NextBufferSequenceNumber' = Numbered(Head(Collated)).seq + 1
           /\ Recognised(Head(Collated)) <=> IsMarker(Head(Collated))
<1>1. Collated \in Seq(Item) /\ Collated # <<>> /\ Collated' = Tail(Collated)
  BY DEF CtoPTake, Receive, Typed, PipeOK, Rings, Collated
<1>2. Recognised(Head(Collated)) <=> IsMarker(Head(Collated))
  BY <1>1, HeadRecognised
<1>3. MarkerInCodedFrameIndex' = IF Recognised(Head(Collated)) THEN NoIndex ELSE MarkerInCodedFrameIndex
  BY DEF CtoPTake, Collated
<1>4. NextBufferSequenceNumber' = Numbered(Head(Collated)).seq + 1
  BY DEF CtoPTake, Collated
<1>5. DrainSequenceNumber' = DrainSequenceNumber /\ marker' = marker /\ nextId' = nextId
        /\ dpc' = dpc /\ jump' = jump /\ frames' = frames /\ drains' = drains /\ overtaking' = overtaking
  BY DEF CtoPTake, counts, drain
<1> QED
  BY <1>1, <1>2, <1>3, <1>4, <1>5

LEMMA MarkTaken ==
    ASSUME Typed, MarkInv, CtoPTake
    PROVE  MarkInv'
<1>1. /\ Collated \in Seq(Item) /\ Collated # <<>> /\ Collated' = Tail(Collated)
      /\ DrainSequenceNumber' = DrainSequenceNumber /\ marker' = marker /\ nextId' = nextId /\ dpc' = dpc
      /\ MarkerInCodedFrameIndex' = IF IsMarker(Head(Collated)) THEN NoIndex ELSE MarkerInCodedFrameIndex
  BY TakenMarks
<1>2. /\ DOMAIN Collated = 1 .. Len(Collated) /\ Len(Collated) \in Nat /\ Len(Collated) > 0
      /\ DOMAIN Collated' = 1 .. Len(Collated) - 1
      /\ \A k \in 1 .. Len(Collated) - 1 : Collated'[k] = Collated[k + 1] /\ k + 1 \in DOMAIN Collated
      /\ Head(Collated) = Collated[1] /\ 1 \in DOMAIN Collated
  BY <1>1, TailParts
<1>3. Marked(Collated) <=> Marked(Collated') \/ IsMarker(Head(Collated))
  BY <1>1, MarkedTail
<1>4. \A j, k \in DOMAIN Collated : IsMarker(Collated[j]) /\ IsMarker(Collated[k]) => j = k
  BY DEF MarkInv, MarksOK
<1>5. IsMarker(Head(Collated)) => ~Marked(Collated')
  <2> SUFFICES ASSUME IsMarker(Head(Collated)), NEW k \in DOMAIN Collated', IsMarker(Collated'[k]) PROVE FALSE
    BY DEF Marked
  <2>1. k + 1 \in DOMAIN Collated /\ IsMarker(Collated[k + 1]) /\ k \in Nat /\ k > 0
    BY <1>2
  <2>2. k + 1 = 1
    BY <1>2, <1>4, <2>1
  <2> QED
    BY <2>1, <2>2
<1>6. MarksOK'
  <2>1. ASSUME NEW k \in DOMAIN Collated'
        PROVE  /\ IsMarker(Collated'[k]) => /\ Collated'[k].token = MarkerInCodedFrameIndex'
                                            /\ MarkerInCodedFrameIndex' # NoIndex
                                            /\ Collated'[k].seq = DrainSequenceNumber'
               /\ ~IsMarker(Collated'[k]) => Collated'[k].token = NoIndex
    <3>1. k + 1 \in DOMAIN Collated /\ Collated'[k] = Collated[k + 1]
      BY <1>2
    <3>2. IsMarker(Collated'[k]) => ~IsMarker(Head(Collated))
      BY <1>5 DEF Marked
    <3> QED
      BY <1>1, <3>1, <3>2 DEF MarkInv, MarksOK
  <2>2. ASSUME NEW j \in DOMAIN Collated', NEW k \in DOMAIN Collated', IsMarker(Collated'[j]), IsMarker(Collated'[k])
        PROVE  j = k
    <3>1. j + 1 \in DOMAIN Collated /\ k + 1 \in DOMAIN Collated /\ IsMarker(Collated[j + 1]) /\ IsMarker(Collated[k + 1])
            /\ j \in Nat /\ k \in Nat
      BY <1>2, <2>2
    <3>2. j + 1 = k + 1
      BY <1>4, <3>1
    <3> QED
      BY <3>1, <3>2
  <2>3. MarkerInCodedFrameIndex' # NoIndex => Marked(Collated') \/ \E d \in Drainers : dpc'[d] = "insert"
    BY <1>1, <1>3 DEF MarkInv, MarksOK
  <2> QED
    BY <2>1, <2>2, <2>3 DEF MarksOK
<1>7. ASSUME NEW e \in Drainers PROVE MarkerOf(e)'
  <2>1. MarkerOf(e)
    BY DEF MarkInv
  <2>2. \A k \in DOMAIN Collated' : k + 1 \in DOMAIN Collated /\ Collated'[k] = Collated[k + 1]
    BY <1>2
  <2>3. dpc[e] = "insert" => ~IsMarker(Head(Collated)) /\ ~Marked(Collated')
    BY <1>3, <2>1 DEF MarkerOf
  <2>4. dpc[e] \in {"get", "number", "resetEvent", "mark"} => MarkerInCodedFrameIndex' = NoIndex /\ ~Marked(Collated')
    BY <1>1, <1>3, <2>1 DEF MarkerOf
  <2>5. dpc'[e] = "insert" => MarkerInCodedFrameIndex' = marker'[e].token /\ ~Marked(Collated')
    BY <1>1, <2>1, <2>3 DEF MarkerOf
  <2>6. dpc'[e] \in Inserted => \A k \in DOMAIN Collated' : IsMarker(Collated'[k]) => Collated'[k].id = marker'[e].id
    BY <1>1, <2>1, <2>2 DEF MarkerOf
  <2>7. dpc'[e] \in {"get", "number", "resetEvent", "mark"} => MarkerInCodedFrameIndex' = NoIndex /\ ~Marked(Collated')
    BY <1>1, <2>4
  <2>8. /\ marker'[e].kind = "marker" /\ marker'[e].id < nextId'
        /\ dpc'[e] \notin Ended => marker'[e].token # NoIndex
        /\ dpc'[e] \in HasNumber \cup Inserted => marker'[e].seq = DrainSequenceNumber'
    BY <1>1, <2>1 DEF MarkerOf
  <2> QED
    BY <2>5, <2>6, <2>7, <2>8 DEF MarkerOf
<1> QED
  BY <1>6, <1>7 DEF MarkInv

\* What a step of a drain does to the places of the drains in their program.
LEMMA Placed ==
    ASSUME Typed, NEW d \in Drainers, NEW t, dpc' = [dpc EXCEPT ![d] = t]
    PROVE  dpc'[d] = t /\ \A e \in Drainers : e # d => dpc'[e] = dpc[e]
BY DEF Typed, FlagsOK

\* A second marker is not made while the first one does the rounds.
LEMMA NoneOnItsWay ==
    ASSUME OneActive, MarkInv, RoundsInv, NEW d \in Drainers,
           \/ dpc[d] = "rounds" /\ MarkerInCodedFrameIndex = NoIndex
           \/ dpc[d] = "waitRounds" /\ Drained
    PROVE  MarkerInCodedFrameIndex = NoIndex /\ ~Marked(Collated)
<1>1. dpc[d] \notin Ended /\ dpc[d] # "insert"
  BY DEF Ended
<1>2. \A e \in Drainers : dpc[e] # "insert"
  BY <1>1, Alone DEF Ended
<1>3. MarkerInCodedFrameIndex # NoIndex <=> Marked(Collated)
  BY <1>2 DEF MarkInv, MarksOK, Marked
<1>4. dpc[d] = "waitRounds" /\ Drained => ~Marked(Collated)
  BY DEF RoundsInv, Starting
<1> QED
  BY <1>3, <1>4

LEMMA MarkMoves ==
    ASSUME Typed, OneActive, MarkInv, RoundsInv, NEW d \in Drainers, Moves(d)
    PROVE  MarkInv'
<1>0. Kept
  BY DEF Moves
<1>1. PICK t \in DSteps :
          /\ dpc' = [dpc EXCEPT ![d] = t]
          /\ \/ <<dpc[d], t>> \in PlainMoves
             \/ t = "get" /\ dpc[d] = "rounds" /\ MarkerInCodedFrameIndex = NoIndex
             \/ t = "get" /\ dpc[d] = "waitRounds" /\ Drained
  BY DEF Moves
<1>2. dpc'[d] = t /\ \A e \in Drainers : e # d => dpc'[e] = dpc[e]
  BY <1>1, Placed
<1>3. CASE <<dpc[d], t>> \in PlainMoves
  <2>1. Steady(d)
    BY <1>2, <1>3 DEF PlainMoves, Steady, Ended, Inserted
  <2>2. \A e \in Drainers : Steady(e)
    BY <1>2, <2>1 DEF Steady
  <2> QED
    BY <1>0, <2>2, MarkKept DEF Kept
<1>4. CASE t = "get"
  <2>1. MarkerInCodedFrameIndex = NoIndex /\ ~Marked(Collated) /\ dpc[d] \in {"rounds", "waitRounds"}
    <3>1. CASE <<dpc[d], t>> \in PlainMoves
      BY <1>4, <3>1 DEF PlainMoves
    <3> QED
      BY <1>1, <3>1, NoneOnItsWay
  <2>2. MarkerInCodedFrameIndex' = NoIndex /\ ~Marked(Collated')
    BY <1>0, <2>1 DEF Kept
  <2>3. MarksOK'
    BY <1>0, <2>2 DEF Kept, MarkInv, MarksOK, Marked
  <2>4. ASSUME NEW e \in Drainers PROVE MarkerOf(e)'
    <3>1. MarkerOf(e)
      BY DEF MarkInv
    <3>2. CASE e # d
      BY <1>0, <1>2, <3>1, <3>2 DEF Kept, MarkerOf, Marked
    <3>3. CASE e = d
      <4>1. dpc'[e] = "get" /\ dpc[e] \notin Ended
        BY <1>2, <1>4, <2>1, <3>3 DEF Ended
      <4>2. "get" \notin HasNumber \cup Inserted
        BY DEF HasNumber, Inserted
      <4>3. marker[e].kind = "marker" /\ marker[e].id < nextId /\ marker[e].token # NoIndex
        BY <3>1, <4>1 DEF MarkerOf
      <4> QED
        BY <1>0, <2>2, <4>1, <4>2, <4>3 DEF Kept, MarkerOf, Inserted
    <3> QED
      BY <3>2, <3>3
  <2> QED
    BY <2>3, <2>4 DEF MarkInv
<1> QED
  BY <1>1, <1>3, <1>4

-----------------------------------------------------------------------------
(* The marks when a frame or a marker joins the first ring *)

WithId(x) == [x EXCEPT !.id = nextId]

LEMMA CollateParts ==
    ASSUME Typed, NEW x \in Item, Collate(x)
    PROVE  /\ WithId(x) \in Item /\ WithId(x).id = nextId /\ WithId(x).kind = x.kind
           /\ WithId(x).seq = x.seq /\ WithId(x).token = x.token
           /\ Collated \in Seq(Item) /\ Collated' = Append(Collated, WithId(x))
           /\ nextId \in Nat /\ nextId > 0 /\ nextId' = nextId + 1
           /\ ring'["parsed"] = ring["parsed"] /\ ring'["decoded"] = ring["decoded"] /\ Manifested' = Manifested
<1>1. nextId \in Nat /\ nextId > 0
  BY DEF Typed, IdsOK
<1>2. WithId(x) \in Item /\ WithId(x).id = nextId /\ WithId(x).kind = x.kind
           /\ WithId(x).seq = x.seq /\ WithId(x).token = x.token
  BY <1>1 DEF WithId, Item
<1>3. ring' = [ring EXCEPT !["collated"] = Append(@, WithId(x))] /\ nextId' = nextId + 1
  BY DEF Collate, Send, WithId
<1>4. ring \in [Rings -> Seq(Item)]
  BY DEF Typed, PipeOK
<1>5. ring'["collated"] = Append(ring["collated"], WithId(x)) /\ ring["collated"] \in Seq(Item)
        /\ ring'["parsed"] = ring["parsed"] /\ ring'["decoded"] = ring["decoded"]
        /\ ring'["manifested"] = ring["manifested"]
  BY <1>3, <1>4 DEF Rings
<1> QED
  BY <1>1, <1>2, <1>3, <1>5 DEF Collated, Manifested

LEMMA MarkerTyped == Typed => \A d \in Drainers : marker[d] \in Item /\ marker[d].id \in Nat /\ marker[d].token \in Nat
BY ItemParts DEF Typed, PipeOK

LEMMA MadeFrame ==
    ASSUME NEW kind \in {"data", "jump"}
    PROVE  MakeItem(kind, 0, 0, 0) \in Item /\ ~IsMarker(MakeItem(kind, 0, 0, 0))
             /\ MakeItem(kind, 0, 0, 0).token = NoIndex /\ MakeItem(kind, 0, 0, 0).kind = kind
<1>1. MakeItem(kind, 0, 0, 0) \in Item
  BY MadeItem
<1> QED
  BY <1>1 DEF MakeItem, IsMarker, NoIndex

\* A frame that is no marker joins the first ring.
Joins ==
    \/ Inject \/ InputExit
    \/ \E d \in Drainers : DrainJump(d) /\ ~UNCHANGED <<ring, nextId>>

LEMMA JoinsParts ==
    ASSUME Typed, Joins
    PROVE  \E x \in Item :
             /\ ~IsMarker(x) /\ x.token = NoIndex /\ x.kind \in {"data", "jump"} /\ x.id = nextId
             /\ Collated \in Seq(Item) /\ Collated' = Append(Collated, x)
             /\ nextId \in Nat /\ nextId' = nextId + 1
             /\ MarkerInCodedFrameIndex' = MarkerInCodedFrameIndex /\ DrainSequenceNumber' = DrainSequenceNumber
             /\ NextBufferSequenceNumber' = NextBufferSequenceNumber /\ marker' = marker /\ drains' = drains
             /\ ring'["parsed"] = ring["parsed"] /\ ring'["decoded"] = ring["decoded"] /\ Manifested' = Manifested
             /\ codec' = codec /\ hold' = hold /\ display' = display
             /\ UNCHANGED procs /\ UNCHANGED shared
<1>1. PICK kind \in {"data", "jump"} : Collate(MakeItem(kind, 0, 0, 0))
  BY DEF Joins, Inject, InputExit, DrainJump
<1> DEFINE x == WithId(MakeItem(kind, 0, 0, 0))
<1>2. MakeItem(kind, 0, 0, 0) \in Item /\ ~IsMarker(MakeItem(kind, 0, 0, 0))
             /\ MakeItem(kind, 0, 0, 0).token = NoIndex /\ MakeItem(kind, 0, 0, 0).kind = kind
  BY MadeFrame
<1>3. /\ x \in Item /\ x.id = nextId /\ x.kind = kind /\ x.token = NoIndex
      /\ Collated \in Seq(Item) /\ Collated' = Append(Collated, x)
      /\ nextId \in Nat /\ nextId > 0 /\ nextId' = nextId + 1
      /\ ring'["parsed"] = ring["parsed"] /\ ring'["decoded"] = ring["decoded"] /\ Manifested' = Manifested
  BY <1>1, <1>2, CollateParts
<1>4. ~IsMarker(x)
  BY <1>2, <1>3 DEF IsMarker
<1>5. /\ MarkerInCodedFrameIndex' = MarkerInCodedFrameIndex /\ DrainSequenceNumber' = DrainSequenceNumber
      /\ NextBufferSequenceNumber' = NextBufferSequenceNumber /\ marker' = marker /\ drains' = drains
      /\ codec' = codec /\ hold' = hold /\ display' = display
      /\ UNCHANGED procs /\ UNCHANGED shared
  BY DEF Joins, Inject, InputExit, DrainJump, procs, shared, drain
<1> HIDE DEF x
<1> QED
  BY <1>3, <1>4, <1>5

LEMMA JoinsSteady ==
    ASSUME Typed, Joins, NEW e \in Drainers
    PROVE  Steady(e)
<1>1. CASE Inject \/ InputExit
  BY <1>1 DEF Inject, InputExit, drain, Steady
<1>2. CASE \E d \in Drainers : DrainJump(d)
  <2>1. PICK d \in Drainers : DrainJump(d)
    BY <1>2
  <2>2. dpc[d] = "jump" /\ dpc' = [dpc EXCEPT ![d] = "flush"]
    BY <2>1 DEF DrainJump, Then
  <2>3. dpc'[d] = "flush" /\ \A f \in Drainers : f # d => dpc'[f] = dpc[f]
    BY <2>2, Placed
  <2> QED
    BY <2>2, <2>3 DEF Steady, Ended
<1> QED
  BY <1>1, <1>2 DEF Joins

LEMMA MarkJoins ==
    ASSUME Typed, MarkInv, Joins
    PROVE  MarkInv'
<1>1. PICK x \in Item :
             /\ ~IsMarker(x) /\ x.token = NoIndex
             /\ Collated \in Seq(Item) /\ Collated' = Append(Collated, x)
             /\ nextId \in Nat /\ nextId' = nextId + 1
             /\ MarkerInCodedFrameIndex' = MarkerInCodedFrameIndex /\ DrainSequenceNumber' = DrainSequenceNumber
             /\ marker' = marker
  BY JoinsParts
<1>2. \A e \in Drainers : Steady(e)
  BY JoinsSteady
<1> QED
  BY <1>1, <1>2, MarkerTyped, MarkJoined

LEMMA MarkStart ==
    ASSUME OneAtATime, Typed, MarkInv, NEW d \in Drainers, NEW p \in Policies, NEW b \in BOOLEAN, DrainStart(d, p, b)
    PROVE  MarkInv'
<1>1. dpc[d] \in Ended /\ dpc' = [dpc EXCEPT ![d] = IF p = "playout" THEN "rounds" ELSE "jump"]
        /\ marker' = [marker EXCEPT ![d] = MakeItem("marker", 0, 0, drains + 1)]
  BY DEF DrainStart
<1>2. dpc'[d] \in {"rounds", "jump"} /\ \A e \in Drainers : e # d => dpc'[e] = dpc[e]
  BY <1>1, Placed
<1>3. /\ marker'[d].kind = "marker" /\ marker'[d].id = 0 /\ marker'[d].token = drains + 1
      /\ \A e \in Drainers : e # d => marker'[e] = marker[e]
  BY <1>1 DEF Typed, PipeOK, MakeItem
<1>4. Collated' = Collated /\ MarkerInCodedFrameIndex' = MarkerInCodedFrameIndex
        /\ DrainSequenceNumber' = DrainSequenceNumber /\ nextId' = nextId
  BY DEF DrainStart, pipe, Collated
<1>5. nextId > 0 /\ drains + 1 # NoIndex
  BY DEF Typed, IdsOK, PipeOK, NoIndex
<1>6. MarksOK'
  <2>1. dpc[d] # "insert"
    BY <1>1 DEF Ended
  <2>2. \A e \in Drainers : dpc[e] = "insert" => dpc'[e] = "insert"
    BY <1>2, <2>1
  <2> QED
    BY <1>4, <2>2 DEF MarkInv, MarksOK, Marked
<1>7. ASSUME NEW e \in Drainers PROVE MarkerOf(e)'
  <2>1. CASE e = d
    BY <1>2, <1>3, <1>4, <1>5, <2>1 DEF MarkerOf, HasNumber, Inserted
  <2>2. CASE e # d
    <3>1. MarkerOf(e)
      BY DEF MarkInv
    <3> QED
      BY <1>2, <1>3, <1>4, <2>2, <3>1 DEF MarkerOf, Marked
  <2> QED
    BY <2>1, <2>2
<1> QED
  BY <1>6, <1>7 DEF MarkInv

\* What is the same for the steps of a drain between its wait and its insertion.
LEMMA MarkWritten ==
    ASSUME Typed, OneActive, MarkInv, NEW d \in Drainers, dpc[d] \in {"number", "mark"},
           DrainNumber(d) \/ DrainMark(d)
    PROVE  MarkInv'
<1>0. MarkerOf(d)
  BY DEF MarkInv
<1>1. MarkerInCodedFrameIndex = NoIndex /\ ~Marked(Collated) /\ Collated' = Collated /\ nextId' = nextId
        /\ ~Marked(Collated')
  BY <1>0 DEF MarkerOf, DrainNumber, DrainMark, pipe, counts, Collated
<1>2. \A e \in Drainers : e # d => dpc[e] \in Ended
  BY Alone DEF Ended
<1>3. \A e \in Drainers : e # d => dpc'[e] = dpc[e]
  BY Placed DEF DrainNumber, DrainMark, Then
<1>4. \A e \in Drainers : e # d => marker'[e] = marker[e]
  BY DEF DrainNumber, DrainMark, Typed, PipeOK
<1>5. ASSUME NEW e \in Drainers, e # d PROVE MarkerOf(e)'
  <2>1. MarkerOf(e) /\ dpc'[e] \in Ended
    BY <1>2, <1>3, <1>5 DEF MarkInv
  <2> QED
    BY <1>1, <1>4, <1>5, <2>1 DEF MarkerOf, Ended, HasNumber, Inserted
<1>6. CASE DrainNumber(d)
  <2>1. MarkerInCodedFrameIndex' = MarkerInCodedFrameIndex /\ dpc[d] = "number" /\ dpc'[d] = "resetEvent"
    BY <1>6, Placed DEF DrainNumber, Then
  <2>2. marker' = [marker EXCEPT ![d].seq = DrainSequenceNumber']
    BY <1>6 DEF DrainNumber
  <2>3. marker[d] \in Item /\ marker \in [Drainers -> Item]
    BY DEF Typed, PipeOK
  <2>4. marker'[d] = [marker[d] EXCEPT !.seq = DrainSequenceNumber']
    BY <2>2, <2>3
  <2>5. marker'[d].kind = marker[d].kind /\ marker'[d].id = marker[d].id /\ marker'[d].token = marker[d].token
          /\ marker'[d].seq = DrainSequenceNumber'
    BY <2>3, <2>4 DEF Item
  <2>6. MarksOK'
    BY <1>1, <2>1 DEF MarkInv, MarksOK, Marked
  <2>7. marker[d].kind = "marker" /\ marker[d].id < nextId /\ marker[d].token # NoIndex
    BY <1>0, <2>1 DEF MarkerOf, Ended
  <2>8. MarkerOf(d)'
    BY <1>1, <2>1, <2>5, <2>7 DEF MarkerOf, Inserted
  <2> QED
    BY <1>5, <2>6, <2>8 DEF MarkInv
<1>7. CASE DrainMark(d)
  <2>1. MarkerInCodedFrameIndex' = marker[d].token /\ dpc[d] = "mark" /\ dpc'[d] = "insert" /\ marker' = marker
          /\ DrainSequenceNumber' = DrainSequenceNumber
    BY <1>7, Placed DEF DrainMark, Then
  <2>6. MarksOK'
    BY <1>1, <2>1 DEF MarkInv, MarksOK, Marked
  <2>7. marker[d].kind = "marker" /\ marker[d].id < nextId /\ marker[d].token # NoIndex /\ marker[d].seq = DrainSequenceNumber
    BY <1>0, <2>1 DEF MarkerOf, Ended, HasNumber
  <2>8. MarkerOf(d)'
    BY <1>1, <2>1, <2>7 DEF MarkerOf, Inserted
  <2> QED
    BY <1>5, <2>6, <2>8 DEF MarkInv
<1> QED
  BY <1>6, <1>7

LEMMA InsertParts ==
    ASSUME Typed, MarkInv, NEW d \in Drainers, DrainInsert(d)
    PROVE  /\ marker'[d] \in Item /\ marker'[d].id = nextId /\ IsMarker(marker'[d])
           /\ marker'[d].seq = DrainSequenceNumber /\ marker'[d].token = MarkerInCodedFrameIndex
           /\ marker'[d].token # NoIndex
           /\ \A e \in Drainers : e # d => marker'[e] = marker[e] /\ dpc'[e] = dpc[e]
           /\ Collated \in Seq(Item) /\ Collated' = Append(Collated, marker'[d]) /\ ~Marked(Collated)
           /\ nextId \in Nat /\ nextId > 0 /\ nextId' = nextId + 1
           /\ ring'["parsed"] = ring["parsed"] /\ ring'["decoded"] = ring["decoded"] /\ Manifested' = Manifested
           /\ codec' = codec /\ hold' = hold /\ display' = display
           /\ UNCHANGED procs /\ UNCHANGED shared /\ jump' = jump /\ frames' = frames /\ drains' = drains
           /\ dpc[d] = "insert" /\ dpc'[d] = "callReset"
<1>1. marker[d] \in Item /\ marker \in [Drainers -> Item]
  BY DEF Typed, PipeOK
<1>2. dpc[d] = "insert" /\ dpc'[d] = "callReset" /\ \A e \in Drainers : e # d => dpc'[e] = dpc[e]
  BY Placed DEF DrainInsert, Then
<1>3. Collate(marker[d])
  BY DEF DrainInsert
<1>4. marker' = [marker EXCEPT ![d].id = nextId]
  BY DEF DrainInsert
<1>5. marker'[d] = WithId(marker[d]) /\ \A e \in Drainers : e # d => marker'[e] = marker[e]
  BY <1>1, <1>4 DEF WithId
<1>6. /\ WithId(marker[d]) \in Item /\ WithId(marker[d]).id = nextId /\ WithId(marker[d]).kind = marker[d].kind
      /\ WithId(marker[d]).seq = marker[d].seq /\ WithId(marker[d]).token = marker[d].token
      /\ Collated \in Seq(Item) /\ Collated' = Append(Collated, WithId(marker[d]))
      /\ nextId \in Nat /\ nextId > 0 /\ nextId' = nextId + 1
      /\ ring'["parsed"] = ring["parsed"] /\ ring'["decoded"] = ring["decoded"] /\ Manifested' = Manifested
  BY <1>1, <1>3, CollateParts
<1>7. MarkerOf(d)
  BY DEF MarkInv
<1>8. marker[d].kind = "marker" /\ marker[d].token = MarkerInCodedFrameIndex /\ marker[d].token # NoIndex
        /\ marker[d].seq = DrainSequenceNumber /\ ~Marked(Collated)
  BY <1>2, <1>7 DEF MarkerOf, HasNumber, Ended
<1>9. codec' = codec /\ hold' = hold /\ display' = display
           /\ UNCHANGED procs /\ UNCHANGED shared /\ jump' = jump /\ frames' = frames /\ drains' = drains
  BY DEF DrainInsert, procs
<1> QED
  BY <1>2, <1>5, <1>6, <1>8, <1>9 DEF IsMarker

LEMMA MarkInsert ==
    ASSUME Typed, OneActive, MarkInv, NEW d \in Drainers, DrainInsert(d)
    PROVE  MarkInv'
<1> DEFINE x == marker'[d]
<1>1. /\ x \in Item /\ x.id = nextId /\ IsMarker(x) /\ x.seq = DrainSequenceNumber
      /\ x.token = MarkerInCodedFrameIndex /\ x.token # NoIndex
      /\ \A e \in Drainers : e # d => marker'[e] = marker[e] /\ dpc'[e] = dpc[e]
      /\ Collated \in Seq(Item) /\ Collated' = Append(Collated, x) /\ ~Marked(Collated)
      /\ nextId \in Nat /\ nextId' = nextId + 1 /\ dpc[d] = "insert" /\ dpc'[d] = "callReset"
  BY InsertParts
<1>2. DrainSequenceNumber' = DrainSequenceNumber /\ MarkerInCodedFrameIndex' = MarkerInCodedFrameIndex
  BY InsertParts DEF shared
<1> HIDE DEF x
<1>3. /\ \A k \in DOMAIN Collated' : (k \in DOMAIN Collated /\ Collated'[k] = Collated[k])
                                         \/ (k = Len(Collated) + 1 /\ Collated'[k] = x)
      /\ Len(Collated) + 1 \in DOMAIN Collated' /\ Collated'[Len(Collated) + 1] = x
  BY <1>1, AppendParts
<1>4. \A k \in DOMAIN Collated' : IsMarker(Collated'[k]) => k = Len(Collated) + 1 /\ Collated'[k] = x
  BY <1>1, <1>3 DEF Marked
<1>5. \A k \in DOMAIN Collated' : ~IsMarker(Collated'[k]) => k \in DOMAIN Collated /\ Collated'[k] = Collated[k]
  BY <1>1, <1>3
<1>6. MarksOK'
  <2>1. \A k \in DOMAIN Collated' : ~IsMarker(Collated'[k]) => Collated'[k].token = NoIndex
    BY <1>5 DEF MarkInv, MarksOK
  <2>2. Marked(Collated')
    BY <1>1, <1>3 DEF Marked
  <2> QED
    BY <1>1, <1>2, <1>4, <2>1, <2>2 DEF MarksOK
<1>7. ASSUME NEW e \in Drainers PROVE MarkerOf(e)'
  <2>0. MarkerOf(e) /\ marker[e].id \in Nat
    BY MarkerTyped DEF MarkInv
  <2>1. CASE e = d
    <3>1. dpc'[e] = "callReset" /\ marker'[e] = x /\ x.kind = "marker" /\ x.id < nextId'
      BY <1>1, <2>1 DEF x, IsMarker
    <3>2. "callReset" \in Inserted /\ "callReset" \notin {"insert", "get", "number", "resetEvent", "mark"}
      BY DEF Inserted
    <3> QED
      BY <1>1, <1>2, <1>4, <3>1, <3>2 DEF MarkerOf
  <2>2. CASE e # d
    <3>1. dpc'[e] \in Ended /\ marker'[e] = marker[e]
      BY <1>1, <2>2, Alone DEF Ended
    <3> QED
      BY <1>1, <2>0, <3>1 DEF MarkerOf, Ended, HasNumber, Inserted
  <2> QED
    BY <2>1, <2>2
<1> QED
  BY <1>6, <1>7 DEF MarkInv

LEMMA JumpCases ==
    ASSUME Typed, NEW d \in Drainers, DrainJump(d)
    PROVE  \/ Joins
           \/ /\ jump' = TRUE /\ Collated' = Collated /\ UNCHANGED <<ring, nextId>>
              /\ NextBufferSequenceNumber' = NextBufferSequenceNumber
              /\ DrainSequenceNumber' = DrainSequenceNumber
              /\ MarkerInCodedFrameIndex' = MarkerInCodedFrameIndex
              /\ marker' = marker /\ nextId' = nextId /\ frames' = frames /\ drains' = drains
              /\ \A e \in Drainers : Steady(e)
<1>1. CASE UNCHANGED <<ring, nextId>>
  <2>1. nextId' # nextId + 1
    BY <1>1 DEF Typed, PipeOK
  <2>2. jump' = TRUE
    BY <2>1 DEF DrainJump, Collate
  <2>3. dpc[d] = "jump" /\ dpc'[d] = "flush" /\ \A e \in Drainers : e # d => dpc'[e] = dpc[e]
    BY Placed DEF DrainJump, Then
  <2>4. \A e \in Drainers : Steady(e)
    BY <2>3 DEF Steady, Ended
  <2> QED
    BY <1>1, <2>2, <2>4 DEF DrainJump, shared, Collated
<1>2. CASE ~UNCHANGED <<ring, nextId>>
  BY <1>2 DEF Joins
<1> QED
  BY <1>1, <1>2

LEMMA MarkStep ==
    ASSUME OneAtATime, Typed, OneActive, MarkInv, RoundsInv, [Next]_vars
    PROVE  MarkInv'
<1>1. CASE Quiet
  BY <1>1, MarkKept DEF Quiet, Kept, Steady
<1>2. CASE Inject \/ InputExit
  BY <1>2, MarkJoins DEF Joins
<1>3. ASSUME NEW d \in Drainers, Acts(d) PROVE MarkInv'
  <2>1. CASE DrainJump(d)
    BY <2>1, JumpCases, MarkJoins, MarkKept
  <2>2. CASE DrainNumber(d) \/ DrainMark(d)
    BY <2>2, MarkWritten DEF DrainNumber, DrainMark, Then
  <2> QED
    BY <1>3, <2>1, <2>2, MarkStart, MarkInsert DEF Acts
<1>4. ASSUME NEW d \in Drainers, Moves(d) PROVE MarkInv'
  BY <1>4, MarkMoves
<1> QED
  BY <1>1, <1>2, <1>3, <1>4, StepKinds, MarkTaken

-----------------------------------------------------------------------------
(* The number of a marker stays ahead of the counter *)

LEMMA OneRange == ASSUME NEW P PROVE One(P) \in 0 .. 1 /\ One(P) \in Nat
BY DEF One

LEMMA OneMore == ASSUME NEW P, NEW Q, P => Q PROVE One(P) <= One(Q)
BY DEF One

LEMMA NumbersTyped ==
    Typed => /\ Collated \in Seq(Item) /\ Len(Collated) \in Nat
             /\ NextBufferSequenceNumber \in Nat /\ DrainSequenceNumber \in Nat
             /\ overtaking \in 0 .. MaxOvertaking /\ overtaking \in Nat
             /\ MaxOvertaking \in Nat /\ CodedFrames \in Nat
             /\ RingSize \in Nat /\ RingSize > CodedFrames + MaxOvertaking
<1> SUFFICES ASSUME Typed
             PROVE  /\ Collated \in Seq(Item) /\ overtaking \in 0 .. MaxOvertaking
                    /\ NextBufferSequenceNumber \in Nat /\ DrainSequenceNumber \in Nat
  BY RingSizeAssumption, SizesAssumption
<1> QED
  BY DEF Typed, PipeOK, FlagsOK, Rings, Collated

LEMMA FramesNat ==
    ASSUME NEW s \in Seq(Item)
    PROVE  Frames(s) \in Nat
<1>1. IsFiniteSet(1 .. Len(s))
  BY FS_Interval
<1>2. IsFiniteSet({k \in DOMAIN s : IsFrame(s[k])})
  BY <1>1, FS_Subset
<1> QED
  BY <1>2, FS_CardinalityType DEF Frames

LEMMA SixSum ==
    ASSUME NEW a \in Nat, NEW b \in Nat, NEW c \in Nat, NEW e \in Nat, NEW f \in Nat, NEW g \in Nat,
           a + b + c + e + f + g < CodedFrames, NEW x \in 0 .. 1, x <= g
    PROVE  a + x + 1 <= CodedFrames
BY SizesAssumption

\* While the pool has a buffer left there is room for one frame more.
LEMMA RoomLeft ==
    ASSUME Typed, Coded < CodedFrames
    PROVE  Len(Collated) + One(Pending) + 1 <= CodedFrames
<1> DEFINE P == {d \in Drainers : dpc[d] \in Marking}
<1>1. IsFiniteSet(P)
  BY DrainersAssumption, FS_Subset
<1>2. Cardinality(P) \in Nat /\ One(Pending) <= Cardinality(P)
  <2>1. Cardinality(P) \in Nat /\ (Cardinality(P) = 0 <=> P = {})
    BY <1>1, FS_CardinalityType, FS_EmptySet
  <2>2. Pending => P # {}
    BY DEF Pending
  <2> HIDE DEF P
  <2> QED
    BY <2>1, <2>2 DEF One
<1>3. /\ ring["parsed"] \in Seq(Item) /\ ring["decoded"] \in Seq(Item) /\ ring["manifested"] \in Seq(Item)
      /\ hold["CtoP"] \in Seq(Item) /\ hold["PtoD"] \in Seq(Item) /\ hold["DtoM"] \in Seq(Item)
      /\ codec \in Seq(Item) /\ display \in Seq(Item) /\ Collated \in Seq(Item)
  BY DEF Typed, PipeOK, Rings, Holds, Collated
<1>4. Frames(ring["decoded"]) \in Nat /\ Frames(ring["manifested"]) \in Nat
  BY <1>3, FramesNat
<1>5. Decoding \in Nat
  BY <1>3, <1>4 DEF Decoding
<1>6. /\ Len(Collated) \in Nat /\ Len(hold["CtoP"]) \in Nat /\ Len(ring["parsed"]) \in Nat
      /\ Len(hold["PtoD"]) \in Nat
  BY <1>3
<1>7. Len(Collated) + Len(hold["CtoP"]) + Len(ring["parsed"]) + Len(hold["PtoD"]) + Decoding
        + Cardinality(P) < CodedFrames
  <2>1. Coded = Len(Collated) + Len(hold["CtoP"]) + Len(ring["parsed"]) + Len(hold["PtoD"]) + Decoding
                  + Cardinality(P)
    BY DEF Coded, Collated
  <2> HIDE DEF P
  <2> QED
    BY <2>1
<1>8. One(Pending) \in 0 .. 1
  BY OneRange
<1> HIDE DEF P
<1> QED
  BY <1>2, <1>5, <1>6, <1>7, <1>8, SixSum

LEMMA PendingGoes ==
    ASSUME NEW d \in Drainers, \A e \in Drainers : e # d => dpc'[e] = dpc[e],
           dpc'[d] \in Marking => dpc[d] \in Marking
    PROVE  Pending' => Pending
BY DEF Pending

LEMMA CountStep ==
    ASSUME OneActive, Typed, MarkInv, CountInv, [Next]_vars
    PROVE  CountInv'
<1> DEFINE n == Len(Collated)
           u == One(Pending)
<1>0. n \in Nat /\ u \in 0 .. 1 /\ Collated \in Seq(Item) /\ n + u <= CodedFrames /\ CodedFrames \in Nat
  BY OneRange, NumbersTyped DEF CountInv
<1>9. One(Pending') \in 0 .. 1
  BY OneRange
<1>8. CountInv' <=> Len(Collated') + One(Pending') <= CodedFrames
  BY DEF CountInv
<1> HIDE DEF n, u
<1>a. ASSUME Coded < CodedFrames PROVE n + u + 1 <= CodedFrames
  BY <1>a, RoomLeft DEF n, u
<1>b. ASSUME Pending' => Pending PROVE One(Pending') <= u
  BY <1>b, OneMore DEF u
<1>1. CASE Quiet
  <2>1. Pending' = Pending /\ Len(Collated') = n
    BY <1>1 DEF Quiet, Kept, Pending, n
  <2> QED
    BY <1>0, <1>8, <2>1 DEF u
<1>c. ASSUME Joins PROVE Len(Collated') = n + 1
  <2>1. PICK x \in Item : Collated' = Append(Collated, x)
    BY <1>c, JoinsParts
  <2> QED
    BY <1>0, <2>1, AppendParts DEF n
<1>2. CASE Inject \/ InputExit
  <2>1. dpc' = dpc /\ Coded < CodedFrames /\ Len(Collated') = n + 1
    BY <1>2, <1>c DEF Joins, Inject, InputExit, drain
  <2>2. One(Pending') <= u
    BY <1>b, <2>1 DEF Pending
  <2> QED
    BY <1>0, <1>8, <1>9, <1>a, <2>1, <2>2
<1>3. CASE CtoPTake
  <2>1. Collated # <<>> /\ Collated' = Tail(Collated) /\ dpc' = dpc
    BY <1>3, TakenMarks
  <2>2. Len(Collated') = n - 1
    BY <1>0, <2>1, TailParts DEF n
  <2>3. One(Pending') <= u
    BY <1>b, <2>1 DEF Pending
  <2> QED
    BY <1>0, <1>8, <1>9, <2>2, <2>3
<1>4. ASSUME NEW d \in Drainers, NEW p \in Policies, NEW b \in BOOLEAN, DrainStart(d, p, b) PROVE CountInv'
  <2>1. Len(Collated') = n
    BY <1>4 DEF DrainStart, pipe, Collated, n
  <2>2. dpc'[d] \in {"rounds", "jump"} /\ \A e \in Drainers : e # d => dpc'[e] = dpc[e]
    BY <1>4, Placed DEF DrainStart
  <2>3. One(Pending') <= u
    BY <1>b, <2>2, PendingGoes DEF Marking, HasNumber
  <2> QED
    BY <1>0, <1>8, <1>9, <2>1, <2>3
<1>5. ASSUME NEW d \in Drainers, DrainJump(d) PROVE CountInv'
  <2>1. dpc[d] = "jump" /\ dpc'[d] = "flush" /\ \A e \in Drainers : e # d => dpc'[e] = dpc[e]
    BY <1>5, Placed DEF DrainJump, Then
  <2>2. One(Pending') <= u
    BY <1>b, <2>1, PendingGoes DEF Marking, HasNumber
  <2>3. CASE UNCHANGED <<ring, nextId>>
    <3>1. Len(Collated') = n
      BY <2>3 DEF Collated, n
    <3> QED
      BY <1>0, <1>8, <1>9, <2>2, <3>1
  <2>4. CASE ~UNCHANGED <<ring, nextId>>
    <3>1. Coded < CodedFrames /\ Len(Collated') = n + 1
      BY <1>5, <1>c, <2>4 DEF DrainJump, Joins
    <3> QED
      BY <1>0, <1>8, <1>9, <1>a, <2>2, <3>1
  <2> QED
    BY <2>3, <2>4
<1>6. ASSUME NEW d \in Drainers, DrainNumber(d) \/ DrainMark(d) PROVE CountInv'
  <2>1. Len(Collated') = n
    BY <1>6 DEF DrainNumber, DrainMark, pipe, Collated, n
  <2>2. dpc[d] \in Marking /\ \A e \in Drainers : e # d => dpc'[e] = dpc[e]
    BY <1>6, Placed DEF DrainNumber, DrainMark, Then, Marking, HasNumber
  <2>3. One(Pending') <= u
    BY <1>b, <2>2, PendingGoes
  <2> QED
    BY <1>0, <1>8, <1>9, <2>1, <2>3
<1>7. ASSUME NEW d \in Drainers, Moves(d) PROVE CountInv'
  <2>1. Len(Collated') = n
    BY <1>7 DEF Moves, Kept, n
  <2>2. PICK t \in DSteps : /\ dpc' = [dpc EXCEPT ![d] = t]
                            /\ t = "number" => Coded < CodedFrames
                            /\ t \in Marking => t = "number" \/ dpc[d] \in Marking
    BY <1>7 DEF Moves, PlainMoves, Marking, HasNumber
  <2>3. dpc'[d] = t /\ \A e \in Drainers : e # d => dpc'[e] = dpc[e]
    BY <2>2, Placed
  <2>4. CASE t = "number"
    BY <1>0, <1>8, <1>9, <1>a, <2>1, <2>2, <2>4
  <2>5. CASE t # "number"
    <3>1. One(Pending') <= u
      BY <1>b, <2>2, <2>3, <2>5, PendingGoes
    <3> QED
      BY <1>0, <1>8, <1>9, <2>1, <3>1
  <2> QED
    BY <2>4, <2>5
<1>d. ASSUME NEW d \in Drainers, DrainInsert(d) PROVE CountInv'
  <2>1. /\ marker'[d] \in Item /\ Collated' = Append(Collated, marker'[d])
        /\ dpc[d] = "insert" /\ dpc'[d] = "callReset"
        /\ \A e \in Drainers : e # d => dpc'[e] = dpc[e]
    BY <1>d, InsertParts
  <2>2. Len(Collated') = n + 1
    BY <1>0, <2>1, AppendParts DEF n
  <2>3. u = 1
    BY <2>1 DEF u, One, Pending, Marking, HasNumber
  <2>4. One(Pending') = 0
    <3>1. \A e \in Drainers : dpc'[e] \notin Marking
      BY <2>1, Alone DEF Ended, Marking, HasNumber
    <3> QED
      BY <3>1 DEF Pending, One
  <2> QED
    BY <1>0, <1>8, <2>2, <2>3, <2>4
<1> QED
  BY <1>1, <1>2, <1>3, <1>4, <1>5, <1>6, <1>7, <1>d, StepKinds DEF Acts


LEMMA AheadVacuous ==
    ASSUME OneActive, NEW d \in Drainers, dpc[d] \notin Ended, dpc'[d] \notin HasNumber,
           \A e \in Drainers : e # d => dpc'[e] = dpc[e]
    PROVE  \A e \in Drainers : AheadOf(e)'
<1>1. \A e \in Drainers : dpc'[e] \notin HasNumber
  BY Alone DEF Ended, HasNumber
<1> QED
  BY <1>1 DEF AheadOf

MarksAhead ==
    \A k \in DOMAIN Collated :
          IsMarker(Collated[k]) => NextBufferSequenceNumber + k <= DrainSequenceNumber

LEMMA AheadJoins ==
    ASSUME Typed, MarksAhead, Joins
    PROVE  MarksAhead'
<1>1. PICK x \in Item :
             /\ ~IsMarker(x) /\ Collated \in Seq(Item) /\ Collated' = Append(Collated, x)
             /\ DrainSequenceNumber' = DrainSequenceNumber
             /\ NextBufferSequenceNumber' = NextBufferSequenceNumber
  BY JoinsParts
<1>2. \A k \in DOMAIN Collated' : (k \in DOMAIN Collated /\ Collated'[k] = Collated[k]) \/ Collated'[k] = x
  BY <1>1, AppendParts
<1> QED
  BY <1>1, <1>2 DEF MarksAhead

LEMMA TakenNumber ==
    ASSUME Typed, MarkInv, CtoPTake, ~IsMarker(Head(Collated))
    PROVE  NextBufferSequenceNumber' = NextBufferSequenceNumber + 1
<1>1. ~Recognised(Head(Collated)) /\ NextBufferSequenceNumber' = Numbered(Head(Collated)).seq + 1
        /\ Collated \in Seq(Item) /\ Collated # <<>>
  BY TakenMarks
<1>2. Head(Collated) \in Item
  BY <1>1, TailParts
<1>3. Numbered(Head(Collated)).seq = NextBufferSequenceNumber
  BY <1>1, <1>2 DEF Numbered, Item
<1> QED
  BY <1>1, <1>3

LEMMA AheadStep ==
    ASSUME OneAtATime, OneActive, Typed, MarkInv, CountInv, AheadInv, [Next]_vars
    PROVE  AheadInv'
<1> DEFINE n == Len(Collated)
           j == One(jump)
           N == NextBufferSequenceNumber
           S == DrainSequenceNumber
<1>0. /\ n \in Nat /\ overtaking \in 0 .. MaxOvertaking /\ overtaking \in Nat
      /\ j \in 0 .. 1 /\ Collated \in Seq(Item) /\ N \in Nat /\ S \in Nat /\ MaxOvertaking \in Nat
      /\ CodedFrames \in Nat /\ RingSize \in Nat /\ RingSize > CodedFrames + MaxOvertaking
  BY OneRange, NumbersTyped
<1>e. MarksAhead /\ (\A e \in Drainers : AheadOf(e)) /\ (Overtaken \/ overtaking = 0)
  BY DEF AheadInv, MarksAhead
<1>f. MarksAhead' /\ (\A e \in Drainers : AheadOf(e)') /\ (Overtaken' \/ overtaking' = 0) => AheadInv'
  BY DEF AheadInv, MarksAhead
<1>g. One(jump') \in 0 .. 1
  BY OneRange
<1>1. CASE Quiet
  <2>1. MarksAhead'
    BY <1>1, <1>e DEF Quiet, Kept, MarksAhead
  <2>2. \A e \in Drainers : AheadOf(e)'
    BY <1>1, <1>e DEF Quiet, Kept, AheadOf
  <2>3. Overtaken' \/ overtaking' = 0
    BY <1>1, <1>e DEF Quiet, Kept, Overtaken
  <2> QED
    BY <1>f, <2>1, <2>2, <2>3
<1>3. CASE Inject \/ InputExit
  <2>1. Joins
    BY <1>3 DEF Joins
  <2>2. PICK x \in Item : Collated' = Append(Collated, x) /\ DrainSequenceNumber' = S
          /\ NextBufferSequenceNumber' = N
    BY <2>1, JoinsParts
  <2>3. Len(Collated') = n + 1
    BY <1>0, <2>2, AppendParts
  <2>4. /\ dpc' = dpc /\ overtaking' \in Nat /\ (Overtaken \/ overtaking' = 0)
        /\ Overtaken => (MaxOvertaking - overtaking') + One(jump') + 1 = (MaxOvertaking - overtaking) + j
    <3>1. CASE Inject
      <4>1. overtaking' = (IF Overtaken THEN overtaking + 1 ELSE 0) /\ jump' = jump /\ dpc' = dpc
        BY <3>1 DEF Inject, drain
      <4>2. One(jump') = j
        BY <4>1
      <4> HIDE DEF j
      <4> QED
        BY <1>0, <4>1, <4>2
    <3>2. CASE InputExit
      <4>1. overtaking' = overtaking /\ jump = TRUE /\ jump' = FALSE /\ dpc' = dpc
        BY <3>2 DEF InputExit, drain, Typed, FlagsOK
      <4>2. One(jump') = 0 /\ j = 1
        BY <4>1 DEF One
      <4> HIDE DEF j
      <4> QED
        BY <1>0, <1>e, <4>1, <4>2
    <3> QED
      BY <1>3, <3>1, <3>2
  <2>5. ASSUME NEW e \in Drainers, dpc'[e] \in HasNumber
        PROVE  NextBufferSequenceNumber' + Len(Collated') + (MaxOvertaking - overtaking') + One(jump') + 1
                 <= DrainSequenceNumber'
    <3>1. N + n + (MaxOvertaking - overtaking) + j + 1 <= S
      BY <1>e, <2>4, <2>5 DEF AheadOf
    <3>2. Overtaken
      BY <2>4, <2>5 DEF Overtaken
    <3> HIDE DEF n, j, N, S
    <3> QED
      BY <1>0, <1>g, <2>2, <2>3, <2>4, <3>1, <3>2, SMTT(30)
  <2>6. \A e \in Drainers : AheadOf(e)'
    BY <2>5 DEF AheadOf
  <2>7. Overtaken' \/ overtaking' = 0
    BY <2>4 DEF Overtaken
  <2> QED
    BY <1>e, <1>f, <2>1, <2>6, <2>7, AheadJoins
<1>5. CASE CtoPTake
  <2>1. /\ Collated # <<>> /\ Collated' = Tail(Collated) /\ dpc' = dpc /\ jump' = jump
        /\ overtaking' = overtaking /\ DrainSequenceNumber' = S
    BY <1>5, TakenMarks
  <2>2. /\ Len(Collated') = n - 1 /\ DOMAIN Collated' = 1 .. n - 1
        /\ \A k \in 1 .. n - 1 : Collated'[k] = Collated[k + 1] /\ k + 1 \in DOMAIN Collated
        /\ Head(Collated) = Collated[1] /\ 1 \in DOMAIN Collated
    BY <1>0, <2>1, TailParts
  <2>3. ~IsMarker(Head(Collated)) => NextBufferSequenceNumber' = N + 1
    BY <1>5, TakenNumber
  <2>4. MarksAhead'
    <3>1. SUFFICES ASSUME NEW k \in 1 .. n - 1, IsMarker(Collated'[k])
                   PROVE  NextBufferSequenceNumber' + k <= DrainSequenceNumber'
      BY <2>2 DEF MarksAhead
    <3>2. IsMarker(Collated[k + 1]) /\ k + 1 \in DOMAIN Collated /\ k + 1 # 1
      BY <1>0, <2>2, <3>1
    <3>3. ~IsMarker(Head(Collated))
      BY <2>2, <3>2 DEF MarkInv, MarksOK
    <3>4. N + (k + 1) <= S
      BY <1>e, <3>2 DEF MarksAhead
    <3> QED
      BY <1>0, <2>1, <2>3, <3>3, <3>4
  <2>5. ASSUME NEW e \in Drainers, dpc'[e] \in HasNumber
        PROVE  NextBufferSequenceNumber' + Len(Collated') + (MaxOvertaking - overtaking') + One(jump') + 1
                 <= DrainSequenceNumber'
    <3>1. N + n + (MaxOvertaking - overtaking) + j + 1 <= S
      BY <1>e, <2>1, <2>5 DEF AheadOf
    <3>2. ~Marked(Collated)
      BY <2>1, <2>5 DEF MarkInv, MarkerOf, HasNumber
    <3>3. ~IsMarker(Head(Collated))
      BY <2>2, <3>2 DEF Marked
    <3>4. One(jump') = j
      BY <2>1
    <3> HIDE DEF n, j, N, S
    <3> QED
      BY <1>0, <2>1, <2>2, <2>3, <3>1, <3>3, <3>4
  <2>6. \A e \in Drainers : AheadOf(e)'
    BY <2>5 DEF AheadOf
  <2>7. Overtaken' \/ overtaking' = 0
    BY <1>e, <2>1 DEF Overtaken
  <2> QED
    BY <1>f, <2>4, <2>6, <2>7
<1>6. ASSUME NEW d \in Drainers, NEW p \in Policies, NEW b \in BOOLEAN, DrainStart(d, p, b) PROVE AheadInv'
  <2>1. Collated' = Collated /\ NextBufferSequenceNumber' = N /\ DrainSequenceNumber' = S
    BY <1>6 DEF DrainStart, pipe, Collated
  <2>2. dpc'[d] \in {"rounds", "jump"} /\ \A e \in Drainers : e # d => dpc'[e] = dpc[e]
    BY <1>6, Placed DEF DrainStart
  <2>3. \A e \in Drainers : e # d => dpc[e] \in Ended
    BY <1>6 DEF DrainStart, OneAtATime
  <2>4. \A e \in Drainers : dpc'[e] \notin HasNumber
    BY <2>2, <2>3 DEF HasNumber, Ended
  <2>5. ~Overtaken /\ overtaking' = overtaking
    BY <1>6, <2>3 DEF DrainStart, Overtaken, HasNumber, Ended
  <2> QED
    BY <1>e, <1>f, <2>1, <2>4, <2>5 DEF AheadOf, MarksAhead
<1>7. ASSUME NEW d \in Drainers, DrainJump(d) PROVE AheadInv'
  <2>1. dpc[d] = "jump" /\ dpc'[d] = "flush" /\ \A e \in Drainers : e # d => dpc'[e] = dpc[e]
    BY <1>7, Placed DEF DrainJump, Then
  <2>2. \A e \in Drainers : AheadOf(e)'
    BY <2>1, AheadVacuous DEF Ended, HasNumber
  <2>3. MarksAhead'
    <3>1. CASE Joins
      BY <1>e, <3>1, AheadJoins
    <3>2. CASE ~Joins
      BY <1>7, <1>e, <3>2, JumpCases DEF MarksAhead
    <3> QED
      BY <3>1, <3>2
  <2>4. overtaking' = 0
    <3>1. overtaking' = overtaking
      BY <1>7 DEF DrainJump
    <3>2. \A e \in Drainers : dpc[e] \notin HasNumber
      BY <2>1, Alone DEF Ended, HasNumber
    <3> QED
      BY <1>e, <3>1, <3>2 DEF Overtaken
  <2> QED
    BY <1>f, <2>2, <2>3, <2>4
<1>8. ASSUME NEW d \in Drainers, DrainNumber(d) PROVE AheadInv'
  <2>1. Collated' = Collated /\ jump' = jump /\ overtaking' = overtaking /\ NextBufferSequenceNumber' = N
          /\ DrainSequenceNumber' = N + RingSize
    BY <1>8 DEF DrainNumber, NumberAhead, pipe, counts, Collated
  <2>2. dpc[d] = "number" /\ dpc'[d] = "resetEvent" /\ \A e \in Drainers : e # d => dpc'[e] = dpc[e]
    BY <1>8, Placed DEF DrainNumber, Then
  <2>3. ~Marked(Collated)
    BY <2>2 DEF MarkInv, MarkerOf
  <2>4. MarksAhead'
    BY <2>1, <2>3 DEF MarksAhead, Marked
  <2>5. n + 1 <= CodedFrames
    <3>1. One(Pending) = 1
      BY <2>2 DEF One, Pending, Marking, HasNumber
    <3> QED
      BY <3>1 DEF CountInv
  <2>6. N + n + (MaxOvertaking - overtaking) + j + 1 <= N + RingSize
    <3> HIDE DEF n, j, N
    <3> QED
      BY <1>0, <2>5
  <2>7. AheadOf(d)'
    BY <2>1, <2>6 DEF AheadOf
  <2>8. ASSUME NEW e \in Drainers, e # d PROVE AheadOf(e)'
    <3>1. dpc'[e] \in Ended
      BY <2>2, <2>8, Alone DEF Ended
    <3> QED
      BY <3>1 DEF AheadOf, Ended, HasNumber
  <2>9. Overtaken'
    BY <2>2 DEF Overtaken, HasNumber
  <2> QED
    BY <1>f, <2>4, <2>7, <2>8, <2>9
<1>a. ASSUME NEW d \in Drainers, DrainMark(d) \/ Moves(d) PROVE AheadInv'
  <2>1. Collated' = Collated /\ jump' = jump /\ overtaking' = overtaking /\ NextBufferSequenceNumber' = N
          /\ DrainSequenceNumber' = S
    BY <1>a DEF DrainMark, Moves, Kept, pipe, counts, Collated
  <2>2. \A e \in Drainers : dpc'[e] \in HasNumber <=> dpc[e] \in HasNumber
    <3>1. PICK t : dpc' = [dpc EXCEPT ![d] = t] /\ (t \in HasNumber <=> dpc[d] \in HasNumber)
      BY <1>a DEF DrainMark, Moves, Then, PlainMoves, HasNumber
    <3>2. dpc'[d] = t /\ \A e \in Drainers : e # d => dpc'[e] = dpc[e]
      BY <3>1, Placed
    <3> QED
      BY <3>1, <3>2
  <2>3. \A e \in Drainers : AheadOf(e)'
    BY <1>e, <2>1, <2>2 DEF AheadOf
  <2>4. MarksAhead'
    BY <1>e, <2>1 DEF MarksAhead
  <2>5. Overtaken' \/ overtaking' = 0
    BY <1>e, <2>1, <2>2 DEF Overtaken
  <2> QED
    BY <1>f, <2>3, <2>4, <2>5
<1>b. ASSUME NEW d \in Drainers, DrainInsert(d) PROVE AheadInv'
  <2>1. /\ marker'[d] \in Item /\ Collated' = Append(Collated, marker'[d])
        /\ ~Marked(Collated) /\ dpc[d] = "insert" /\ dpc'[d] = "callReset"
        /\ \A e \in Drainers : e # d => dpc'[e] = dpc[e]
        /\ UNCHANGED shared
    BY <1>b, InsertParts
  <2>2. NextBufferSequenceNumber' = N /\ DrainSequenceNumber' = S
    BY <2>1 DEF shared
  <2>3. \A e \in Drainers : AheadOf(e)'
    BY <2>1, AheadVacuous DEF Ended, HasNumber
  <2>4. N + n + (MaxOvertaking - overtaking) + j + 1 <= S
    BY <1>e, <2>1 DEF AheadOf, HasNumber
  <2>5. N + (n + 1) <= S
    <3> HIDE DEF n, j, N, S
    <3> QED
      BY <1>0, <2>4
  <2>6. \A k \in DOMAIN Collated' : (k \in DOMAIN Collated /\ Collated'[k] = Collated[k]) \/ k = n + 1
    BY <1>0, <2>1, AppendParts
  <2>7. MarksAhead'
    BY <2>1, <2>2, <2>5, <2>6 DEF MarksAhead, Marked
  <2>8. overtaking' = 0
    BY <1>b DEF DrainInsert
  <2> QED
    BY <1>f, <2>3, <2>7, <2>8
<1> QED
  BY <1>1, <1>3, <1>5, <1>6, <1>7, <1>8, <1>a, <1>b, StepKinds DEF Acts

-----------------------------------------------------------------------------
(* Every step advances the line, adds a frame to it, or gives a number *)

\* The frames that are on their way move on, or fewer are; a frame joins them;
\* or the first of the last ring gets its number.
Onward == /\ Advances(Line, Line')
          /\ nextId' = nextId /\ NextBufferSequenceNumber' = NextBufferSequenceNumber
          /\ Collated' = Collated
Joining(x) == /\ Joined(Line, Line', x) /\ x.id = nextId
              /\ nextId' = nextId + 1 /\ NextBufferSequenceNumber' = NextBufferSequenceNumber
              /\ Collated \in Seq(Item) /\ Collated' = Append(Collated, x)

LEMMA LineKept ==
    ASSUME Typed, PipeOK', Line' = Line
    PROVE  Advances(Line, Line')
<1>1. LineOf(Line)
  BY LineTyped DEF Typed
<1>2. \A L, M : LineOf(L) /\ M = L => Advances(L, M)
  BY SameAdvances
<1> QED
  BY <1>1, <1>2

LEMMA CollateJoins ==
    ASSUME Typed, PipeOK', NEW i \in Item, Collate(i), hold' = hold, codec' = codec,
           NextBufferSequenceNumber' = NextBufferSequenceNumber
    PROVE  WithId(i) \in Item /\ Joining(WithId(i))
<1>1. Joined(Line, Line', WithId(i)) /\ WithId(i) \in Item
  BY CollateLine DEF WithId
<1>2. WithId(i).id = nextId /\ nextId' = nextId + 1 /\ Collated \in Seq(Item) /\ Collated' = Append(Collated, WithId(i))
  BY CollateParts
<1> QED
  BY <1>1, <1>2 DEF Joining

LEMMA MakeFrameTyped == MakeItem("data", 0, 0, 0) \in Item /\ MakeItem("jump", 0, 0, 0) \in Item
BY MadeItem

LEMMA LineStep ==
    ASSUME Typed, Typed', [Next]_vars
    PROVE  Onward \/ CtoPTake \/ \E x \in Item : Joining(x)
<1>0. PipeOK /\ PipeOK'
  BY DEF Typed
<1>Inject. ASSUME Inject PROVE \E x \in Item : Joining(x)
  <2>1. Collate(MakeItem("data", 0, 0, 0)) /\ hold' = hold /\ codec' = codec
          /\ NextBufferSequenceNumber' = NextBufferSequenceNumber
    BY <1>Inject DEF Inject, procs, shared
  <2>2. MakeItem("data", 0, 0, 0) \in Item
    BY MakeFrameTyped
  <2>3. WithId(MakeItem("data", 0, 0, 0)) \in Item /\ Joining(WithId(MakeItem("data", 0, 0, 0)))
    BY <1>0, <2>1, <2>2, CollateJoins
  <2> QED
    BY <2>3
<1>InputExit. ASSUME InputExit PROVE \E x \in Item : Joining(x)
  <2>1. Collate(MakeItem("jump", 0, 0, 0)) /\ hold' = hold /\ codec' = codec
          /\ NextBufferSequenceNumber' = NextBufferSequenceNumber
    BY <1>InputExit DEF InputExit, procs, shared
  <2>2. MakeItem("jump", 0, 0, 0) \in Item
    BY MakeFrameTyped
  <2>3. WithId(MakeItem("jump", 0, 0, 0)) \in Item /\ Joining(WithId(MakeItem("jump", 0, 0, 0)))
    BY <1>0, <2>1, <2>2, CollateJoins
  <2> QED
    BY <2>3
<1>SetPlaybackSpeed. ASSUME SetPlaybackSpeed PROVE Onward
  <2>0. Line' = Line
    BY <1>0, <1>SetPlaybackSpeed, LineSame
  <2>1. Advances(Line, Line')
    BY <1>0, <2>0, LineKept
  <2>2. nextId' = nextId /\ NextBufferSequenceNumber' = NextBufferSequenceNumber /\ Collated' = Collated
    BY <1>0, <1>SetPlaybackSpeed DEF SetPlaybackSpeed, PipeOK, Rings, Collated, pipe, procs, shared, play, counts, drain
  <2> QED
    BY <2>1, <2>2 DEF Onward
<1>CtoPParse. ASSUME CtoPParse PROVE Onward
  <2>1. Advances(Line, Line')
    BY <1>0, <1>CtoPParse, CtoPParseLine
  <2>2. nextId' = nextId /\ NextBufferSequenceNumber' = NextBufferSequenceNumber /\ Collated' = Collated
    BY <1>0, <1>CtoPParse DEF CtoPParse, Goto, Gives, Send, InHand, PipeOK, Rings, Collated, pipe, procs, shared, play, counts, drain
  <2> QED
    BY <2>1, <2>2 DEF Onward
<1>PtoDTake. ASSUME PtoDTake PROVE Onward
  <2>1. Advances(Line, Line')
    BY <1>0, <1>PtoDTake, PtoDTakeLine
  <2>2. nextId' = nextId /\ NextBufferSequenceNumber' = NextBufferSequenceNumber /\ Collated' = Collated
    BY <1>0, <1>PtoDTake DEF PtoDTake, Goto, Receive, Takes, ClearAtMarker, PipeOK, Rings, Collated, pipe, procs, shared, play, counts, drain
  <2> QED
    BY <2>1, <2>2 DEF Onward
<1>PtoDCheck. ASSUME PtoDCheck PROVE Onward
  <2>1. Advances(Line, Line')
    BY <1>0, <1>PtoDCheck, PtoDKeepsLine
  <2>2. nextId' = nextId /\ NextBufferSequenceNumber' = NextBufferSequenceNumber /\ Collated' = Collated
    BY <1>0, <1>PtoDCheck DEF PtoDCheck, PtoDDiscard, Goto, Gives, PipeOK, Rings, Collated, pipe, procs, shared, play, counts, drain
  <2> QED
    BY <2>1, <2>2 DEF Onward
<1>PtoDWindow. ASSUME PtoDWindow PROVE Onward
  <2>1. Advances(Line, Line')
    BY <1>0, <1>PtoDWindow, PtoDKeepsLine
  <2>2. nextId' = nextId /\ NextBufferSequenceNumber' = NextBufferSequenceNumber /\ Collated' = Collated
    BY <1>0, <1>PtoDWindow DEF PtoDWindow, PtoDDiscard, Goto, Gives, PipeOK, Rings, Collated, pipe, procs, shared, play, counts, drain
  <2> QED
    BY <2>1, <2>2 DEF Onward
<1>PtoDDecode. ASSUME PtoDDecode PROVE Onward
  <2>1. Advances(Line, Line')
    BY <1>0, <1>PtoDDecode, PtoDDecodeLine
  <2>2. nextId' = nextId /\ NextBufferSequenceNumber' = NextBufferSequenceNumber /\ Collated' = Collated
    BY <1>0, <1>PtoDDecode DEF PtoDDecode, Goto, Gives, InHand, Waiting, PipeOK, Rings, Collated, pipe, procs, shared, play, counts, drain
  <2> QED
    BY <2>1, <2>2 DEF Onward
<1>DecodeCompletes. ASSUME DecodeCompletes PROVE Onward
  <2>1. Advances(Line, Line')
    BY <1>0, <1>DecodeCompletes, CodecLine
  <2>2. nextId' = nextId /\ NextBufferSequenceNumber' = NextBufferSequenceNumber /\ Collated' = Collated
    BY <1>0, <1>DecodeCompletes DEF DecodeCompletes, Send, PipeOK, Rings, Collated, pipe, procs, shared, play, counts, drain
  <2> QED
    BY <2>1, <2>2 DEF Onward
<1>MarkerPassesOn. ASSUME MarkerPassesOn PROVE Onward
  <2>1. Advances(Line, Line')
    BY <1>0, <1>MarkerPassesOn, CodecLine
  <2>2. nextId' = nextId /\ NextBufferSequenceNumber' = NextBufferSequenceNumber /\ Collated' = Collated
    BY <1>0, <1>MarkerPassesOn DEF MarkerPassesOn, Send, PipeOK, Rings, Collated, pipe, procs, shared, play, counts, drain
  <2> QED
    BY <2>1, <2>2 DEF Onward
<1>DtoMMarker. ASSUME DtoMMarker PROVE Onward
  <2>1. Advances(Line, Line')
    BY <1>0, <1>DtoMMarker, DtoMMarkerLine
  <2>2. nextId' = nextId /\ NextBufferSequenceNumber' = NextBufferSequenceNumber /\ Collated' = Collated
    BY <1>0, <1>DtoMMarker DEF DtoMMarker, Goto, Pass, ProcessAccumulated, PipeOK, Rings, Collated, pipe, procs, shared, play, counts, drain
  <2> QED
    BY <2>1, <2>2 DEF Onward
<1>DtoMClear. ASSUME DtoMClear PROVE Onward
  <2>0. Line' = Line
    BY <1>0, <1>DtoMClear, LineSame
  <2>1. Advances(Line, Line')
    BY <1>0, <2>0, LineKept
  <2>2. nextId' = nextId /\ NextBufferSequenceNumber' = NextBufferSequenceNumber /\ Collated' = Collated
    BY <1>0, <1>DtoMClear DEF DtoMClear, Goto, PipeOK, Rings, Collated, pipe, procs, shared, play, counts, drain
  <2> QED
    BY <2>1, <2>2 DEF Onward
<1>DtoMTake. ASSUME DtoMTake PROVE Onward
  <2>1. Advances(Line, Line')
    BY <1>0, <1>DtoMTake, DtoMTakeLine
  <2>2. nextId' = nextId /\ NextBufferSequenceNumber' = NextBufferSequenceNumber /\ Collated' = Collated
    BY <1>0, <1>DtoMTake DEF DtoMTake, Goto, Receive, Takes, ProcessAccumulated, PipeOK, Rings, Collated, pipe, procs, shared, play, counts, drain
  <2> QED
    BY <2>1, <2>2 DEF Onward
<1>DtoMPause. ASSUME DtoMPause PROVE Onward
  <2>0. Line' = Line
    BY <1>0, <1>DtoMPause, LineSame
  <2>1. Advances(Line, Line')
    BY <1>0, <2>0, LineKept
  <2>2. nextId' = nextId /\ NextBufferSequenceNumber' = NextBufferSequenceNumber /\ Collated' = Collated
    BY <1>0, <1>DtoMPause DEF DtoMPause, Goto, PipeOK, Rings, Collated, pipe, procs, shared, play, counts, drain
  <2> QED
    BY <2>1, <2>2 DEF Onward
<1>DtoMDrop. ASSUME DtoMDrop PROVE Onward
  <2>1. Advances(Line, Line')
    BY <1>0, <1>DtoMDrop, DtoMGivesLine
  <2>2. nextId' = nextId /\ NextBufferSequenceNumber' = NextBufferSequenceNumber /\ Collated' = Collated
    BY <1>0, <1>DtoMDrop DEF DtoMDrop, Goto, Gives, PipeOK, Rings, Collated, pipe, procs, shared, play, counts, drain
  <2> QED
    BY <2>1, <2>2 DEF Onward
<1>DtoMTime. ASSUME DtoMTime PROVE Onward
  <2>0. Line' = Line
    BY <1>0, <1>DtoMTime, LineSame
  <2>1. Advances(Line, Line')
    BY <1>0, <2>0, LineKept
  <2>2. nextId' = nextId /\ NextBufferSequenceNumber' = NextBufferSequenceNumber /\ Collated' = Collated
    BY <1>0, <1>DtoMTime DEF DtoMTime, Goto, PipeOK, Rings, Collated, pipe, procs, shared, play, counts, drain
  <2> QED
    BY <2>1, <2>2 DEF Onward
<1>DtoMQueue. ASSUME DtoMQueue PROVE Onward
  <2>1. Advances(Line, Line')
    BY <1>0, <1>DtoMQueue, DtoMGivesLine
  <2>2. nextId' = nextId /\ NextBufferSequenceNumber' = NextBufferSequenceNumber /\ Collated' = Collated
    BY <1>0, <1>DtoMQueue DEF DtoMQueue, Goto, Gives, InHand, PipeOK, Rings, Collated, pipe, procs, shared, play, counts, drain
  <2> QED
    BY <2>1, <2>2 DEF Onward
<1>DtoMCall. ASSUME DtoMCall PROVE Onward
  <2>1. Advances(Line, Line')
    BY <1>0, <1>DtoMCall, DtoMCallLine
  <2>2. nextId' = nextId /\ NextBufferSequenceNumber' = NextBufferSequenceNumber /\ Collated' = Collated
    BY <1>0, <1>DtoMCall DEF DtoMCall, Receive, PipeOK, Rings, Collated, pipe, procs, shared, play, counts, drain
  <2> QED
    BY <2>1, <2>2 DEF Onward
<1>Show. ASSUME Show PROVE Onward
  <2>0. Line' = Line
    BY <1>0, <1>Show, LineSame
  <2>1. Advances(Line, Line')
    BY <1>0, <2>0, LineKept
  <2>2. nextId' = nextId /\ NextBufferSequenceNumber' = NextBufferSequenceNumber /\ Collated' = Collated
    BY <1>0, <1>Show DEF Show, Send, PipeOK, Rings, Collated, pipe, procs, shared, play, counts, drain
  <2> QED
    BY <2>1, <2>2 DEF Onward
<1>PostMFrame. ASSUME PostMFrame PROVE Onward
  <2>0. Line' = Line
    BY <1>0, <1>PostMFrame, LineSame
  <2>1. Advances(Line, Line')
    BY <1>0, <2>0, LineKept
  <2>2. nextId' = nextId /\ NextBufferSequenceNumber' = NextBufferSequenceNumber /\ Collated' = Collated
    BY <1>0, <1>PostMFrame DEF PostMFrame, Receive, ClearAtMarker, ProcessAccumulated, PipeOK, Rings, Collated, pipe, procs, shared, play, counts, drain
  <2> QED
    BY <2>1, <2>2 DEF Onward
<1>PostMCall. ASSUME PostMCall PROVE Onward
  <2>0. Line' = Line
    BY <1>0, <1>PostMCall, LineSame
  <2>1. Advances(Line, Line')
    BY <1>0, <2>0, LineKept
  <2>2. nextId' = nextId /\ NextBufferSequenceNumber' = NextBufferSequenceNumber /\ Collated' = Collated
    BY <1>0, <1>PostMCall DEF PostMCall, Receive, PipeOK, Rings, Collated, pipe, procs, shared, play, counts, drain
  <2> QED
    BY <2>1, <2>2 DEF Onward
<1>DrainStart. ASSUME NEW d \in Drainers, NEW p \in Policies, NEW b \in BOOLEAN, DrainStart(d, p, b) PROVE Onward
  <2>0. Line' = Line
    BY <1>0, <1>DrainStart, LineSame
  <2>1. Advances(Line, Line')
    BY <1>0, <2>0, LineKept
  <2>2. nextId' = nextId /\ NextBufferSequenceNumber' = NextBufferSequenceNumber /\ Collated' = Collated
    BY <1>0, <1>DrainStart DEF DrainStart, PipeOK, Rings, Collated, pipe, procs, shared, play, counts, drain
  <2> QED
    BY <2>1, <2>2 DEF Onward
<1>DrainJump. ASSUME NEW d \in Drainers, DrainJump(d) PROVE Onward \/ \E x \in Item : Joining(x)
  <2>1. hold' = hold /\ codec' = codec /\ NextBufferSequenceNumber' = NextBufferSequenceNumber
    BY <1>DrainJump DEF DrainJump, procs, shared
  <2>2. MakeItem("jump", 0, 0, 0) \in Item
    BY MakeFrameTyped
  <2>3. CASE Collate(MakeItem("jump", 0, 0, 0))
    <3>1. WithId(MakeItem("jump", 0, 0, 0)) \in Item /\ Joining(WithId(MakeItem("jump", 0, 0, 0)))
      BY <1>0, <2>1, <2>2, <2>3, CollateJoins
    <3> QED
      BY <3>1
  <2>4. CASE UNCHANGED <<ring, nextId>>
    <3>1. Line' = Line
      BY <1>0, <1>DrainJump, <2>4, LineSame
    <3>2. Advances(Line, Line')
      BY <1>0, <3>1, LineKept
    <3> QED
      BY <2>1, <2>4, <3>2 DEF Onward, Collated
  <2> QED
    BY <1>DrainJump, <2>3, <2>4 DEF DrainJump
<1>DrainFlush. ASSUME NEW d \in Drainers, DrainFlush(d) PROVE Onward
  <2>0. Line' = Line
    BY <1>0, <1>DrainFlush, LineSame
  <2>1. Advances(Line, Line')
    BY <1>0, <2>0, LineKept
  <2>2. nextId' = nextId /\ NextBufferSequenceNumber' = NextBufferSequenceNumber /\ Collated' = Collated
    BY <1>0, <1>DrainFlush DEF DrainFlush, Then, PipeOK, Rings, Collated, pipe, procs, shared, play, counts, drain
  <2> QED
    BY <2>1, <2>2 DEF Onward
<1>DrainRounds. ASSUME NEW d \in Drainers, DrainRounds(d) PROVE Onward
  <2>0. Line' = Line
    BY <1>0, <1>DrainRounds, LineSame
  <2>1. Advances(Line, Line')
    BY <1>0, <2>0, LineKept
  <2>2. nextId' = nextId /\ NextBufferSequenceNumber' = NextBufferSequenceNumber /\ Collated' = Collated
    BY <1>0, <1>DrainRounds DEF DrainRounds, Then, StartsWait, PipeOK, Rings, Collated, pipe, procs, shared, play, counts, drain
  <2> QED
    BY <2>1, <2>2 DEF Onward
<1>DrainGet. ASSUME NEW d \in Drainers, DrainGet(d) PROVE Onward
  <2>0. Line' = Line
    BY <1>0, <1>DrainGet, LineSame
  <2>1. Advances(Line, Line')
    BY <1>0, <2>0, LineKept
  <2>2. nextId' = nextId /\ NextBufferSequenceNumber' = NextBufferSequenceNumber /\ Collated' = Collated
    BY <1>0, <1>DrainGet DEF DrainGet, Then, PipeOK, Rings, Collated, pipe, procs, shared, play, counts, drain
  <2> QED
    BY <2>1, <2>2 DEF Onward
<1>DrainNumber. ASSUME NEW d \in Drainers, DrainNumber(d) PROVE Onward
  <2>0. Line' = Line
    BY <1>0, <1>DrainNumber, LineSame
  <2>1. Advances(Line, Line')
    BY <1>0, <2>0, LineKept
  <2>2. nextId' = nextId /\ NextBufferSequenceNumber' = NextBufferSequenceNumber /\ Collated' = Collated
    BY <1>0, <1>DrainNumber DEF DrainNumber, Then, NumberAhead, PipeOK, Rings, Collated, pipe, procs, shared, play, counts, drain
  <2> QED
    BY <2>1, <2>2 DEF Onward
<1>DrainReset. ASSUME NEW d \in Drainers, DrainReset(d) PROVE Onward
  <2>0. Line' = Line
    BY <1>0, <1>DrainReset, LineSame
  <2>1. Advances(Line, Line')
    BY <1>0, <2>0, LineKept
  <2>2. nextId' = nextId /\ NextBufferSequenceNumber' = NextBufferSequenceNumber /\ Collated' = Collated
    BY <1>0, <1>DrainReset DEF DrainReset, Then, PipeOK, Rings, Collated, pipe, procs, shared, play, counts, drain
  <2> QED
    BY <2>1, <2>2 DEF Onward
<1>DrainMark. ASSUME NEW d \in Drainers, DrainMark(d) PROVE Onward
  <2>0. Line' = Line
    BY <1>0, <1>DrainMark, LineSame
  <2>1. Advances(Line, Line')
    BY <1>0, <2>0, LineKept
  <2>2. nextId' = nextId /\ NextBufferSequenceNumber' = NextBufferSequenceNumber /\ Collated' = Collated
    BY <1>0, <1>DrainMark DEF DrainMark, Then, PipeOK, Rings, Collated, pipe, procs, shared, play, counts, drain
  <2> QED
    BY <2>1, <2>2 DEF Onward
<1>DrainInsert. ASSUME NEW d \in Drainers, DrainInsert(d) PROVE \E x \in Item : Joining(x)
  <2>1. Collate(marker[d]) /\ hold' = hold /\ codec' = codec /\ marker[d] \in Item
          /\ NextBufferSequenceNumber' = NextBufferSequenceNumber
    BY <1>DrainInsert, MarkerTyped DEF DrainInsert, procs, shared
  <2>2. WithId(marker[d]) \in Item /\ Joining(WithId(marker[d]))
    BY <1>0, <2>1, CollateJoins
  <2> QED
    BY <2>2
<1>DrainCallReset. ASSUME NEW d \in Drainers, DrainCallReset(d) PROVE Onward
  <2>1. Advances(Line, Line')
    BY <1>0, <1>DrainCallReset, CallResetLine
  <2>2. nextId' = nextId /\ NextBufferSequenceNumber' = NextBufferSequenceNumber /\ Collated' = Collated
    BY <1>0, <1>DrainCallReset DEF DrainCallReset, Then, Send, PipeOK, Rings, Collated, pipe, procs, shared, play, counts, drain
  <2> QED
    BY <2>1, <2>2 DEF Onward
<1>DrainCallDrained. ASSUME NEW d \in Drainers, DrainCallDrained(d) PROVE Onward
  <2>0. Line' = Line
    BY <1>0, <1>DrainCallDrained, LineSame
  <2>1. Advances(Line, Line')
    BY <1>0, <2>0, LineKept
  <2>2. nextId' = nextId /\ NextBufferSequenceNumber' = NextBufferSequenceNumber /\ Collated' = Collated
    BY <1>0, <1>DrainCallDrained DEF DrainCallDrained, Then, Send, StartsWait, PipeOK, Rings, Collated, pipe, procs, shared, play, counts, drain
  <2> QED
    BY <2>1, <2>2 DEF Onward
<1>DrainSucceeds. ASSUME NEW d \in Drainers, DrainSucceeds(d) PROVE Onward
  <2>0. Line' = Line
    BY <1>0, <1>DrainSucceeds, LineSame
  <2>1. Advances(Line, Line')
    BY <1>0, <2>0, LineKept
  <2>2. nextId' = nextId /\ NextBufferSequenceNumber' = NextBufferSequenceNumber /\ Collated' = Collated
    BY <1>0, <1>DrainSucceeds DEF DrainSucceeds, Then, PipeOK, Rings, Collated, pipe, procs, shared, play, counts, drain
  <2> QED
    BY <2>1, <2>2 DEF Onward
<1>DrainTimesOut. ASSUME NEW d \in Drainers, DrainTimesOut(d) PROVE Onward
  <2>0. Line' = Line
    BY <1>0, <1>DrainTimesOut, LineSame
  <2>1. Advances(Line, Line')
    BY <1>0, <2>0, LineKept
  <2>2. nextId' = nextId /\ NextBufferSequenceNumber' = NextBufferSequenceNumber /\ Collated' = Collated
    BY <1>0, <1>DrainTimesOut DEF DrainTimesOut, StartsWait, PipeOK, Rings, Collated, pipe, procs, shared, play, counts, drain
  <2> QED
    BY <2>1, <2>2 DEF Onward
<1>stutter. ASSUME vars' = vars PROVE Onward
  <2>1. Line' = Line /\ nextId' = nextId /\ NextBufferSequenceNumber' = NextBufferSequenceNumber /\ Collated' = Collated
    BY <1>stutter DEF vars, pipe, procs, shared, play, counts, drain, Line, Collated
  <2>2. Advances(Line, Line')
    BY <1>0, <2>1, LineKept
  <2> QED
    BY <2>1, <2>2 DEF Onward
<1>1. ASSUME NEW d \in Drainers, StepD(d) PROVE Onward \/ \E x \in Item : Joining(x)
  BY <1>1, <1>DrainStart, <1>DrainJump, <1>DrainFlush, <1>DrainRounds, <1>DrainGet, <1>DrainNumber, <1>DrainReset, <1>DrainMark, <1>DrainInsert, <1>DrainCallReset, <1>DrainCallDrained, <1>DrainSucceeds, <1>DrainTimesOut DEF StepD
<1> QED
  BY StepCases, <1>1, <1>stutter, <1>Inject, <1>InputExit, <1>SetPlaybackSpeed, <1>CtoPParse, <1>PtoDTake, <1>PtoDCheck, <1>PtoDWindow, <1>PtoDDecode, <1>DecodeCompletes, <1>MarkerPassesOn, <1>DtoMMarker, <1>DtoMClear, <1>DtoMTake, <1>DtoMPause, <1>DtoMDrop, <1>DtoMTime, <1>DtoMQueue, <1>DtoMCall, <1>Show, <1>PostMFrame, <1>PostMCall DEF Step1, Step2, Step3, Step4

-----------------------------------------------------------------------------
(* The first process gives a number; the order of the line *)

\* What the first process takes from the first ring: the frame y.
Taken(y) ==
    /\ y.id = Collated[1].id /\ IsFrame(y) /\ y.seq >= NextBufferSequenceNumber
    /\ NextBufferSequenceNumber' = y.seq + 1
    /\ IF IsMarker(Collated[1]) THEN y = Collated[1]
       ELSE y.seq = NextBufferSequenceNumber /\ IsFrame(Collated[1])

LEMMA TakenFrame ==
    ASSUME Typed, KindsOK, MarkInv, AheadInv, CtoPTake
    PROVE  /\ Numbered(Head(Collated)) \in Item /\ Taken(Numbered(Head(Collated)))
           /\ IsFrame(Head(Collated))
<1> DEFINE i == Head(Collated)
<1>1. /\ Collated \in Seq(Item) /\ Collated # <<>> /\ (Recognised(i) <=> IsMarker(i))
      /\ NextBufferSequenceNumber' = Numbered(i).seq + 1
  BY TakenMarks
<1>2. i = Collated[1] /\ 1 \in DOMAIN Collated /\ i \in Item
  BY <1>1, TailParts
<1>3. NextBufferSequenceNumber \in Nat /\ DrainSequenceNumber \in Nat
  BY NumbersTyped
<1>4. i.kind \in {"data", "jump", "marker"}
  BY <1>2 DEF KindsOK, OfKinds
<1> HIDE DEF i
<1>5. Numbered(i) \in Item
  BY <1>2, NumberedTyped DEF Typed
<1>6. CASE IsMarker(i)
  <2>1. Numbered(i) = i
    BY <1>1, <1>6 DEF Numbered
  <2>2. i.seq = DrainSequenceNumber
    BY <1>2, <1>6 DEF MarkInv, MarksOK
  <2>3. NextBufferSequenceNumber + 1 <= DrainSequenceNumber
    BY <1>2, <1>6 DEF AheadInv
  <2>4. IsFrame(i)
    BY <1>6 DEF IsFrame, IsMarker, Calls
  <2> QED
    BY <1>1, <1>2, <1>3, <1>5, <1>6, <2>1, <2>2, <2>3, <2>4 DEF Taken, i
<1>7. CASE ~IsMarker(i)
  <2>1. Numbered(i) = [i EXCEPT !.seq = NextBufferSequenceNumber,
                                !.kind = IF @ = "marker" THEN "blank" ELSE @]
    BY <1>1, <1>7 DEF Numbered
  <2>2. Numbered(i).seq = NextBufferSequenceNumber /\ Numbered(i).id = i.id /\ Numbered(i).kind = i.kind
    BY <1>2, <1>7, <2>1 DEF Item, IsMarker
  <2>3. IsFrame(i) /\ IsFrame(Numbered(i))
    BY <1>4, <2>2 DEF IsFrame, Calls
  <2> QED
    BY <1>1, <1>2, <1>3, <1>5, <1>7, <2>2, <2>3 DEF Taken, i
<1> QED
  BY <1>6, <1>7

LEMMA TakenLine ==
    ASSUME Typed, Typed', KindsOK, MarkInv, AheadInv, OrderInv, CtoPTake
    PROVE  /\ OrderInv'
           /\ \A z \in Item : NumberedIn(Line', z) => z = Numbered(Head(Collated)) \/ NumberedIn(Line, z)
           /\ \A n \in Nat : IdIn(Line', n) => IdIn(Line, n)
<1> DEFINE y == Numbered(Head(Collated))
           N == NextBufferSequenceNumber
<1>1. y \in Item /\ Taken(y) /\ IsFrame(Head(Collated))
  BY TakenFrame
<1>2. /\ LineOf(Line) /\ LineOf(Line') /\ PipeOK /\ HandOK /\ N \in Nat /\ y.seq \in Nat
      /\ nextId \in Nat
  BY <1>1, LineTyped, LineTypedNext, NumbersTyped, ItemParts DEF Typed, PipeOK
<1>3. /\ Collated \in Seq(Item) /\ Collated # <<>> /\ Collated' = Tail(Collated) /\ nextId' = nextId
  BY TakenMarks
<1>4. Head(Collated) = Collated[1]
  BY <1>3, TailParts
<1>5. ring'["parsed"] = ring["parsed"] /\ ring'["decoded"] = ring["decoded"] /\ codec' = codec
        /\ pc["CtoP"] = "take"
  BY <1>2 DEF CtoPTake, Receive, PipeOK, Rings
<1>6. hold["CtoP"] = <<>>
  BY <1>2, <1>5, HeldNone DEF Holds
<1>7. y.seq >= N /\ NextBufferSequenceNumber' = y.seq + 1 /\ y.id = Collated[1].id /\ IsFrame(y)
  BY <1>1 DEF Taken
<1>8. CASE Takes("CtoP", y)
  <2>1. hold'["CtoP"] = <<y>> /\ hold'["PtoD"] = hold["PtoD"] /\ hold'["DtoM"] = hold["DtoM"]
    BY <1>2, <1>8 DEF Takes, PipeOK, Holds
  <2>2. <<y>> = Append(<<>>, y)
    BY <1>1
  <2>3. /\ Line[7] = Collated /\ Line'[7] = Tail(Collated) /\ Line[6] = <<>> /\ Line'[6] = <<y>>
        /\ \A q \in Places : q # 7 /\ q # 6 => Line'[q] = Line[q]
    BY <1>3, <1>5, <1>6, <2>1, PlaceCases, LinePlaces, LinePlacesNext DEF Collated
  <2>4. Handed(Line, Line', 6, 7, y)
    <3>1. IsFrame(y) = IsFrame(Collated[1])
      BY <1>1, <1>4, <1>7 DEF IsFrame
    <3> HIDE DEF y
    <3>2. Line[7] # <<>> /\ Line'[7] = Tail(Line[7]) /\ Line'[6] = Append(Line[6], y) /\ y.id = Line[7][1].id
      BY <1>3, <1>7, <2>2, <2>3
    <3>3. IsFrame(y) = IsFrame(Line[7][1])
      BY <2>3, <3>1
    <3> HIDE DEF Line
    <3> QED
      BY <2>3, <3>2, <3>3 DEF Handed
  <2>5. \A L, M : LineOf(L) /\ LineOf(M) /\ Handed(L, M, 6, 7, y) /\ Ordered(L, nextId, N) /\ N <= y.seq
          => /\ Ordered(M, nextId, y.seq + 1)
             /\ \A z \in Item : NumberedIn(M, z) => z = y \/ NumberedIn(L, z)
             /\ \A n \in Nat : IdIn(M, n) => IdIn(L, n)
    BY <1>1, <1>2, HandedNumbered
  <2>6. N <= y.seq
    BY <1>2, <1>7
  <2> HIDE DEF y
  <2> QED
    BY <1>2, <1>3, <1>7, <2>4, <2>5, <2>6 DEF OrderInv, y
<1>9. CASE hold' = hold
  <2>1. Others({7})
    BY <1>5, <1>9, PlaceCases, LinePlaces, LinePlacesNext DEF Others
  <2>2. Line[7] # <<>> /\ Line'[7] = Tail(Line[7]) /\ 7 \in Places
    BY <1>3, LinePlaces, LinePlacesNext DEF Collated, Places
  <2>3. PipeOK' /\ Advances(Line, Line')
    BY <1>2, <2>1, <2>2, TakenAway DEF Typed
  <2>4. Ordered(Line', nextId, N)
    BY <1>2, <2>3 DEF OrderInv, Advances
  <2>5. \A L : LineOf(L) /\ Ordered(L, nextId, N) /\ N <= y.seq + 1 => Ordered(L, nextId, y.seq + 1)
    BY <1>2, BoundedMore
  <2>6. N <= y.seq + 1
    BY <1>2, <1>7
  <2>7. Ordered(Line', nextId, y.seq + 1)
    BY <1>2, <2>4, <2>5, <2>6
  <2> HIDE DEF y
  <2> QED
    BY <1>3, <1>7, <2>3, <2>7 DEF OrderInv, Advances
<1> QED
  BY <1>8, <1>9 DEF CtoPTake, Collated

LEMMA JoiningLine ==
    ASSUME Typed, Typed', OrderInv, NEW x \in Item, Joining(x)
    PROVE  /\ OrderInv'
           /\ \A y \in Item : NumberedIn(Line', y) => NumberedIn(Line, y)
           /\ \A n \in Nat : IdIn(Line', n) => n = nextId \/ IdIn(Line, n)
<1>1. LineOf(Line) /\ LineOf(Line') /\ nextId \in Nat /\ NextBufferSequenceNumber \in Nat
  BY LineTyped, LineTypedNext, NumbersTyped DEF Typed, PipeOK
<1>2. Joined(Line, Line', x) /\ x.id = nextId /\ nextId' = nextId + 1
        /\ NextBufferSequenceNumber' = NextBufferSequenceNumber
  BY DEF Joining
<1> DEFINE N == NextBufferSequenceNumber
<1> HIDE DEF N
<1>3. N \in Nat
  BY <1>1 DEF N
<1>4. \A L, M : LineOf(L) /\ LineOf(M) /\ Joined(L, M, x) /\ Ordered(L, nextId, N)
        => /\ Ordered(M, nextId + 1, N)
           /\ \A y \in Item : NumberedIn(M, y) => NumberedIn(L, y)
           /\ \A n \in Nat : IdIn(M, n) => n = nextId \/ IdIn(L, n)
  BY <1>1, <1>2, <1>3, JoinedOrdered
<1>5. Ordered(Line, nextId, N)
  BY DEF OrderInv, N
<1>6. /\ Ordered(Line', nextId + 1, N)
      /\ \A y \in Item : NumberedIn(Line', y) => NumberedIn(Line, y)
      /\ \A n \in Nat : IdIn(Line', n) => n = nextId \/ IdIn(Line, n)
  BY <1>1, <1>2, <1>4, <1>5
<1> QED
  BY <1>2, <1>6 DEF OrderInv, N

LEMMA OrderStep ==
    ASSUME Typed, Typed', KindsOK, MarkInv, AheadInv, OrderInv, [Next]_vars
    PROVE  OrderInv'
<1>1. CASE Onward
  <2>1. nextId \in Nat /\ NextBufferSequenceNumber \in Nat
    BY NumbersTyped DEF Typed, PipeOK
  <2> QED
    BY <1>1, <2>1 DEF Onward, Advances, OrderInv
<1> QED
  BY <1>1, LineStep, TakenLine, JoiningLine

-----------------------------------------------------------------------------
(* What has left the line has lower numbers than what is on it *)

LEMMA FrontLow ==
    ASSUME NEW L, NEW M, LineOf(L), LineOf(M), NEW nid \in Nat, NEW nbs \in Nat, Ordered(L, nid, nbs),
           NEW p \in 1 .. 6, L[p] # <<>>, IsFrame(L[p][1]), M[p] = Tail(L[p]),
           \A q \in 1 .. 6 : q < p => M[q] = <<>>,
           \A q \in 1 .. 6 : q > p => M[q] = L[q]
    PROVE  /\ L[p][1].seq < nbs
           /\ \A y \in Item : NumberedIn(M, y) => L[p][1].seq < y.seq
<1>1. \A q \in 1 .. 6 : q \in Places /\ q # 7 /\ q \in Int
  BY DEF Places
<1>2. L[p] \in Seq(Item)
  BY <1>1 DEF LineOf
<1> DEFINE s == L[p]
<1>3. s \in Seq(Item) /\ s # <<>>
  BY <1>2
<1> HIDE DEF s
<1>4. 1 \in DOMAIN s /\ \A k \in DOMAIN Tail(s) : k + 1 \in DOMAIN s /\ Tail(s)[k] = s[k + 1] /\ 1 < k + 1
  BY <1>3
<1>5. L[p][1].seq < nbs
  BY <1>1, <1>4 DEF s, Ordered, Bounded
<1>6. SUFFICES ASSUME NEW y \in Item, NumberedIn(M, y) PROVE L[p][1].seq < y.seq
  BY <1>5
<1>a. PICK q \in 1 .. 6 : \E k \in DOMAIN M[q] : IsFrame(M[q][k]) /\ y = M[q][k]
  BY <1>6 DEF NumberedIn
<1>7. PICK k \in DOMAIN M[q] : IsFrame(M[q][k]) /\ y = M[q][k]
  BY <1>a
<1>8. CASE q < p
  BY <1>7, <1>8
<1>9. CASE q = p
  <2>1. k + 1 \in DOMAIN L[p] /\ y = L[p][k + 1] /\ 1 < k + 1
    BY <1>4, <1>7, <1>9 DEF s
  <2> QED
    BY <1>1, <1>4, <1>7, <1>9, <2>1 DEF s, Ordered, Rising
<1>10. CASE q > p
  <2>1. k \in DOMAIN L[q] /\ y = L[q][k]
    BY <1>7, <1>10
  <2> QED
    BY <1>1, <1>4, <1>7, <1>10, <2>1 DEF s, Ordered, Rising
<1> QED
  BY <1>1, <1>8, <1>9, <1>10

LEMMA SeqGrow == ASSUME NEW S, NEW T, S \subseteq T, NEW s \in Seq(S) PROVE s \in Seq(T)
OBVIOUS

\* LowBound of the next state, for what may itself be a part of a state.
LowNext(n) ==
    /\ n < NextBufferSequenceNumber'
    /\ \A y \in Item : NumberedIn(Line', y) => n < y.seq

LEMMA LowKept ==
    ASSUME Typed, Typed', KindsOK, MarkInv, AheadInv, OrderInv, [Next]_vars, NEW n \in Nat, LowBound(n)
    PROVE  LowNext(n)
<1>0. NextBufferSequenceNumber \in Nat
  BY NumbersTyped
<1>1. CASE Onward
  BY <1>1 DEF Onward, Advances, LowBound, LowNext
<1>2. CASE CtoPTake
  <2> DEFINE y == Numbered(Head(Collated))
  <2>1. y \in Item /\ Taken(y)
    BY <1>2, TakenFrame
  <2>2. y.seq \in Nat /\ y.seq >= NextBufferSequenceNumber /\ NextBufferSequenceNumber' = y.seq + 1
    BY <2>1, ItemParts DEF Taken
  <2>3. \A z \in Item : NumberedIn(Line', z) => z = y \/ NumberedIn(Line, z)
    BY <1>2, TakenLine
  <2> HIDE DEF y
  <2> QED
    BY <1>0, <2>2, <2>3 DEF LowBound, LowNext
<1>3. ASSUME NEW x \in Item, Joining(x) PROVE LowNext(n)
  <2>1. \A y \in Item : NumberedIn(Line', y) => NumberedIn(Line, y)
    BY <1>3, JoiningLine
  <2> QED
    BY <1>3, <2>1 DEF Joining, LowBound, LowNext
<1> QED
  BY <1>1, <1>2, <1>3, LineStep

LEMMA LowItemsGrow ==
    ASSUME Typed, Typed', KindsOK, MarkInv, AheadInv, OrderInv, [Next]_vars
    PROVE  LowItems \subseteq LowItems'
BY LowKept, ItemParts DEF LowItems, LowBound, LowNext

LEMMA FrontLowNext ==
    ASSUME Typed, Typed', OrderInv, NextBufferSequenceNumber' = NextBufferSequenceNumber,
           NEW p \in 1 .. 6, Line[p] # <<>>, IsFrame(Line[p][1]), Line'[p] = Tail(Line[p]),
           \A q \in 1 .. 6 : q < p => Line'[q] = <<>>,
           \A q \in 1 .. 6 : q > p => Line'[q] = Line[q]
    PROVE  Line[p][1] \in LowItems'
<1>1. LineOf(Line) /\ LineOf(Line') /\ nextId \in Nat /\ NextBufferSequenceNumber \in Nat
  BY LineTyped, LineTypedNext, NumbersTyped DEF Typed, PipeOK
<1> DEFINE N == NextBufferSequenceNumber
<1>2. N \in Nat /\ Ordered(Line, nextId, N)
  BY <1>1 DEF OrderInv
<1> HIDE DEF N
<1>3. \A L, M : LineOf(L) /\ LineOf(M) /\ Ordered(L, nextId, N) /\ L[p] # <<>> /\ IsFrame(L[p][1])
        /\ M[p] = Tail(L[p]) /\ (\A q \in 1 .. 6 : q < p => M[q] = <<>>)
        /\ (\A q \in 1 .. 6 : q > p => M[q] = L[q])
        => L[p][1].seq < N /\ \A y \in Item : NumberedIn(M, y) => L[p][1].seq < y.seq
  BY <1>1, <1>2, FrontLow
<1>4. Line[p][1].seq < N /\ \A y \in Item : NumberedIn(Line', y) => Line[p][1].seq < y.seq
  BY <1>1, <1>2, <1>3
<1>5. p \in Places
  BY DEF Places
<1>6. Line[p] \in Seq(Item)
  BY <1>1, <1>5 DEF LineOf
<1>7. Line[p][1] \in Item
  BY <1>6
<1> QED
  BY <1>4, <1>7 DEF LowItems, LowBound, N

LEMMA DisplayedLow ==
    ASSUME Typed, Typed', OrderInv, KindsOK, DtoMQueue
    PROVE  InHand("DtoM") \in LowItems'
<1>1. PipeOK /\ HandOK /\ pc["DtoM"] = "queue" /\ NextBufferSequenceNumber' = NextBufferSequenceNumber
        /\ codec' = codec /\ ring' = ring /\ hold' = [hold EXCEPT !["DtoM"] = <<>>]
  BY DEF Typed, DtoMQueue, Goto, Gives, shared
<1>2. hold["DtoM"] # <<>> /\ Tail(hold["DtoM"]) = <<>> /\ hold["DtoM"][1] = InHand("DtoM")
        /\ InHand("DtoM").kind \in {"data"}
  BY <1>1, HeldTail, HeldKind DEF Holds, KindsOK
<1>3. hold'["DtoM"] = <<>> /\ hold'["PtoD"] = hold["PtoD"] /\ hold'["CtoP"] = hold["CtoP"]
  BY <1>1 DEF PipeOK, Holds
<1>4. \A q \in 1 .. 6 : q = 1 \/ q = 2 \/ q = 3 \/ q = 4 \/ q = 5 \/ q = 6
  OBVIOUS
<1>5. /\ Line[1] = hold["DtoM"] /\ Line'[1] = <<>>
      /\ \A q \in 1 .. 6 : q > 1 => Line'[q] = Line[q]
  BY <1>1, <1>3, <1>4, LinePlaces, LinePlacesNext
<1>6. IsFrame(Line[1][1]) /\ Line[1] # <<>> /\ Line'[1] = Tail(Line[1]) /\ Line[1][1] = InHand("DtoM")
  BY <1>2, <1>5 DEF IsFrame, Calls
<1> HIDE DEF Line
<1>7. 1 \in 1 .. 6 /\ \A q \in 1 .. 6 : q < 1 => Line'[q] = <<>>
  OBVIOUS
<1> QED
  BY <1>1, <1>5, <1>6, <1>7, FrontLowNext

LEMMA MarkerLow ==
    ASSUME Typed, Typed', OrderInv, DtoMMarker
    PROVE  Head(ring["decoded"]) \in LowItems'
<1>1. PipeOK /\ HandOK /\ pc["DtoM"] = "take" /\ NextBufferSequenceNumber' = NextBufferSequenceNumber
        /\ codec' = codec /\ hold' = hold /\ ring["decoded"] # <<>> /\ ring["decoded"] \in Seq(Item)
        /\ Head(ring["decoded"]).kind = "marker"
  BY DEF Typed, DtoMMarker, Goto, shared, PipeOK, Rings
<1>2. ring'["decoded"] = Tail(ring["decoded"]) /\ ring'["collated"] = ring["collated"]
        /\ ring'["parsed"] = ring["parsed"]
  BY <1>1 DEF DtoMMarker, Pass, PipeOK, Rings
<1>3. hold["DtoM"] = <<>> /\ Head(ring["decoded"]) = ring["decoded"][1]
  BY <1>1, HeldNone DEF Holds
<1>4. \A q \in 1 .. 6 : q = 1 \/ q = 2 \/ q = 3 \/ q = 4 \/ q = 5 \/ q = 6
  OBVIOUS
<1>5. /\ Line[2] = ring["decoded"] /\ Line'[2] = Tail(Line[2])
      /\ \A q \in 1 .. 6 : q > 2 => Line'[q] = Line[q]
      /\ \A q \in 1 .. 6 : q < 2 => Line'[q] = <<>>
  BY <1>1, <1>2, <1>3, <1>4, LinePlaces, LinePlacesNext
<1>6. IsFrame(Line[2][1]) /\ Line[2] # <<>> /\ Line[2][1] = Head(ring["decoded"])
  BY <1>1, <1>3, <1>5 DEF IsFrame, Calls
<1> HIDE DEF Line
<1>7. 2 \in 1 .. 6
  OBVIOUS
<1> QED
  BY <1>1, <1>5, <1>6, <1>7, FrontLowNext

OutSame ==
    /\ display' = display /\ Manifested' = Manifested
    /\ seen'["PostM"] = seen["PostM"] /\ Table' = Table
\* The steps that change what has left the line.
Emits ==
    \/ DtoMMarker \/ DtoMQueue \/ Show \/ PostMFrame \/ PostMCall
    \/ \E d \in Drainers : DrainFlush(d) \/ DrainCallDrained(d)

LEMMA EmitsStep ==
    ASSUME Typed, [Next]_vars
    PROVE  Emits \/ OutSame
<1>Inject. ASSUME Inject PROVE Emits \/ OutSame
  BY <1>Inject DEF Inject, Collate, Send, pipe, procs, shared, play, counts, drain, OutSame, Typed, PipeOK, TableOK, Rings, Manifested, Table
<1>InputExit. ASSUME InputExit PROVE Emits \/ OutSame
  BY <1>InputExit DEF InputExit, Collate, Send, pipe, procs, shared, play, counts, drain, OutSame, Typed, PipeOK, TableOK, Rings, Manifested, Table
<1>SetPlaybackSpeed. ASSUME SetPlaybackSpeed PROVE Emits \/ OutSame
  BY <1>SetPlaybackSpeed DEF SetPlaybackSpeed, pipe, procs, shared, play, counts, drain, OutSame, Typed, PipeOK, TableOK, Rings, Manifested, Table
<1>CtoPTake. ASSUME CtoPTake PROVE Emits \/ OutSame
  BY <1>CtoPTake DEF CtoPTake, Receive, Takes, Numbered, Recognised, pipe, procs, shared, play, counts, drain, OutSame, Typed, PipeOK, TableOK, Rings, Manifested, Table
<1>CtoPParse. ASSUME CtoPParse PROVE Emits \/ OutSame
  BY <1>CtoPParse DEF CtoPParse, Goto, Gives, Send, InHand, pipe, procs, shared, play, counts, drain, OutSame, Typed, PipeOK, TableOK, Rings, Manifested, Table
<1>PtoDTake. ASSUME PtoDTake PROVE Emits \/ OutSame
  BY <1>PtoDTake DEF PtoDTake, Goto, Receive, Takes, ClearAtMarker, pipe, procs, shared, play, counts, drain, OutSame, Typed, PipeOK, TableOK, Rings, Manifested, Table
<1>PtoDCheck. ASSUME PtoDCheck PROVE Emits \/ OutSame
  BY <1>PtoDCheck DEF PtoDCheck, PtoDDiscard, Goto, Gives, pipe, procs, shared, play, counts, drain, OutSame, Typed, PipeOK, TableOK, Rings, Manifested, Table
<1>PtoDWindow. ASSUME PtoDWindow PROVE Emits \/ OutSame
  BY <1>PtoDWindow DEF PtoDWindow, PtoDDiscard, Goto, Gives, pipe, procs, shared, play, counts, drain, OutSame, Typed, PipeOK, TableOK, Rings, Manifested, Table
<1>PtoDDecode. ASSUME PtoDDecode PROVE Emits \/ OutSame
  BY <1>PtoDDecode DEF PtoDDecode, Goto, Gives, InHand, Waiting, pipe, procs, shared, play, counts, drain, OutSame, Typed, PipeOK, TableOK, Rings, Manifested, Table
<1>DecodeCompletes. ASSUME DecodeCompletes PROVE Emits \/ OutSame
  BY <1>DecodeCompletes DEF DecodeCompletes, Send, pipe, procs, shared, play, counts, drain, OutSame, Typed, PipeOK, TableOK, Rings, Manifested, Table
<1>MarkerPassesOn. ASSUME MarkerPassesOn PROVE Emits \/ OutSame
  BY <1>MarkerPassesOn DEF MarkerPassesOn, Send, pipe, procs, shared, play, counts, drain, OutSame, Typed, PipeOK, TableOK, Rings, Manifested, Table
<1>DtoMMarker. ASSUME DtoMMarker PROVE Emits \/ OutSame
  BY <1>DtoMMarker DEF Emits
<1>DtoMClear. ASSUME DtoMClear PROVE Emits \/ OutSame
  BY <1>DtoMClear DEF DtoMClear, Goto, pipe, procs, shared, play, counts, drain, OutSame, Typed, PipeOK, TableOK, Rings, Manifested, Table
<1>DtoMTake. ASSUME DtoMTake PROVE Emits \/ OutSame
  BY <1>DtoMTake DEF DtoMTake, Goto, Receive, Takes, ProcessAccumulated, pipe, procs, shared, play, counts, drain, OutSame, Typed, PipeOK, TableOK, Rings, Manifested, Table, Max2
<1>DtoMPause. ASSUME DtoMPause PROVE Emits \/ OutSame
  BY <1>DtoMPause DEF DtoMPause, Goto, pipe, procs, shared, play, counts, drain, OutSame, Typed, PipeOK, TableOK, Rings, Manifested, Table
<1>DtoMDrop. ASSUME DtoMDrop PROVE Emits \/ OutSame
  BY <1>DtoMDrop DEF DtoMDrop, Goto, Gives, pipe, procs, shared, play, counts, drain, OutSame, Typed, PipeOK, TableOK, Rings, Manifested, Table
<1>DtoMTime. ASSUME DtoMTime PROVE Emits \/ OutSame
  BY <1>DtoMTime DEF DtoMTime, Goto, pipe, procs, shared, play, counts, drain, OutSame, Typed, PipeOK, TableOK, Rings, Manifested, Table
<1>DtoMQueue. ASSUME DtoMQueue PROVE Emits \/ OutSame
  BY <1>DtoMQueue DEF Emits
<1>DtoMCall. ASSUME DtoMCall PROVE Emits \/ OutSame
  BY <1>DtoMCall DEF DtoMCall, Receive, pipe, procs, shared, play, counts, drain, OutSame, Typed, PipeOK, TableOK, Rings, Manifested, Table, Accumulate, Free
<1>Show. ASSUME Show PROVE Emits \/ OutSame
  BY <1>Show DEF Emits
<1>PostMFrame. ASSUME PostMFrame PROVE Emits \/ OutSame
  BY <1>PostMFrame DEF Emits
<1>PostMCall. ASSUME PostMCall PROVE Emits \/ OutSame
  BY <1>PostMCall DEF Emits
<1>DrainStart. ASSUME NEW d \in Drainers, NEW p \in Policies, NEW b \in BOOLEAN, DrainStart(d, p, b) PROVE Emits \/ OutSame
  BY <1>DrainStart DEF DrainStart, pipe, procs, shared, play, counts, drain, OutSame, Typed, PipeOK, TableOK, Rings, Manifested, Table
<1>DrainJump. ASSUME NEW d \in Drainers, DrainJump(d) PROVE Emits \/ OutSame
  BY <1>DrainJump DEF DrainJump, Then, Collate, Send, pipe, procs, shared, play, counts, drain, OutSame, Typed, PipeOK, TableOK, Rings, Manifested, Table
<1>DrainFlush. ASSUME NEW d \in Drainers, DrainFlush(d) PROVE Emits \/ OutSame
  BY <1>DrainFlush DEF Emits
<1>DrainRounds. ASSUME NEW d \in Drainers, DrainRounds(d) PROVE Emits \/ OutSame
  BY <1>DrainRounds DEF DrainRounds, Then, StartsWait, pipe, procs, shared, play, counts, drain, OutSame, Typed, PipeOK, TableOK, Rings, Manifested, Table
<1>DrainGet. ASSUME NEW d \in Drainers, DrainGet(d) PROVE Emits \/ OutSame
  BY <1>DrainGet DEF DrainGet, Then, pipe, procs, shared, play, counts, drain, OutSame, Typed, PipeOK, TableOK, Rings, Manifested, Table
<1>DrainNumber. ASSUME NEW d \in Drainers, DrainNumber(d) PROVE Emits \/ OutSame
  BY <1>DrainNumber DEF DrainNumber, Then, NumberAhead, pipe, procs, shared, play, counts, drain, OutSame, Typed, PipeOK, TableOK, Rings, Manifested, Table
<1>DrainReset. ASSUME NEW d \in Drainers, DrainReset(d) PROVE Emits \/ OutSame
  BY <1>DrainReset DEF DrainReset, Then, pipe, procs, shared, play, counts, drain, OutSame, Typed, PipeOK, TableOK, Rings, Manifested, Table
<1>DrainMark. ASSUME NEW d \in Drainers, DrainMark(d) PROVE Emits \/ OutSame
  BY <1>DrainMark DEF DrainMark, Then, pipe, procs, shared, play, counts, drain, OutSame, Typed, PipeOK, TableOK, Rings, Manifested, Table
<1>DrainInsert. ASSUME NEW d \in Drainers, DrainInsert(d) PROVE Emits \/ OutSame
  BY <1>DrainInsert DEF DrainInsert, Then, Collate, Send, pipe, procs, shared, play, counts, drain, OutSame, Typed, PipeOK, TableOK, Rings, Manifested, Table
<1>DrainCallReset. ASSUME NEW d \in Drainers, DrainCallReset(d) PROVE Emits \/ OutSame
  BY <1>DrainCallReset DEF DrainCallReset, Then, Send, pipe, procs, shared, play, counts, drain, OutSame, Typed, PipeOK, TableOK, Rings, Manifested, Table
<1>DrainCallDrained. ASSUME NEW d \in Drainers, DrainCallDrained(d) PROVE Emits \/ OutSame
  BY <1>DrainCallDrained DEF Emits
<1>DrainSucceeds. ASSUME NEW d \in Drainers, DrainSucceeds(d) PROVE Emits \/ OutSame
  BY <1>DrainSucceeds DEF DrainSucceeds, Then, pipe, procs, shared, play, counts, drain, OutSame, Typed, PipeOK, TableOK, Rings, Manifested, Table
<1>DrainTimesOut. ASSUME NEW d \in Drainers, DrainTimesOut(d) PROVE Emits \/ OutSame
  BY <1>DrainTimesOut DEF DrainTimesOut, StartsWait, pipe, procs, shared, play, counts, drain, OutSame, Typed, PipeOK, TableOK, Rings, Manifested, Table
<1>stutter. ASSUME vars' = vars PROVE Emits \/ OutSame
  BY <1>stutter DEF vars, pipe, procs, shared, play, counts, drain, OutSame, Typed, PipeOK, TableOK, Rings, Manifested, Table
<1>1. ASSUME NEW d \in Drainers, StepD(d) PROVE Emits \/ OutSame
  BY <1>1, <1>DrainStart, <1>DrainJump, <1>DrainFlush, <1>DrainRounds, <1>DrainGet, <1>DrainNumber, <1>DrainReset, <1>DrainMark, <1>DrainInsert, <1>DrainCallReset, <1>DrainCallDrained, <1>DrainSucceeds, <1>DrainTimesOut DEF StepD
<1> QED
  BY StepCases, <1>1, <1>stutter, <1>Inject, <1>InputExit, <1>SetPlaybackSpeed, <1>CtoPTake, <1>CtoPParse, <1>PtoDTake, <1>PtoDCheck, <1>PtoDWindow, <1>PtoDDecode, <1>DecodeCompletes, <1>MarkerPassesOn, <1>DtoMMarker, <1>DtoMClear, <1>DtoMTake, <1>DtoMPause, <1>DtoMDrop, <1>DtoMTime, <1>DtoMQueue, <1>DtoMCall, <1>Show, <1>PostMFrame, <1>PostMCall DEF Step1, Step2, Step3, Step4

LEMMA SeqParts ==
    ASSUME NEW S, NEW s \in Seq(S), s # <<>>
    PROVE  Head(s) \in S /\ Tail(s) \in Seq(S) /\ <<Head(s)>> \in Seq(S)
OBVIOUS

LEMMA LowStep ==
    ASSUME Typed, Typed', KindsOK, MarkInv, AheadInv, OrderInv, LowInv, [Next]_vars
    PROVE  LowInv'
<1> DEFINE S == LowItems
           U == LowItems'
<1>1. S \subseteq U
  BY LowItemsGrow
<1>2. /\ display \in Seq(S) /\ Manifested \in Seq(S)
      /\ seen["PostM"] = 0 \/ LowBound(seen["PostM"])
      /\ seen["PostM"] \in Nat /\ ring \in [Rings -> Seq(Item)]
  BY DEF LowInv, Typed, TableOK, PipeOK
<1>3. seen["PostM"] = 0 \/ LowNext(seen["PostM"])
  BY <1>2, LowKept
<1>4. /\ display' \in Seq(U) /\ Manifested' \in Seq(U)
      /\ seen'["PostM"] = seen["PostM"] \/ seen'["PostM"] = 0 \/ LowNext(seen'["PostM"])
      => LowInv'
  <2>1. SUFFICES ASSUME display' \in Seq(U), Manifested' \in Seq(U), seen'["PostM"] = seen["PostM"] \/ seen'["PostM"] = 0 \/ LowNext(seen'["PostM"])
                 PROVE  LowInv'
    OBVIOUS
  <2>2. CASE seen'["PostM"] = seen["PostM"]
    BY <1>3, <2>1, <2>2 DEF LowInv, LowBound, LowNext
  <2> QED
    BY <2>1, <2>2 DEF LowInv, LowBound, LowNext
<1> HIDE DEF S, U
<1>5. display \in Seq(U) /\ Manifested \in Seq(U)
  BY <1>1, <1>2, SeqGrow
<1>6. CASE OutSame
  BY <1>4, <1>5, <1>6 DEF OutSame
<1>7. CASE DtoMMarker
  <2>1. display' = display /\ Manifested' = Append(Manifested, Head(ring["decoded"])) /\ seen'["PostM"] = seen["PostM"]
    BY <1>2, <1>7 DEF DtoMMarker, Pass, Rings, Manifested, Typed, TableOK
  <2>2. Head(ring["decoded"]) \in U
    BY <1>7, MarkerLow DEF U
  <2>3. Append(Manifested, Head(ring["decoded"])) \in Seq(U)
    BY <1>5, <2>2
  <2> QED
    BY <1>4, <1>5, <2>1, <2>3
<1>8. CASE DtoMQueue
  <2>1. display' = Append(display, InHand("DtoM")) /\ Manifested' = Manifested /\ seen'["PostM"] = seen["PostM"]
    BY <1>8 DEF DtoMQueue, Manifested
  <2>2. InHand("DtoM") \in U
    BY <1>8, DisplayedLow DEF U
  <2>3. Append(display, InHand("DtoM")) \in Seq(U)
    BY <1>5, <2>2
  <2> QED
    BY <1>4, <1>5, <2>1, <2>3
<1>9. CASE Show
  <2>1. display' = Tail(display) /\ Manifested' = Append(Manifested, Head(display)) /\ seen'["PostM"] = seen["PostM"]
          /\ display # <<>>
    BY <1>2, <1>9 DEF Show, Send, Rings, Manifested, procs
  <2>2. Tail(display) \in Seq(U) /\ Head(display) \in U
    BY <1>5, <2>1, SeqParts
  <2>3. Append(Manifested, Head(display)) \in Seq(U)
    BY <1>5, <2>2
  <2> QED
    BY <1>4, <2>1, <2>2, <2>3
<1>10. CASE PostMFrame
  <2> DEFINE i == Head(Manifested)
  <2>1. display' = display /\ Manifested' = Tail(Manifested) /\ Manifested # <<>> /\ IsFrame(i)
          /\ seen' = [seen EXCEPT !["PostM"] = Max2(@, i.seq)]
    BY <1>2, <1>10 DEF PostMFrame, Receive, Rings, Manifested
  <2>2. Tail(Manifested) \in Seq(U) /\ i \in S
    BY <1>2, <1>5, <2>1, SeqParts
  <2>3. i \in Item /\ i.seq \in Nat /\ LowBound(i.seq)
    BY <2>1, <2>2, ItemParts DEF S, LowItems
  <2>4. LowNext(i.seq)
    BY <2>3, LowKept
  <2> HIDE DEF i
  <2>5. seen'["PostM"] = Max2(seen["PostM"], i.seq)
    BY <2>1 DEF Typed, TableOK
  <2>6. seen'["PostM"] = seen["PostM"] \/ seen'["PostM"] = i.seq
    BY <2>5 DEF Max2
  <2>7. seen'["PostM"] = seen["PostM"] \/ LowNext(seen'["PostM"])
    BY <2>4, <2>6
  <2> QED
    BY <1>4, <1>5, <2>1, <2>2, <2>7
<1>11. CASE PostMCall
  <2>1. display' = display /\ Manifested' = Tail(Manifested) /\ Manifested # <<>>
          /\ seen' = seen
    BY <1>2, <1>11 DEF PostMCall, Receive, Rings, Manifested
  <2>2. Tail(Manifested) \in Seq(U)
    BY <1>5, <2>1, SeqParts
  <2> QED
    BY <1>4, <1>5, <2>1, <2>2
<1>12. ASSUME NEW d \in Drainers, DrainFlush(d) PROVE LowInv'
  <2>1. seen' = seen
    BY <1>12 DEF DrainFlush, procs
  <2>2. CASE display = <<>>
    <3>1. display' = display /\ Manifested' = Manifested
      BY <1>12, <2>2 DEF DrainFlush, Manifested
    <3> QED
      BY <1>4, <1>5, <2>1, <3>1
  <2>3. CASE display # <<>>
    <3>1. display' = <<Head(display)>> /\ Manifested' = Manifested \o Tail(display)
      BY <1>2, <1>12, <2>3 DEF DrainFlush, Manifested, Rings
    <3>2. Tail(display) \in Seq(U) /\ <<Head(display)>> \in Seq(U)
      BY <1>5, <2>3, SeqParts
    <3>3. Manifested \o Tail(display) \in Seq(U)
      BY <1>5, <3>2
    <3> QED
      BY <1>4, <2>1, <3>1, <3>2, <3>3
  <2> QED
    BY <2>2, <2>3
<1>13. ASSUME NEW d \in Drainers, DrainCallDrained(d) PROVE LowInv'
  <2> DEFINE c == MakeItem("drained", 0, DrainSequenceNumber, 0)
  <2>1. display' = display /\ ring' = [ring EXCEPT !["manifested"] = Append(@, c)] /\ seen' = seen
    BY <1>13 DEF DrainCallDrained, Send, procs
  <2>2. c \in Item /\ ~IsFrame(c)
    <3>1. DrainSequenceNumber \in Nat
      BY NumbersTyped
    <3>2. c \in Item
      BY <3>1, MadeItem
    <3> QED
      BY <3>2 DEF MakeItem, IsFrame, Calls
  <2>3. c \in U
    BY <2>2 DEF U, LowItems
  <2> HIDE DEF c
  <2>4. Manifested' = Append(Manifested, c)
    BY <1>2, <2>1 DEF Manifested, Rings
  <2>5. Append(Manifested, c) \in Seq(U)
    BY <1>5, <2>3
  <2> QED
    BY <1>4, <1>5, <2>1, <2>4, <2>5
<1>14. Emits \/ OutSame
  BY EmitsStep
<1> QED
  BY <1>6, <1>7, <1>8, <1>9, <1>10, <1>11, <1>12, <1>13, <1>14 DEF Emits


LEMMA StaysInserted ==
    ASSUME OneAtATime, Typed, OneActive, MarkInv, NEW d \in Drainers, [Next]_vars, dpc'[d] \in Inserted
    PROVE  \/ DrainInsert(d)
           \/ dpc[d] \in Inserted /\ DrainSequenceNumber' = DrainSequenceNumber /\ marker'[d] = marker[d]
<1>1. CASE Quiet
  BY <1>1 DEF Quiet, Kept
<1>2. CASE Inject \/ InputExit
  BY <1>2 DEF Inject, InputExit, drain, shared
<1>3. CASE CtoPTake
  BY <1>3, TakenMarks
<1>4. ASSUME NEW e \in Drainers, Moves(e)
      PROVE  dpc[d] \in Inserted /\ DrainSequenceNumber' = DrainSequenceNumber /\ marker'[d] = marker[d]
  <2>1. PICK t : dpc' = [dpc EXCEPT ![e] = t] /\ (t \in Inserted => dpc[e] \in Inserted)
    BY <1>4 DEF Moves, PlainMoves, Inserted
  <2>2. dpc'[e] = t /\ \A f \in Drainers : f # e => dpc'[f] = dpc[f]
    BY <2>1, Placed
  <2> QED
    BY <1>4, <2>1, <2>2 DEF Moves, Kept
<1>5. ASSUME NEW e \in Drainers, Acts(e), ~DrainInsert(d)
      PROVE  dpc[d] \in Inserted /\ DrainSequenceNumber' = DrainSequenceNumber /\ marker'[d] = marker[d]
  <2>0. dpc \in [Drainers -> DSteps]
    BY DEF Typed, FlagsOK
  <2>1. dpc'[e] \in Inserted => DrainInsert(e)
    <3>1. ASSUME NEW p \in Policies, NEW b \in BOOLEAN, DrainStart(e, p, b) PROVE dpc'[e] \notin Inserted
      BY <2>0, <3>1 DEF DrainStart, Inserted
    <3>2. CASE DrainJump(e)
      BY <2>0, <3>2 DEF DrainJump, Then, Inserted
    <3>3. CASE DrainNumber(e)
      BY <2>0, <3>3 DEF DrainNumber, Then, Inserted
    <3>4. CASE DrainMark(e)
      BY <2>0, <3>4 DEF DrainMark, Then, Inserted
    <3> QED
      BY <1>5, <3>1, <3>2, <3>3, <3>4 DEF Acts
  <2>2. \A f \in Drainers : f # e => dpc'[f] = dpc[f]
    BY <2>0, <1>5 DEF Acts, DrainStart, DrainJump, DrainNumber, DrainMark, DrainInsert, Then
  <2>3. e # d /\ dpc[d] \in Inserted
    BY <1>5, <2>1, <2>2
  <2>4. dpc[d] \notin Ended
    BY <2>3 DEF Inserted, Ended
  <2>5. dpc[e] \in Ended
    BY <2>3, <2>4, Alone
  <2>6. \E p \in Policies, b \in BOOLEAN : DrainStart(e, p, b)
    BY <1>5, <2>5 DEF Acts, DrainJump, DrainNumber, DrainMark, DrainInsert, Then, Ended
  <2>7. marker'[d] = marker[d] /\ DrainSequenceNumber' = DrainSequenceNumber
    BY <2>3, <2>6 DEF DrainStart, Typed, PipeOK
  <2> QED
    BY <2>3, <2>7
<1> QED
  BY <1>1, <1>2, <1>3, <1>4, <1>5, StepKinds

LEMMA BehindKept ==
    ASSUME Typed, Typed', KindsOK, MarkInv, AheadInv, OrderInv, [Next]_vars, NEW d \in Drainers,
           BehindOf(d), dpc[d] \in Inserted, DrainSequenceNumber' = DrainSequenceNumber,
           marker'[d] = marker[d]
    PROVE  BehindOf(d)'
<1> DEFINE m == marker[d].id
           S == DrainSequenceNumber
           N == NextBufferSequenceNumber
<1>0. m \in Nat /\ S \in Nat /\ N \in Nat /\ m < nextId /\ nextId \in Nat
        /\ Collated \in Seq(Item)
  BY MarkerTyped, NumbersTyped DEF MarkInv, MarkerOf, Typed, PipeOK
<1>1. /\ S > 0
      /\ \A y \in Item : NumberedIn(Line, y) /\ y.id <= m => y.seq <= S
      /\ \A k \in DOMAIN Collated : Collated[k].id <= m => N + k <= S
  BY DEF BehindOf
<1>2. SUFFICES /\ \A y \in Item : NumberedIn(Line', y) /\ y.id <= m => y.seq <= S
               /\ \A k \in DOMAIN Collated' : Collated'[k].id <= m => NextBufferSequenceNumber' + k <= S
  BY <1>1 DEF BehindOf
<1> HIDE DEF m, S, N
<1>3. CASE Onward
  BY <1>1, <1>3 DEF Onward, Advances, N
<1>4. ASSUME NEW x \in Item, Joining(x)
      PROVE  /\ \A y \in Item : NumberedIn(Line', y) /\ y.id <= m => y.seq <= S
             /\ \A k \in DOMAIN Collated' : Collated'[k].id <= m => NextBufferSequenceNumber' + k <= S
  <2>1. \A y \in Item : NumberedIn(Line', y) => NumberedIn(Line, y)
    BY <1>4, JoiningLine
  <2>2. x.id = nextId /\ Collated' = Append(Collated, x) /\ NextBufferSequenceNumber' = N
    BY <1>4 DEF Joining, N
  <2>3. \A k \in DOMAIN Collated' : (k \in DOMAIN Collated /\ Collated'[k] = Collated[k]) \/ Collated'[k] = x
    BY <1>0, <2>2, AppendParts
  <2>4. ~(x.id <= m)
    BY <1>0, <2>2
  <2> QED
    BY <1>1, <2>1, <2>2, <2>3, <2>4
<1>5. CASE CtoPTake
  <2> DEFINE y == Numbered(Head(Collated))
  <2>1. y \in Item /\ Taken(y)
    BY <1>5, TakenFrame
  <2>2. \A z \in Item : NumberedIn(Line', z) => z = y \/ NumberedIn(Line, z)
    BY <1>5, TakenLine
  <2>3. Collated # <<>> /\ Collated' = Tail(Collated)
    BY <1>5, TakenMarks
  <2>4. /\ DOMAIN Collated' = 1 .. Len(Collated) - 1 /\ Len(Collated) \in Nat
        /\ \A k \in 1 .. Len(Collated) - 1 : Collated'[k] = Collated[k + 1] /\ k + 1 \in DOMAIN Collated
        /\ 1 \in DOMAIN Collated
    BY <1>0, <2>3, TailParts
  <2> HIDE DEF y
  <2>5. CASE IsMarker(Collated[1])
    <3>1. y = Collated[1] /\ y.seq = S /\ y.id = m
      BY <2>1, <2>4, <2>5 DEF Taken, MarkInv, MarksOK, MarkerOf, S, m
    <3>2. \A k \in DOMAIN Collated : Collated[k].kind \in {"data", "jump", "marker"}
      BY DEF KindsOK, OfKinds
    <3>3. \A k \in DOMAIN Collated : IsFrame(Collated[k])
      BY <3>2 DEF IsFrame, Calls
    <3>4. Line[7] = Collated /\ 7 \in Places
      BY LinePlaces DEF Collated, Places
    <3>5. Rising(Line)
      BY DEF OrderInv, Ordered
    <3>6. \A k \in DOMAIN Collated : 1 < k => Collated[1].id < Collated[k].id
      BY <2>4, <3>3, <3>4, <3>5 DEF Rising
    <3>7. ASSUME NEW k \in DOMAIN Collated' PROVE ~(Collated'[k].id <= m)
      <4>1. k + 1 \in DOMAIN Collated /\ Collated'[k] = Collated[k + 1] /\ 1 < k + 1 /\ Collated[k + 1] \in Item
        BY <1>0, <2>4
      <4>2. m < Collated[k + 1].id /\ Collated[k + 1].id \in Nat
        BY <3>1, <3>6, <4>1, ItemParts
      <4> QED
        BY <1>0, <4>1, <4>2
    <3>8. y.seq <= S
      BY <1>0, <3>1
    <3> QED
      BY <1>1, <2>2, <3>7, <3>8
  <2>6. CASE ~IsMarker(Collated[1])
    <3>1. y.seq = N /\ y.id = Collated[1].id /\ NextBufferSequenceNumber' = N + 1
      BY <2>1, <2>6 DEF Taken, N
    <3>2. y.id <= m => N + 1 <= S
      BY <1>1, <2>4, <3>1
    <3>3. y.id <= m => y.seq <= S
      BY <1>0, <3>1, <3>2
    <3>4. ASSUME NEW k \in 1 .. Len(Collated) - 1, Collated'[k].id <= m PROVE NextBufferSequenceNumber' + k <= S
      <4>1. N + (k + 1) <= S
        BY <1>1, <2>4, <3>4
      <4> QED
        BY <1>0, <2>4, <3>1, <4>1
    <3> QED
      BY <1>1, <2>2, <2>4, <3>3, <3>4
  <2> QED
    BY <2>5, <2>6
<1> QED
  BY <1>3, <1>4, <1>5, LineStep

LEMMA BehindInserted ==
    ASSUME Typed, Typed', MarkInv, AheadInv, OrderInv, [Next]_vars, NEW d \in Drainers, DrainInsert(d)
    PROVE  BehindOf(d)'
<1> DEFINE S == DrainSequenceNumber
           N == NextBufferSequenceNumber
           n == Len(Collated)
<1>1. /\ marker'[d] \in Item /\ Collated' = Append(Collated, marker'[d])
      /\ dpc[d] = "insert" /\ UNCHANGED shared
  BY InsertParts
<1>2. N \in Nat /\ S \in Nat /\ n \in Nat /\ overtaking \in 0 .. MaxOvertaking /\ MaxOvertaking \in Nat /\ Collated \in Seq(Item)
  BY NumbersTyped
<1>3. N' = N /\ S' = S
  BY <1>1 DEF shared
<1>4. N + n + (MaxOvertaking - overtaking) + One(jump) + 1 <= S
  BY <1>1 DEF AheadInv, AheadOf, HasNumber
<1>5. One(jump) \in 0 .. 1
  BY OneRange
<1> HIDE DEF n, S, N
<1>6. N + n + 1 <= S
  BY <1>2, <1>4, <1>5
<1>7. PICK x \in Item : Joining(x)
  <2>1. Collate(marker[d]) /\ hold' = hold /\ codec' = codec /\ marker[d] \in Item
          /\ NextBufferSequenceNumber' = NextBufferSequenceNumber
    BY MarkerTyped DEF DrainInsert, procs, shared
  <2>2. WithId(marker[d]) \in Item /\ Joining(WithId(marker[d]))
    BY <2>1, CollateJoins DEF Typed
  <2> QED
    BY <2>2
<1>8. \A y \in Item : NumberedIn(Line', y) => NumberedIn(Line, y)
  BY <1>7, JoiningLine
<1>9. \A y \in Item : NumberedIn(Line, y) => y.seq < N
  <2> SUFFICES ASSUME NEW y \in Item, NumberedIn(Line, y) PROVE y.seq < N
    OBVIOUS
  <2>1. PICK p \in 1 .. 6 : \E k \in DOMAIN Line[p] : IsFrame(Line[p][k]) /\ y = Line[p][k]
    BY DEF NumberedIn
  <2>2. p \in Places /\ p # 7
    BY DEF Places
  <2> QED
    BY <2>1, <2>2 DEF OrderInv, Ordered, Bounded, N
<1>10. \A y \in Item : NumberedIn(Line', y) => y.seq <= S
  <2> SUFFICES ASSUME NEW y \in Item, NumberedIn(Line', y) PROVE y.seq <= S
    OBVIOUS
  <2>1. y.seq < N /\ y.seq \in Nat
    BY <1>8, <1>9, ItemParts
  <2> QED
    BY <1>2, <1>6, <2>1
<1>11. \A k \in DOMAIN Collated' : N + k <= S
  <2>1. DOMAIN Collated' = 1 .. n + 1
    BY <1>1, <1>2, AppendParts DEF n
  <2> QED
    BY <1>2, <1>6, <2>1
<1>12. S > 0
  BY <1>2, <1>6
<1> QED
  BY <1>3, <1>10, <1>11, <1>12 DEF BehindOf, N, S

LEMMA BehindStep ==
    ASSUME OneAtATime, Typed, Typed', OneActive, KindsOK, MarkInv, AheadInv, OrderInv, BehindInv, [Next]_vars
    PROVE  BehindInv'
<1>1. SUFFICES ASSUME NEW d \in Drainers, dpc'[d] \in Inserted PROVE BehindOf(d)'
  BY DEF BehindInv, BehindOf
<1> QED
  BY <1>1, StaysInserted, BehindKept, BehindInserted DEF BehindInv

-----------------------------------------------------------------------------
(* How the steps of the drains follow each other *)

\* What a step of the program of one drain may be.
Passes ==
    { <<"jump", "flush">>, <<"flush", "rounds">>, <<"rounds", "get">>, <<"waitRounds", "get">>,
      <<"get", "number">>, <<"number", "resetEvent">>, <<"mark", "insert">>,
      <<"callReset", "callDrained">> }
Turn(e) ==
    \/ dpc'[e] = dpc[e]
    \/ <<dpc[e], dpc'[e]>> \in Passes
    \/ dpc[e] = "rounds" /\ dpc'[e] = "waitRounds" /\ MarkerInCodedFrameIndex # NoIndex /\ Collated' = Collated
    \/ dpc[e] = "resetEvent" /\ dpc'[e] = "mark" /\ ~Drained'
    \/ DrainInsert(e) /\ dpc[e] = "insert" /\ dpc'[e] = "callReset"
    \/ DrainCallDrained(e) /\ dpc[e] = "callDrained" /\ dpc'[e] = IF blocking[e] THEN "wait" ELSE "launched"
    \/ DrainSucceeds(e) /\ Drained /\ dpc[e] = "wait" /\ dpc'[e] = "drained"
    \/ TimeOuts /\ dpc[e] = "wait" /\ dpc'[e] = "late"
    \/ TimeOuts /\ dpc[e] = "waitRounds" /\ dpc'[e] = "unset"
Turns == drains' = drains /\ blocking' = blocking /\ \A e \in Drainers : Turn(e)
Launch == \E d \in Drainers, p \in Policies, b \in BOOLEAN : (\E n \in NonBlocking : b = ~n) /\ DrainStart(d, p, b)

LEMMA DrainTurns ==
    ASSUME Typed, NEW d \in Drainers, NEW t, dpc' = [dpc EXCEPT ![d] = t], drains' = drains, blocking' = blocking,
           dpc'[d] = t => Turn(d)
    PROVE  Turns
<1>1. dpc'[d] = t /\ \A e \in Drainers : e # d => dpc'[e] = dpc[e]
  BY Placed
<1>2. \A e \in Drainers : e # d => Turn(e)
  BY <1>1 DEF Turn
<1> QED
  BY <1>1, <1>2 DEF Turns

LEMMA TurnStep ==
    ASSUME Typed, [Next]_vars
    PROVE  Launch \/ Turns
<1>Inject. ASSUME Inject PROVE Turns
  BY <1>Inject DEF Inject, Collate, Send, pipe, procs, shared, play, counts, drain, Turns, Turn
<1>InputExit. ASSUME InputExit PROVE Turns
  BY <1>InputExit DEF InputExit, Collate, Send, pipe, procs, shared, play, counts, drain, Turns, Turn
<1>SetPlaybackSpeed. ASSUME SetPlaybackSpeed PROVE Turns
  BY <1>SetPlaybackSpeed DEF SetPlaybackSpeed, pipe, procs, shared, play, counts, drain, Turns, Turn
<1>CtoPTake. ASSUME CtoPTake PROVE Turns
  BY <1>CtoPTake DEF CtoPTake, Receive, Takes, Numbered, Recognised, pipe, procs, shared, play, counts, drain, Turns, Turn
<1>CtoPParse. ASSUME CtoPParse PROVE Turns
  BY <1>CtoPParse DEF CtoPParse, Goto, Gives, Send, InHand, pipe, procs, shared, play, counts, drain, Turns, Turn
<1>PtoDTake. ASSUME PtoDTake PROVE Turns
  BY <1>PtoDTake DEF PtoDTake, Goto, Receive, Takes, ClearAtMarker, pipe, procs, shared, play, counts, drain, Turns, Turn
<1>PtoDCheck. ASSUME PtoDCheck PROVE Turns
  BY <1>PtoDCheck DEF PtoDCheck, PtoDDiscard, Goto, Gives, pipe, procs, shared, play, counts, drain, Turns, Turn
<1>PtoDWindow. ASSUME PtoDWindow PROVE Turns
  BY <1>PtoDWindow DEF PtoDWindow, PtoDDiscard, Goto, Gives, pipe, procs, shared, play, counts, drain, Turns, Turn
<1>PtoDDecode. ASSUME PtoDDecode PROVE Turns
  BY <1>PtoDDecode DEF PtoDDecode, Goto, Gives, InHand, Waiting, pipe, procs, shared, play, counts, drain, Turns, Turn
<1>DecodeCompletes. ASSUME DecodeCompletes PROVE Turns
  BY <1>DecodeCompletes DEF DecodeCompletes, Send, pipe, procs, shared, play, counts, drain, Turns, Turn
<1>MarkerPassesOn. ASSUME MarkerPassesOn PROVE Turns
  BY <1>MarkerPassesOn DEF MarkerPassesOn, Send, pipe, procs, shared, play, counts, drain, Turns, Turn
<1>DtoMMarker. ASSUME DtoMMarker PROVE Turns
  BY <1>DtoMMarker DEF DtoMMarker, Goto, Pass, ProcessAccumulated, pipe, procs, shared, play, counts, drain, Turns, Turn
<1>DtoMClear. ASSUME DtoMClear PROVE Turns
  BY <1>DtoMClear DEF DtoMClear, Goto, pipe, procs, shared, play, counts, drain, Turns, Turn
<1>DtoMTake. ASSUME DtoMTake PROVE Turns
  BY <1>DtoMTake DEF DtoMTake, Goto, Receive, Takes, ProcessAccumulated, pipe, procs, shared, play, counts, drain, Turns, Turn
<1>DtoMPause. ASSUME DtoMPause PROVE Turns
  BY <1>DtoMPause DEF DtoMPause, Goto, pipe, procs, shared, play, counts, drain, Turns, Turn
<1>DtoMDrop. ASSUME DtoMDrop PROVE Turns
  BY <1>DtoMDrop DEF DtoMDrop, Goto, Gives, pipe, procs, shared, play, counts, drain, Turns, Turn
<1>DtoMTime. ASSUME DtoMTime PROVE Turns
  BY <1>DtoMTime DEF DtoMTime, Goto, pipe, procs, shared, play, counts, drain, Turns, Turn
<1>DtoMQueue. ASSUME DtoMQueue PROVE Turns
  BY <1>DtoMQueue DEF DtoMQueue, Goto, Gives, InHand, pipe, procs, shared, play, counts, drain, Turns, Turn
<1>DtoMCall. ASSUME DtoMCall PROVE Turns
  BY <1>DtoMCall DEF DtoMCall, Receive, pipe, procs, shared, play, counts, drain, Turns, Turn
<1>Show. ASSUME Show PROVE Turns
  BY <1>Show DEF Show, Send, pipe, procs, shared, play, counts, drain, Turns, Turn
<1>PostMFrame. ASSUME PostMFrame PROVE Turns
  BY <1>PostMFrame DEF PostMFrame, Receive, ClearAtMarker, ProcessAccumulated, pipe, procs, shared, play, counts, drain, Turns, Turn
<1>PostMCall. ASSUME PostMCall PROVE Turns
  BY <1>PostMCall DEF PostMCall, Receive, pipe, procs, shared, play, counts, drain, Turns, Turn
<1>DrainJump. ASSUME NEW d \in Drainers, DrainJump(d) PROVE Turns
  <2>1. dpc[d] = "jump" /\ dpc' = [dpc EXCEPT ![d] = "flush"] /\ drains' = drains /\ blocking' = blocking
    BY <1>DrainJump DEF DrainJump, Then, counts, drain
  <2>2. dpc'[d] = "flush" => Turn(d)
    BY <1>DrainJump, <2>1 DEF Turn, Passes
  <2> QED
    BY <2>1, <2>2, DrainTurns
<1>DrainFlush. ASSUME NEW d \in Drainers, DrainFlush(d) PROVE Turns
  <2>1. dpc[d] = "flush" /\ dpc' = [dpc EXCEPT ![d] = "rounds"] /\ drains' = drains /\ blocking' = blocking
    BY <1>DrainFlush DEF DrainFlush, Then, counts, drain
  <2>2. dpc'[d] = "rounds" => Turn(d)
    BY <1>DrainFlush, <2>1 DEF Turn, Passes
  <2> QED
    BY <2>1, <2>2, DrainTurns
<1>DrainRounds. ASSUME NEW d \in Drainers, DrainRounds(d) PROVE Turns
  <2>0. drains' = drains /\ blocking' = blocking /\ Collated' = Collated
    BY <1>DrainRounds DEF DrainRounds, counts, pipe, Collated
  <2>1. CASE MarkerInCodedFrameIndex = NoIndex
    <3>1. dpc[d] = "rounds" /\ dpc' = [dpc EXCEPT ![d] = "get"]
      BY <1>DrainRounds, <2>1 DEF DrainRounds, Then
    <3>2. dpc'[d] = "get" => Turn(d)
      BY <3>1 DEF Turn, Passes
    <3> QED
      BY <2>0, <3>1, <3>2, DrainTurns
  <2>2. CASE MarkerInCodedFrameIndex # NoIndex
    <3>1. dpc[d] = "rounds" /\ dpc' = [dpc EXCEPT ![d] = "waitRounds"]
      BY <1>DrainRounds, <2>2 DEF DrainRounds, Then
    <3>2. dpc'[d] = "waitRounds" => Turn(d)
      BY <2>0, <2>2, <3>1 DEF Turn
    <3> QED
      BY <2>0, <3>1, <3>2, DrainTurns
  <2> QED
    BY <2>1, <2>2
<1>DrainGet. ASSUME NEW d \in Drainers, DrainGet(d) PROVE Turns
  <2>1. dpc[d] = "get" /\ dpc' = [dpc EXCEPT ![d] = "number"] /\ drains' = drains /\ blocking' = blocking
    BY <1>DrainGet DEF DrainGet, Then, counts, drain
  <2>2. dpc'[d] = "number" => Turn(d)
    BY <1>DrainGet, <2>1 DEF Turn, Passes
  <2> QED
    BY <2>1, <2>2, DrainTurns
<1>DrainNumber. ASSUME NEW d \in Drainers, DrainNumber(d) PROVE Turns
  <2>1. dpc[d] = "number" /\ dpc' = [dpc EXCEPT ![d] = "resetEvent"] /\ drains' = drains /\ blocking' = blocking
    BY <1>DrainNumber DEF DrainNumber, Then, counts, drain
  <2>2. dpc'[d] = "resetEvent" => Turn(d)
    BY <1>DrainNumber, <2>1 DEF Turn, Passes
  <2> QED
    BY <2>1, <2>2, DrainTurns
<1>DrainReset. ASSUME NEW d \in Drainers, DrainReset(d) PROVE Turns
  <2>1. dpc[d] = "resetEvent" /\ dpc' = [dpc EXCEPT ![d] = "mark"] /\ drains' = drains /\ blocking' = blocking
    BY <1>DrainReset DEF DrainReset, Then, counts, drain
  <2>2. dpc'[d] = "mark" => Turn(d)
    BY <1>DrainReset, <2>1 DEF Turn, Passes, DrainReset
  <2> QED
    BY <2>1, <2>2, DrainTurns
<1>DrainMark. ASSUME NEW d \in Drainers, DrainMark(d) PROVE Turns
  <2>1. dpc[d] = "mark" /\ dpc' = [dpc EXCEPT ![d] = "insert"] /\ drains' = drains /\ blocking' = blocking
    BY <1>DrainMark DEF DrainMark, Then, counts, drain
  <2>2. dpc'[d] = "insert" => Turn(d)
    BY <1>DrainMark, <2>1 DEF Turn, Passes
  <2> QED
    BY <2>1, <2>2, DrainTurns
<1>DrainInsert. ASSUME NEW d \in Drainers, DrainInsert(d) PROVE Turns
  <2>1. dpc[d] = "insert" /\ dpc' = [dpc EXCEPT ![d] = "callReset"] /\ drains' = drains /\ blocking' = blocking
    BY <1>DrainInsert DEF DrainInsert, Then, counts, drain
  <2>2. dpc'[d] = "callReset" => Turn(d)
    BY <1>DrainInsert, <2>1 DEF Turn, Passes
  <2> QED
    BY <2>1, <2>2, DrainTurns
<1>DrainCallReset. ASSUME NEW d \in Drainers, DrainCallReset(d) PROVE Turns
  <2>1. dpc[d] = "callReset" /\ dpc' = [dpc EXCEPT ![d] = "callDrained"] /\ drains' = drains /\ blocking' = blocking
    BY <1>DrainCallReset DEF DrainCallReset, Then, counts, drain
  <2>2. dpc'[d] = "callDrained" => Turn(d)
    BY <1>DrainCallReset, <2>1 DEF Turn, Passes
  <2> QED
    BY <2>1, <2>2, DrainTurns
<1>DrainCallDrained. ASSUME NEW d \in Drainers, DrainCallDrained(d) PROVE Turns
  <2> DEFINE t == IF blocking[d] THEN "wait" ELSE "launched"
  <2>1. dpc[d] = "callDrained" /\ dpc' = [dpc EXCEPT ![d] = t] /\ drains' = drains /\ blocking' = blocking
    BY <1>DrainCallDrained DEF DrainCallDrained, Then, counts
  <2>2. dpc'[d] = t => Turn(d)
    BY <1>DrainCallDrained, <2>1 DEF Turn
  <2> HIDE DEF t
  <2> QED
    BY <2>1, <2>2, DrainTurns
<1>DrainSucceeds. ASSUME NEW d \in Drainers, DrainSucceeds(d) PROVE Turns
  <2>0. Drained /\ drains' = drains /\ blocking' = blocking
    BY <1>DrainSucceeds DEF DrainSucceeds, counts
  <2>1. CASE Then(d, "waitRounds", "get")
    <3>1. dpc[d] = "waitRounds" /\ dpc' = [dpc EXCEPT ![d] = "get"]
      BY <2>1 DEF Then
    <3>2. dpc'[d] = "get" => Turn(d)
      BY <3>1 DEF Turn, Passes
    <3> QED
      BY <2>0, <3>1, <3>2, DrainTurns
  <2>2. CASE Then(d, "wait", "drained")
    <3>1. dpc[d] = "wait" /\ dpc' = [dpc EXCEPT ![d] = "drained"]
      BY <2>2 DEF Then
    <3>2. dpc'[d] = "drained" => Turn(d)
      BY <1>DrainSucceeds, <2>0, <3>1 DEF Turn
    <3> QED
      BY <2>0, <3>1, <3>2, DrainTurns
  <2> QED
    BY <1>DrainSucceeds, <2>1, <2>2 DEF DrainSucceeds
<1>DrainTimesOut. ASSUME NEW d \in Drainers, DrainTimesOut(d) PROVE Turns
  <2>0. TimeOuts /\ drains' = drains /\ blocking' = blocking /\ dpc[d] \in {"waitRounds", "wait"}
    BY <1>DrainTimesOut DEF DrainTimesOut, counts
  <2>1. CASE dpc' = dpc
    BY <2>0, <2>1 DEF Turns, Turn
  <2>2. CASE dpc' = [dpc EXCEPT ![d] = IF @ = "wait" THEN "late" ELSE "unset"]
    <3>1. dpc' = [dpc EXCEPT ![d] = IF dpc[d] = "wait" THEN "late" ELSE "unset"]
      BY <2>2 DEF Typed, FlagsOK
    <3>2. dpc'[d] = (IF dpc[d] = "wait" THEN "late" ELSE "unset") => Turn(d)
      BY <2>0 DEF Turn
    <3> QED
      BY <2>0, <3>1, <3>2, DrainTurns
  <2> QED
    BY <1>DrainTimesOut, <2>1, <2>2 DEF DrainTimesOut
<1>stutter. ASSUME vars' = vars PROVE Turns
  BY <1>stutter DEF vars, pipe, procs, shared, play, counts, drain, Turns, Turn
<1>1. ASSUME NEW d \in Drainers, StepD(d) PROVE Launch \/ Turns
  BY <1>1, <1>DrainJump, <1>DrainFlush, <1>DrainRounds, <1>DrainGet, <1>DrainNumber, <1>DrainReset, <1>DrainMark, <1>DrainInsert, <1>DrainCallReset, <1>DrainCallDrained, <1>DrainSucceeds, <1>DrainTimesOut DEF StepD, Launch
<1> QED
  BY StepCases, <1>1, <1>stutter, <1>Inject, <1>InputExit, <1>SetPlaybackSpeed, <1>CtoPTake, <1>CtoPParse, <1>PtoDTake, <1>PtoDCheck, <1>PtoDWindow, <1>PtoDDecode, <1>DecodeCompletes, <1>MarkerPassesOn, <1>DtoMMarker, <1>DtoMClear, <1>DtoMTake, <1>DtoMPause, <1>DtoMDrop, <1>DtoMTime, <1>DtoMQueue, <1>DtoMCall, <1>Show, <1>PostMFrame, <1>PostMCall DEF Step1, Step2, Step3, Step4

-----------------------------------------------------------------------------
(* The event Drained, and the calls that will set it *)

LEMMA DrainedStep ==
    ASSUME Typed, [Next]_vars
    PROVE  Drained' = Drained \/ ~Drained' \/ PostMFrame \/ PostMCall
<1>Inject. ASSUME Inject PROVE Drained' = Drained \/ ~Drained' \/ PostMFrame \/ PostMCall
  BY <1>Inject DEF Inject, Collate, Send, pipe, procs, shared, play, counts, drain
<1>InputExit. ASSUME InputExit PROVE Drained' = Drained \/ ~Drained' \/ PostMFrame \/ PostMCall
  BY <1>InputExit DEF InputExit, Collate, Send, pipe, procs, shared, play, counts, drain
<1>SetPlaybackSpeed. ASSUME SetPlaybackSpeed PROVE Drained' = Drained \/ ~Drained' \/ PostMFrame \/ PostMCall
  BY <1>SetPlaybackSpeed DEF SetPlaybackSpeed, pipe, procs, shared, play, counts, drain
<1>CtoPTake. ASSUME CtoPTake PROVE Drained' = Drained \/ ~Drained' \/ PostMFrame \/ PostMCall
  BY <1>CtoPTake DEF CtoPTake, Receive, Takes, Numbered, Recognised, pipe, procs, shared, play, counts, drain
<1>CtoPParse. ASSUME CtoPParse PROVE Drained' = Drained \/ ~Drained' \/ PostMFrame \/ PostMCall
  BY <1>CtoPParse DEF CtoPParse, Goto, Gives, Send, InHand, pipe, procs, shared, play, counts, drain
<1>PtoDTake. ASSUME PtoDTake PROVE Drained' = Drained \/ ~Drained' \/ PostMFrame \/ PostMCall
  BY <1>PtoDTake DEF PtoDTake, Goto, Receive, Takes, ClearAtMarker, pipe, procs, shared, play, counts, drain
<1>PtoDCheck. ASSUME PtoDCheck PROVE Drained' = Drained \/ ~Drained' \/ PostMFrame \/ PostMCall
  BY <1>PtoDCheck DEF PtoDCheck, PtoDDiscard, Goto, Gives, pipe, procs, shared, play, counts, drain
<1>PtoDWindow. ASSUME PtoDWindow PROVE Drained' = Drained \/ ~Drained' \/ PostMFrame \/ PostMCall
  BY <1>PtoDWindow DEF PtoDWindow, PtoDDiscard, Goto, Gives, pipe, procs, shared, play, counts, drain
<1>PtoDDecode. ASSUME PtoDDecode PROVE Drained' = Drained \/ ~Drained' \/ PostMFrame \/ PostMCall
  BY <1>PtoDDecode DEF PtoDDecode, Goto, Gives, InHand, Waiting, pipe, procs, shared, play, counts, drain
<1>DecodeCompletes. ASSUME DecodeCompletes PROVE Drained' = Drained \/ ~Drained' \/ PostMFrame \/ PostMCall
  BY <1>DecodeCompletes DEF DecodeCompletes, Send, pipe, procs, shared, play, counts, drain
<1>MarkerPassesOn. ASSUME MarkerPassesOn PROVE Drained' = Drained \/ ~Drained' \/ PostMFrame \/ PostMCall
  BY <1>MarkerPassesOn DEF MarkerPassesOn, Send, pipe, procs, shared, play, counts, drain
<1>DtoMMarker. ASSUME DtoMMarker PROVE Drained' = Drained \/ ~Drained' \/ PostMFrame \/ PostMCall
  BY <1>DtoMMarker DEF DtoMMarker, Goto, Pass, ProcessAccumulated, pipe, procs, shared, play, counts, drain
<1>DtoMClear. ASSUME DtoMClear PROVE Drained' = Drained \/ ~Drained' \/ PostMFrame \/ PostMCall
  BY <1>DtoMClear DEF DtoMClear, Goto, pipe, procs, shared, play, counts, drain
<1>DtoMTake. ASSUME DtoMTake PROVE Drained' = Drained \/ ~Drained' \/ PostMFrame \/ PostMCall
  BY <1>DtoMTake DEF DtoMTake, Goto, Receive, Takes, ProcessAccumulated, pipe, procs, shared, play, counts, drain
<1>DtoMPause. ASSUME DtoMPause PROVE Drained' = Drained \/ ~Drained' \/ PostMFrame \/ PostMCall
  BY <1>DtoMPause DEF DtoMPause, Goto, pipe, procs, shared, play, counts, drain
<1>DtoMDrop. ASSUME DtoMDrop PROVE Drained' = Drained \/ ~Drained' \/ PostMFrame \/ PostMCall
  BY <1>DtoMDrop DEF DtoMDrop, Goto, Gives, pipe, procs, shared, play, counts, drain
<1>DtoMTime. ASSUME DtoMTime PROVE Drained' = Drained \/ ~Drained' \/ PostMFrame \/ PostMCall
  BY <1>DtoMTime DEF DtoMTime, Goto, pipe, procs, shared, play, counts, drain
<1>DtoMQueue. ASSUME DtoMQueue PROVE Drained' = Drained \/ ~Drained' \/ PostMFrame \/ PostMCall
  BY <1>DtoMQueue DEF DtoMQueue, Goto, Gives, InHand, pipe, procs, shared, play, counts, drain
<1>DtoMCall. ASSUME DtoMCall PROVE Drained' = Drained \/ ~Drained' \/ PostMFrame \/ PostMCall
  BY <1>DtoMCall DEF DtoMCall, Receive, pipe, procs, shared, play, counts, drain
<1>Show. ASSUME Show PROVE Drained' = Drained \/ ~Drained' \/ PostMFrame \/ PostMCall
  BY <1>Show DEF Show, Send, pipe, procs, shared, play, counts, drain
<1>PostMFrame. ASSUME PostMFrame PROVE Drained' = Drained \/ ~Drained' \/ PostMFrame \/ PostMCall
  BY <1>PostMFrame
<1>PostMCall. ASSUME PostMCall PROVE Drained' = Drained \/ ~Drained' \/ PostMFrame \/ PostMCall
  BY <1>PostMCall
<1>DrainStart. ASSUME NEW d \in Drainers, NEW p \in Policies, NEW b \in BOOLEAN, DrainStart(d, p, b) PROVE Drained' = Drained \/ ~Drained' \/ PostMFrame \/ PostMCall
  BY <1>DrainStart DEF DrainStart, pipe, procs, shared, play, counts, drain
<1>DrainJump. ASSUME NEW d \in Drainers, DrainJump(d) PROVE Drained' = Drained \/ ~Drained' \/ PostMFrame \/ PostMCall
  BY <1>DrainJump DEF DrainJump, Then, Collate, Send, pipe, procs, shared, play, counts, drain
<1>DrainFlush. ASSUME NEW d \in Drainers, DrainFlush(d) PROVE Drained' = Drained \/ ~Drained' \/ PostMFrame \/ PostMCall
  BY <1>DrainFlush DEF DrainFlush, Then, pipe, procs, shared, play, counts, drain
<1>DrainRounds. ASSUME NEW d \in Drainers, DrainRounds(d) PROVE Drained' = Drained \/ ~Drained' \/ PostMFrame \/ PostMCall
  BY <1>DrainRounds DEF DrainRounds, Then, StartsWait, pipe, procs, shared, play, counts, drain
<1>DrainGet. ASSUME NEW d \in Drainers, DrainGet(d) PROVE Drained' = Drained \/ ~Drained' \/ PostMFrame \/ PostMCall
  BY <1>DrainGet DEF DrainGet, Then, pipe, procs, shared, play, counts, drain
<1>DrainNumber. ASSUME NEW d \in Drainers, DrainNumber(d) PROVE Drained' = Drained \/ ~Drained' \/ PostMFrame \/ PostMCall
  BY <1>DrainNumber DEF DrainNumber, Then, NumberAhead, pipe, procs, shared, play, counts, drain
<1>DrainReset. ASSUME NEW d \in Drainers, DrainReset(d) PROVE Drained' = Drained \/ ~Drained' \/ PostMFrame \/ PostMCall
  BY <1>DrainReset DEF DrainReset, Then, pipe, procs, shared, play, counts, drain
<1>DrainMark. ASSUME NEW d \in Drainers, DrainMark(d) PROVE Drained' = Drained \/ ~Drained' \/ PostMFrame \/ PostMCall
  BY <1>DrainMark DEF DrainMark, Then, pipe, procs, shared, play, counts, drain
<1>DrainInsert. ASSUME NEW d \in Drainers, DrainInsert(d) PROVE Drained' = Drained \/ ~Drained' \/ PostMFrame \/ PostMCall
  BY <1>DrainInsert DEF DrainInsert, Then, Collate, Send, pipe, procs, shared, play, counts, drain
<1>DrainCallReset. ASSUME NEW d \in Drainers, DrainCallReset(d) PROVE Drained' = Drained \/ ~Drained' \/ PostMFrame \/ PostMCall
  BY <1>DrainCallReset DEF DrainCallReset, Then, Send, pipe, procs, shared, play, counts, drain
<1>DrainCallDrained. ASSUME NEW d \in Drainers, DrainCallDrained(d) PROVE Drained' = Drained \/ ~Drained' \/ PostMFrame \/ PostMCall
  BY <1>DrainCallDrained DEF DrainCallDrained, Then, Send, StartsWait, pipe, procs, shared, play, counts, drain
<1>DrainSucceeds. ASSUME NEW d \in Drainers, DrainSucceeds(d) PROVE Drained' = Drained \/ ~Drained' \/ PostMFrame \/ PostMCall
  BY <1>DrainSucceeds DEF DrainSucceeds, Then, pipe, procs, shared, play, counts, drain
<1>DrainTimesOut. ASSUME NEW d \in Drainers, DrainTimesOut(d) PROVE Drained' = Drained \/ ~Drained' \/ PostMFrame \/ PostMCall
  BY <1>DrainTimesOut DEF DrainTimesOut, StartsWait, pipe, procs, shared, play, counts, drain
<1>stutter. ASSUME vars' = vars PROVE Drained' = Drained \/ ~Drained' \/ PostMFrame \/ PostMCall
  BY <1>stutter DEF vars, pipe, procs, shared, play, counts, drain
<1>1. ASSUME NEW d \in Drainers, StepD(d) PROVE Drained' = Drained \/ ~Drained' \/ PostMFrame \/ PostMCall
  BY <1>1, <1>DrainStart, <1>DrainJump, <1>DrainFlush, <1>DrainRounds, <1>DrainGet, <1>DrainNumber, <1>DrainReset, <1>DrainMark, <1>DrainInsert, <1>DrainCallReset, <1>DrainCallDrained, <1>DrainSucceeds, <1>DrainTimesOut DEF StepD
<1> QED
  BY StepCases, <1>1, <1>stutter, <1>Inject, <1>InputExit, <1>SetPlaybackSpeed, <1>CtoPTake, <1>CtoPParse, <1>PtoDTake, <1>PtoDCheck, <1>PtoDWindow, <1>PtoDDecode, <1>DecodeCompletes, <1>MarkerPassesOn, <1>DtoMMarker, <1>DtoMClear, <1>DtoMTake, <1>DtoMPause, <1>DtoMDrop, <1>DtoMTime, <1>DtoMQueue, <1>DtoMCall, <1>Show, <1>PostMFrame, <1>PostMCall DEF Step1, Step2, Step3, Step4

\* CallsAt of the next state, for a number that may be a part of a state.
CallsNext(n) ==
    /\ \A k \in DOMAIN Manifested' : ~IsFrame(Manifested'[k]) => Manifested'[k].seq = n
    /\ \A k \in Slots : Table'[k] # <<>> => Table'[k][1].seq = n

\* Frames join the ring to the last process.
OutGrown ==
    /\ \A k \in DOMAIN Manifested' :
          IsFrame(Manifested'[k]) \/ (k \in DOMAIN Manifested /\ Manifested'[k] = Manifested[k])
    /\ Table' = Table /\ seen'["PostM"] = seen["PostM"]

LEMMA GrownBy ==
    ASSUME NEW s \in Seq(Item), NEW t \in Seq(Item), \A k \in DOMAIN t : IsFrame(t[k])
    PROVE  \A k \in DOMAIN (s \o t) :
              IsFrame((s \o t)[k]) \/ (k \in DOMAIN s /\ (s \o t)[k] = s[k])
<1>1. Len(s) \in Nat /\ Len(t) \in Nat /\ DOMAIN s = 1 .. Len(s) /\ DOMAIN t = 1 .. Len(t)
        /\ DOMAIN (s \o t) = 1 .. Len(s) + Len(t)
        /\ \A k \in 1 .. Len(s) + Len(t) : (s \o t)[k] = IF k <= Len(s) THEN s[k] ELSE t[k - Len(s)]
  OBVIOUS
<1>2. SUFFICES ASSUME NEW k \in 1 .. Len(s) + Len(t), k > Len(s) PROVE IsFrame((s \o t)[k])
  BY <1>1
<1>3. k - Len(s) \in DOMAIN t /\ (s \o t)[k] = t[k - Len(s)]
  BY <1>1, <1>2
<1> QED
  BY <1>3

LEMMA OutGrows ==
    ASSUME Typed, KindsOK,
           DtoMMarker \/ DtoMQueue \/ Show \/ \E d \in Drainers : DrainFlush(d)
    PROVE  OutGrown /\ Drained' = Drained
<1>1. ring \in [Rings -> Seq(Item)] /\ display \in Seq(Item) /\ Manifested \in Seq(Item)
        /\ accumulated \in [{"DtoM", "PostM"} -> [Slots -> Seq(Item)]] /\ seen \in [{"DtoM", "PostM"} -> Nat]
        /\ "manifested" \in Rings /\ "decoded" \in Rings
  BY DEF Typed, PipeOK, TableOK, Rings, Manifested
<1>2. OfKinds(display, {"data"})
  BY DEF KindsOK
<1>3. CASE DtoMMarker
  <2> DEFINE i == Head(ring["decoded"])
  <2>1. i \in Item /\ IsFrame(i)
    <3>1. ring["decoded"] \in Seq(Item) /\ ring["decoded"] # <<>> /\ i.kind = "marker"
      BY <1>1, <1>3 DEF DtoMMarker
    <3>2. i \in Item
      BY <3>1, TailParts
    <3> QED
      BY <3>1, <3>2 DEF IsFrame, Calls
  <2>2. Manifested' = Append(Manifested, i) /\ Table' = Table /\ seen'["PostM"] = seen["PostM"] /\ Drained' = Drained
    BY <1>1, <1>3 DEF DtoMMarker, Pass, ProcessAccumulated, Manifested, Table, shared
  <2> HIDE DEF i
  <2>3. \A k \in DOMAIN Manifested' : (k \in DOMAIN Manifested /\ Manifested'[k] = Manifested[k]) \/ Manifested'[k] = i
    BY <1>1, <2>1, <2>2, AppendParts
  <2> QED
    BY <2>1, <2>2, <2>3 DEF OutGrown
<1>4. CASE DtoMQueue
  BY <1>4 DEF DtoMQueue, shared, OutGrown, Manifested, Table
<1>5. CASE Show
  <2> DEFINE i == Head(display)
  <2>1. i \in Item /\ IsFrame(i)
    <3>1. display # <<>>
      BY <1>1, <1>5 DEF Show
    <3>2. i = display[1] /\ 1 \in DOMAIN display /\ i \in Item
      BY <1>1, <3>1, TailParts
    <3> QED
      BY <1>2, <3>2 DEF IsFrame, Calls, OfKinds
  <2>2. Manifested' = Append(Manifested, i) /\ Table' = Table /\ seen'["PostM"] = seen["PostM"] /\ Drained' = Drained
    BY <1>1, <1>5 DEF Show, Send, Manifested, Table, shared, procs
  <2> HIDE DEF i
  <2>3. \A k \in DOMAIN Manifested' : (k \in DOMAIN Manifested /\ Manifested'[k] = Manifested[k]) \/ Manifested'[k] = i
    BY <1>1, <2>1, <2>2, AppendParts
  <2> QED
    BY <2>1, <2>2, <2>3 DEF OutGrown
<1>6. ASSUME NEW d \in Drainers, DrainFlush(d) PROVE OutGrown /\ Drained' = Drained
  <2>1. Table' = Table /\ seen' = seen /\ Drained' = Drained
    BY <1>6 DEF DrainFlush, procs, shared, Table
  <2>2. CASE display = <<>>
    BY <1>6, <2>1, <2>2 DEF DrainFlush, OutGrown, Manifested
  <2>3. CASE display # <<>>
    <3>1. Manifested' = Manifested \o Tail(display)
      BY <1>1, <1>6, <2>3 DEF DrainFlush, Manifested
    <3>2. Tail(display) \in Seq(Item) /\ OfKinds(Tail(display), {"data"})
      BY <1>1, <1>2, <2>3, TailParts, KindsTail
    <3>3. \A k \in DOMAIN Tail(display) : IsFrame(Tail(display)[k])
      BY <3>2 DEF OfKinds, IsFrame, Calls
    <3> QED
      BY <1>1, <2>1, <3>1, <3>2, <3>3, GrownBy DEF OutGrown
  <2> QED
    BY <2>2, <2>3
<1> QED
  BY <1>3, <1>4, <1>5, <1>6

\* What the last process does with what it takes from its ring.
OutTaken ==
    /\ 1 \in DOMAIN Manifested
    /\ \A k \in DOMAIN Manifested' : k + 1 \in DOMAIN Manifested /\ Manifested'[k] = Manifested[k + 1] /\ k + 1 # 1 /\ k \in Nat
FrameTaken ==
    /\ IsFrame(Manifested[1])
    /\ \A k \in Slots : Table'[k] = IF Table[k] # <<>> /\ Table[k][1].seq <= Manifested[1].seq THEN <<>> ELSE Table[k]
    /\ Drained' = (Drained \/ \E k \in Slots : Table[k] # <<>> /\ Table[k][1].seq <= Manifested[1].seq)
    /\ seen'["PostM"] >= Manifested[1].seq /\ seen'["PostM"] >= seen["PostM"]
CallTaken ==
    /\ ~IsFrame(Manifested[1]) /\ seen' = seen
    /\ \/ Manifested[1].seq <= seen["PostM"] /\ Drained' = TRUE /\ Table' = Table
       \/ Drained' = Drained /\ Table' = Table
       \/ /\ Drained' = Drained
          /\ \E k \in Slots : Table[k] = <<>> /\ Table'[k] = <<Manifested[1]>>
                                /\ \A j \in Slots : j # k => Table'[j] = Table[j]

LEMMA OutTakes ==
    ASSUME Typed, PostMFrame \/ PostMCall
    PROVE  OutTaken /\ (FrameTaken \/ CallTaken)
<1>1. ring \in [Rings -> Seq(Item)] /\ Manifested \in Seq(Item) /\ "manifested" \in Rings
        /\ accumulated \in [{"DtoM", "PostM"} -> [Slots -> Seq(Item)]] /\ seen \in [{"DtoM", "PostM"} -> Nat]
  BY DEF Typed, PipeOK, TableOK, Rings, Manifested
<1>2. Manifested # <<>> /\ Manifested' = Tail(Manifested)
  BY <1>1 DEF PostMFrame, PostMCall, Receive, Manifested
<1>3. /\ DOMAIN Manifested = 1 .. Len(Manifested) /\ Len(Manifested) \in Nat
      /\ DOMAIN Manifested' = 1 .. Len(Manifested) - 1
      /\ \A k \in 1 .. Len(Manifested) - 1 : Manifested'[k] = Manifested[k + 1] /\ k + 1 \in DOMAIN Manifested
      /\ Head(Manifested) = Manifested[1] /\ 1 \in DOMAIN Manifested /\ Head(Manifested) \in Item
  BY <1>1, <1>2, TailParts
<1>4. OutTaken
  BY <1>3 DEF OutTaken
<1> DEFINE i == Head(Manifested)
<1>5. i = Head(ring["manifested"]) /\ i \in Item /\ i.seq \in Nat /\ i = Manifested[1]
  BY <1>3, ItemParts DEF Manifested
<1> HIDE DEF i
<1>6. CASE PostMFrame
  <2>1. IsFrame(i) /\ seen' = [seen EXCEPT !["PostM"] = Max2(@, i.seq)] /\ ProcessAccumulated("PostM", i.seq)
          /\ Drained' = (Drained \/ DueNow("PostM", i.seq) # {})
    BY <1>5, <1>6 DEF PostMFrame
  <2>2. seen'["PostM"] = Max2(seen["PostM"], i.seq) /\ seen["PostM"] \in Nat
    BY <1>1, <2>1
  <2>3. seen'["PostM"] >= i.seq /\ seen'["PostM"] >= seen["PostM"]
    BY <1>5, <2>2 DEF Max2
  <2>4. \A k \in Slots : k \in DueNow("PostM", i.seq) <=> Table[k] # <<>> /\ Table[k][1].seq <= i.seq
    BY DEF DueNow, Due, Table
  <2>5. \A k \in Slots : Table'[k] = IF k \in DueNow("PostM", i.seq) THEN <<>> ELSE Table[k]
    BY <1>1, <2>1 DEF ProcessAccumulated, Table
  <2>6. DueNow("PostM", i.seq) # {} <=> \E k \in Slots : k \in DueNow("PostM", i.seq)
    BY DEF DueNow
  <2> QED
    BY <1>4, <1>5, <2>1, <2>3, <2>4, <2>5, <2>6 DEF FrameTaken
<1>7. CASE PostMCall
  <2>1. ~IsFrame(i) /\ seen' = seen
    BY <1>5, <1>7 DEF PostMCall
  <2>2. CASE Due(i, seen["PostM"])
    BY <1>4, <1>5, <1>7, <2>1, <2>2 DEF PostMCall, CallTaken, Due, Table
  <2>3. CASE ~Due(i, seen["PostM"])
    <3>1. Accumulate("PostM", i) /\ Drained' = Drained
      BY <1>5, <1>7, <2>3 DEF PostMCall
    <3>2. CASE UNCHANGED accumulated
      BY <1>4, <1>5, <2>1, <3>1, <3>2 DEF CallTaken, Table
    <3>3. CASE ~UNCHANGED accumulated
      <4>1. PICK k \in Free("PostM") : accumulated' = [accumulated EXCEPT !["PostM"][k] = <<i>>]
        BY <3>1, <3>3 DEF Accumulate
      <4>2. k \in Slots /\ Table[k] = <<>>
        BY DEF Free, Table
      <4>3. Table'[k] = <<i>> /\ \A j \in Slots : j # k => Table'[j] = Table[j]
        BY <1>1, <4>1, <4>2 DEF Table
      <4> QED
        BY <1>4, <1>5, <2>1, <3>1, <4>2, <4>3 DEF CallTaken
    <3> QED
      BY <3>2, <3>3
  <2> QED
    BY <2>2, <2>3
<1> QED
  BY <1>6, <1>7

\* The calls that wait stay what they are until the last process performs them.
CallsHeld(n) ==
    /\ NoCalls => NoCalls' /\ (Drained' => Drained)
    /\ OneCall => OneCall'
    /\ CallsAt(n) => CallsNext(n)
    /\ CallsAt(n) /\ Drained' /\ ~Drained => seen'["PostM"] >= n /\ (OneCall => NoCalls')
    /\ seen'["PostM"] >= seen["PostM"]

LEMMA HeldIfGrown ==
    ASSUME Typed, OutGrown, Drained' => Drained, NEW n \in Nat
    PROVE  CallsHeld(n)
<1>1. NoCalls => NoCalls'
  BY DEF OutGrown, NoCalls
<1>2. OneCall => OneCall'
  BY DEF OutGrown, OneCall
<1>3. CallsAt(n) => CallsNext(n)
  BY DEF OutGrown, CallsAt, CallsNext
<1>4. seen'["PostM"] >= seen["PostM"]
  BY DEF OutGrown, Typed, TableOK
<1> QED
  BY <1>1, <1>2, <1>3, <1>4 DEF CallsHeld

LEMMA HeldIfFrame ==
    ASSUME Typed, Typed', OutTaken, FrameTaken, NEW n \in Nat
    PROVE  CallsHeld(n)
<1>1. NoCalls => NoCalls' /\ (Drained' => Drained)
  BY DEF OutTaken, FrameTaken, NoCalls
<1>2. OneCall => OneCall'
  <2> SUFFICES ASSUME OneCall PROVE OneCall'
    OBVIOUS
  <2>1. \A k \in Slots : Table'[k] = <<>> \/ Table'[k] = Table[k]
    BY DEF FrameTaken
  <2>2. \A j, k \in Slots : Table'[j] # <<>> /\ Table'[k] # <<>> => j = k
    BY <2>1 DEF OneCall
  <2>3. \A j \in DOMAIN Manifested', k \in Slots : IsFrame(Manifested'[j]) \/ Table'[k] = <<>>
    BY <2>1 DEF OneCall, OutTaken
  <2>4. ASSUME NEW j \in DOMAIN Manifested', NEW k \in DOMAIN Manifested', ~IsFrame(Manifested'[j]), ~IsFrame(Manifested'[k])
        PROVE  j = k
    <3>1. j + 1 = k + 1 /\ j \in Nat /\ k \in Nat
      BY <2>4 DEF OneCall, OutTaken
    <3> QED
      BY <3>1
  <2> QED
    BY <2>2, <2>3, <2>4 DEF OneCall
<1>3. CallsAt(n) => CallsNext(n)
  BY DEF OutTaken, FrameTaken, CallsAt, CallsNext
<1>4. ASSUME CallsAt(n), Drained', ~Drained PROVE seen'["PostM"] >= n /\ (OneCall => NoCalls')
  <2>1. PICK k \in Slots : Table[k] # <<>> /\ Table[k][1].seq <= Manifested[1].seq
    BY <1>4 DEF FrameTaken
  <2>2. Table[k][1].seq = n
    BY <1>4, <2>1 DEF CallsAt
  <2>3. Manifested[1].seq \in Nat /\ seen'["PostM"] >= Manifested[1].seq
    <3>1. Manifested \in Seq(Item) /\ 1 \in DOMAIN Manifested
      BY DEF Typed, PipeOK, Rings, Manifested, OutTaken
    <3>2. Manifested[1] \in Item
      BY <3>1
    <3> QED
      BY <3>2, ItemParts DEF FrameTaken
  <2>4. n \in Nat /\ n <= Manifested[1].seq
    BY <2>1, <2>2
  <2>5. seen'["PostM"] >= n
    <3>1. seen'["PostM"] \in Nat
      BY DEF Typed, TableOK
    <3> QED
      BY <2>3, <2>4, <3>1
  <2>6. ASSUME OneCall PROVE NoCalls'
    <3>1. \A j \in Slots : j # k => Table[j] = <<>>
      BY <2>1, <2>6 DEF OneCall
    <3>2. \A j \in DOMAIN Manifested : IsFrame(Manifested[j])
      BY <2>1, <2>6 DEF OneCall
    <3>3. \A j \in Slots : Table'[j] = <<>>
      BY <2>1, <3>1 DEF FrameTaken
    <3> QED
      BY <3>2, <3>3 DEF NoCalls, OutTaken
  <2> QED
    BY <2>5, <2>6
<1>5. seen'["PostM"] >= seen["PostM"]
  BY DEF FrameTaken
<1> QED
  BY <1>1, <1>2, <1>3, <1>4, <1>5 DEF CallsHeld

LEMMA HeldIfCall ==
    ASSUME Typed, OutTaken, CallTaken, NEW n \in Nat
    PROVE  CallsHeld(n)
<1>1. ~NoCalls
  BY DEF OutTaken, CallTaken, NoCalls
<1>2. ASSUME OneCall
      PROVE  /\ \A k \in DOMAIN Manifested' : IsFrame(Manifested'[k])
             /\ \A k \in Slots : Table[k] = <<>>
  BY <1>2 DEF OneCall, OutTaken, CallTaken
<1>3. OneCall => OneCall'
  <2> SUFFICES ASSUME OneCall PROVE OneCall'
    OBVIOUS
  <2>1. \A j, k \in Slots : Table'[j] # <<>> /\ Table'[k] # <<>> => j = k
    BY <1>2 DEF CallTaken
  <2> QED
    BY <1>2, <2>1 DEF OneCall
<1>4. CallsAt(n) => CallsNext(n)
  <2> SUFFICES ASSUME CallsAt(n) PROVE CallsNext(n)
    OBVIOUS
  <2>1. Manifested[1].seq = n
    BY DEF CallsAt, OutTaken, CallTaken
  <2>2. \A k \in Slots : Table'[k] = Table[k] \/ Table'[k] = <<Manifested[1]>>
    BY DEF CallTaken
  <2> QED
    BY <2>1, <2>2 DEF CallsAt, CallsNext, OutTaken
<1>5. ASSUME CallsAt(n), Drained', ~Drained PROVE seen'["PostM"] >= n /\ (OneCall => NoCalls')
  <2>1. Manifested[1].seq = n
    BY <1>5 DEF CallsAt, OutTaken, CallTaken
  <2>2. n <= seen["PostM"] /\ Table' = Table /\ seen' = seen
    BY <1>5, <2>1 DEF CallTaken
  <2>3. seen["PostM"] \in Nat
    BY DEF Typed, TableOK
  <2> QED
    BY <1>2, <2>2, <2>3 DEF NoCalls
<1>6. seen'["PostM"] >= seen["PostM"]
  BY DEF CallTaken, Typed, TableOK
<1> QED
  BY <1>1, <1>3, <1>4, <1>5, <1>6 DEF CallsHeld

LEMMA CallsStep ==
    ASSUME Typed, Typed', KindsOK, [Next]_vars, \A d \in Drainers : ~DrainCallDrained(d)
    PROVE  \A n \in Nat : CallsHeld(n)
<1> SUFFICES ASSUME NEW n \in Nat PROVE CallsHeld(n)
  OBVIOUS
<1>1. CASE OutSame
  <2>1. OutGrown
    BY <1>1 DEF OutSame, OutGrown
  <2>2. CASE PostMFrame \/ PostMCall
    BY <2>2, OutTakes, HeldIfFrame, HeldIfCall
  <2>3. CASE Drained' => Drained
    BY <2>1, <2>3, HeldIfGrown
  <2> QED
    BY <2>2, <2>3, DrainedStep
<1>2. CASE PostMFrame \/ PostMCall
  BY <1>2, OutTakes, HeldIfFrame, HeldIfCall
<1>3. CASE DtoMMarker \/ DtoMQueue \/ Show \/ \E d \in Drainers : DrainFlush(d)
  BY <1>3, OutGrows, HeldIfGrown
<1> QED
  BY <1>1, <1>2, <1>3, EmitsStep DEF Emits

LEMMA CallAdded ==
    ASSUME Typed, NEW d \in Drainers, DrainCallDrained(d)
    PROVE  /\ NoCalls => OneCall'
           /\ \A n \in Nat : n = DrainSequenceNumber /\ CallsAt(n) => CallsNext(n)
           /\ Drained' = Drained /\ seen' = seen /\ DrainSequenceNumber' = DrainSequenceNumber
<1> DEFINE c == MakeItem("drained", 0, DrainSequenceNumber, 0)
<1>1. ring' = [ring EXCEPT !["manifested"] = Append(@, c)] /\ Table' = Table
        /\ Drained' = Drained /\ seen' = seen /\ DrainSequenceNumber' = DrainSequenceNumber
  BY DEF DrainCallDrained, Send, procs, Table
<1>2. c \in Item /\ ~IsFrame(c) /\ c.seq = DrainSequenceNumber
  <2>1. DrainSequenceNumber \in Nat
    BY NumbersTyped
  <2>2. c \in Item
    BY <2>1, MadeItem
  <2> QED
    BY <2>2 DEF MakeItem, IsFrame, Calls
<1> HIDE DEF c
<1>3. Manifested \in Seq(Item) /\ Manifested' = Append(Manifested, c)
  BY <1>1 DEF Manifested, Rings, Typed, PipeOK
<1>4. \A k \in DOMAIN Manifested' : (k \in DOMAIN Manifested /\ Manifested'[k] = Manifested[k])
                                     \/ (k = Len(Manifested) + 1 /\ Manifested'[k] = c)
  BY <1>2, <1>3, AppendParts
<1>5. NoCalls => OneCall'
  BY <1>1, <1>4 DEF NoCalls, OneCall
<1>6. \A n \in Nat : n = DrainSequenceNumber /\ CallsAt(n) => CallsNext(n)
  BY <1>1, <1>2, <1>4 DEF CallsAt, CallsNext
<1> QED
  BY <1>1, <1>5, <1>6

LEMMA NoneIsAny == NoCalls => \A n : CallsAt(n)
BY DEF NoCalls, CallsAt

-----------------------------------------------------------------------------
(* When the event can be set only by the call of the last marker *)

\* Where a drain has made its calls.
Over == {"wait"} \cup (Ended \ {"idle"})

LEMMA TurnFacts ==
    ASSUME Turns, NEW e \in Drainers
    PROVE  /\ dpc'[e] = "idle" <=> dpc[e] = "idle"
           /\ dpc[e] \in Over => dpc'[e] \in Over
           /\ dpc'[e] \notin Ended => dpc[e] \notin Ended
           /\ dpc'[e] \in Starting => dpc[e] \in Starting
           /\ dpc'[e] \in Calling => dpc[e] \in Calling \/ ~Drained'
           /\ dpc'[e] = "wait" => dpc[e] = "wait" \/ DrainCallDrained(e)
           /\ dpc[e] = "wait" => dpc'[e] = "wait" \/ Drained \/ TimeOuts
<1>1. Turn(e)
  BY DEF Turns
<1>2. (dpc'[e] = "idle" <=> dpc[e] = "idle") /\ (dpc[e] \in Over => dpc'[e] \in Over)
  BY <1>1 DEF Turn, Passes, Over, Ended
<1>3. (dpc'[e] \notin Ended => dpc[e] \notin Ended) /\ (dpc'[e] \in Starting => dpc[e] \in Starting)
  BY <1>1 DEF Turn, Passes, Ended, Starting
<1>4. dpc'[e] \in Calling => dpc[e] \in Calling \/ ~Drained'
  BY <1>1 DEF Turn, Passes, Calling
<1>5. (dpc'[e] = "wait" => dpc[e] = "wait" \/ DrainCallDrained(e)) /\ (dpc[e] = "wait" => dpc'[e] = "wait" \/ Drained \/ TimeOuts)
  BY <1>1 DEF Turn, Passes
<1> QED
  BY <1>2, <1>3, <1>4, <1>5

LEMMA Launched ==
    ASSUME OneAtATime, Typed, Launch
    PROVE  /\ \A e \in Drainers : dpc[e] \in Ended /\ ~DrainCallDrained(e) /\ ~DrainInsert(e) /\ ~DrainNumber(e)
           /\ \E d \in Drainers :
                /\ dpc'[d] \in {"rounds", "jump"}
                /\ (\E n \in NonBlocking : blocking'[d] = ~n)
                /\ \A e \in Drainers : e # d => dpc'[e] = dpc[e] /\ marker'[e] = marker[e]
           /\ drains' = drains + 1 /\ drains + 1 <= MaxDrains
           /\ Drained' = Drained /\ seen' = seen /\ DrainSequenceNumber' = DrainSequenceNumber
           /\ Collated' = Collated /\ ring' = ring /\ hold' = hold /\ codec' = codec
<1>1. PICK d \in Drainers, p \in Policies, b \in BOOLEAN : (\E n \in NonBlocking : b = ~n) /\ DrainStart(d, p, b)
  BY DEF Launch
<1>2. \A e \in Drainers : dpc[e] \in Ended
  BY <1>1 DEF DrainStart, OneAtATime
<1>3. \A e \in Drainers : ~DrainCallDrained(e) /\ ~DrainInsert(e) /\ ~DrainNumber(e)
  BY <1>2 DEF DrainCallDrained, DrainInsert, DrainNumber, Then, Ended
<1>4. dpc' = [dpc EXCEPT ![d] = IF p = "playout" THEN "rounds" ELSE "jump"]
  BY <1>1 DEF DrainStart
<1>5. dpc'[d] \in {"rounds", "jump"} /\ \A e \in Drainers : e # d => dpc'[e] = dpc[e]
  BY <1>4, Placed
<1>6. blocking'[d] = b /\ \A e \in Drainers : e # d => marker'[e] = marker[e]
  BY <1>1 DEF DrainStart, Typed, FlagsOK, PipeOK
<1>7. drains' = drains + 1 /\ drains + 1 <= MaxDrains
  BY <1>1, SizesAssumption DEF DrainStart, Typed, PipeOK
<1>8. Drained' = Drained /\ seen' = seen /\ DrainSequenceNumber' = DrainSequenceNumber
           /\ Collated' = Collated /\ ring' = ring /\ hold' = hold /\ codec' = codec
  BY <1>1 DEF DrainStart, pipe, Collated
<1> QED
  BY <1>1, <1>2, <1>3, <1>5, <1>6, <1>7, <1>8

LEMMA NumberStep ==
    ASSUME Typed, MarkInv, [Next]_vars
    PROVE  DrainSequenceNumber' = DrainSequenceNumber \/ \E d \in Drainers : DrainNumber(d)
<1>1. ASSUME NEW d \in Drainers, Acts(d), ~DrainNumber(d) PROVE DrainSequenceNumber' = DrainSequenceNumber
  BY <1>1 DEF Acts, DrainStart, DrainJump, DrainMark, DrainInsert, shared
<1> QED
  BY <1>1, StepKinds, TakenMarks DEF Quiet, Moves, Kept, Inject, InputExit, shared

LEMMA MarkedStep ==
    ASSUME Typed, MarkInv, [Next]_vars, Marked(Collated')
    PROVE  Marked(Collated) \/ \E d \in Drainers : DrainInsert(d)
<1>1. CASE Joins
  <2>1. PICK x \in Item : ~IsMarker(x) /\ Collated \in Seq(Item) /\ Collated' = Append(Collated, x)
    BY <1>1, JoinsParts
  <2> QED
    BY <2>1, MarkedAppend
<1>2. CASE CtoPTake
  BY <1>2, TakenMarks, MarkedTail
<1>3. ASSUME NEW d \in Drainers, Acts(d) PROVE Marked(Collated) \/ \E e \in Drainers : DrainInsert(e)
  <2>1. CASE DrainJump(d)
    <3>1. Joins \/ Collated' = Collated
      BY <2>1, JumpCases
    <3>2. CASE Collated' = Collated
      BY <3>2
    <3> QED
      BY <1>1, <3>1, <3>2
  <2>2. CASE ~DrainJump(d) /\ ~DrainInsert(d)
    <3>1. Collated' = Collated
      BY <1>3, <2>2 DEF Acts, DrainStart, DrainNumber, DrainMark, pipe, Collated
    <3> QED
      BY <3>1
  <2> QED
    BY <2>1, <2>2
<1> QED
  BY <1>1, <1>2, <1>3, StepKinds DEF Quiet, Moves, Kept, Joins

\* A drain that is about to call finds the tables of calls empty.
LEMMA FreshCalls ==
    ASSUME OneActive, FirstInv, CompleteInv, NEW d \in Drainers, dpc[d] \in Calling, drains <= 1 \/ Complete
    PROVE  NoCalls /\ ~Drained
<1>1. dpc[d] # "idle" /\ dpc[d] \notin Ended /\ dpc[d] \notin Over /\ dpc[d] # "wait"
  BY DEF Calling, Ended, Over
<1>2. ~Drained
  BY DEF FirstInv
<1>3. CASE drains <= 1
  <2>1. \A e \in Drainers : dpc[e] # "idle" => e = d
    BY <1>1, <1>3 DEF FirstInv
  <2>2. \A e \in Drainers : dpc[e] \notin {"wait"} \cup (Ended \ {"idle"})
    BY <1>1, <2>1 DEF Over
  <2> QED
    BY <1>2, <1>3, <2>2 DEF FirstInv
<1>4. CASE Complete
  <2>1. ASSUME NEW e \in Drainers PROVE dpc[e] # "wait"
    BY <1>1, Alone DEF Ended
  <2> QED
    BY <1>2, <1>4, <2>1 DEF CompleteInv
<1> QED
  BY <1>3, <1>4

LEMMA FirstStep ==
    ASSUME OneAtATime, Typed, Typed', OneActive, KindsOK, FirstInv, CompleteInv, [Next]_vars
    PROVE  FirstInv'
<1>0. drains \in Nat
  BY DEF Typed, PipeOK
<1>1. CASE Launch
  <2>1. PICK d \in Drainers : dpc'[d] \in {"rounds", "jump"} /\ \A e \in Drainers : e # d => dpc'[e] = dpc[e]
    BY <1>1, Launched
  <2>2. drains' = drains + 1 /\ \A e \in Drainers : dpc[e] \in Ended /\ ~DrainCallDrained(e)
    BY <1>1, Launched
  <2>3. drains' # 0 /\ (drains' <= 1 => drains = 0)
    BY <1>0, <2>2
  <2>4. drains = 0 => \A e \in Drainers : dpc[e] = "idle"
    BY DEF FirstInv
  <2>5. drains' <= 1 => \A e, f \in Drainers : dpc'[e] # "idle" /\ dpc'[f] # "idle" => e = f
    BY <2>1, <2>3, <2>4
  <2>6. drains = 0 => NoCalls
    BY <1>0, <2>4 DEF FirstInv, Ended
  <2>7. drains' <= 1 => NoCalls'
    <3>1. CallsHeld(0)
      BY <2>2, CallsStep
    <3> QED
      BY <2>3, <2>6, <3>1 DEF CallsHeld
  <2>8. \A e \in Drainers : dpc'[e] \notin Calling
    BY <2>1, <2>2 DEF Calling, Ended
  <2> QED
    BY <2>3, <2>5, <2>7, <2>8 DEF FirstInv
<1>2. CASE Turns
  <2>1. drains' = drains
    BY <1>2 DEF Turns
  <2>2. drains' = 0 => \A e \in Drainers : dpc'[e] = "idle"
    BY <1>2, <2>1, TurnFacts DEF FirstInv
  <2>3. drains' <= 1 => \A e, f \in Drainers : dpc'[e] # "idle" /\ dpc'[f] # "idle" => e = f
    BY <1>2, <2>1, TurnFacts DEF FirstInv
  <2>4. ASSUME drains' <= 1, \A e \in Drainers : dpc'[e] \notin {"wait"} \cup (Ended \ {"idle"})
        PROVE  NoCalls'
    <3>1. \A e \in Drainers : dpc'[e] \notin Over /\ dpc[e] \notin Over
      BY <1>2, <2>4, TurnFacts DEF Over
    <3>2. NoCalls
      BY <2>1, <2>4, <3>1 DEF Over, FirstInv
    <3>3. ASSUME NEW e \in Drainers, DrainCallDrained(e) PROVE FALSE
      <4>1. dpc' = [dpc EXCEPT ![e] = IF blocking[e] THEN "wait" ELSE "launched"]
        BY <3>3 DEF DrainCallDrained, Then
      <4>2. dpc'[e] = IF blocking[e] THEN "wait" ELSE "launched"
        BY <4>1, Placed
      <4> QED
        BY <3>1, <4>2 DEF Over, Ended
    <3>4. CallsHeld(0)
      BY <3>3, CallsStep
    <3> QED
      BY <3>2, <3>4 DEF CallsHeld
  <2>5. ASSUME drains' <= 1 \/ Complete, NEW d \in Drainers, dpc'[d] \in Calling PROVE ~Drained'
    <3>1. CASE ~Drained'
      BY <3>1
    <3>2. CASE dpc[d] \in Calling
      <4>1. NoCalls /\ ~Drained
        BY <2>1, <2>5, <3>2, FreshCalls
      <4>2. CASE \E e \in Drainers : DrainCallDrained(e)
        BY <4>1, <4>2, CallAdded
      <4>3. CASE \A e \in Drainers : ~DrainCallDrained(e)
        <5>1. CallsHeld(0)
          BY <4>3, CallsStep
        <5> QED
          BY <4>1, <5>1 DEF CallsHeld
      <4> QED
        BY <4>2, <4>3
    <3> QED
      BY <1>2, <2>5, <3>1, <3>2, TurnFacts
  <2> QED
    BY <2>2, <2>3, <2>4, <2>5 DEF FirstInv, Complete
<1> QED
  BY <1>1, <1>2, TurnStep

LEMMA RoundsStep ==
    ASSUME OneAtATime, Complete \/ MaxDrains <= 2, Typed, Typed', OneActive, KindsOK, MarkInv, AheadInv, LowInv',
           FirstInv, RoundsInv, CompleteInv, [Next]_vars
    PROVE  RoundsInv'
<1>0. drains \in Nat /\ MaxDrains \in Nat
  BY SizesAssumption DEF Typed, PipeOK
<1>1. SUFFICES ASSUME Complete \/ drains' <= 1 \/ \E d \in Drainers : dpc'[d] \in Starting, Marked(Collated')
               PROVE  ~Drained' /\ CallsAt(DrainSequenceNumber)'
  BY DEF RoundsInv, Complete
<1>2. ASSUME NEW d \in Drainers, DrainInsert(d) PROVE ~Drained' /\ CallsAt(DrainSequenceNumber)'
  <2>1. dpc[d] = "insert" /\ dpc' = [dpc EXCEPT ![d] = "callReset"] /\ drains' = drains
          /\ DrainSequenceNumber' = DrainSequenceNumber
    BY <1>2 DEF DrainInsert, Then, shared
  <2>2. dpc'[d] = "callReset" /\ \A e \in Drainers : e # d => dpc'[e] = dpc[e]
    BY <2>1, Placed
  <2>3. \A e \in Drainers : dpc'[e] \notin Starting
    <3>1. \A e \in Drainers : e # d => dpc[e] \in Ended
      BY <2>1, Alone DEF Ended
    <3> QED
      BY <2>2, <3>1 DEF Starting, Ended
  <2>4. NoCalls /\ ~Drained
    BY <1>1, <2>1, <2>3, FreshCalls DEF Calling
  <2>5. \A e \in Drainers : ~DrainCallDrained(e)
    <3>1. ASSUME NEW e \in Drainers, DrainCallDrained(e) PROVE FALSE
      <4>1. dpc[e] = "callDrained"
        BY <3>1 DEF DrainCallDrained, Then
      <4> QED
        BY <2>1, <4>1, Alone DEF Ended
    <3> QED
      BY <3>1
  <2>6. CallsHeld(0)
    BY <2>5, CallsStep
  <2>7. NoCalls' /\ ~Drained'
    BY <2>4, <2>6 DEF CallsHeld
  <2>8. CallsAt(DrainSequenceNumber)'
    BY <2>7 DEF NoCalls, CallsAt
  <2> QED
    BY <2>7, <2>8
<1>3. ASSUME \A d \in Drainers : ~DrainInsert(d) PROVE ~Drained' /\ CallsAt(DrainSequenceNumber)'
  <2>1. Marked(Collated)
    BY <1>1, <1>3, MarkedStep
  <2>2. Complete \/ drains <= 1 \/ \E d \in Drainers : dpc[d] \in Starting
    <3>1. CASE Launch
      <4>1. drains + 1 <= MaxDrains
        BY <3>1, Launched
      <4> QED
        BY <1>0, <4>1
    <3>2. CASE Turns
      <4>1. drains' = drains
        BY <3>2 DEF Turns
      <4> QED
        BY <1>1, <3>2, <4>1, TurnFacts
    <3> QED
      BY <3>1, <3>2, TurnStep
  <2>3. ~Drained /\ CallsAt(DrainSequenceNumber)
    BY <2>1, <2>2 DEF RoundsInv
  <2>4. ASSUME NEW d \in Drainers PROVE ~DrainNumber(d)
    <3>1. SUFFICES ASSUME DrainNumber(d) PROVE FALSE
      OBVIOUS
    <3>2. dpc[d] = "number"
      BY <3>1 DEF DrainNumber, Then
    <3> QED
      BY <2>1, <3>2 DEF MarkInv, MarkerOf
  <2>5. DrainSequenceNumber' = DrainSequenceNumber
    BY <2>4, NumberStep
  <2>6. PICK n \in Nat : n = DrainSequenceNumber
    BY NumbersTyped
  <2>7. CallsAt(n)
    BY <2>3, <2>6
  <2>8. CallsNext(n) => CallsAt(DrainSequenceNumber)'
    BY <2>5, <2>6 DEF CallsAt, CallsNext
  <2>9. CASE \E d \in Drainers : DrainCallDrained(d)
    BY <2>3, <2>6, <2>7, <2>8, <2>9, CallAdded
  <2>10. CASE \A d \in Drainers : ~DrainCallDrained(d)
    <3>1. CallsHeld(n)
      BY <2>10, CallsStep
    <3>2. CallsNext(n) /\ (Drained' => seen'["PostM"] >= n)
      BY <2>3, <2>7, <3>1 DEF CallsHeld
    <3>3. ASSUME Drained' PROVE FALSE
      <4>1. PICK k \in DOMAIN Collated : IsMarker(Collated[k])
        BY <2>1 DEF Marked
      <4>2. NextBufferSequenceNumber + k <= n
        BY <2>6, <4>1 DEF AheadInv
      <4>3. k \in Nat /\ k > 0 /\ NextBufferSequenceNumber \in Nat /\ seen'["PostM"] \in Nat
        <5>1. Collated \in Seq(Item)
          BY NumbersTyped
        <5> QED
          BY <5>1, NumbersTyped DEF Typed, TableOK
      <4>4. seen'["PostM"] = 0 \/ seen'["PostM"] < NextBufferSequenceNumber'
        BY DEF LowInv, LowBound
      <4>5. NextBufferSequenceNumber' = NextBufferSequenceNumber
        <5>1. PostMFrame \/ PostMCall
          BY <2>3, <3>3, DrainedStep
        <5> QED
          BY <5>1 DEF PostMFrame, PostMCall
      <4> QED
        BY <3>2, <3>3, <4>2, <4>3, <4>4, <4>5
    <3> QED
      BY <2>8, <3>2, <3>3
  <2> QED
    BY <2>9, <2>10
<1> QED
  BY <1>2, <1>3

LEMMA CompleteStep ==
    ASSUME OneAtATime, Typed, Typed', OneActive, KindsOK, MarkInv, FirstInv, CompleteInv, [Next]_vars
    PROVE  CompleteInv'
<1>0. CASE ~Complete
  BY <1>0 DEF CompleteInv, Complete
<1>1. SUFFICES ASSUME Complete
               PROVE  /\ \A d \in Drainers : dpc'[d] \notin Ended => blocking'[d]
                      /\ OneCall'
                      /\ NoCalls' \/ (~Drained' /\ CallsAt(DrainSequenceNumber)' /\ \E d \in Drainers : dpc'[d] = "wait")
                      /\ \A d \in Drainers : dpc'[d] = "wait" /\ Drained' => seen'["PostM"] >= DrainSequenceNumber'
  BY <1>0 DEF CompleteInv
<1>2. /\ \A d \in Drainers : dpc[d] \notin Ended => blocking[d]
      /\ OneCall
      /\ NoCalls \/ (~Drained /\ CallsAt(DrainSequenceNumber) /\ \E d \in Drainers : dpc[d] = "wait")
      /\ \A d \in Drainers : dpc[d] = "wait" /\ Drained => seen["PostM"] >= DrainSequenceNumber
  BY <1>1 DEF CompleteInv
<1>3. NonBlocking = {FALSE} /\ ~TimeOuts
  BY <1>1 DEF Complete
<1>4. DrainSequenceNumber \in Nat /\ seen["PostM"] \in Nat /\ seen'["PostM"] \in Nat
  BY NumbersTyped DEF Typed, TableOK
<1>5. \A d \in Drainers : dpc'[d] \notin Ended => blocking'[d]
  <2>1. CASE Launch
    <3>1. PICK d \in Drainers : (\E n \in NonBlocking : blocking'[d] = ~n) /\ \A e \in Drainers : e # d => dpc'[e] = dpc[e]
      BY <2>1, Launched
    <3>2. \A e \in Drainers : dpc[e] \in Ended
      BY <2>1, Launched
    <3> QED
      BY <1>3, <3>1, <3>2
  <2>2. CASE Turns
    <3>1. blocking' = blocking
      BY <2>2 DEF Turns
    <3> QED
      BY <1>2, <2>2, <3>1, TurnFacts
  <2> QED
    BY <2>1, <2>2, TurnStep
<1>6. ASSUME NEW d \in Drainers, DrainCallDrained(d)
      PROVE  /\ OneCall'
             /\ ~Drained' /\ CallsAt(DrainSequenceNumber)' /\ dpc'[d] = "wait"
  <2>1. dpc[d] = "callDrained" /\ dpc' = [dpc EXCEPT ![d] = IF blocking[d] THEN "wait" ELSE "launched"]
    BY <1>6 DEF DrainCallDrained, Then
  <2>2. dpc'[d] = "wait"
    BY <1>2, <2>1, Placed DEF Ended
  <2>3. NoCalls /\ ~Drained
    BY <1>1, <2>1, FreshCalls DEF Calling
  <2>4. CallsAt(DrainSequenceNumber)
    BY <2>3, NoneIsAny
  <2>5. PICK n \in Nat : n = DrainSequenceNumber
    BY <1>4
  <2>6. CallsNext(n) /\ OneCall' /\ Drained' = Drained /\ DrainSequenceNumber' = DrainSequenceNumber
    BY <1>6, <2>3, <2>4, <2>5, CallAdded
  <2>7. CallsAt(DrainSequenceNumber)'
    BY <2>5, <2>6 DEF CallsAt, CallsNext
  <2> QED
    BY <2>2, <2>3, <2>6, <2>7
<1>7. CASE \E d \in Drainers : DrainCallDrained(d)
  BY <1>5, <1>6, <1>7
<1>8. CASE \A d \in Drainers : ~DrainCallDrained(d)
  <2>1. PICK n \in Nat : n = DrainSequenceNumber
    BY <1>4
  <2>2. CallsHeld(n)
    BY <1>8, CallsStep
  <2>3. OneCall'
    BY <1>2, <2>2 DEF CallsHeld
  <2>4. ASSUME NEW d \in Drainers, dpc[d] = "wait" PROVE DrainSequenceNumber' = DrainSequenceNumber
    <3>1. \A e \in Drainers : ~DrainNumber(e)
      <4>1. ASSUME NEW e \in Drainers, DrainNumber(e) PROVE FALSE
        <5>1. dpc[e] = "number"
          BY <4>1 DEF DrainNumber, Then
        <5> QED
          BY <2>4, <5>1, Alone DEF Ended
      <4> QED
        BY <4>1
    <3> QED
      BY <3>1, NumberStep
  <2>5. NoCalls' \/ (~Drained' /\ CallsAt(DrainSequenceNumber)' /\ \E d \in Drainers : dpc'[d] = "wait")
    <3>1. CASE NoCalls
      BY <2>2, <3>1 DEF CallsHeld
    <3>2. CASE ~NoCalls
      <4>1. ~Drained /\ CallsAt(n)
        BY <1>2, <2>1, <3>2
      <4>2. PICK d \in Drainers : dpc[d] = "wait"
        BY <1>2, <3>2
      <4>3. DrainSequenceNumber' = DrainSequenceNumber /\ CallsNext(n)
        BY <2>2, <2>4, <4>1, <4>2 DEF CallsHeld
      <4>4. CallsAt(DrainSequenceNumber)'
        BY <2>1, <4>3 DEF CallsAt, CallsNext
      <4>5. dpc'[d] = "wait"
        <5>1. CASE Turns
          BY <1>3, <4>1, <4>2, <5>1, TurnFacts
        <5>2. CASE Launch
          <6>1. dpc[d] \in Ended
            BY <5>2, Launched
          <6> QED
            BY <4>2, <6>1 DEF Ended
        <5> QED
          BY <5>1, <5>2, TurnStep
      <4>6. Drained' => NoCalls'
        BY <1>2, <2>2, <4>1 DEF CallsHeld
      <4> QED
        BY <4>4, <4>5, <4>6
    <3> QED
      BY <3>1, <3>2
  <2>6. ASSUME NEW d \in Drainers, dpc'[d] = "wait", Drained' PROVE seen'["PostM"] >= DrainSequenceNumber'
    <3>1. dpc[d] = "wait"
      <4>1. CASE Turns
        BY <1>8, <2>6, <4>1, TurnFacts
      <4>2. CASE Launch
        <5>1. PICK e \in Drainers : dpc'[e] \in {"rounds", "jump"} /\ \A f \in Drainers : f # e => dpc'[f] = dpc[f]
          BY <4>2, Launched
        <5> QED
          BY <2>6, <5>1
      <4> QED
        BY <4>1, <4>2, TurnStep
    <3>2. DrainSequenceNumber' = n
      BY <2>1, <2>4, <3>1
    <3>3. CASE Drained
      BY <1>2, <1>4, <2>1, <2>2, <3>1, <3>2, <3>3 DEF CallsHeld
    <3>4. CASE ~Drained
      <4>1. CallsAt(n)
        BY <1>2, <2>1, <2>2, <2>6, <3>4 DEF CallsHeld
      <4> QED
        BY <2>2, <2>6, <3>2, <3>4, <4>1 DEF CallsHeld
    <3> QED
      BY <3>3, <3>4
  <2> QED
    BY <1>5, <2>3, <2>5, <2>6
<1> QED
  BY <1>5, <1>7, <1>8, <1>6

-----------------------------------------------------------------------------
(* Markers stay on the line until the last process takes them *)

Stays(p)   == Marked(Line[p]) => Marked(Line'[p])
StayIn(S)  == \A p \in Places : p \in S => Stays(p)
\* A marker keeps its place, but may go on from place x to the one before.
MovesOn(x) == \A p \in Places : Stays(p) \/ (p = x /\ Marked(Line'[x - 1]))
\* Where a step may leave the markers that are on their way.
MarkersMove ==
    \/ StayIn(Places)
    \/ \E x \in {3, 4, 6} : MovesOn(x)
    \/ MovesOn(7) /\ (discarding'["CtoP"] => Stays(7))
    \/ MovesOn(5) /\ (discarding'["PtoD"] => Stays(5))
    \/ pc'["DtoM"] = "clear" /\ Marked(Manifested') /\ StayIn(Places \ {2})
    \/ discarding["PtoD"] /\ StayIn(Places \ {4})

LEMMA NoneMarked == ~Marked(<<>>)
BY DEF Marked

LEMMA OthersStay ==
    ASSUME NEW S, Others(S), NEW p \in Places, p \notin S
    PROVE  Stays(p)
BY DEF Others, Stays

LEMMA HandsOn ==
    ASSUME NEW x \in 2 .. 7, x \in Places, x - 1 \in Places, Line[x] \in Seq(Item), Line[x] # <<>>,
           Line'[x] = Tail(Line[x]),
           Line[x - 1] \in Seq(Item), NEW y \in Item, IsMarker(Head(Line[x])) => IsMarker(y),
           Line'[x - 1] = Append(Line[x - 1], y), Others({x - 1, x})
    PROVE  MovesOn(x) /\ (IsMarker(Head(Line[x])) \/ StayIn(Places))
<1>1. \A p \in Places : p # x /\ p # x - 1 => Stays(p)
  BY OthersStay
<1>2. /\ Marked(Line'[x - 1]) <=> Marked(Line[x - 1]) \/ IsMarker(y)
      /\ Marked(Line[x]) <=> Marked(Line'[x]) \/ IsMarker(Head(Line[x]))
  <2> HIDE DEF Line
  <2>1. Marked(Append(Line[x - 1], y)) <=> Marked(Line[x - 1]) \/ IsMarker(y)
    BY MarkedAppend
  <2>2. Marked(Line[x]) <=> Marked(Tail(Line[x])) \/ IsMarker(Head(Line[x]))
    BY MarkedTail
  <2> QED
    BY <2>1, <2>2
<1>3. Stays(x - 1) /\ (Stays(x) \/ (Marked(Line'[x - 1]) /\ IsMarker(Head(Line[x]))))
  BY <1>2 DEF Stays
<1> QED
  BY <1>1, <1>3 DEF MovesOn, StayIn

LEMMA DropsOff ==
    ASSUME NEW x \in Places, Line[x] \in Seq(Item), Line[x] # <<>>, Line'[x] = Tail(Line[x]),
           Others({x})
    PROVE  StayIn(Places \ {x}) /\ (IsMarker(Head(Line[x])) \/ StayIn(Places))
<1>1. \A p \in Places : p # x => Stays(p)
  BY OthersStay
<1>2. Marked(Line[x]) <=> Marked(Line'[x]) \/ IsMarker(Head(Line[x]))
  <2> HIDE DEF Line
  <2>1. Marked(Line[x]) <=> Marked(Tail(Line[x])) \/ IsMarker(Head(Line[x]))
    BY MarkedTail
  <2> QED
    BY <2>1
<1> QED
  BY <1>1, <1>2 DEF Stays, StayIn

LEMMA Grows ==
    ASSUME NEW x \in Places, Line[x] \in Seq(Item), NEW y \in Item, Line'[x] = Append(Line[x], y),
           Others({x})
    PROVE  StayIn(Places) /\ (IsMarker(y) => Marked(Line'[x]))
<1>1. \A p \in Places : p # x => Stays(p)
  BY OthersStay
<1>2. Marked(Line'[x]) <=> Marked(Line[x]) \/ IsMarker(y)
  <2> HIDE DEF Line
  <2>1. Marked(Append(Line[x], y)) <=> Marked(Line[x]) \/ IsMarker(y)
    BY MarkedAppend
  <2> QED
    BY <2>1
<1> QED
  BY <1>1, <1>2 DEF Stays, StayIn

LEMMA AllStay == ASSUME Line' = Line PROVE StayIn(Places)
BY DEF StayIn, Stays

LEMMA KindOfHead ==
    ASSUME NEW s \in Seq(Item), s # <<>>, NEW K, OfKinds(s, K)
    PROVE  Head(s).kind \in K /\ Head(s) \in Item /\ Head(s) = s[1]
BY KindsTail

LEMMA LineParts ==
    ASSUME Typed
    PROVE  \A p \in Places : Line[p] \in Seq(Item)
BY LineTyped DEF Typed, LineOf


LEMMA ParseMarkers == ASSUME Typed, Typed', KindsOK, CtoPParse PROVE MarkersMove
<1>1. PipeOK /\ HandOK /\ 5 \in Places /\ 6 \in Places
  BY DEF Typed, Places
<1>2. pc["CtoP"] = "parse" /\ hold' = [hold EXCEPT !["CtoP"] = <<>>] /\ codec' = codec
  BY DEF CtoPParse, Goto, Gives
<1>3. hold["CtoP"] # <<>> /\ Tail(hold["CtoP"]) = <<>> /\ hold["CtoP"][1] = InHand("CtoP") /\ InHand("CtoP") \in Item
        /\ hold["CtoP"] \in Seq(Item) /\ Head(hold["CtoP"]) = InHand("CtoP")
  BY <1>1, <1>2, HeldTail, SMTT(30) DEF Holds, PipeOK
<1>4. hold'["CtoP"] = <<>> /\ hold'["PtoD"] = hold["PtoD"] /\ hold'["DtoM"] = hold["DtoM"]
  BY <1>1, <1>2 DEF PipeOK, Holds
<1>5. /\ Line[6] # <<>> /\ Line'[6] = Tail(Line[6]) /\ Head(Line[6]) = InHand("CtoP")
      /\ Line[6] \in Seq(Item) /\ Line[5] \in Seq(Item)
  BY <1>1, <1>3, <1>4, LineParts, LinePlaces, LinePlacesNext
<1>6. CASE Send("parsed", InHand("CtoP"))
  <2>1. ring'["parsed"] = Append(ring["parsed"], InHand("CtoP")) /\ ring'["collated"] = ring["collated"]
          /\ ring'["decoded"] = ring["decoded"]
    BY <1>1, <1>6 DEF Send, PipeOK, Rings
  <2>2. Others({6 - 1, 6})
    BY <1>2, <1>4, <2>1, PlaceCases, LinePlaces, LinePlacesNext DEF Others
  <2>3. Line'[6 - 1] = Append(Line[6 - 1], InHand("CtoP")) /\ 6 - 1 \in Places /\ Line[6 - 1] \in Seq(Item)
    BY <1>1, <1>5, <2>1, LinePlaces, LinePlacesNext
  <2>4. MovesOn(6)
    BY <1>1, <1>3, <1>5, <2>2, <2>3, HandsOn
  <2> QED
    BY <2>4 DEF MarkersMove
<1>7. CASE UNCHANGED ring /\ InHand("CtoP").kind \in {"jump", "data"}
  <2>1. Others({6})
    BY <1>2, <1>4, <1>7, PlaceCases, LinePlaces, LinePlacesNext DEF Others
  <2>2. StayIn(Places)
    BY <1>1, <1>5, <1>7, <2>1, DropsOff DEF IsMarker
  <2> QED
    BY <2>2 DEF MarkersMove
<1> QED
  BY <1>6, <1>7 DEF CtoPParse

LEMMA NumberMarkers == ASSUME Typed, Typed', KindsOK, MarkInv, CtoPTake PROVE MarkersMove
<1> DEFINE i == Head(ring["collated"])
           found == Recognised(i)
<1>1. PipeOK /\ HandOK /\ 6 \in Places /\ 7 \in Places /\ 7 - 1 = 6
  BY DEF Typed, Places
<1>2. /\ pc["CtoP"] = "take" /\ ring["collated"] # <<>> /\ ring["collated"] \in Seq(Item) /\ codec' = codec
      /\ ring' = [ring EXCEPT !["collated"] = Tail(@)]
      /\ discarding' = [discarding EXCEPT !["CtoP"] = @ /\ ~found]
  BY <1>1 DEF CtoPTake, Receive, PipeOK, Rings
<1>3. i \in Item /\ (found <=> IsMarker(i)) /\ Numbered(i) \in Item
  <2>1. i \in Item
    BY <1>2, TailParts
  <2> QED
    BY <1>1, <2>1, TakenMarks, NumberedTyped DEF Collated
<1>4. discarding'["CtoP"] => ~IsMarker(i)
  <2>1. discarding \in [Stages -> BOOLEAN] /\ "CtoP" \in Stages
    BY DEF Typed, PipeOK, FlagsOK, Stages, Holds
  <2> QED
    BY <1>2, <1>3, <2>1
<1>5. /\ ring'["collated"] = Tail(ring["collated"]) /\ ring'["parsed"] = ring["parsed"]
      /\ ring'["decoded"] = ring["decoded"]
  BY <1>1, <1>2 DEF PipeOK, Rings
<1>6. hold["CtoP"] = <<>>
  BY <1>1, <1>2, HeldNone DEF Holds
<1>7. /\ Line[7] # <<>> /\ Line'[7] = Tail(Line[7]) /\ Head(Line[7]) = i
      /\ Line[6] \in Seq(Item) /\ Line[7] \in Seq(Item) /\ Line[6] = <<>>
  BY <1>1, <1>2, <1>5, <1>6, LineParts, LinePlaces, LinePlacesNext
<1>8. CASE Takes("CtoP", Numbered(i))
  <2>1. hold'["CtoP"] = <<Numbered(i)>> /\ hold'["PtoD"] = hold["PtoD"] /\ hold'["DtoM"] = hold["DtoM"]
    BY <1>1, <1>8 DEF Takes, PipeOK, Holds
  <2>2. <<Numbered(i)>> = Append(<<>>, Numbered(i))
    BY <1>3
  <2>3. IsMarker(i) => IsMarker(Numbered(i))
    BY <1>3 DEF Numbered
  <2> HIDE DEF i
  <2>4. Others({7 - 1, 7})
    BY <1>2, <1>5, <2>1, PlaceCases, LinePlaces, LinePlacesNext DEF Others
  <2>5. Line'[7 - 1] = Append(Line[7 - 1], Numbered(i)) /\ Line[7 - 1] \in Seq(Item) /\ 7 - 1 \in Places
    BY <1>1, <1>7, <2>1, <2>2, LinePlaces, LinePlacesNext
  <2>6. IsMarker(Head(Line[7])) => IsMarker(Numbered(i))
    BY <1>7, <2>3
  <2>7. MovesOn(7) /\ (IsMarker(Head(Line[7])) \/ StayIn(Places))
    BY <1>1, <1>3, <1>7, <2>4, <2>5, <2>6, HandsOn
  <2> QED
    BY <1>1, <1>4, <1>7, <2>7 DEF MarkersMove, StayIn
<1>9. CASE UNCHANGED <<pc, hold>> /\ i.kind = "data"
  <2> HIDE DEF i
  <2>1. Others({7})
    BY <1>2, <1>5, <1>9, PlaceCases, LinePlaces, LinePlacesNext DEF Others
  <2>2. StayIn(Places)
    BY <1>1, <1>7, <1>9, <2>1, DropsOff DEF IsMarker
  <2> QED
    BY <2>2 DEF MarkersMove
<1> QED
  BY <1>8, <1>9 DEF CtoPTake

LEMMA DecodeTakesMarkers == ASSUME Typed, Typed', KindsOK, PtoDTake PROVE MarkersMove
<1> DEFINE i == Head(ring["parsed"])
<1>1. PipeOK /\ HandOK /\ 4 \in Places /\ 5 \in Places /\ 5 - 1 = 4
  BY DEF Typed, Places
<1>2. pc["PtoD"] = "take" /\ hold' = [hold EXCEPT !["PtoD"] = <<i>>] /\ codec' = codec
        /\ ring["parsed"] # <<>> /\ ring["parsed"] \in Seq(Item) /\ ring' = [ring EXCEPT !["parsed"] = Tail(@)]
        /\ discarding' = [discarding EXCEPT !["PtoD"] = @ /\ i.kind # "marker"]
  BY <1>1 DEF PtoDTake, Goto, Takes, Receive, ClearAtMarker, PipeOK, Rings
<1>3. i \in Item
  BY <1>2, TailParts
<1>4. discarding'["PtoD"] => ~IsMarker(i)
  <2>1. discarding \in [Stages -> BOOLEAN] /\ "PtoD" \in Stages
    BY DEF Typed, PipeOK, FlagsOK, Stages, Holds
  <2> QED
    BY <1>2, <2>1 DEF IsMarker
<1>5. hold["PtoD"] = <<>>
  BY <1>1, <1>2, HeldNone DEF Holds
<1>6. hold'["PtoD"] = <<i>> /\ hold'["CtoP"] = hold["CtoP"] /\ hold'["DtoM"] = hold["DtoM"]
        /\ ring'["parsed"] = Tail(ring["parsed"]) /\ ring'["collated"] = ring["collated"]
        /\ ring'["decoded"] = ring["decoded"]
  BY <1>1, <1>2 DEF PipeOK, Holds, Rings
<1>7. <<i>> = Append(<<>>, i)
  BY <1>3
<1>8. /\ Line[5] # <<>> /\ Line'[5] = Tail(Line[5]) /\ Head(Line[5]) = i
      /\ Line[5] \in Seq(Item) /\ Line[4] \in Seq(Item) /\ Line[4] = <<>>
  BY <1>1, <1>2, <1>5, <1>6, LineParts, LinePlaces, LinePlacesNext
<1> HIDE DEF i
<1>9. Others({5 - 1, 5})
  BY <1>2, <1>6, PlaceCases, LinePlaces, LinePlacesNext DEF Others
<1>10. Line'[5 - 1] = Append(Line[5 - 1], i) /\ Line[5 - 1] \in Seq(Item) /\ 5 - 1 \in Places
  BY <1>1, <1>6, <1>7, <1>8, LinePlaces, LinePlacesNext
<1>11. MovesOn(5) /\ (IsMarker(Head(Line[5])) \/ StayIn(Places))
  BY <1>1, <1>3, <1>8, <1>9, <1>10, HandsOn
<1> QED
  BY <1>1, <1>4, <1>8, <1>11 DEF MarkersMove, StayIn

LEMMA WindowMarkers == ASSUME Typed, Typed', KindsOK, PtoDCheck \/ PtoDWindow PROVE MarkersMove
<1>1. PipeOK /\ HandOK /\ 4 \in Places
  BY DEF Typed, Places
<1>2. codec' = codec /\ ring' = ring
  BY DEF PtoDCheck, PtoDWindow, pipe
<1>3. ASSUME NEW from \in {"check", "window"}, PtoDDiscard(from)
      PROVE  StayIn(Places \ {4}) /\ (IsMarker(InHand("PtoD")) \/ StayIn(Places)) /\ pc["PtoD"] = from
  <2>1. pc["PtoD"] = from /\ hold' = [hold EXCEPT !["PtoD"] = <<>>]
    BY <1>3 DEF PtoDDiscard, Goto, Gives
  <2>2. hold["PtoD"] # <<>> /\ Tail(hold["PtoD"]) = <<>> /\ hold["PtoD"][1] = InHand("PtoD") /\ InHand("PtoD") \in Item
          /\ hold["PtoD"] \in Seq(Item) /\ Head(hold["PtoD"]) = InHand("PtoD")
    BY <1>1, <2>1, HeldTail DEF Holds, PipeOK
  <2>3. hold'["PtoD"] = <<>> /\ hold'["CtoP"] = hold["CtoP"] /\ hold'["DtoM"] = hold["DtoM"]
    BY <1>1, <2>1 DEF PipeOK, Holds
  <2>4. Others({4})
    BY <1>2, <2>3, PlaceCases, LinePlaces, LinePlacesNext DEF Others
  <2>5. /\ Line[4] # <<>> /\ Line'[4] = Tail(Line[4]) /\ Head(Line[4]) = InHand("PtoD")
        /\ Line[4] \in Seq(Item)
    BY <1>1, <2>2, <2>3, LineParts, LinePlaces, LinePlacesNext
  <2> QED
    BY <1>1, <2>1, <2>4, <2>5, DropsOff
<1>4. CASE PtoDCheck /\ PtoDDiscard("check")
  <2>1. discarding["PtoD"]
    BY <1>4, InHandTyped DEF PtoDCheck, PtoDDiscard, Goto, Typed, HandOK, Pcs, Holds
  <2>2. StayIn(Places \ {4})
    BY <1>3, <1>4
  <2> QED
    BY <2>1, <2>2 DEF MarkersMove
<1>5. CASE PtoDWindow /\ PtoDDiscard("window")
  <2>1. StayIn(Places) \/ IsMarker(InHand("PtoD"))
    BY <1>3, <1>5
  <2>2. InHand("PtoD").kind \in {"data"}
    <3>1. pc["PtoD"] = "window"
      BY <1>5 DEF PtoDDiscard, Goto
    <3>2. OfKinds(hold["PtoD"], {"data"})
      BY <3>1 DEF KindsOK
    <3> QED
      BY <3>1, <3>2, HeldKind DEF Holds
  <2> QED
    BY <2>1, <2>2 DEF MarkersMove, IsMarker
<1>6. CASE hold' = hold
  <2>1. Others({})
    BY <1>2, <1>6, PlaceCases, LinePlaces, LinePlacesNext DEF Others
  <2>2. Line' = Line
    BY <2>1, LineStays DEF Typed
  <2> QED
    BY <2>2, AllStay DEF MarkersMove
<1> QED
  BY <1>4, <1>5, <1>6 DEF PtoDCheck, PtoDWindow

LEMMA CodecTakesMarkers == ASSUME Typed, Typed', KindsOK, PtoDDecode PROVE MarkersMove
<1> DEFINE i == InHand("PtoD")
<1>1. PipeOK /\ HandOK /\ 3 \in Places /\ 4 \in Places /\ 4 - 1 = 3 /\ codec \in Seq(Item)
  BY DEF Typed, Places, PipeOK
<1>2. pc["PtoD"] = "decode" /\ hold' = [hold EXCEPT !["PtoD"] = <<>>] /\ ring' = ring
  BY DEF PtoDDecode, Goto, Gives
<1>3. hold["PtoD"] # <<>> /\ Tail(hold["PtoD"]) = <<>> /\ hold["PtoD"][1] = i /\ i \in Item
        /\ hold["PtoD"] \in Seq(Item) /\ Head(hold["PtoD"]) = i
  <2>1. "PtoD" \in Holds /\ pc["PtoD"] \notin {"take", "clear"}
    BY <1>2 DEF Holds
  <2>2. hold["PtoD"] \in Seq(Item)
    BY <1>1, <2>1 DEF PipeOK
  <2> QED
    BY <1>1, <2>1, <2>2, HeldTail
<1>4. hold'["PtoD"] = <<>> /\ hold'["CtoP"] = hold["CtoP"] /\ hold'["DtoM"] = hold["DtoM"]
  BY <1>1, <1>2 DEF PipeOK, Holds
<1>5. Others({4 - 1, 4})
  BY <1>2, <1>4, PlaceCases, LinePlaces, LinePlacesNext DEF Others
<1>6. /\ Line[4] # <<>> /\ Line'[4] = Tail(Line[4]) /\ Head(Line[4]) = i
      /\ Line[4] \in Seq(Item) /\ Line[4 - 1] = codec /\ Line'[4 - 1] = codec'
  BY <1>1, <1>3, <1>4, LineParts, LinePlaces, LinePlacesNext
<1>7. i.kind \in {"data", "marker"}
  <2>1. OfKinds(hold["PtoD"], {"data", "marker"})
    BY DEF KindsOK
  <2> QED
    BY <1>2, <2>1, HeldKind DEF Holds
<1> HIDE DEF i
<1>8. CASE codec' = Append(codec, i)
  <2>1. Line'[4 - 1] = Append(Line[4 - 1], i) /\ Line[4 - 1] \in Seq(Item) /\ 4 - 1 \in Places
    BY <1>1, <1>6, <1>8
  <2>2. IsMarker(Head(Line[4])) => IsMarker(i)
    BY <1>6
  <2>3. MovesOn(4)
    BY <1>1, <1>3, <1>5, <1>6, <2>1, <2>2, HandsOn
  <2> QED
    BY <2>3 DEF MarkersMove
<1>9. CASE i.kind # "data" /\ \E k \in Waiting : codec' = Append(Without(codec, k), i)
  <2>1. PICK k \in DOMAIN codec : codec' = Append(Without(codec, k), i)
    BY <1>9 DEF Waiting
  <2>2. Without(codec, k) \in Seq(Item)
    BY <1>1, WithoutSeq
  <2>3. IsMarker(i)
    BY <1>7, <1>9 DEF IsMarker
  <2>4. Marked(codec')
    BY <1>3, <2>1, <2>2, <2>3, MarkedAppend
  <2>5. \A p \in Places : p # 4 /\ p # 4 - 1 => Stays(p)
    BY <1>5, OthersStay
  <2>6. Stays(4 - 1) /\ (Stays(4) \/ Marked(Line'[4 - 1]))
    BY <1>6, <2>4 DEF Stays
  <2>7. MovesOn(4)
    BY <2>5, <2>6 DEF MovesOn
  <2> QED
    BY <2>7 DEF MarkersMove
<1> QED
  BY <1>8, <1>9 DEF PtoDDecode, i

LEMMA CodecMarkers == ASSUME Typed, Typed', KindsOK, DecodeCompletes \/ MarkerPassesOn PROVE MarkersMove
<1>1. PipeOK /\ 3 \in Places /\ 2 \in Places /\ 3 - 1 = 2 /\ codec \in Seq(Item)
  BY DEF Typed, PipeOK, Places
<1>2. codec # <<>> /\ codec' = Tail(codec) /\ hold' = hold
  BY DEF DecodeCompletes, MarkerPassesOn, procs
<1>3. Head(codec) \in Item
  BY <1>1, <1>2, TailParts
<1>4. /\ Line[3] # <<>> /\ Line'[3] = Tail(Line[3]) /\ Head(Line[3]) = Head(codec)
      /\ Line[3] \in Seq(Item) /\ Line[2] \in Seq(Item)
  BY <1>1, <1>2, LineParts, LinePlaces, LinePlacesNext
<1>5. CASE Send("decoded", Head(codec))
  <2>1. ring'["decoded"] = Append(ring["decoded"], Head(codec)) /\ ring'["collated"] = ring["collated"]
          /\ ring'["parsed"] = ring["parsed"]
    BY <1>1, <1>5 DEF Send, PipeOK, Rings
  <2>2. Others({3 - 1, 3})
    <3>1. Others({2, 3})
      BY <1>2, <2>1, PlaceCases, LinePlaces, LinePlacesNext DEF Others
    <3> QED
      BY <1>1, <3>1
  <2>3. Line'[3 - 1] = Append(Line[3 - 1], Head(codec)) /\ Line[3 - 1] \in Seq(Item) /\ 3 - 1 \in Places
    BY <1>1, <1>4, <2>1, LinePlaces, LinePlacesNext
  <2>4. MovesOn(3)
    BY <1>1, <1>3, <1>4, <2>2, <2>3, HandsOn
  <2> QED
    BY <2>4 DEF MarkersMove
<1>6. CASE DecodeCompletes /\ UNCHANGED ring
  <2>1. Others({3})
    BY <1>2, <1>6, PlaceCases, LinePlaces, LinePlacesNext DEF Others
  <2>2. ~IsMarker(Head(Line[3]))
    BY <1>4, <1>6 DEF DecodeCompletes, IsMarker
  <2>3. StayIn(Places)
    BY <1>1, <1>4, <2>1, <2>2, DropsOff
  <2> QED
    BY <2>3 DEF MarkersMove
<1> QED
  BY <1>5, <1>6 DEF DecodeCompletes, MarkerPassesOn

LEMMA ManifestTakesMarkers == ASSUME Typed, Typed', KindsOK, DtoMMarker PROVE MarkersMove
<1> DEFINE i == Head(ring["decoded"])
<1>1. PipeOK /\ 2 \in Places /\ ring["decoded"] \in Seq(Item) /\ ring["manifested"] \in Seq(Item)
  <2>1. PipeOK
    BY DEF Typed
  <2>2. ring["decoded"] \in Seq(Item) /\ ring["manifested"] \in Seq(Item)
    BY <2>1 DEF PipeOK, Rings
  <2> QED
    BY <2>1, <2>2 DEF Places
<1>2. ring["decoded"] # <<>> /\ codec' = codec /\ hold' = hold /\ i.kind = "marker"
        /\ ring'["decoded"] = Tail(ring["decoded"]) /\ ring'["collated"] = ring["collated"]
        /\ ring'["parsed"] = ring["parsed"] /\ ring'["manifested"] = Append(ring["manifested"], i)
  BY <1>1 DEF DtoMMarker, Pass, PipeOK, Rings
<1>3. i \in Item /\ IsMarker(i)
  BY <1>1, <1>2, TailParts DEF IsMarker
<1> HIDE DEF i
<1>4. Marked(Manifested')
  BY <1>1, <1>2, <1>3, MarkedAppend DEF Manifested
<1>5. Others({2})
  BY <1>2, PlaceCases, LinePlaces, LinePlacesNext DEF Others
<1>6. Line[2] # <<>> /\ Line'[2] = Tail(Line[2]) /\ Line[2] \in Seq(Item)
  BY <1>1, <1>2, LinePlaces, LinePlacesNext
<1>7. StayIn(Places \ {2})
  BY <1>1, <1>5, <1>6, DropsOff
<1>8. pc'["DtoM"] = "clear"
  BY DEF DtoMMarker, Goto, Typed, HandOK, Pcs, Holds
<1> QED
  BY <1>4, <1>7, <1>8 DEF MarkersMove

LEMMA ManifestMarkers ==
    ASSUME Typed, Typed', KindsOK, DtoMTake \/ DtoMCall \/ DtoMDrop \/ DtoMQueue
    PROVE  MarkersMove
<1>1. PipeOK /\ HandOK /\ 1 \in Places /\ 2 \in Places /\ 2 - 1 = 1 /\ ring["decoded"] \in Seq(Item)
  <2>1. PipeOK /\ HandOK
    BY DEF Typed
  <2>2. ring["decoded"] \in Seq(Item)
    BY <2>1 DEF PipeOK, Rings
  <2> QED
    BY <2>1, <2>2 DEF Places
<1>2. CASE DtoMTake
  <2> DEFINE i == Head(ring["decoded"])
  <2>1. pc["DtoM"] = "take" /\ hold' = [hold EXCEPT !["DtoM"] = <<i>>] /\ codec' = codec /\ ~IsMarker(i)
          /\ ring["decoded"] # <<>> /\ ring' = [ring EXCEPT !["decoded"] = Tail(@)]
    BY <1>2 DEF DtoMTake, Goto, Takes, Receive, IsMarker
  <2>2. i \in Item
    BY <1>1, <2>1, TailParts
  <2>3. hold["DtoM"] = <<>>
    BY <1>1, <2>1, HeldNone DEF Holds
  <2>4. hold'["DtoM"] = <<i>> /\ hold'["CtoP"] = hold["CtoP"] /\ hold'["PtoD"] = hold["PtoD"]
          /\ ring'["decoded"] = Tail(ring["decoded"]) /\ ring'["collated"] = ring["collated"]
          /\ ring'["parsed"] = ring["parsed"]
    BY <1>1, <2>1 DEF PipeOK, Holds, Rings
  <2>5. <<i>> = Append(<<>>, i)
    BY <2>2
  <2>6. /\ Line[2] # <<>> /\ Line'[2] = Tail(Line[2]) /\ Head(Line[2]) = i
        /\ Line[1] \in Seq(Item) /\ Line[2] \in Seq(Item) /\ Line[1] = <<>>
    BY <1>1, <2>1, <2>3, <2>4, LineParts, LinePlaces, LinePlacesNext
  <2> HIDE DEF i
  <2>7. Others({2 - 1, 2})
    <3>1. Others({1, 2})
      BY <2>1, <2>4, PlaceCases, LinePlaces, LinePlacesNext DEF Others
    <3> QED
      BY <1>1, <3>1
  <2>8. Line'[2 - 1] = Append(Line[2 - 1], i) /\ Line[2 - 1] \in Seq(Item) /\ 2 - 1 \in Places
    BY <1>1, <2>4, <2>5, <2>6, LinePlaces, LinePlacesNext
  <2>9. StayIn(Places)
    <3>1. ~IsMarker(Head(Line[2]))
      BY <2>1, <2>6
    <3> QED
      BY <1>1, <2>2, <2>6, <2>7, <2>8, <3>1, HandsOn
  <2> QED
    BY <2>9 DEF MarkersMove
<1>3. CASE DtoMCall
  <2>1. ring["decoded"] # <<>> /\ codec' = codec /\ hold' = hold /\ ~IsMarker(Head(ring["decoded"]))
          /\ ring'["decoded"] = Tail(ring["decoded"]) /\ ring'["collated"] = ring["collated"]
          /\ ring'["parsed"] = ring["parsed"]
    BY <1>1, <1>3 DEF DtoMCall, Receive, PipeOK, Rings, IsMarker, Calls
  <2>2. Others({2})
    BY <2>1, PlaceCases, LinePlaces, LinePlacesNext DEF Others
  <2>3. Line[2] # <<>> /\ Line'[2] = Tail(Line[2]) /\ Line[2] \in Seq(Item) /\ ~IsMarker(Head(Line[2]))
    BY <1>1, <2>1, LinePlaces, LinePlacesNext
  <2> QED
    BY <1>1, <2>2, <2>3, DropsOff DEF MarkersMove
<1>4. CASE DtoMDrop \/ DtoMQueue
  <2>1. pc["DtoM"] \in {"time", "queue"} /\ hold' = [hold EXCEPT !["DtoM"] = <<>>]
          /\ codec' = codec /\ ring' = ring
    BY <1>4 DEF DtoMDrop, DtoMQueue, Goto, Gives, pipe
  <2>2. hold["DtoM"] # <<>> /\ Tail(hold["DtoM"]) = <<>> /\ hold["DtoM"][1] = InHand("DtoM") /\ InHand("DtoM") \in Item
          /\ hold["DtoM"] \in Seq(Item) /\ Head(hold["DtoM"]) = InHand("DtoM")
    BY <1>1, <2>1, HeldTail DEF Holds, PipeOK
  <2>3. hold'["DtoM"] = <<>> /\ hold'["CtoP"] = hold["CtoP"] /\ hold'["PtoD"] = hold["PtoD"]
    BY <1>1, <2>1 DEF PipeOK, Holds
  <2>4. InHand("DtoM").kind \in {"data"}
    <3>1. OfKinds(hold["DtoM"], {"data"})
      BY DEF KindsOK
    <3> QED
      BY <2>1, <3>1, HeldKind DEF Holds
  <2>5. Others({1})
    BY <2>1, <2>3, PlaceCases, LinePlaces, LinePlacesNext DEF Others
  <2>6. /\ Line[1] # <<>> /\ Line'[1] = Tail(Line[1]) /\ Head(Line[1]) = InHand("DtoM")
        /\ Line[1] \in Seq(Item)
    BY <1>1, <2>2, <2>3, LineParts, LinePlaces, LinePlacesNext
  <2>7. ~IsMarker(Head(Line[1]))
    BY <2>4, <2>6 DEF IsMarker
  <2> QED
    BY <1>1, <2>5, <2>6, <2>7, DropsOff DEF MarkersMove
<1> QED
  BY <1>2, <1>3, <1>4

LEMMA CallMarkers == ASSUME Typed, Typed', NEW d \in Drainers, DrainCallReset(d) PROVE MarkersMove
<1>1. PipeOK /\ 2 \in Places /\ DrainSequenceNumber \in Nat
  BY DEF Typed, PipeOK, Places
<1> DEFINE c == MakeItem("reset", 0, DrainSequenceNumber, 0)
<1>2. c \in Item
  BY <1>1, MadeItem
<1>3. codec' = codec /\ hold' = hold /\ ring' = [ring EXCEPT !["decoded"] = Append(@, c)]
  BY DEF DrainCallReset, Send, procs
<1> HIDE DEF c
<1>4. ring'["decoded"] = Append(ring["decoded"], c) /\ ring'["collated"] = ring["collated"]
        /\ ring'["parsed"] = ring["parsed"]
  BY <1>1, <1>3 DEF PipeOK, Rings
<1>5. Others({2})
  BY <1>3, <1>4, PlaceCases, LinePlaces, LinePlacesNext DEF Others
<1>6. Line'[2] = Append(Line[2], c) /\ Line[2] \in Seq(Item)
  BY <1>1, <1>4, LineParts, LinePlaces, LinePlacesNext
<1> QED
  BY <1>1, <1>2, <1>5, <1>6, Grows DEF MarkersMove

LEMMA InsertedMarkers ==
    ASSUME Typed, Typed', NEW x \in Item, Collated \in Seq(Item), Collated' = Append(Collated, x),
           ring'["parsed"] = ring["parsed"], ring'["decoded"] = ring["decoded"], codec' = codec, hold' = hold
    PROVE  MarkersMove /\ (IsMarker(x) => Marked(Collated'))
<1>1. Others({7})
  BY PlaceCases, LinePlaces, LinePlacesNext DEF Others
<1>2. 7 \in Places /\ Line[7] \in Seq(Item) /\ Line'[7] = Append(Line[7], x) /\ Line'[7] = Collated'
  BY LinePlaces, LinePlacesNext DEF Places, Collated
<1>3. StayIn(Places) /\ (IsMarker(x) => Marked(Line'[7]))
  BY <1>1, <1>2, Grows
<1> QED
  BY <1>2, <1>3 DEF MarkersMove

LEMMA JoinMarkers == ASSUME Typed, Typed', Joins PROVE MarkersMove
<1>1. PICK x \in Item :
        /\ Collated \in Seq(Item) /\ Collated' = Append(Collated, x)
        /\ ring'["parsed"] = ring["parsed"] /\ ring'["decoded"] = ring["decoded"] /\ codec' = codec /\ hold' = hold
  BY JoinsParts
<1> QED
  BY <1>1, InsertedMarkers

LEMMA InsertMarkers ==
    ASSUME Typed, Typed', MarkInv, NEW d \in Drainers, DrainInsert(d)
    PROVE  MarkersMove /\ Marked(Collated')
<1>1. /\ marker'[d] \in Item /\ IsMarker(marker'[d])
      /\ Collated \in Seq(Item) /\ Collated' = Append(Collated, marker'[d])
  BY InsertParts
<1>2. ring'["parsed"] = ring["parsed"] /\ ring'["decoded"] = ring["decoded"] /\ codec' = codec /\ hold' = hold
  BY DEF DrainInsert, Collate, Send, procs, Typed, PipeOK, Rings
<1> QED
  BY <1>1, <1>2, InsertedMarkers

-----------------------------------------------------------------------------
(* Who ends the discarding *)

LEMMA MarkersStep ==
    ASSUME Typed, Typed', KindsOK, MarkInv, [Next]_vars
    PROVE  MarkersMove
<1>0. PipeOK /\ PipeOK'
  BY DEF Typed
<1>1. CASE Step1
  <2>1. CASE Inject \/ InputExit
    BY <2>1, JoinMarkers DEF Joins
  <2>2. CASE SetPlaybackSpeed
    BY <1>0, <2>2, LineSame, AllStay DEF MarkersMove
  <2> QED
    BY <1>1, <2>1, <2>2 DEF Step1
<1>2. CASE Step2
  BY <1>2, NumberMarkers, ParseMarkers, DecodeTakesMarkers, WindowMarkers, CodecTakesMarkers DEF Step2
<1>3. CASE Step3
  <2>1. CASE DtoMClear
    BY <1>0, <2>1, LineSame, AllStay DEF MarkersMove
  <2> QED
    BY <1>3, <2>1, CodecMarkers, ManifestTakesMarkers, ManifestMarkers DEF Step3
<1>4. CASE Step4
  <2>1. CASE DtoMPause \/ DtoMTime \/ Show \/ PostMFrame \/ PostMCall
    BY <1>0, <2>1, LineSame, AllStay DEF MarkersMove
  <2> QED
    BY <1>4, <2>1, ManifestMarkers DEF Step4
<1>5. ASSUME NEW d \in Drainers, StepD(d) PROVE MarkersMove
  <2>1. CASE \/ \E p \in Policies, b \in BOOLEAN : DrainStart(d, p, b)
             \/ DrainFlush(d) \/ DrainRounds(d) \/ DrainGet(d) \/ DrainNumber(d) \/ DrainReset(d)
             \/ DrainMark(d) \/ DrainCallDrained(d) \/ DrainSucceeds(d) \/ DrainTimesOut(d)
    BY <1>0, <2>1, LineSame, AllStay DEF MarkersMove
  <2>2. CASE DrainJump(d)
    <3>1. CASE UNCHANGED <<ring, nextId>>
      BY <1>0, <2>2, <3>1, LineSame, AllStay DEF MarkersMove
    <3>2. CASE ~UNCHANGED <<ring, nextId>>
      BY <2>2, <3>2, JoinMarkers DEF Joins
    <3> QED
      BY <3>1, <3>2
  <2> QED
    BY <1>5, <2>1, <2>2, InsertMarkers, CallMarkers DEF StepD
<1>6. CASE vars' = vars
  <2>1. Line' = Line
    BY <1>6 DEF vars, pipe, procs, Line
  <2> QED
    BY <2>1, AllStay DEF MarkersMove
<1> QED
  BY StepCases, <1>1, <1>2, <1>3, <1>4, <1>5, <1>6


LEMMA MarkedConcat ==
    ASSUME NEW s \in Seq(Item), NEW t \in Seq(Item), Marked(s)
    PROVE  Marked(s \o t)
<1>1. /\ Len(s) \in Nat /\ Len(t) \in Nat /\ DOMAIN s = 1 .. Len(s)
      /\ DOMAIN (s \o t) = 1 .. Len(s) + Len(t)
      /\ \A k \in 1 .. Len(s) : (s \o t)[k] = s[k]
  OBVIOUS
<1>2. \A k \in DOMAIN s : k \in DOMAIN (s \o t) /\ (s \o t)[k] = s[k]
  BY <1>1
<1> QED
  BY <1>2 DEF Marked

\* The marker leaves the last ring with the flag that it ends.
LEMMA LastMarker ==
    ASSUME Typed, [Next]_vars, discarding'["PostM"], Marked(Manifested)
    PROVE  Marked(Manifested')
<1>0. /\ ring \in [Rings -> Seq(Item)] /\ "manifested" \in Rings /\ display \in Seq(Item)
      /\ Manifested \in Seq(Item) /\ ring["decoded"] \in Seq(Item)
  BY DEF Typed, PipeOK, Rings, Manifested
<1>1. ASSUME NEW x \in Item, Manifested' = Append(Manifested, x) PROVE Marked(Manifested')
  BY <1>0, <1>1, MarkedAppend
<1>2. ASSUME Manifested # <<>>, Manifested' = Tail(Manifested), ~IsMarker(Head(Manifested)) PROVE Marked(Manifested')
  BY <1>0, <1>2, MarkedTail
<1>3. CASE DtoMMarker
  <2>1. Head(ring["decoded"]) \in Item
    BY <1>0, <1>3, TailParts DEF DtoMMarker
  <2>2. Manifested' = Append(Manifested, Head(ring["decoded"]))
    BY <1>0, <1>3 DEF DtoMMarker, Pass, Manifested, Rings
  <2> QED
    BY <1>1, <2>1, <2>2
<1>4. CASE DtoMQueue
  BY <1>4 DEF DtoMQueue, Manifested
<1>5. CASE Show
  <2>1. display # <<>>
    BY <1>0, <1>5 DEF Show
  <2>2. Head(display) \in Item
    BY <1>0, <2>1, TailParts
  <2>3. Manifested' = Append(Manifested, Head(display))
    BY <1>0, <1>5 DEF Show, Send, Manifested
  <2> QED
    BY <1>1, <2>2, <2>3
<1>6. CASE PostMFrame
  <2>1. Manifested # <<>> /\ Manifested' = Tail(Manifested)
    BY <1>0, <1>6 DEF PostMFrame, Receive, Manifested
  <2>2. discarding \in [Stages -> BOOLEAN] /\ "PostM" \in Stages
    BY DEF Typed, FlagsOK, Stages
  <2>3. ~IsMarker(Head(Manifested))
    BY <1>6, <2>2 DEF PostMFrame, ClearAtMarker, IsMarker, Manifested
  <2> QED
    BY <1>2, <2>1, <2>3
<1>7. CASE PostMCall
  <2>1. Manifested # <<>> /\ Manifested' = Tail(Manifested) /\ ~IsMarker(Head(Manifested))
    BY <1>0, <1>7 DEF PostMCall, Receive, Manifested, IsFrame, IsMarker, Calls
  <2> QED
    BY <1>2, <2>1
<1>8. ASSUME NEW d \in Drainers, DrainFlush(d) PROVE Marked(Manifested')
  <2>1. CASE ring' = ring
    BY <2>1 DEF Manifested
  <2>2. CASE display # <<>> /\ ring' = [ring EXCEPT !["manifested"] = @ \o Tail(display)]
    <3>1. Manifested' = Manifested \o Tail(display)
      BY <1>0, <2>2 DEF Manifested
    <3>2. Tail(display) \in Seq(Item)
      BY <1>0, <2>2, TailParts
    <3> QED
      BY <1>0, <3>1, <3>2, MarkedConcat
  <2> QED
    BY <1>8, <2>1, <2>2 DEF DrainFlush
<1>9. ASSUME NEW d \in Drainers, DrainCallDrained(d) PROVE Marked(Manifested')
  <2>1. MakeItem("drained", 0, DrainSequenceNumber, 0) \in Item
    BY MadeItem DEF Typed, PipeOK
  <2>2. Manifested' = Append(Manifested, MakeItem("drained", 0, DrainSequenceNumber, 0))
    BY <1>0, <1>9 DEF DrainCallDrained, Send, Manifested
  <2> QED
    BY <1>1, <2>1, <2>2
<1> QED
  BY <1>3, <1>4, <1>5, <1>6, <1>7, <1>8, <1>9, EmitsStep DEF Emits, OutSame

\* Only the start of a drain sets flags.
FlagsFall ==
    /\ \A s \in Stages : discarding'[s] => discarding[s]
    /\ discarding'["DtoM"] /\ pc["DtoM"] = "clear" => pc'["DtoM"] = "clear"

LEMMA FlagsStepDown ==
    ASSUME Typed, [Next]_vars
    PROVE  Launch \/ FlagsFall
<1>Inject. ASSUME Inject PROVE FlagsFall
  BY <1>Inject DEF Inject, Collate, Send, pipe, procs, shared, play, counts, drain, Typed, PipeOK, HandOK, FlagsOK, Stages, Holds, FlagsFall
<1>InputExit. ASSUME InputExit PROVE FlagsFall
  BY <1>InputExit DEF InputExit, Collate, Send, pipe, procs, shared, play, counts, drain, Typed, PipeOK, HandOK, FlagsOK, Stages, Holds, FlagsFall
<1>SetPlaybackSpeed. ASSUME SetPlaybackSpeed PROVE FlagsFall
  BY <1>SetPlaybackSpeed DEF SetPlaybackSpeed, pipe, procs, shared, play, counts, drain, Typed, PipeOK, HandOK, FlagsOK, Stages, Holds, FlagsFall
<1>CtoPTake. ASSUME CtoPTake PROVE FlagsFall
  BY <1>CtoPTake DEF CtoPTake, Receive, Takes, Numbered, Recognised, pipe, procs, shared, play, counts, drain, Typed, PipeOK, HandOK, FlagsOK, Stages, Holds, FlagsFall
<1>CtoPParse. ASSUME CtoPParse PROVE FlagsFall
  BY <1>CtoPParse DEF CtoPParse, Goto, Gives, Send, InHand, pipe, procs, shared, play, counts, drain, Typed, PipeOK, HandOK, FlagsOK, Stages, Holds, FlagsFall
<1>PtoDTake. ASSUME PtoDTake PROVE FlagsFall
  BY <1>PtoDTake DEF PtoDTake, Goto, Receive, Takes, ClearAtMarker, pipe, procs, shared, play, counts, drain, Typed, PipeOK, HandOK, FlagsOK, Stages, Holds, FlagsFall
<1>PtoDCheck. ASSUME PtoDCheck PROVE FlagsFall
  BY <1>PtoDCheck DEF PtoDCheck, PtoDDiscard, Goto, Gives, pipe, procs, shared, play, counts, drain, Typed, PipeOK, HandOK, FlagsOK, Stages, Holds, FlagsFall
<1>PtoDWindow. ASSUME PtoDWindow PROVE FlagsFall
  BY <1>PtoDWindow DEF PtoDWindow, PtoDDiscard, Goto, Gives, pipe, procs, shared, play, counts, drain, Typed, PipeOK, HandOK, FlagsOK, Stages, Holds, FlagsFall
<1>PtoDDecode. ASSUME PtoDDecode PROVE FlagsFall
  BY <1>PtoDDecode DEF PtoDDecode, Goto, Gives, InHand, Waiting, pipe, procs, shared, play, counts, drain, Typed, PipeOK, HandOK, FlagsOK, Stages, Holds, FlagsFall
<1>DecodeCompletes. ASSUME DecodeCompletes PROVE FlagsFall
  BY <1>DecodeCompletes DEF DecodeCompletes, Send, pipe, procs, shared, play, counts, drain, Typed, PipeOK, HandOK, FlagsOK, Stages, Holds, FlagsFall
<1>MarkerPassesOn. ASSUME MarkerPassesOn PROVE FlagsFall
  BY <1>MarkerPassesOn DEF MarkerPassesOn, Send, pipe, procs, shared, play, counts, drain, Typed, PipeOK, HandOK, FlagsOK, Stages, Holds, FlagsFall
<1>DtoMMarker. ASSUME DtoMMarker PROVE FlagsFall
  BY <1>DtoMMarker DEF DtoMMarker, Goto, Pass, ProcessAccumulated, pipe, procs, shared, play, counts, drain, Typed, PipeOK, HandOK, FlagsOK, Stages, Holds, FlagsFall
<1>DtoMClear. ASSUME DtoMClear PROVE FlagsFall
  BY <1>DtoMClear DEF DtoMClear, Goto, pipe, procs, shared, play, counts, drain, Typed, PipeOK, HandOK, FlagsOK, Stages, Holds, FlagsFall
<1>DtoMTake. ASSUME DtoMTake PROVE FlagsFall
  BY <1>DtoMTake DEF DtoMTake, Goto, Receive, Takes, ProcessAccumulated, pipe, procs, shared, play, counts, drain, Typed, PipeOK, HandOK, FlagsOK, Stages, Holds, FlagsFall
<1>DtoMPause. ASSUME DtoMPause PROVE FlagsFall
  BY <1>DtoMPause DEF DtoMPause, Goto, pipe, procs, shared, play, counts, drain, Typed, PipeOK, HandOK, FlagsOK, Stages, Holds, FlagsFall
<1>DtoMDrop. ASSUME DtoMDrop PROVE FlagsFall
  BY <1>DtoMDrop DEF DtoMDrop, Goto, Gives, pipe, procs, shared, play, counts, drain, Typed, PipeOK, HandOK, FlagsOK, Stages, Holds, FlagsFall
<1>DtoMTime. ASSUME DtoMTime PROVE FlagsFall
  BY <1>DtoMTime DEF DtoMTime, Goto, pipe, procs, shared, play, counts, drain, Typed, PipeOK, HandOK, FlagsOK, Stages, Holds, FlagsFall
<1>DtoMQueue. ASSUME DtoMQueue PROVE FlagsFall
  BY <1>DtoMQueue DEF DtoMQueue, Goto, Gives, InHand, pipe, procs, shared, play, counts, drain, Typed, PipeOK, HandOK, FlagsOK, Stages, Holds, FlagsFall
<1>DtoMCall. ASSUME DtoMCall PROVE FlagsFall
  BY <1>DtoMCall DEF DtoMCall, Receive, pipe, procs, shared, play, counts, drain, Typed, PipeOK, HandOK, FlagsOK, Stages, Holds, FlagsFall
<1>Show. ASSUME Show PROVE FlagsFall
  BY <1>Show DEF Show, Send, pipe, procs, shared, play, counts, drain, Typed, PipeOK, HandOK, FlagsOK, Stages, Holds, FlagsFall
<1>PostMFrame. ASSUME PostMFrame PROVE FlagsFall
  BY <1>PostMFrame DEF PostMFrame, Receive, ClearAtMarker, ProcessAccumulated, pipe, procs, shared, play, counts, drain, Typed, PipeOK, HandOK, FlagsOK, Stages, Holds, FlagsFall
<1>PostMCall. ASSUME PostMCall PROVE FlagsFall
  BY <1>PostMCall DEF PostMCall, Receive, pipe, procs, shared, play, counts, drain, Typed, PipeOK, HandOK, FlagsOK, Stages, Holds, FlagsFall
<1>DrainJump. ASSUME NEW d \in Drainers, DrainJump(d) PROVE FlagsFall
  BY <1>DrainJump DEF DrainJump, Then, Collate, Send, pipe, procs, shared, play, counts, drain, Typed, PipeOK, HandOK, FlagsOK, Stages, Holds, FlagsFall
<1>DrainFlush. ASSUME NEW d \in Drainers, DrainFlush(d) PROVE FlagsFall
  BY <1>DrainFlush DEF DrainFlush, Then, pipe, procs, shared, play, counts, drain, Typed, PipeOK, HandOK, FlagsOK, Stages, Holds, FlagsFall
<1>DrainRounds. ASSUME NEW d \in Drainers, DrainRounds(d) PROVE FlagsFall
  BY <1>DrainRounds DEF DrainRounds, Then, StartsWait, pipe, procs, shared, play, counts, drain, Typed, PipeOK, HandOK, FlagsOK, Stages, Holds, FlagsFall
<1>DrainGet. ASSUME NEW d \in Drainers, DrainGet(d) PROVE FlagsFall
  BY <1>DrainGet DEF DrainGet, Then, pipe, procs, shared, play, counts, drain, Typed, PipeOK, HandOK, FlagsOK, Stages, Holds, FlagsFall
<1>DrainNumber. ASSUME NEW d \in Drainers, DrainNumber(d) PROVE FlagsFall
  BY <1>DrainNumber DEF DrainNumber, Then, NumberAhead, pipe, procs, shared, play, counts, drain, Typed, PipeOK, HandOK, FlagsOK, Stages, Holds, FlagsFall
<1>DrainReset. ASSUME NEW d \in Drainers, DrainReset(d) PROVE FlagsFall
  BY <1>DrainReset DEF DrainReset, Then, pipe, procs, shared, play, counts, drain, Typed, PipeOK, HandOK, FlagsOK, Stages, Holds, FlagsFall
<1>DrainMark. ASSUME NEW d \in Drainers, DrainMark(d) PROVE FlagsFall
  BY <1>DrainMark DEF DrainMark, Then, pipe, procs, shared, play, counts, drain, Typed, PipeOK, HandOK, FlagsOK, Stages, Holds, FlagsFall
<1>DrainInsert. ASSUME NEW d \in Drainers, DrainInsert(d) PROVE FlagsFall
  BY <1>DrainInsert DEF DrainInsert, Then, Collate, Send, pipe, procs, shared, play, counts, drain, Typed, PipeOK, HandOK, FlagsOK, Stages, Holds, FlagsFall
<1>DrainCallReset. ASSUME NEW d \in Drainers, DrainCallReset(d) PROVE FlagsFall
  BY <1>DrainCallReset DEF DrainCallReset, Then, Send, pipe, procs, shared, play, counts, drain, Typed, PipeOK, HandOK, FlagsOK, Stages, Holds, FlagsFall
<1>DrainCallDrained. ASSUME NEW d \in Drainers, DrainCallDrained(d) PROVE FlagsFall
  BY <1>DrainCallDrained DEF DrainCallDrained, Then, Send, StartsWait, pipe, procs, shared, play, counts, drain, Typed, PipeOK, HandOK, FlagsOK, Stages, Holds, FlagsFall
<1>DrainSucceeds. ASSUME NEW d \in Drainers, DrainSucceeds(d) PROVE FlagsFall
  BY <1>DrainSucceeds DEF DrainSucceeds, Then, pipe, procs, shared, play, counts, drain, Typed, PipeOK, HandOK, FlagsOK, Stages, Holds, FlagsFall
<1>DrainTimesOut. ASSUME NEW d \in Drainers, DrainTimesOut(d) PROVE FlagsFall
  BY <1>DrainTimesOut DEF DrainTimesOut, StartsWait, pipe, procs, shared, play, counts, drain, Typed, PipeOK, HandOK, FlagsOK, Stages, Holds, FlagsFall
<1>stutter. ASSUME vars' = vars PROVE FlagsFall
  BY <1>stutter DEF vars, pipe, procs, shared, play, counts, drain, Typed, PipeOK, HandOK, FlagsOK, Stages, Holds, FlagsFall
<1>1. ASSUME NEW d \in Drainers, StepD(d) PROVE Launch \/ FlagsFall
  BY <1>1, <1>DrainJump, <1>DrainFlush, <1>DrainRounds, <1>DrainGet, <1>DrainNumber, <1>DrainReset, <1>DrainMark, <1>DrainInsert, <1>DrainCallReset, <1>DrainCallDrained, <1>DrainSucceeds, <1>DrainTimesOut DEF StepD, Launch
<1> QED
  BY StepCases, <1>1, <1>stutter, <1>Inject, <1>InputExit, <1>SetPlaybackSpeed, <1>CtoPTake, <1>CtoPParse, <1>PtoDTake, <1>PtoDCheck, <1>PtoDWindow, <1>PtoDDecode, <1>DecodeCompletes, <1>MarkerPassesOn, <1>DtoMMarker, <1>DtoMClear, <1>DtoMTake, <1>DtoMPause, <1>DtoMDrop, <1>DtoMTime, <1>DtoMQueue, <1>DtoMCall, <1>Show, <1>PostMFrame, <1>PostMCall DEF Step1, Step2, Step3, Step4

\* A drain that set the flags and has no marker yet.
Lead == \E d \in Drainers : dpc[d] \in Before \ {"waitRounds"}

LEMMA LeadStep ==
    ASSUME Typed, Typed', OneActive, MarkInv, Turns, Lead
    PROVE  Lead' \/ Marked(Collated')
<1>1. PICK d \in Drainers : dpc[d] \in Before \ {"waitRounds"}
  BY DEF Lead
<1>2. Turn(d)
  BY DEF Turns
<1>3. \/ dpc'[d] \in Before \ {"waitRounds"}
      \/ dpc[d] = "rounds" /\ MarkerInCodedFrameIndex # NoIndex /\ Collated' = Collated
      \/ DrainInsert(d)
  BY <1>1, <1>2 DEF Turn, Passes, Before, Marking, HasNumber
<1>4. CASE dpc[d] = "rounds" /\ MarkerInCodedFrameIndex # NoIndex /\ Collated' = Collated
  <2>1. \A e \in Drainers : dpc[e] # "insert"
    BY <1>4, Alone DEF Ended
  <2> QED
    BY <1>4, <2>1 DEF MarkInv, MarksOK
<1>5. CASE DrainInsert(d)
  BY <1>5, InsertMarkers
<1> QED
  BY <1>3, <1>4, <1>5 DEF Lead

LEMMA FlagStep ==
    ASSUME OneAtATime, Typed, Typed', OneActive, KindsOK, MarkInv, FlagInv, [Next]_vars
    PROVE  FlagInv'
<1>1. CASE Launch
  <2>1. Lead'
    BY <1>1, Launched DEF Lead, Before
  <2> QED
    BY <2>1 DEF FlagInv, Lead
<1>2. CASE FlagsFall /\ Turns
  <2>1. SUFFICES ASSUME NEW s \in Stages, discarding'[s], ~Lead', ~(s = "DtoM" /\ pc'["DtoM"] = "clear"),
                        ~(s = "PostM" /\ Marked(Manifested'))
                 PROVE  \E p \in Reaching[s] : Marked(Line'[p])
    BY DEF FlagInv, Lead, IsMarked
  <2>2. discarding[s] /\ ~(s = "DtoM" /\ pc["DtoM"] = "clear")
    BY <1>2, <2>1 DEF FlagsFall
  <2>3. ~(s = "PostM" /\ Marked(Manifested))
    BY <2>1, LastMarker
  <2>4. /\ Reaching["CtoP"] = {7} /\ Reaching["PtoD"] = {5, 6, 7} /\ Reaching["DtoM"] = Places
        /\ Reaching["PostM"] = Places /\ Places = {1, 2, 3, 4, 5, 6, 7}
    <3>1. 7 .. 7 = {7} /\ 5 .. 7 = {5, 6, 7} /\ 1 .. 7 = {1, 2, 3, 4, 5, 6, 7}
      OBVIOUS
    <3> QED
      BY <3>1 DEF Reaching, Stages, Holds, Places
  <2>5. 7 \in Reaching[s] /\ Reaching[s] \subseteq Places /\ Line'[7] = Collated'
    BY <2>4, LinePlacesNext DEF Stages, Holds, Collated
  <2>6. Marked(Collated') \/ ~Lead
    BY <1>2, <2>1, LeadStep
  <2>7. CASE Marked(Collated')
    BY <2>5, <2>7
  <2>8. CASE ~Lead
    <3>1. PICK p \in Reaching[s] : Marked(Line[p])
      BY <2>2, <2>3, <2>8 DEF FlagInv, Lead, IsMarked
    <3>2. p \in Places /\ (Stays(p) => Marked(Line'[p]))
      BY <2>5, <3>1 DEF Stays
    <3>3. MarkersMove
      BY MarkersStep
    <3>4. CASE StayIn(Places)
      BY <3>2, <3>4 DEF StayIn
    <3>5. ASSUME NEW x \in {3, 4, 6}, MovesOn(x) PROVE \E q \in Reaching[s] : Marked(Line'[q])
      <4>1. Stays(p) \/ (p = x /\ Marked(Line'[x - 1]))
        BY <3>2, <3>5 DEF MovesOn
      <4>2. x \in Reaching[s] => x - 1 \in Reaching[s]
        BY <2>4 DEF Stages, Holds
      <4> QED
        BY <3>2, <4>1, <4>2
    <3>6. CASE MovesOn(7) /\ (discarding'["CtoP"] => Stays(7))
      <4>1. Stays(p) \/ (p = 7 /\ Marked(Line'[7 - 1]))
        BY <3>2, <3>6 DEF MovesOn
      <4>2. s # "CtoP" => 7 - 1 \in Reaching[s]
        BY <2>4 DEF Stages, Holds
      <4> QED
        BY <2>1, <3>2, <3>6, <4>1, <4>2
    <3>7. CASE MovesOn(5) /\ (discarding'["PtoD"] => Stays(5))
      <4>1. Stays(p) \/ (p = 5 /\ Marked(Line'[5 - 1]))
        BY <3>2, <3>7 DEF MovesOn
      <4>2. s # "PtoD" /\ 5 \in Reaching[s] => 5 - 1 \in Reaching[s]
        BY <2>4 DEF Stages, Holds
      <4> QED
        BY <2>1, <3>2, <3>7, <4>1, <4>2
    <3>8. CASE pc'["DtoM"] = "clear" /\ Marked(Manifested') /\ StayIn(Places \ {2})
      <4>1. s # "DtoM" /\ s # "PostM"
        BY <2>1, <3>8
      <4>2. p # 2
        BY <2>4, <4>1 DEF Stages, Holds
      <4> QED
        BY <3>2, <3>8, <4>2 DEF StayIn
    <3>9. CASE discarding["PtoD"] /\ StayIn(Places \ {4})
      <4>1. PICK q \in {5, 6, 7} : Marked(Line[q])
        <5>1. IsMarked("PtoD")
          BY <2>8, <3>9 DEF FlagInv, Lead, Stages, Holds
        <5> QED
          BY <2>4, <5>1 DEF IsMarked
      <4>2. Marked(Line'[q])
        BY <2>4, <3>9, <4>1 DEF StayIn, Stays
      <4>3. s # "CtoP" => q \in Reaching[s]
        BY <2>4 DEF Stages, Holds
      <4>4. s = "CtoP" => Marked(Line'[p])
        BY <2>4, <3>2, <3>9 DEF StayIn
      <4> QED
        BY <4>2, <4>3, <4>4
    <3> QED
      BY <3>3, <3>4, <3>5, <3>6, <3>7, <3>8, <3>9 DEF MarkersMove
  <2> QED
    BY <2>6, <2>7, <2>8
<1> QED
  BY <1>1, <1>2, TurnStep, FlagsStepDown

-----------------------------------------------------------------------------
(* What a drain leaves behind; the theorems *)

\* A drain that has ended leaves its marker as it is.
LEMMA EndedMarker ==
    ASSUME OneAtATime, Typed, MarkInv, NEW d \in Drainers, dpc[d] = "drained", dpc'[d] = "drained", [Next]_vars
    PROVE  marker'[d] = marker[d]
<1>1. CASE Quiet
  BY <1>1 DEF Quiet, Kept
<1>2. CASE Inject \/ InputExit
  BY <1>2 DEF Inject, InputExit, drain
<1>3. CASE CtoPTake
  BY <1>3, TakenMarks
<1>4. ASSUME NEW e \in Drainers, Moves(e) PROVE marker'[d] = marker[d]
  BY <1>4 DEF Moves, Kept
<1>5. ASSUME NEW e \in Drainers, Acts(e) PROVE marker'[d] = marker[d]
  <2>0. dpc \in [Drainers -> DSteps] /\ marker \in [Drainers -> Item]
    BY DEF Typed, FlagsOK, PipeOK
  <2>1. ASSUME NEW p \in Policies, NEW b \in BOOLEAN, DrainStart(e, p, b) PROVE marker'[d] = marker[d]
    <3>1. dpc'[e] # "drained"
      BY <2>0, <2>1 DEF DrainStart
    <3> QED
      BY <2>0, <2>1, <3>1 DEF DrainStart
  <2>2. CASE DrainJump(e) \/ DrainMark(e)
    BY <2>2 DEF DrainJump, DrainMark
  <2>3. CASE DrainNumber(e)
    BY <2>0, <2>3 DEF DrainNumber, Then
  <2>4. CASE DrainInsert(e)
    BY <2>0, <2>4 DEF DrainInsert, Then
  <2> QED
    BY <1>5, <2>1, <2>2, <2>3, <2>4 DEF Acts
<1> QED
  BY <1>1, <1>2, <1>3, <1>4, <1>5, StepKinds

\* What joins the line is younger than all markers.
LEMMA LineIds ==
    ASSUME Typed, Typed', KindsOK, MarkInv, AheadInv, OrderInv, [Next]_vars, NEW n \in Nat, IdIn(Line', n)
    PROVE  n = nextId \/ IdIn(Line, n)
<1>1. CASE Onward
  BY <1>1 DEF Onward, Advances
<1>2. CASE CtoPTake
  BY <1>2, TakenLine
<1>3. CASE \E x \in Item : Joining(x)
  BY <1>3, JoiningLine
<1> QED
  BY <1>1, <1>2, <1>3, LineStep

\* When the wait succeeds the last process has seen the number of the marker.
LEMMA PassedMarker ==
    ASSUME Complete, Typed, LowInv, BehindInv, CompleteInv, NEW d \in Drainers, dpc[d] = "wait", Drained,
           NEW n \in Nat, IdIn(Line, n)
    PROVE  n > marker[d].id
<1>1. /\ seen["PostM"] >= DrainSequenceNumber /\ seen["PostM"] \in Nat /\ DrainSequenceNumber \in Nat
      /\ NextBufferSequenceNumber \in Nat /\ marker[d].id \in Nat
  BY NumbersTyped, MarkerTyped DEF CompleteInv, Typed, TableOK
<1>2. /\ DrainSequenceNumber > 0
      /\ \A y \in Item : NumberedIn(Line, y) /\ y.id <= marker[d].id => y.seq <= DrainSequenceNumber
      /\ \A k \in DOMAIN Collated : Collated[k].id <= marker[d].id =>
              NextBufferSequenceNumber + k <= DrainSequenceNumber
  BY DEF BehindInv, BehindOf, Inserted
<1>3. LowBound(seen["PostM"])
  BY <1>1, <1>2 DEF LowInv
<1>4. PICK p \in Places : \E k \in DOMAIN Line[p] : IsFrame(Line[p][k]) /\ n = Line[p][k].id
  BY DEF IdIn
<1>5. PICK k \in DOMAIN Line[p] : IsFrame(Line[p][k]) /\ n = Line[p][k].id
  BY <1>4
<1>6. Line[p] \in Seq(Item)
  BY LineParts
<1>7. CASE p = 7
  <2>1. Line[p] = Collated
    BY <1>7, LinePlaces DEF Collated
  <2>2. k \in Nat
    BY <1>5, <1>6
  <2>3. seen["PostM"] < NextBufferSequenceNumber
    BY <1>3 DEF LowBound
  <2>4. Collated[k].id = n /\ k \in DOMAIN Collated
    BY <1>5, <2>1
  <2> QED
    BY <1>1, <1>2, <2>2, <2>3, <2>4
<1>8. CASE p # 7
  <2> DEFINE y == Line[p][k]
  <2>1. y \in Item /\ p \in 1 .. 6 /\ IsFrame(y) /\ n = y.id
    BY <1>5, <1>6, <1>8, PlaceCases
  <2>2. NumberedIn(Line, y)
    BY <1>5, <2>1 DEF NumberedIn
  <2>3. y.seq \in Nat /\ y.id \in Nat
    BY <2>1, ItemParts
  <2> HIDE DEF y
  <2>4. seen["PostM"] < y.seq
    BY <1>3, <2>1, <2>2 DEF LowBound
  <2>5. ~(y.id <= marker[d].id)
    BY <1>1, <1>2, <2>1, <2>2, <2>3, <2>4
  <2> QED
    BY <1>1, <2>1, <2>3, <2>5
<1> QED
  BY <1>7, <1>8

LEMMA EmptyStep ==
    ASSUME OneAtATime, Complete, Typed, Typed', OneActive, KindsOK, MarkInv, AheadInv, OrderInv, LowInv,
           BehindInv, CompleteInv, EmptyInv, [Next]_vars
    PROVE  EmptyInv'
<1>1. SUFFICES ASSUME NEW d \in Drainers, dpc'[d] = "drained", NEW n \in Nat, IdIn(Line', n)
               PROVE  n > marker'[d].id
  BY DEF EmptyInv
<1>2. CASE dpc[d] = "drained"
  <2>1. marker'[d] = marker[d]
    BY <1>1, <1>2, EndedMarker
  <2>2. n = nextId \/ n > marker[d].id
    BY <1>1, <1>2, LineIds DEF EmptyInv
  <2>3. marker[d].id < nextId
    BY DEF MarkInv, MarkerOf
  <2>4. marker[d].id \in Nat /\ nextId \in Nat
    BY MarkerTyped DEF Typed, PipeOK
  <2> QED
    BY <2>1, <2>2, <2>3, <2>4
<1>3. CASE dpc[d] # "drained"
  <2>1. ~Launch
    BY <1>1, <1>3, Launched
  <2>2. Turn(d)
    BY <2>1, TurnStep DEF Turns
  <2>3. DrainSucceeds(d) /\ Drained /\ dpc[d] = "wait"
    BY <1>1, <1>3, <2>2 DEF Turn, Passes
  <2>4. Line' = Line
    BY <2>3, LineSame DEF Typed
  <2>5. marker'[d] = marker[d]
    BY <2>3 DEF DrainSucceeds
  <2>6. IdIn(Line, n)
    BY <1>1, <2>4
  <2> QED
    BY <2>3, <2>5, <2>6, PassedMarker
<1> QED
  BY <1>2, <1>3


LEMMA LineInit == Init => \A p \in Places : Line[p] = <<>>
<1> SUFFICES ASSUME Init, NEW p \in Places PROVE Line[p] = <<>>
  OBVIOUS
<1>1. ring = [r \in Rings |-> <<>>] /\ codec = <<>> /\ hold = [q \in Holds |-> <<>>]
  BY DEF Init
<1> QED
  BY <1>1, PlaceCases, LinePlaces DEF Rings, Holds

LEMMA InvInit == Init => Inv
<1> SUFFICES ASSUME Init PROVE Inv
  OBVIOUS
<1>1. \A p \in Places : Line[p] = <<>>
  BY LineInit
<1>2. \A d \in Drainers : dpc[d] = "idle" /\ marker[d] = MakeItem("marker", 0, 0, 0)
  BY DEF Init
<1>3. /\ Collated = <<>> /\ Manifested = <<>> /\ display = <<>> /\ \A k \in Slots : Table[k] = <<>>
      /\ nextId = 1 /\ NextBufferSequenceNumber = 0 /\ DrainSequenceNumber = 0 /\ frames = 0 /\ drains = 0
      /\ jump = FALSE /\ MarkerInCodedFrameIndex = NoIndex /\ Drained = FALSE /\ seen["PostM"] = 0
      /\ \A s \in Stages : ~discarding[s]
  BY DEF Init, Collated, Manifested, Table, Rings
<1>4. OneActive
  BY <1>2 DEF OneActive, Ended
<1>5. KindsOK
  BY DEF Init, KindsOK, OfKinds, Rings, Holds, Collated, Manifested, Table
<1>6. MarkInv
  <2>1. MarksOK
    BY <1>3 DEF MarksOK
  <2>2. \A d \in Drainers : MarkerOf(d)
    BY <1>2, <1>3 DEF MarkerOf, MakeItem, Ended, HasNumber, Inserted
  <2> QED
    BY <2>1, <2>2 DEF MarkInv
<1>7. CountInv
  <2>1. ~Pending /\ Len(Collated) = 0
    BY <1>2, <1>3 DEF Pending, Marking, HasNumber
  <2> QED
    BY <2>1, SizesAssumption DEF CountInv, One
<1>8. AheadInv
  BY <1>2, <1>3 DEF Init, AheadInv, AheadOf, HasNumber
<1>9. OrderInv
  BY <1>1 DEF OrderInv, Ordered, Rising, Bounded
<1>10. LowInv
  <2>1. <<>> \in Seq(LowItems)
    OBVIOUS
  <2> QED
    BY <1>3, <2>1 DEF LowInv
<1>11. BehindInv
  BY <1>2 DEF BehindInv, BehindOf, Inserted
<1>12. NoCalls
  BY <1>3 DEF NoCalls
<1>13. FirstInv
  BY <1>2, <1>3, <1>12 DEF FirstInv, Calling
<1>14. RoundsInv
  BY <1>3 DEF RoundsInv, Marked
<1>15. CompleteInv
  BY <1>2, <1>3, <1>12 DEF CompleteInv, OneCall, NoCalls, Ended
<1>16. FlagInv
  BY <1>3 DEF FlagInv
<1> QED
  BY TypedInit, <1>4, <1>5, <1>6, <1>7, <1>8, <1>9, <1>10, <1>11, <1>13, <1>14, <1>15, <1>16 DEF Inv

LEMMA InvStep ==
    ASSUME OneAtATime, Complete \/ MaxDrains <= 2, Inv, [Next]_vars
    PROVE  Inv'
<1>1. /\ Typed /\ OneActive /\ KindsOK /\ MarkInv /\ CountInv /\ AheadInv /\ OrderInv /\ LowInv
      /\ BehindInv /\ FirstInv /\ RoundsInv /\ CompleteInv /\ FlagInv
  BY DEF Inv
<1>2. Typed' /\ OneActive' /\ KindsOK'
  BY <1>1, TypedStep, OneStep, KindsStep
<1>3. MarkInv'
  BY <1>1, MarkStep
<1>4. CountInv' /\ AheadInv'
  BY <1>1, CountStep, AheadStep
<1>5. OrderInv' /\ LowInv' /\ BehindInv'
  BY <1>1, <1>2, OrderStep, LowStep, BehindStep
<1>6. FirstInv' /\ CompleteInv'
  BY <1>1, <1>2, FirstStep, CompleteStep
<1>7. RoundsInv'
  BY <1>1, <1>2, <1>5, RoundsStep
<1>8. FlagInv'
  BY <1>1, <1>2, FlagStep
<1> QED
  BY <1>2, <1>3, <1>4, <1>5, <1>6, <1>7, <1>8 DEF Inv

LEMMA EmptyInit == Init => EmptyInv
BY DEF Init, EmptyInv

LEMMA InvHolds ==
    ASSUME OneAtATime, Complete \/ MaxDrains <= 2
    PROVE  Spec => []Inv
<1>1. Inv /\ [Next]_vars => Inv'
  BY InvStep
<1> QED
  BY <1>1, InvInit, PTL DEF Spec

\* On the whole way from the first ring to the hands of the third process
\* identities and sequence numbers rise together: the number that
\* InternalDrainStream gives to its marker (player_playback.cpp:1043-1045), RingSize
\* beyond the counter, is above that of every frame the collate to parse process
\* numbers before the marker and below that of every one after it, where the
\* counter goes on from the marker (player_process_collate_to_parse.cpp:148-162).
THEOREM NumbersInOrder ==
    ASSUME OneAtATime, Complete \/ MaxDrains <= 2
    PROVE  Spec => []NumbersFollowOrder
<1>1. Inv => NumbersFollowOrder
  BY DEF Inv, OrderInv, Ordered, Rising, NumbersFollowOrder
<1> QED
  BY <1>1, InvHolds, PTL

\* A flag DiscardingUntilMarkerFrame.. that InternalDrainStream sets
\* (player_playback.cpp:979-984) is never left behind: until the process clears it,
\* a marker is on its way to that process, or the drain has still to insert it.
THEOREM FlagsAreEnded ==
    ASSUME OneAtATime, Complete \/ MaxDrains <= 2
    PROVE  Spec => []FlagHasMarker
<1>1. Inv => FlagHasMarker
  BY DEF Inv, FlagInv, FlagHasMarker, IsMarked, Marked, Manifested
<1> QED
  BY <1>1, InvHolds, PTL

\* When InternalDrainStream returns success after its wait
\* (player_playback.cpp:1103-1140), every frame that was injected before its marker
\* has gone past the third process: it was displayed, is queued in the manifestor,
\* or was discarded. For drains that exclude each other and are all waited for;
\* overlapping ones do not keep this promise.
THEOREM DrainedIsEmpty ==
    ASSUME OneAtATime, Complete
    PROVE  Spec => []DrainedMeansEmpty
<1>1. Inv /\ EmptyInv /\ [Next]_vars => EmptyInv'
  <2>1. SUFFICES ASSUME Inv, EmptyInv, [Next]_vars PROVE EmptyInv'
    OBVIOUS
  <2>2. /\ Typed /\ OneActive /\ KindsOK /\ MarkInv /\ AheadInv /\ OrderInv /\ LowInv
        /\ BehindInv /\ CompleteInv
    BY <2>1 DEF Inv
  <2>3. Typed'
    BY <2>1, <2>2, TypedStep
  <2> QED
    BY <2>1, <2>2, <2>3, EmptyStep
<1>2. Inv /\ EmptyInv => DrainedMeansEmpty
  <2>1. SUFFICES ASSUME Typed, EmptyInv PROVE DrainedMeansEmpty
    BY DEF Inv
  <2>2. SUFFICES ASSUME NEW d \in Drainers, dpc[d] = "drained", NEW p \in Places, NEW k \in DOMAIN Line[p],
                        IsFrame(Line[p][k])
                 PROVE  Line[p][k].id > marker[d].id
    BY DEF DrainedMeansEmpty
  <2>3. Line[p][k] \in Item
    BY <2>1, LineParts
  <2>4. Line[p][k].id \in Nat
    BY <2>3, ItemParts
  <2>5. IdIn(Line, Line[p][k].id)
    BY <2>2 DEF IdIn
  <2> QED
    BY <2>1, <2>2, <2>4, <2>5 DEF EmptyInv
<1>3. Spec => []Inv
  BY InvHolds
<1> QED
  BY <1>1, <1>2, <1>3, EmptyInit, PTL DEF Spec
=============================================================================
