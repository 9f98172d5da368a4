------------------------------- MODULE Foundations -------------------------------
(***************************************************************************)
(* What the iterators of the code collect from a log: the entries at some  *)
(* positions, in order (a filter), and the sum of their weights.  They are *)
(* recursive functions over positions, not SelectSeq and FoldLeft, because *)
(* a proof needs definitions it can unfold; the lemmas are the inductions  *)
(* over logs that the invariance proofs of other modules rest on, among    *)
(* them what is left when a log is filtered twice, or has entries          *)
(* replaced.  The lemmas on GateChain say what an answer tells of gates.   *)
(***************************************************************************)
EXTENDS Integers, Sequences, GateChain, WellFoundedInduction, TLAPS

(* Kept(s, P)[n] is what the positions P keep of the first n entries. *)
Kept(s, P) ==
  LET kept[n \in 0..Len(s)] ==
        IF n = 0 THEN <<>> ELSE IF n \in P THEN Append(kept[n - 1], s[n]) ELSE kept[n - 1]
  IN  kept

(* The entries of s at the positions P, in order. *)
Picked(s, P) == Kept(s, P)[Len(s)]

SumUpTo(w, N) ==
  LET sum[n \in 0..N] == IF n = 0 THEN 0 ELSE sum[n - 1] + w[n]
  IN  sum

(* The sum of the weights w[1] to w[N]. *)
SumOf(w, N) == SumUpTo(w, N)[N]

----------------------------------------------------------------------------
Below == {p \in Nat \X Nat : p[1] < p[2]}

(* Every inhabited set of naturals has a least element: induction, in the form
   in which the provers can apply it. *)
LEMMA LeastNatural ==
  ASSUME NEW T \in SUBSET Nat, T # {}
  PROVE  \E n \in T : \A m \in T : n <= m
<1>1. IsWellFoundedOn(OpToRel(<, Nat), Nat)  BY NatLessThanWellFounded
<1>2. OpToRel(<, Nat) = Below  BY Zenon DEF OpToRel, Below
<1>3. PICK n \in T : \A m \in T : <<m, n>> \notin Below  BY <1>1, <1>2, WFMin
<1>4. ASSUME NEW m \in T PROVE n <= m
  <2>1. <<m, n>> \notin Below  BY <1>3
  <2> QED  BY <2>1 DEF Below
<1> QED  BY <1>3, <1>4

(* Induction up to a bound, over a set instead of a predicate. *)
LEMMA Induction ==
  ASSUME NEW N \in Nat, NEW T, 0 \in T, \A n \in 0..N : n # N /\ n \in T => n + 1 \in T
  PROVE  0..N \subseteq T
<1> SUFFICES ASSUME ~ (0..N \subseteq T) PROVE FALSE  OBVIOUS
<1> DEFINE U == {n \in 0..N : n \notin T}
<1>1. U \in SUBSET Nat /\ U # {}  OBVIOUS
<1>2. PICK n \in U : \A m \in U : n <= m  BY <1>1, LeastNatural
<1>3. n \in 0..N /\ n \notin T /\ n # 0  BY <1>2
<1>4. n - 1 \in 0..N /\ n - 1 # N /\ n - 1 \notin U  BY <1>2, <1>3
<1>5. n - 1 \in T  BY <1>4
<1>6. (n - 1) + 1 \in T  BY <1>4, <1>5
<1> QED  BY <1>3, <1>6

(* A set of positions that has a bound has a greatest one. *)
LEMMA GreatestNatural ==
  ASSUME NEW N \in Nat, NEW T \in SUBSET (0..N), T # {}
  PROVE  \E n \in T : \A m \in T : n >= m
<1> DEFINE U == {N - n : n \in T}
<1>1. U \in SUBSET Nat /\ U # {}
  <2>1. \A n \in T : n \in Nat /\ n <= N  OBVIOUS
  <2>2. \A n \in T : N - n \in Nat  BY <2>1
  <2> QED  BY <2>2
<1>2. PICK u \in U : \A v \in U : u <= v  BY <1>1, LeastNatural
<1>3. PICK n \in T : u = N - n  BY <1>2
<1>4. ASSUME NEW m \in T PROVE n >= m
  <2>1. N - n <= N - m  BY <1>2, <1>3
  <2> QED  BY <2>1
<1> QED  BY <1>4

(* The recursive function is defined: a function on 0..N that satisfies its
   equation exists, since one for n extends to one for n + 1. *)
LEMMA KeptUnfolds ==
  ASSUME NEW S, NEW s \in Seq(S), NEW P
  PROVE  Kept(s, P) = [n \in 0..Len(s) |->
           IF n = 0 THEN <<>> ELSE IF n \in P THEN Append(Kept(s, P)[n - 1], s[n]) ELSE Kept(s, P)[n - 1]]
<1> DEFINE body(f, n) == IF n = 0 THEN <<>> ELSE IF n \in P THEN Append(f[n - 1], s[n]) ELSE f[n - 1]
           upTo(f, N) == f = [n \in 0..N |-> body(f, n)]
           T == {N \in 0..Len(s) : \E f : upTo(f, N)}
<1>0. Len(s) \in Nat  OBVIOUS
<1>1. 0 \in T
  <2> DEFINE g == [n \in 0..0 |-> <<>>]
  <2>1. upTo(g, 0)  OBVIOUS
  <2> HIDE DEF g, upTo
  <2> QED  BY <1>0, <2>1
<1>2. ASSUME NEW N \in 0..Len(s), N # Len(s), N \in T PROVE N + 1 \in T
  <2>1. PICK f : upTo(f, N)  BY <1>2
  <2> DEFINE g == [n \in 0..(N + 1) |-> body(f, n)]
  <2>2. \A n \in 0..N : g[n] = f[n]
    <3>1. \A n \in 0..N : f[n] = body(f, n)  BY <2>1
    <3> QED  BY <3>1
  <2>3. \A n \in 0..(N + 1) : body(g, n) = body(f, n)
    <3> SUFFICES ASSUME NEW n \in 0..(N + 1) PROVE body(g, n) = body(f, n)  OBVIOUS
    <3>1. CASE n = 0  BY <3>1
    <3>2. CASE n # 0
      <4>1. n - 1 \in 0..N  BY <3>2
      <4>2. g[n - 1] = f[n - 1]  BY <2>2, <4>1
      <4> HIDE DEF g
      <4> QED  BY <3>2, <4>2
    <3> QED  BY <3>1, <3>2
  <2>4. upTo(g, N + 1)
    <3>1. g = [n \in 0..(N + 1) |-> body(f, n)]  OBVIOUS
    <3>2. [n \in 0..(N + 1) |-> body(f, n)] = [n \in 0..(N + 1) |-> body(g, n)]
      <4> HIDE DEF g, body
      <4> QED  BY <2>3
    <3> HIDE DEF g, body
    <3> QED  BY <3>1, <3>2
  <2>5. N + 1 \in 0..Len(s)  BY <1>0, <1>2
  <2> HIDE DEF g, upTo
  <2> QED  BY <2>4, <2>5
<1>3. 0..Len(s) \subseteq T
  <2> HIDE DEF T
  <2> QED  BY <1>0, <1>1, <1>2, Induction
<1>4. \E f : upTo(f, Len(s))  BY <1>0, <1>3
<1>5. Kept(s, P) = CHOOSE f : upTo(f, Len(s))
  BY DEF Kept
<1>6. upTo(Kept(s, P), Len(s))
  <2> HIDE DEF upTo
  <2> QED  BY <1>4, <1>5
<1> QED  BY <1>6

(* What the first n positions contribute. *)
LEMMA KeptStep ==
  ASSUME NEW S, NEW s \in Seq(S), NEW P
  PROVE  /\ Kept(s, P)[0] = <<>>
         /\ \A n \in 1..Len(s) :
              Kept(s, P)[n] = IF n \in P THEN Append(Kept(s, P)[n - 1], s[n]) ELSE Kept(s, P)[n - 1]
<1> DEFINE k == Kept(s, P)
           body(n) == IF n = 0 THEN <<>> ELSE IF n \in P THEN Append(k[n - 1], s[n]) ELSE k[n - 1]
<1>1. k = [n \in 0..Len(s) |-> body(n)]  BY KeptUnfolds
<1>2. Len(s) \in Nat  OBVIOUS
<1>3. \A n \in 0..Len(s) : k[n] = body(n)
  <2> HIDE DEF k, body
  <2> QED  BY <1>1
<1> QED  BY <1>2, <1>3

(* What is kept of a log are entries of the log. *)
LEMMA KeptType ==
  ASSUME NEW S, NEW s \in Seq(S), NEW P
  PROVE  \A n \in 0..Len(s) : Kept(s, P)[n] \in Seq(S)
<1> DEFINE T == {n \in 0..Len(s) : Kept(s, P)[n] \in Seq(S)}
<1>0. Len(s) \in Nat /\ <<>> \in Seq(S)  OBVIOUS
<1>1. 0 \in T
  <2>1. Kept(s, P)[0] = <<>>  BY KeptStep
  <2>2. Kept(s, P)[0] \in Seq(S)  BY <1>0, <2>1, Zenon
  <2> QED  BY <1>0, <2>2
<1>2. ASSUME NEW n \in 0..Len(s), n # Len(s), n \in T PROVE n + 1 \in T
  <2>1. n + 1 \in 1..Len(s) /\ (n + 1) - 1 = n  BY <1>2
  <2>2. s[n + 1] \in S  BY <2>1
  <2>3. Kept(s, P)[n + 1] = IF n + 1 \in P THEN Append(Kept(s, P)[n], s[n + 1]) ELSE Kept(s, P)[n]
    BY <2>1, KeptStep
  <2>4. PICK a : a = Kept(s, P)[n]  OBVIOUS
  <2>5. a \in Seq(S)  BY <1>2, <2>4
  <2>6. Kept(s, P)[n + 1] \in Seq(S)  BY <2>2, <2>3, <2>4, <2>5
  <2> QED  BY <1>0, <2>1, <2>6
<1>3. 0..Len(s) \subseteq T
  <2> HIDE DEF T
  <2> QED  BY <1>0, <1>1, <1>2, Induction
<1> QED  BY <1>3

(* Two logs contribute the same as far as they and the positions agree. *)
LEMMA KeptAgree ==
  ASSUME NEW S, NEW s \in Seq(S), NEW P, NEW R, NEW r \in Seq(R), NEW Q,
         NEW N \in 0..Len(s), N <= Len(r),
         \A n \in 1..N : s[n] = r[n] /\ (n \in P <=> n \in Q)
  PROVE  Kept(s, P)[N] = Kept(r, Q)[N]
<1> DEFINE T == {n \in 0..N : Kept(s, P)[n] = Kept(r, Q)[n]}
<1>0. N \in Nat /\ Len(s) \in Nat /\ Len(r) \in Nat  OBVIOUS
<1>1. 0 \in T  BY <1>0, KeptStep
<1>2. ASSUME NEW n \in 0..N, n # N, n \in T PROVE n + 1 \in T
  <2>1. n + 1 \in 1..N /\ n + 1 \in 1..Len(s) /\ n + 1 \in 1..Len(r) /\ (n + 1) - 1 = n
    BY <1>0, <1>2
  <2>2. Kept(s, P)[n + 1] = IF n + 1 \in P THEN Append(Kept(s, P)[n], s[n + 1]) ELSE Kept(s, P)[n]
    BY <2>1, KeptStep
  <2>3. Kept(r, Q)[n + 1] = IF n + 1 \in Q THEN Append(Kept(r, Q)[n], r[n + 1]) ELSE Kept(r, Q)[n]
    BY <2>1, KeptStep
  <2>4. Kept(s, P)[n] = Kept(r, Q)[n] /\ s[n + 1] = r[n + 1] /\ (n + 1 \in P <=> n + 1 \in Q)
    BY <1>2, <2>1
  <2>5. Kept(s, P)[n + 1] = Kept(r, Q)[n + 1]  BY <2>2, <2>3, <2>4
  <2> QED  BY <1>0, <2>1, <2>5
<1>3. 0..N \subseteq T
  <2> HIDE DEF T
  <2> QED  BY <1>0, <1>1, <1>2, Induction
<1> QED  BY <1>0, <1>3

(***************************************************************************)
(* What the proofs use of Picked.                                          *)
(***************************************************************************)
LEMMA PickedType ==
  ASSUME NEW S, NEW s \in Seq(S), NEW P
  PROVE  Picked(s, P) \in Seq(S)
BY KeptType DEF Picked

(* Nothing is picked from an empty log. *)
LEMMA PickedFromNone == ASSUME NEW P PROVE Picked(<<>>, P) = <<>>
<1>1. <<>> \in Seq({}) /\ Len(<<>>) = 0  OBVIOUS
<1> QED  BY <1>1, KeptStep DEF Picked

(* Nothing is picked when no position is asked for. *)
LEMMA PickedNone ==
  ASSUME NEW S, NEW s \in Seq(S), NEW P, \A n \in DOMAIN s : n \notin P
  PROVE  Picked(s, P) = <<>>
<1> DEFINE T == {n \in 0..Len(s) : Kept(s, P)[n] = <<>>}
<1>0. Len(s) \in Nat /\ DOMAIN s = 1..Len(s)  OBVIOUS
<1>1. 0 \in T  BY KeptStep
<1>2. ASSUME NEW n \in 0..Len(s), n # Len(s), n \in T PROVE n + 1 \in T
  <2>1. n + 1 \in 1..Len(s) /\ (n + 1) - 1 = n /\ n + 1 \notin P  BY <1>0, <1>2
  <2>2. Kept(s, P)[n + 1] = Kept(s, P)[n]  BY <2>1, KeptStep
  <2> QED  BY <1>2, <2>1, <2>2
<1>3. 0..Len(s) \subseteq T
  <2> HIDE DEF T
  <2> QED  BY <1>0, <1>1, <1>2, Induction
<1> QED  BY <1>0, <1>3 DEF Picked

(* Only which positions of the log are picked matters. *)
LEMMA PickedSame ==
  ASSUME NEW S, NEW s \in Seq(S), NEW P, NEW Q, \A n \in DOMAIN s : n \in P <=> n \in Q
  PROVE  Picked(s, P) = Picked(s, Q)
<1>1. Len(s) \in 0..Len(s) /\ DOMAIN s = 1..Len(s) /\ Len(s) <= Len(s)  OBVIOUS
<1> QED  BY <1>1, KeptAgree DEF Picked

(* A log that grows: the picks made so far stay, and the new entry joins them
   if its position is picked. *)
LEMMA PickedAppend ==
  ASSUME NEW S, NEW s \in Seq(S), NEW e \in S, NEW P
  PROVE  Picked(Append(s, e), P) =
           IF Len(s) + 1 \in P THEN Append(Picked(s, P), e) ELSE Picked(s, P)
<1> DEFINE t == Append(s, e)
           N == Len(s)
<1>1. /\ t \in Seq(S) /\ Len(t) = N + 1 /\ N \in Nat /\ t[N + 1] = e
      /\ \A n \in 1..N : t[n] = s[n]
  OBVIOUS
<1> HIDE DEF t
<1>2. N \in 0..Len(t) /\ N <= Len(s) /\ N + 1 \in 1..Len(t) /\ (N + 1) - 1 = N  BY <1>1
<1>3. Kept(t, P)[N] = Kept(s, P)[N]  BY <1>1, <1>2, KeptAgree
<1>4. Kept(t, P)[N + 1] = IF N + 1 \in P THEN Append(Kept(t, P)[N], t[N + 1]) ELSE Kept(t, P)[N]
  BY <1>1, <1>2, KeptStep
<1>5. Picked(t, P) = Kept(t, P)[N + 1] /\ Picked(s, P) = Kept(s, P)[N]
  BY <1>1 DEF Picked
<1> QED  BY <1>1, <1>3, <1>4, <1>5 DEF t

(* What is picked are entries at picked positions, each of them, and in the
   order of their positions. *)
PickedFrom(s, P, picked, N) ==
  /\ \A k \in DOMAIN picked : \E n \in P \cap (1..N) : picked[k] = s[n]
  /\ \A n \in P \cap (1..N) : \E k \in DOMAIN picked : picked[k] = s[n]

(* What is kept of the first n entries comes from asked positions, in order,
   and misses none: by induction on n. *)
LEMMA FirstPicks ==
  ASSUME NEW S, NEW s \in Seq(S), NEW P
  PROVE  \A n \in 0..Len(s) : PickedFrom(s, P, Kept(s, P)[n], n)
<1> DEFINE T == {n \in 0..Len(s) : PickedFrom(s, P, Kept(s, P)[n], n)}
<1>0. Len(s) \in Nat  OBVIOUS
<1>1. 0 \in T
  <2>1. Kept(s, P)[0] = <<>> /\ 1..0 = {} /\ DOMAIN <<>> = {}  BY KeptStep
  <2> QED  BY <2>1 DEF PickedFrom
<1>2. ASSUME NEW n \in 0..Len(s), n # Len(s), n \in T PROVE n + 1 \in T
  <2>1. n + 1 \in 1..Len(s) /\ (n + 1) - 1 = n /\ 1..(n + 1) = (1..n) \cup {n + 1}  BY <1>0, <1>2
  <2>2. PICK a : a = Kept(s, P)[n]  OBVIOUS
  <2>3. PICK b : b = Kept(s, P)[n + 1]  OBVIOUS
  <2>4. a \in Seq(S) /\ PickedFrom(s, P, a, n)  BY <1>2, <2>2, KeptType
  <2>5. b = IF n + 1 \in P THEN Append(a, s[n + 1]) ELSE a  BY <2>1, <2>2, <2>3, KeptStep
  <2>6. PickedFrom(s, P, b, n + 1)
    <3>1. CASE n + 1 \notin P  BY <2>1, <2>4, <2>5, <3>1 DEF PickedFrom
    <3>2. CASE n + 1 \in P
      <4>1. /\ DOMAIN b = 1..(Len(a) + 1) /\ DOMAIN a = 1..Len(a) /\ Len(a) \in Nat
            /\ \A k \in DOMAIN a : b[k] = a[k]
            /\ b[Len(a) + 1] = s[n + 1]
        BY <2>4, <2>5, <3>2
      <4>2. DOMAIN b = DOMAIN a \cup {Len(a) + 1}  BY <4>1
      <4>3. \A k \in DOMAIN b : \E m \in P \cap (1..(n + 1)) : b[k] = s[m]
        <5> SUFFICES ASSUME NEW k \in DOMAIN b
                     PROVE  \E m \in P \cap (1..(n + 1)) : b[k] = s[m]
          OBVIOUS
        <5>1. CASE k = Len(a) + 1
          <6>1. n + 1 \in P \cap (1..(n + 1))  BY <2>1, <3>2
          <6> QED  BY <4>1, <5>1, <6>1
        <5>2. CASE k \in DOMAIN a
          <6>1. PICK m \in P \cap (1..n) : a[k] = s[m]  BY <2>4, <5>2 DEF PickedFrom
          <6> QED  BY <2>1, <4>1, <5>2, <6>1
        <5> QED  BY <4>2, <5>1, <5>2
      <4>4. \A m \in P \cap (1..(n + 1)) : \E k \in DOMAIN b : b[k] = s[m]
        BY <2>1, <2>4, <4>1, <4>2 DEF PickedFrom
      <4> QED  BY <4>3, <4>4 DEF PickedFrom
    <3> QED  BY <3>1, <3>2
  <2> QED  BY <1>0, <2>1, <2>3, <2>6
<1>3. 0..Len(s) \subseteq T
  <2> HIDE DEF T
  <2> QED  BY <1>0, <1>1, <1>2, Induction
<1> QED  BY <1>3

(* The same of the whole log. *)
LEMMA PickedEntries ==
  ASSUME NEW S, NEW s \in Seq(S), NEW P
  PROVE  PickedFrom(s, P, Picked(s, P), Len(s))
<1>1. Len(s) \in 0..Len(s)  OBVIOUS
<1> QED  BY <1>1, FirstPicks DEF Picked

EndsWith(a, e) == a # <<>> /\ a[Len(a)] = e

(* The last asked position of the log gives the last picked entry. *)
LEMMA PickedLast ==
  ASSUME NEW S, NEW s \in Seq(S), NEW P, NEW i \in 1..Len(s), i \in P, \A j \in 1..Len(s) : j \in P => j <= i
  PROVE  EndsWith(Picked(s, P), s[i])
<1> DEFINE T == {n \in 0..Len(s) : i <= n => EndsWith(Kept(s, P)[n], s[i])}
<1>0. Len(s) \in Nat  OBVIOUS
<1>1. 0 \in T  BY <1>0
<1>2. ASSUME NEW n \in 0..Len(s), n # Len(s), n \in T PROVE n + 1 \in T
  <2>1. n \in Nat /\ n + 1 \in 1..Len(s) /\ n + 1 \in 0..Len(s) /\ (n + 1) - 1 = n  BY <1>0, <1>2
  <2>2. PICK a : a = Kept(s, P)[n]  OBVIOUS
  <2>3. PICK b : b = Kept(s, P)[n + 1]  OBVIOUS
  <2>4. a \in Seq(S)  BY <1>2, <2>2, KeptType
  <2>5. b = IF n + 1 \in P THEN Append(a, s[n + 1]) ELSE a  BY <2>1, <2>2, <2>3, KeptStep
  <2>6. CASE n + 1 = i
    <3>1. b = Append(a, s[i]) /\ s[i] \in S  BY <2>5, <2>6
    <3>2. b # <<>> /\ b[Len(b)] = s[i]  BY <2>4, <3>1
    <3> QED  BY <1>0, <2>1, <2>3, <3>2 DEF EndsWith
  <2>7. CASE n + 1 > i
    <3>1. n + 1 \notin P  BY <1>0, <2>1, <2>7
    <3>2. b = a /\ i <= n  BY <1>0, <2>1, <2>5, <2>7, <3>1
    <3>3. EndsWith(a, s[i])  BY <1>2, <2>2, <3>2
    <3>4. EndsWith(Kept(s, P)[n + 1], s[i])  BY <2>3, <3>2, <3>3
    <3> QED  BY <2>1, <3>4
  <2>8. CASE n + 1 < i  BY <1>0, <2>1, <2>8
  <2> QED  BY <1>0, <2>1, <2>6, <2>7, <2>8
<1>3. 0..Len(s) \subseteq T
  <2> HIDE DEF T
  <2> QED  BY <1>0, <1>1, <1>2, Induction
<1> QED  BY <1>0, <1>3 DEF Picked

(* A log whose entries climb in some measure keeps climbing when picked. *)
Climbs(s, V) == \A m, n \in DOMAIN s : m < n => V[s[m]] < V[s[n]]

(* What is picked from a log whose values climb climbs, too. *)
LEMMA PickedClimbs ==
  ASSUME NEW S, NEW s \in Seq(S), NEW P, NEW V \in [S -> Int], Climbs(s, V)
  PROVE  Climbs(Picked(s, P), V)
<1> DEFINE T == {n \in 0..Len(s) : Climbs(Kept(s, P)[n], V)}
<1>0. Len(s) \in Nat  OBVIOUS
<1>1. 0 \in T
  <2>1. Kept(s, P)[0] = <<>> /\ 1..0 = {} /\ DOMAIN <<>> = {}  BY KeptStep
  <2> QED  BY <2>1 DEF Climbs
<1>2. ASSUME NEW n \in 0..Len(s), n # Len(s), n \in T PROVE n + 1 \in T
  <2>1. n + 1 \in 1..Len(s) /\ (n + 1) - 1 = n /\ 1..n \subseteq 1..Len(s)  BY <1>0, <1>2
  <2>2. PICK a : a = Kept(s, P)[n]  OBVIOUS
  <2>3. PICK b : b = Kept(s, P)[n + 1]  OBVIOUS
  <2>4. a \in Seq(S) /\ PickedFrom(s, P, a, n) /\ Climbs(a, V)  BY <1>2, <2>2, KeptType, FirstPicks
  <2>5. b = IF n + 1 \in P THEN Append(a, s[n + 1]) ELSE a  BY <2>1, <2>2, <2>3, KeptStep
  <2>6. Climbs(b, V)
    <3>1. CASE n + 1 \notin P  BY <2>4, <2>5, <3>1
    <3>2. CASE n + 1 \in P
      <4>1. /\ DOMAIN b = 1..(Len(a) + 1) /\ DOMAIN a = 1..Len(a) /\ Len(a) \in Nat
            /\ \A k \in DOMAIN a : b[k] = a[k]
            /\ b[Len(a) + 1] = s[n + 1]
        BY <2>4, <2>5, <3>2
      <4>2. \A k \in DOMAIN a : V[a[k]] < V[s[n + 1]]
        <5> SUFFICES ASSUME NEW k \in DOMAIN a PROVE V[a[k]] < V[s[n + 1]]  OBVIOUS
        <5>1. PICK m \in 1..n : a[k] = s[m]  BY <2>4 DEF PickedFrom
        <5>2. m \in DOMAIN s /\ n + 1 \in DOMAIN s /\ m < n + 1  BY <1>0, <2>1
        <5> QED  BY <5>1, <5>2 DEF Climbs
      <4> SUFFICES ASSUME NEW i \in DOMAIN b, NEW k \in DOMAIN b, i < k
                   PROVE  V[b[i]] < V[b[k]]
        BY DEF Climbs
      <4>3. i \in DOMAIN a  BY <4>1
      <4>4. CASE k \in DOMAIN a  BY <2>4, <4>1, <4>3, <4>4 DEF Climbs
      <4>5. CASE k = Len(a) + 1  BY <4>1, <4>2, <4>3, <4>5
      <4> QED  BY <4>1, <4>4, <4>5
    <3> QED  BY <3>1, <3>2
  <2> QED  BY <1>0, <2>1, <2>3, <2>6
<1>3. 0..Len(s) \subseteq T
  <2> HIDE DEF T
  <2> QED  BY <1>0, <1>1, <1>2, Induction
<1> QED  BY <1>0, <1>3 DEF Picked

----------------------------------------------------------------------------
(* Sums over a log are integers; the recursive function is defined for the
   same reason as above. *)
LEMMA SumUnfolds ==
  ASSUME NEW N \in Nat, NEW w
  PROVE  SumUpTo(w, N) = [n \in 0..N |-> IF n = 0 THEN 0 ELSE SumUpTo(w, N)[n - 1] + w[n]]
<1> DEFINE body(f, n) == IF n = 0 THEN 0 ELSE f[n - 1] + w[n]
           upTo(f, M) == f = [n \in 0..M |-> body(f, n)]
           T == {M \in 0..N : \E f : upTo(f, M)}
<1>1. 0 \in T
  <2> DEFINE g == [n \in 0..0 |-> 0]
  <2>1. upTo(g, 0)  OBVIOUS
  <2> HIDE DEF g, upTo
  <2> QED  BY <2>1
<1>2. ASSUME NEW M \in 0..N, M # N, M \in T PROVE M + 1 \in T
  <2>1. PICK f : upTo(f, M)  BY <1>2
  <2> DEFINE g == [n \in 0..(M + 1) |-> body(f, n)]
  <2>2. \A n \in 0..M : g[n] = f[n]
    <3>1. \A n \in 0..M : f[n] = body(f, n)  BY <2>1
    <3> QED  BY <3>1
  <2>3. \A n \in 0..(M + 1) : body(g, n) = body(f, n)
    <3> SUFFICES ASSUME NEW n \in 0..(M + 1) PROVE body(g, n) = body(f, n)  OBVIOUS
    <3>1. CASE n = 0  BY <3>1
    <3>2. CASE n # 0
      <4>1. n - 1 \in 0..M  BY <3>2
      <4>2. g[n - 1] = f[n - 1]  BY <2>2, <4>1
      <4> HIDE DEF g
      <4> QED  BY <3>2, <4>2
    <3> QED  BY <3>1, <3>2
  <2>4. upTo(g, M + 1)
    <3>1. g = [n \in 0..(M + 1) |-> body(f, n)]  OBVIOUS
    <3>2. [n \in 0..(M + 1) |-> body(f, n)] = [n \in 0..(M + 1) |-> body(g, n)]
      <4> HIDE DEF g, body
      <4> QED  BY <2>3
    <3> HIDE DEF g, body
    <3> QED  BY <3>1, <3>2
  <2>5. M + 1 \in 0..N  BY <1>2
  <2> HIDE DEF g, upTo
  <2> QED  BY <2>4, <2>5
<1>3. 0..N \subseteq T
  <2> HIDE DEF T
  <2> QED  BY <1>1, <1>2, Induction
<1>4. \E f : upTo(f, N)  BY <1>3
<1>5. SumUpTo(w, N) = CHOOSE f : upTo(f, N)  BY DEF SumUpTo
<1>6. upTo(SumUpTo(w, N), N)
  <2> HIDE DEF upTo
  <2> QED  BY <1>4, <1>5
<1> QED  BY <1>6

(* A sum of integers is an integer. *)
LEMMA SumType ==
  ASSUME NEW N \in Nat, NEW w \in [1..N -> Int]
  PROVE  SumOf(w, N) \in Int
<1> DEFINE k == SumUpTo(w, N)
           body(n) == IF n = 0 THEN 0 ELSE k[n - 1] + w[n]
           T == {n \in 0..N : k[n] \in Int}
<1>1. k = [n \in 0..N |-> body(n)]  BY SumUnfolds
<1>2. \A n \in 0..N : k[n] = body(n)
  <2> HIDE DEF k, body
  <2> QED  BY <1>1
<1> HIDE DEF k
<1>3. 0 \in T  BY <1>2
<1>4. ASSUME NEW n \in 0..N, n # N, n \in T PROVE n + 1 \in T
  <2>1. n + 1 \in 1..N /\ (n + 1) - 1 = n  BY <1>4
  <2>2. k[n + 1] = k[n] + w[n + 1]  BY <1>2, <2>1
  <2> QED  BY <1>4, <2>1, <2>2
<1>5. 0..N \subseteq T
  <2> HIDE DEF T
  <2> QED  BY <1>3, <1>4, Induction
<1> QED  BY <1>5 DEF SumOf, k

----------------------------------------------------------------------------
(* A chain of gates is answered by its first closed gate, or goes through. *)
LEMMA ChainAnswers ==
  ASSUME NEW gates, DOMAIN gates \in SUBSET Nat, NEW otherwise,
         NEW answer, answer = FirstClosed(gates, otherwise)
  PROVE  \/ answer = otherwise /\ \A i \in DOMAIN gates : ~ gates[i].closed
         \/ \E i \in DOMAIN gates :
              /\ gates[i].closed /\ answer = gates[i].answer
              /\ \A j \in DOMAIN gates : j < i => ~ gates[j].closed
<1> DEFINE closed == {i \in DOMAIN gates : gates[i].closed}
<1>1. CASE closed = {}  BY <1>1 DEF FirstClosed
<1>2. CASE closed # {}
  <2>1. closed \in SUBSET Nat  OBVIOUS
  <2>2. \E i \in closed : \A j \in closed : i <= j
    <3> HIDE DEF closed
    <3> QED  BY <1>2, <2>1, LeastNatural
  <2>3. Earliest(closed) \in closed /\ \A j \in closed : Earliest(closed) <= j
    <3> HIDE DEF closed
    <3> QED  BY <2>2 DEF Earliest
  <2>4. answer = gates[Earliest(closed)].answer
    BY <1>2 DEF FirstClosed
  <2>5. PICK i : i = Earliest(closed)  OBVIOUS
  <2>6. i \in DOMAIN gates /\ gates[i].closed /\ \A j \in closed : i <= j  BY <2>3, <2>5
  <2>7. \A j \in DOMAIN gates : j < i => ~ gates[j].closed  BY <2>6
  <2> QED  BY <2>4, <2>5, <2>6, <2>7
<1> QED  BY <1>1, <1>2

(* A chain whose closed gates answer something else goes through only when all
   of its gates are open. *)
LEMMA ChainOpen ==
  ASSUME NEW gates, DOMAIN gates \in SUBSET Nat,
         NEW answer, answer = FirstClosed(gates, answer),
         \A i \in DOMAIN gates : gates[i].answer # answer
  PROVE  \A i \in DOMAIN gates : ~ gates[i].closed
BY ChainAnswers

(* A chain more of whose gates are closed answers at the same gate or earlier. *)
LEMMA ChainCloses ==
  ASSUME NEW g, NEW h, DOMAIN g \in SUBSET Nat, DOMAIN h = DOMAIN g,
         \A i \in DOMAIN g : h[i].closed => g[i].closed,
         NEW x, NEW y, NEW a, NEW b, a = FirstClosed(g, x), b = FirstClosed(h, y)
  PROVE  \/ b = y /\ \A i \in DOMAIN h : ~ h[i].closed
         \/ \E i, j \in DOMAIN g : /\ i <= j /\ g[i].closed /\ h[j].closed
                                   /\ a = g[i].answer /\ b = h[j].answer
<1>1. CASE b = y /\ \A i \in DOMAIN h : ~ h[i].closed  BY <1>1
<1>2. CASE \E j \in DOMAIN h : /\ h[j].closed /\ b = h[j].answer
                               /\ \A k \in DOMAIN h : k < j => ~ h[k].closed
  <2>1. PICK j \in DOMAIN g : h[j].closed /\ b = h[j].answer  BY <1>2
  <2>2. g[j].closed  BY <2>1
  <2>3. PICK i \in DOMAIN g : g[i].closed /\ a = g[i].answer /\ \A k \in DOMAIN g : k < i => ~ g[k].closed
    BY <2>2, ChainAnswers
  <2>4. i <= j
    <3>1. i \in Nat /\ j \in Nat /\ ~(j < i)  BY <2>2, <2>3
    <3> QED  BY <3>1
  <2> QED  BY <2>1, <2>3, <2>4
<1> QED  BY <1>1, <1>2, ChainAnswers

(* A chain none of whose gates answers what is left when all are open. *)
LEMMA ChainRefuses ==
  ASSUME NEW g, DOMAIN g \in SUBSET Nat, NEW good, NEW bad, \A i \in DOMAIN g : g[i].answer \in bad,
         NEW a, a = FirstClosed(g, good)
  PROVE  /\ (\A i \in DOMAIN g : ~ g[i].closed) => a = good
         /\ (\E i \in DOMAIN g : g[i].closed) => a \in bad
BY ChainAnswers

(* A chain that none of its gates passes passes on what comes behind it. *)
LEMMA ChainPasses ==
  ASSUME NEW g, DOMAIN g \in SUBSET Nat, \A i \in DOMAIN g : g[i].answer.status # "pass",
         NEW otherwise, NEW a, a = FirstClosed(g, otherwise)
  PROVE  a.status = "pass" <=> (\A i \in DOMAIN g : ~ g[i].closed) /\ otherwise.status = "pass"
<1>1. \/ a = otherwise /\ \A i \in DOMAIN g : ~ g[i].closed
      \/ \E i \in DOMAIN g : g[i].closed /\ a = g[i].answer
  BY ChainAnswers
<1> QED  BY <1>1

----------------------------------------------------------------------------
(* The positions of a log whose entries are in a set. *)
PositionsOf(s, A) == {n \in DOMAIN s : s[n] \in A}

(* What is picked from an extended log, by its entries. *)
LEMMA PickedAppendMember ==
  ASSUME NEW S, NEW s \in Seq(S), NEW e \in S, NEW A
  PROVE  Picked(Append(s, e), PositionsOf(Append(s, e), A)) =
           IF e \in A THEN Append(Picked(s, PositionsOf(s, A)), e) ELSE Picked(s, PositionsOf(s, A))
<1>1. PICK t : t = Append(s, e)  OBVIOUS
<1>2. t \in Seq(S) /\ Len(t) = Len(s) + 1 /\ t[Len(s) + 1] = e /\ Len(s) \in Nat /\ \A n \in DOMAIN s : t[n] = s[n]
  BY <1>1
<1>3. PICK P : P = PositionsOf(t, A)  OBVIOUS
<1>4. Len(s) + 1 \in P <=> e \in A
  <2>1. Len(s) + 1 \in DOMAIN t  BY <1>2
  <2> QED  BY <1>2, <1>3, <2>1 DEF PositionsOf
<1>5. \A n \in DOMAIN s : n \in P <=> n \in PositionsOf(s, A)
  <2>1. \A n \in DOMAIN s : n \in DOMAIN t  BY <1>2
  <2> QED  BY <1>2, <1>3, <2>1 DEF PositionsOf
<1>6. Picked(s, P) = Picked(s, PositionsOf(s, A))  BY <1>5, PickedSame
<1>7. Picked(Append(s, e), P) = IF Len(s) + 1 \in P THEN Append(Picked(s, P), e) ELSE Picked(s, P)
  BY PickedAppend
<1> QED  BY <1>1, <1>3, <1>4, <1>6, <1>7

(* Picking twice picks what is in both sets. *)
LEMMA PickedTwice ==
  ASSUME NEW S, NEW s \in Seq(S), NEW A, NEW B,
         NEW once, once = Picked(s, PositionsOf(s, A))
  PROVE  Picked(once, PositionsOf(once, B)) = Picked(s, PositionsOf(s, A \cap B))
<1>1. PICK P : P = PositionsOf(s, A)  OBVIOUS
<1>2. PICK Q : Q = PositionsOf(s, A \cap B)  OBVIOUS
<1>3. PICK k : k = Kept(s, P)  OBVIOUS
<1>4. PICK l : l = Kept(s, Q)  OBVIOUS
<1> DEFINE Twice(t) == Picked(t, PositionsOf(t, B))
           T == {n \in 0..Len(s) : Twice(k[n]) = l[n]}
<1>0. Len(s) \in Nat /\ DOMAIN s = 1..Len(s)  OBVIOUS
<1>5. 0 \in T
  <2>1. k[0] = <<>> /\ l[0] = <<>>  BY <1>3, <1>4, KeptStep
  <2>2. PICK none : none = <<>>  OBVIOUS
  <2>3. Twice(none) = <<>>  BY <2>2, PickedFromNone
  <2> QED  BY <1>0, <2>1, <2>2, <2>3
<1>6. ASSUME NEW n \in 0..Len(s), n # Len(s), n \in T PROVE n + 1 \in T
  <2>1. n + 1 \in 1..Len(s) /\ n + 1 \in 0..Len(s) /\ (n + 1) - 1 = n
    <3>1. PICK N \in Nat : N = Len(s)  BY <1>0
    <3>2. n \in 0..N /\ n # N  BY <1>6, <3>1, Zenon
    <3>3. n + 1 \in 1..N /\ n + 1 \in 0..N /\ (n + 1) - 1 = n  BY <3>1, <3>2
    <3> QED  BY <3>1, <3>3
  <2>2. PICK t : t = k[n]  OBVIOUS
  <2>3. PICK e : e = s[n + 1]  OBVIOUS
  <2>4. t \in Seq(S) /\ e \in S
    <3>1. t \in Seq(S)  BY <1>3, <1>6, <2>2, KeptType
    <3> QED  BY <2>1, <2>3, <3>1
  <2>5. /\ k[n + 1] = IF n + 1 \in P THEN Append(t, e) ELSE t
        /\ l[n + 1] = IF n + 1 \in Q THEN Append(l[n], e) ELSE l[n]
    BY <1>3, <1>4, <2>1, <2>2, <2>3, KeptStep
  <2>6. (n + 1 \in P <=> e \in A) /\ (n + 1 \in Q <=> e \in A /\ e \in B)
    BY <1>0, <1>1, <1>2, <2>1, <2>3 DEF PositionsOf
  <2>7. Twice(t) = l[n]  BY <1>6, <2>2
  <2>8. Twice(Append(t, e)) = IF e \in B THEN Append(Twice(t), e) ELSE Twice(t)
    BY <2>4, PickedAppendMember
  <2> HIDE DEF Twice
  <2>9. Twice(k[n + 1]) = l[n + 1]
    <3>1. CASE e \notin A  BY <2>5, <2>6, <2>7, <3>1
    <3>2. CASE e \in A /\ e \in B  BY <2>5, <2>6, <2>7, <2>8, <3>2
    <3>3. CASE e \in A /\ e \notin B  BY <2>5, <2>6, <2>7, <2>8, <3>3
    <3> QED  BY <3>1, <3>2, <3>3
  <2> QED  BY <2>1, <2>9
<1>7. 0..Len(s) \subseteq T
  <2> HIDE DEF T
  <2> QED  BY <1>0, <1>5, <1>6, Induction
<1>8. Twice(k[Len(s)]) = l[Len(s)]
  <2> HIDE DEF Twice
  <2> QED  BY <1>0, <1>7
<1>9. once = k[Len(s)] /\ l[Len(s)] = Picked(s, Q)  BY <1>1, <1>3, <1>4 DEF Picked
<1> QED  BY <1>2, <1>8, <1>9

(* A log whose entries are replaced one by one. *)
Mapped(s, f) == [n \in DOMAIN s |-> f[s[n]]]

(* Replacing entries gives a log of the same length. *)
LEMMA MappedIsLog ==
  ASSUME NEW S, NEW s \in Seq(S), NEW f \in [S -> S]
  PROVE  Mapped(s, f) \in Seq(S) /\ Len(Mapped(s, f)) = Len(s) /\ DOMAIN Mapped(s, f) = DOMAIN s
BY DEF Mapped

(* The replaced log grows with the log. *)
LEMMA MappedAppend ==
  ASSUME NEW S, NEW s \in Seq(S), NEW e \in S, NEW f \in [S -> S]
  PROVE  Mapped(Append(s, e), f) = Append(Mapped(s, f), f[e])
<1>1. PICK t : t = Append(s, e)  OBVIOUS
<1>2. PICK m : m = Mapped(s, f)  OBVIOUS
<1>3. /\ t \in Seq(S) /\ Len(t) = Len(s) + 1 /\ t[Len(s) + 1] = e /\ Len(s) \in Nat
      /\ \A n \in 1..Len(s) : t[n] = s[n]
  BY <1>1
<1>4. m \in Seq(S) /\ Len(m) = Len(s) /\ \A n \in 1..Len(s) : m[n] = f[s[n]]
  <2>1. m \in Seq(S) /\ Len(m) = Len(s)  BY <1>2, MappedIsLog
  <2>2. \A n \in 1..Len(s) : m[n] = f[s[n]]  BY <1>2 DEF Mapped
  <2> QED  BY <2>1, <2>2
<1>5. PICK u : u = Append(m, f[e])  OBVIOUS
<1>6. /\ u \in Seq(S) /\ DOMAIN u = 1..(Len(s) + 1) /\ u[Len(s) + 1] = f[e]
      /\ \A n \in 1..Len(s) : u[n] = m[n]
  BY <1>3, <1>4, <1>5
<1>7. PICK v : v = Mapped(t, f)  OBVIOUS
<1>8. v = [n \in 1..(Len(s) + 1) |-> f[t[n]]]
  <2>1. DOMAIN t = 1..(Len(s) + 1)  BY <1>3
  <2> QED  BY <1>7, <2>1 DEF Mapped
<1>9. \A n \in 1..(Len(s) + 1) : f[t[n]] = u[n]
  <2>1. TAKE n \in 1..(Len(s) + 1)
  <2>2. CASE n = Len(s) + 1  BY <1>3, <1>6, <2>2
  <2>3. CASE n # Len(s) + 1
    <3>1. n \in 1..Len(s)  BY <1>3, <2>3
    <3> QED  BY <1>3, <1>4, <1>6, <3>1
  <2> QED  BY <2>2, <2>3
<1>10. u = [n \in 1..(Len(s) + 1) |-> u[n]]  BY <1>6
<1>11. v = u  BY <1>8, <1>9, <1>10
<1> QED  BY <1>1, <1>2, <1>5, <1>7, <1>11

(* Picking from the replaced entries picks the replacements. *)
LEMMA PickedMapped ==
  ASSUME NEW S, NEW s \in Seq(S), NEW f \in [S -> S], NEW P
  PROVE  Picked(Mapped(s, f), P) = Mapped(Picked(s, P), f)
<1>1. PICK m : m = Mapped(s, f)  OBVIOUS
<1>2. m \in Seq(S) /\ Len(m) = Len(s) /\ \A n \in 1..Len(s) : m[n] = f[s[n]]
  <2>1. m \in Seq(S) /\ Len(m) = Len(s)  BY <1>1, MappedIsLog
  <2>2. \A n \in 1..Len(s) : m[n] = f[s[n]]  BY <1>1 DEF Mapped
  <2> QED  BY <2>1, <2>2
<1>3. PICK k : k = Kept(s, P)  OBVIOUS
<1>4. PICK l : l = Kept(m, P)  OBVIOUS
<1> DEFINE T == {n \in 0..Len(s) : l[n] = Mapped(k[n], f)}
<1>0. Len(s) \in Nat  OBVIOUS
<1>5. 0 \in T
  <2>1. k[0] = <<>>  BY <1>3, KeptStep
  <2>2. l[0] = <<>>  BY <1>2, <1>4, KeptStep
  <2>3. Mapped(<<>>, f) = <<>>  BY DEF Mapped
  <2> QED  BY <1>0, <2>1, <2>2, <2>3
<1>6. ASSUME NEW n \in 0..Len(s), n # Len(s), n \in T PROVE n + 1 \in T
  <2>1. n + 1 \in 1..Len(s) /\ n + 1 \in 0..Len(s) /\ (n + 1) - 1 = n  BY <1>0, <1>6
  <2>2. PICK t : t = k[n]  OBVIOUS
  <2>3. PICK e : e = s[n + 1]  OBVIOUS
  <2>4. t \in Seq(S) /\ e \in S
    <3>1. t \in Seq(S)  BY <1>3, <1>6, <2>2, KeptType
    <3> QED  BY <2>1, <2>3, <3>1
  <2>5. k[n + 1] = IF n + 1 \in P THEN Append(t, e) ELSE t  BY <1>3, <2>1, <2>2, <2>3, KeptStep
  <2>6. l[n + 1] = IF n + 1 \in P THEN Append(l[n], f[e]) ELSE l[n]
    <3>1. m[n + 1] = f[e]  BY <1>2, <2>1, <2>3
    <3> QED  BY <1>2, <1>4, <2>1, <3>1, KeptStep
  <2>7. l[n] = Mapped(t, f)  BY <1>6, <2>2
  <2>8. Mapped(Append(t, e), f) = Append(Mapped(t, f), f[e])  BY <2>4, MappedAppend
  <2>9. l[n + 1] = Mapped(k[n + 1], f)
    <3>1. CASE n + 1 \in P  BY <2>5, <2>6, <2>7, <2>8, <3>1
    <3>2. CASE n + 1 \notin P  BY <2>5, <2>6, <2>7, <3>2
    <3> QED  BY <3>1, <3>2
  <2> QED  BY <2>1, <2>9
<1>7. 0..Len(s) \subseteq T
  <2> HIDE DEF T
  <2> QED  BY <1>0, <1>5, <1>6, Induction
<1>8. l[Len(s)] = Mapped(k[Len(s)], f)  BY <1>0, <1>7
<1> QED  BY <1>1, <1>2, <1>3, <1>4, <1>8 DEF Picked
=============================================================================
