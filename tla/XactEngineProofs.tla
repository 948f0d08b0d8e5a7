-------------------------- MODULE XactEngineProofs --------------------------
(***************************************************************************)
(* XactEngine for any sets of engines, banks, cues and descriptions, any   *)
(* queue capacity and any order of calls: an engine lives as long as what  *)
(* it counts, and what the guest reads in a notification is true.          *)
(*                                                                         *)
(* The lists of the model are gone through with FoldLeft.  What a fold     *)
(* yields is proved by induction on the prefixes of the list, and the      *)
(* induction is one on sets: of the positions at which a claim fails, the  *)
(* least (WFMin) has a predecessor at which it holds.                      *)
(***************************************************************************)
EXTENDS XactEngine, FiniteSetTheorems, WellFoundedInduction, TLAPS

(* Induction up to a bound, on the set of what satisfies the claim. *)
LEMMA UpTo ==
    ASSUME NEW n \in Nat, NEW I, 0 \in I, \A k \in 1..n : k - 1 \in I => k \in I
    PROVE  0..n \subseteq I
<1> DEFINE Bad == {k \in Nat : k <= n /\ k \notin I}
<1>1. SUFFICES ASSUME Bad # {} PROVE FALSE
  BY <1>1
<1>2. Bad \subseteq Nat
  OBVIOUS
<1>3. PICK x \in Bad : \A y \in Bad : ~(<<y, x>> \in OpToRel(<, Nat))
  <2> HIDE DEF Bad
  <2> QED
    BY <1>1, <1>2, NatLessThanWellFounded, WFMin, Zenon
<1>4. \A y \in Bad : ~(y < x)
  BY <1>2, <1>3 DEF OpToRel
<1>5. x \in Nat /\ x <= n /\ x \notin I
  BY <1>3
<1>6. x # 0
  BY <1>5
<1>7. x \in 1..n /\ x - 1 \in Nat /\ x - 1 < x /\ x - 1 <= n
  BY <1>5, <1>6
<1>8. x - 1 \in I
  <2> SUFFICES ASSUME x - 1 \notin I PROVE FALSE
    OBVIOUS
  <2>1. x - 1 \in Bad
    BY <1>7
  <2> QED
    BY <2>1, <1>4, <1>7
<1>9. QED
  BY <1>5, <1>7, <1>8

LEMMA MaxUpTo ==
    ASSUME NEW n \in Nat, NEW S \in SUBSET (1..n), S # {}
    PROVE  Max(S) \in S /\ \A y \in S : y <= Max(S)
<1> DEFINE Bound == {k \in Nat : \A y \in S : y <= k}
<1>1. Bound \subseteq Nat /\ n \in Bound
  BY SMT
<1>2. PICK x \in Bound : \A y \in Bound : ~(<<y, x>> \in OpToRel(<, Nat))
  <2> HIDE DEF Bound
  <2> QED
    BY <1>1, NatLessThanWellFounded, WFMin, Zenon
<1>3. \A y \in Bound : ~(y < x)
  BY <1>1, <1>2 DEF OpToRel
<1>4. x \in S
  <2> SUFFICES ASSUME x \notin S PROVE FALSE
    OBVIOUS
  <2>1. PICK z \in S : TRUE
    OBVIOUS
  <2>2. x \in Nat /\ \A y \in S : y <= x
    BY <1>2
  <2>3. \A y \in S : y \in Nat /\ y >= 1 /\ y # x
    BY SMT
  <2>4. \A y \in S : y < x
    BY <2>2, <2>3
  <2>5. z < x /\ z >= 1 /\ z \in Nat
    BY <2>3, <2>4
  <2>6. x - 1 \in Nat /\ x - 1 < x
    BY <2>2, <2>5
  <2>7. \A y \in S : y <= x - 1
    BY <2>2, <2>3, <2>4
  <2>8. x - 1 \in Bound
    BY <2>6, <2>7
  <2> QED
    BY <2>6, <2>8, <1>3
<1>5. \A y \in S : x >= y
  BY <1>2
<1> QED
  BY <1>4, <1>5 DEF Max

LEMMA Prefix ==
    ASSUME NEW n \in Nat, NEW i \in 1..n
    PROVE  /\ 1..i \in SUBSET (1..n) /\ 1..i # {} /\ Max(1..i) = i
           /\ (1..i) \ {i} = 1..(i - 1)
<1>1. i \in Nat /\ i <= n /\ i >= 1
  OBVIOUS
<1>2. 1..i \in SUBSET (1..n) /\ i \in 1..i
  BY <1>1, SMT
<1>3. 1..i # {}
  BY <1>2
<1>4. Max(1..i) \in 1..i /\ i <= Max(1..i)
  BY <1>2, <1>3, MaxUpTo
<1>5. Max(1..i) = i
  BY <1>1, <1>4
<1>6. (1..i) \ {i} = 1..(i - 1)
  BY <1>1
<1> QED
  BY <1>2, <1>3, <1>5, <1>6

(* g is what a fold accumulates over each set of positions, the largest of
   them last; h says what a step makes of what there is at a position. *)
Folds(g, A, base, n, h) ==
    /\ g \in [SUBSET (1..n) -> A]
    /\ \A S \in SUBSET (1..n) :
          g[S] = IF S = {} THEN base ELSE h[<<g[S \ {Max(S)}], Max(S)>>]

LEMMA FoldExists ==
    ASSUME NEW A, NEW base \in A, NEW n \in Nat, NEW h \in [A \X (1..n) -> A]
    PROVE  \E g : Folds(g, A, base, n, h)
<1> DEFINE Good(g, k) ==
              \A S \in SUBSET (1..k) :
                 g[S] = IF S = {} THEN base ELSE h[<<g[S \ {Max(S)}], Max(S)>>]
           I == {k \in 0..n : \E g \in [SUBSET (1..k) -> A] : Good(g, k)}
<1>1. 0 \in I
  <2> DEFINE g == [S \in SUBSET (1..0) |-> base]
  <2>1. \A S \in SUBSET (1..0) : S = {}
    BY SMT
  <2>2. g \in [SUBSET (1..0) -> A] /\ Good(g, 0)
    BY <2>1
  <2>3. 0 \in 0..n
    OBVIOUS
  <2> QED
    BY <2>2, <2>3
<1>2. ASSUME NEW k \in 1..n, k - 1 \in I PROVE k \in I
  <2>1. PICK f \in [SUBSET (1..(k - 1)) -> A] : Good(f, k - 1)
    BY <1>2
  <2> DEFINE g == [S \in SUBSET (1..k) |-> IF k \in S THEN h[<<f[S \ {k}], k>>] ELSE f[S]]
  <2>2. ASSUME NEW S \in SUBSET (1..k)
        PROVE  /\ k \in S => S \ {k} \in SUBSET (1..(k - 1)) /\ Max(S) = k
               /\ k \notin S => S \in SUBSET (1..(k - 1))
               /\ k \notin S /\ S # {} => Max(S) \in S /\ S \ {Max(S)} \in SUBSET (1..(k - 1))
    <3>1. k \in Nat
      OBVIOUS
    <3>2. k \notin S => S \in SUBSET (1..(k - 1))
      BY SMT
    <3>3. k \in S => S \ {k} \in SUBSET (1..(k - 1))
      BY SMT
    <3>4. S # {} => Max(S) \in S /\ \A y \in S : y <= Max(S)
      BY <3>1, MaxUpTo
    <3>5. k \in S => Max(S) = k
      <4> SUFFICES ASSUME k \in S PROVE Max(S) = k
        OBVIOUS
      <4>1. Max(S) \in S /\ k <= Max(S)
        BY <3>4
      <4>2. Max(S) \in 1..k
        BY <4>1
      <4> QED
        BY <4>1, <4>2
    <3> QED
      BY <3>2, <3>3, <3>4, <3>5
  <2>3. g \in [SUBSET (1..k) -> A]
    <3> SUFFICES ASSUME NEW S \in SUBSET (1..k)
                 PROVE (IF k \in S THEN h[<<f[S \ {k}], k>>] ELSE f[S]) \in A
      OBVIOUS
    <3>1. CASE k \in S
      <4>1. f[S \ {k}] \in A
        BY <3>1, <2>2, <2>1
      <4> QED
        BY <3>1, <4>1
    <3>2. CASE k \notin S
      BY <3>2, <2>2, <2>1
    <3> QED
      BY <3>1, <3>2
  <2>4. ASSUME NEW S \in SUBSET (1..k)
        PROVE  g[S] = IF S = {} THEN base ELSE h[<<g[S \ {Max(S)}], Max(S)>>]
    <3>1. CASE k \in S
      <4>1. S \ {k} \in SUBSET (1..k) /\ k \notin S \ {k} /\ Max(S) = k /\ S # {}
        BY <3>1, <2>2
      <4>2. g[S] = h[<<f[S \ {k}], k>>]
        BY <3>1
      <4>3. g[S \ {k}] = f[S \ {k}]
        BY <4>1
      <4> HIDE DEF g
      <4> QED
        BY <4>1, <4>2, <4>3
    <3>2. CASE k \notin S /\ S # {}
      <4>1. /\ S \in SUBSET (1..(k - 1)) /\ S \ {Max(S)} \in SUBSET (1..k)
            /\ k \notin S \ {Max(S)} /\ S \ {Max(S)} \in SUBSET (1..(k - 1))
        BY <3>2, <2>2
      <4>2. g[S] = f[S] /\ g[S \ {Max(S)}] = f[S \ {Max(S)}]
        BY <3>2, <4>1
      <4>3. f[S] = h[<<f[S \ {Max(S)}], Max(S)>>]
        BY <2>1, <4>1, <3>2
      <4> HIDE DEF g
      <4> QED
        BY <3>2, <4>2, <4>3
    <3>3. CASE k \notin S /\ S = {}
      <4>1. g[S] = f[S] /\ S \in SUBSET (1..(k - 1))
        BY <3>3
      <4>2. f[S] = base
        BY <4>1, <2>1, <3>3
      <4> HIDE DEF g
      <4> QED
        BY <4>1, <4>2, <3>3
    <3> QED
      BY <3>1, <3>2, <3>3
  <2>5. Good(g, k)
    BY <2>4
  <2> HIDE DEF g, Good
  <2> QED
    BY <2>3, <2>5
<1>3. n \in I
  <2>1. \A k \in 1..n : k - 1 \in I => k \in I
    BY <1>2
  <2> HIDE DEF I
  <2>2. 0..n \subseteq I
    BY <1>1, <2>1, UpTo
  <2> QED
    BY <2>2
<1>4. PICK g \in [SUBSET (1..n) -> A] : Good(g, n)
  BY <1>3
<1>5. Folds(g, A, base, n, h)
  BY <1>4 DEF Folds
<1> QED
  BY <1>5

(* G tells what Only has kept of each prefix of the list. *)
Keeping(G, T, s, S) ==
    /\ G \in [0..Len(s) -> Seq(T)]
    /\ G[0] = <<>>
    /\ \A i \in 1..Len(s) :
          G[i] = IF s[i] \in S THEN Append(G[i - 1], s[i]) ELSE G[i - 1]
    /\ Only(s, S) = G[Len(s)]

(* Only goes through the list from its head. *)
LEMMA OnlyUnfolds ==
    ASSUME NEW T, NEW s \in Seq(T), NEW S
    PROVE  \E G : Keeping(G, T, s, S)
<1> DEFINE n == Len(s)
           h == [p \in Seq(T) \X (1..n) |-> IF s[p[2]] \in S THEN Append(p[1], s[p[2]]) ELSE p[1]]
           Is(f) == f = [X \in SUBSET DOMAIN s |->
                           IF X = {} THEN <<>>
                           ELSE IF s[Max(X)] \in S THEN Append(f[X \ {Max(X)}], s[Max(X)])
                                                   ELSE f[X \ {Max(X)}]]
           iter == CHOOSE f : Is(f)
<1>1. n \in Nat /\ DOMAIN s = 1..n /\ <<>> \in Seq(T)
  OBVIOUS
<1>2. Only(s, S) = iter[DOMAIN s]
  BY DEF Only, FoldLeft, MapThenFoldSet
<1>3. h \in [Seq(T) \X (1..n) -> Seq(T)]
  <2>1. ASSUME NEW p \in Seq(T) \X (1..n) PROVE h[p] \in Seq(T)
    <3>1. p[1] \in Seq(T) /\ p[2] \in 1..n
      BY <2>1
    <3>2. s[p[2]] \in T
      BY <3>1
    <3> QED
      BY <3>1, <3>2
  <2> QED
    BY <2>1
<1>a. PICK g : Folds(g, Seq(T), <<>>, n, h)
  <2> HIDE DEF n, h
  <2> QED
    BY <1>1, <1>3, FoldExists
<1>4. /\ g \in [SUBSET (1..n) -> Seq(T)]
      /\ \A X \in SUBSET (1..n) :
            g[X] = IF X = {} THEN <<>> ELSE h[<<g[X \ {Max(X)}], Max(X)>>]
  BY <1>a, Zenon DEF Folds
<1>5. ASSUME NEW X \in SUBSET (1..n), X # {}
      PROVE  h[<<g[X \ {Max(X)}], Max(X)>>] =
                IF s[Max(X)] \in S THEN Append(g[X \ {Max(X)}], s[Max(X)]) ELSE g[X \ {Max(X)}]
  <2>1. Max(X) \in 1..n
    BY <1>1, <1>5, MaxUpTo
  <2>2. g[X \ {Max(X)}] \in Seq(T)
    BY <1>4, <1>5
  <2> QED
    BY <2>1, <2>2
<1>6. Is(g)
  <2> HIDE DEF h
  <2> QED
    BY <1>1, <1>4, <1>5
<1>7. Is(iter)
  <2> HIDE DEF Is
  <2> QED
    BY <1>6
<1> HIDE DEF iter
<1>8. ASSUME NEW i \in 1..n
      PROVE  /\ 1..i \in SUBSET DOMAIN s /\ 1..i # {} /\ Max(1..i) = i
             /\ (1..i) \ {i} = 1..(i - 1)
  <2> HIDE DEF n
  <2> QED
    BY <1>1, Prefix
<1>9. ASSUME NEW i \in 1..n
      PROVE  iter[1..i] = IF s[i] \in S THEN Append(iter[1..(i - 1)], s[i]) ELSE iter[1..(i - 1)]
  <2> DEFINE X == 1..i
  <2>1. X \in SUBSET DOMAIN s /\ X # {} /\ Max(X) = i /\ X \ {i} = 1..(i - 1)
    BY <1>8
  <2> HIDE DEF X
  <2>2. iter[X] = IF s[Max(X)] \in S THEN Append(iter[X \ {Max(X)}], s[Max(X)])
                                    ELSE iter[X \ {Max(X)}]
    BY <1>7, <2>1, Zenon
  <2>3. iter[X] = IF s[i] \in S THEN Append(iter[1..(i - 1)], s[i]) ELSE iter[1..(i - 1)]
    BY <2>1, <2>2, Zenon
  <2> QED
    BY <2>3 DEF X
<1>10. iter[1..0] = <<>>
  <2>1. 1..0 = {} /\ {} \in SUBSET DOMAIN s
    OBVIOUS
  <2> QED
    BY <1>7, <2>1
<1> HIDE DEF Is
<1>11. \A i \in 0..n : iter[1..i] \in Seq(T)
  <2> DEFINE I == {i \in 0..n : iter[1..i] \in Seq(T)}
  <2>1. 0 \in I
    <3>1. 0 \in 0..n
      BY <1>1
    <3> QED
      BY <1>10, <1>1, <3>1
  <2>2. ASSUME NEW k \in 1..n, k - 1 \in I PROVE k \in I
    <3>1. s[k] \in T /\ iter[1..(k - 1)] \in Seq(T) /\ k \in 0..n
      BY <2>2
    <3>2. iter[1..k] = IF s[k] \in S THEN Append(iter[1..(k - 1)], s[k]) ELSE iter[1..(k - 1)]
      BY <1>9
    <3>3. iter[1..k] \in Seq(T)
      <4> DEFINE now == iter[1..k]
                 was == iter[1..(k - 1)]
      <4>1. was \in Seq(T) /\ now = IF s[k] \in S THEN Append(was, s[k]) ELSE was
        BY <3>1, <3>2
      <4> HIDE DEF now, was
      <4>2. now \in Seq(T)
        BY <3>1, <4>1
      <4> QED
        BY <4>2 DEF now
    <3> QED
      BY <3>1, <3>3
  <2>3. 0..n \subseteq I
    <3> HIDE DEF I
    <3> QED
      BY <1>1, <2>1, <2>2, UpTo
  <2> QED
    BY <2>3
<1> DEFINE G == [i \in 0..n |-> iter[1..i]]
<1>12. G \in [0..n -> Seq(T)]
  BY <1>11
<1>13. 0 \in 0..n /\ n \in 0..n /\ \A i \in 1..n : i \in 0..n /\ i - 1 \in 0..n
  BY <1>1
<1>14. G[0] = <<>> /\ G[n] = Only(s, S)
  BY <1>13, <1>10, <1>1, <1>2
<1>15. \A i \in 1..n : G[i] = IF s[i] \in S THEN Append(G[i - 1], s[i]) ELSE G[i - 1]
  BY <1>13, <1>9
<1>16. Keeping(G, T, s, S)
  <2> HIDE DEF G
  <2> QED
    BY <1>12, <1>14, <1>15 DEF Keeping
<1> QED
  BY <1>16

(* What is kept was in the list and is in S. *)
LEMMA OnlyKeeps ==
    ASSUME NEW T, NEW s \in Seq(T), NEW S
    PROVE  /\ Only(s, S) \in Seq(T) /\ Len(Only(s, S)) <= Len(s)
           /\ \A j \in 1..Len(Only(s, S)) :
                 \E i \in 1..Len(s) : s[i] = Only(s, S)[j] /\ s[i] \in S
<1>0. PICK G : Keeping(G, T, s, S)
  BY OnlyUnfolds
<1>1. /\ G \in [0..Len(s) -> Seq(T)]
      /\ G[0] = <<>>
      /\ \A i \in 1..Len(s) :
            G[i] = IF s[i] \in S THEN Append(G[i - 1], s[i]) ELSE G[i - 1]
      /\ Only(s, S) = G[Len(s)]
  BY <1>0 DEF Keeping
<1> DEFINE n == Len(s)
           I == {k \in 0..n : /\ Len(G[k]) <= k
                              /\ \A j \in 1..Len(G[k]) :
                                    \E i \in 1..n : s[i] = G[k][j] /\ s[i] \in S}
<1>2. 0 \in I
  BY <1>1
<1>3. ASSUME NEW k \in 1..n, k - 1 \in I PROVE k \in I
  <2>1. G[k] = IF s[k] \in S THEN Append(G[k - 1], s[k]) ELSE G[k - 1]
    BY <1>1
  <2>2. G[k - 1] \in Seq(T) /\ s[k] \in T /\ k - 1 \in 0..n
    BY <1>1
  <2>3. CASE s[k] \in S
    <3>1. Len(G[k]) = Len(G[k - 1]) + 1
      BY <2>1, <2>2, <2>3
    <3>2. ASSUME NEW j \in 1..Len(G[k]) PROVE \E i \in 1..n : s[i] = G[k][j] /\ s[i] \in S
      <4>1. CASE j = Len(G[k])
        BY <4>1, <3>1, <2>1, <2>2, <2>3
      <4>2. CASE j # Len(G[k])
        <5>1. j \in 1..Len(G[k - 1]) /\ G[k][j] = G[k - 1][j]
          BY <4>2, <3>1, <2>1, <2>2, <2>3
        <5> QED
          BY <5>1, <1>3
      <4> QED
        BY <4>1, <4>2
    <3> QED
      BY <3>1, <3>2, <1>3, <2>2
  <2>4. CASE s[k] \notin S
    BY <2>1, <2>4, <1>3, <2>2
  <2> QED
    BY <2>3, <2>4
<1>4. n \in I
  <2> HIDE DEF I
  <2>1. n \in Nat
    OBVIOUS
  <2>2. 0..n \subseteq I
    BY <1>2, <1>3, <2>1, UpTo
  <2> QED
    BY <2>1, <2>2
<1>5. G[n] \in Seq(T) /\ Len(G[n]) <= n
      /\ \A j \in 1..Len(G[n]) : \E i \in 1..n : s[i] = G[n][j] /\ s[i] \in S
  BY <1>1, <1>4
<1> QED
  BY <1>1, <1>5, Zenon

LEMMA OnlyIn ==
    ASSUME NEW T, NEW s \in Seq(T), NEW S
    PROVE  Only(s, S) \in Seq(T \cap S)
<1> DEFINE t == Only(s, S)
<1>1. t \in Seq(T) /\ \A j \in 1..Len(t) : \E i \in 1..Len(s) : s[i] = t[j] /\ s[i] \in S
  BY OnlyKeeps, Zenon
<1> HIDE DEF t
<1>2. \A j \in 1..Len(t) : t[j] \in T \cap S
  BY <1>1
<1>3. t \in Seq(T \cap S)
  BY <1>1, <1>2
<1> QED
  BY <1>3 DEF t

Distinct(s) == \A i, j \in 1..Len(s) : s[i] = s[j] => i = j

LEMMA RemoveAtDrops ==
    ASSUME NEW T, NEW s \in Seq(T), NEW i \in 1..Len(s)
    PROVE  /\ RemoveAt(s, i) \in Seq(T) /\ Len(RemoveAt(s, i)) = Len(s) - 1
           /\ \A j \in 1..(Len(s) - 1) :
                 RemoveAt(s, i)[j] = IF j < i THEN s[j] ELSE s[j + 1]
<1> DEFINE a == SubSeq(s, 1, i - 1)
           z == SubSeq(s, i + 1, Len(s))
<1>1. a \in Seq(T) /\ Len(a) = i - 1 /\ \A j \in 1..(i - 1) : a[j] = s[j]
  OBVIOUS
<1>2. z \in Seq(T) /\ Len(z) = Len(s) - i /\ \A j \in 1..(Len(s) - i) : z[j] = s[j + i]
  OBVIOUS
<1>3. RemoveAt(s, i) = a \o z
  BY DEF RemoveAt
<1> HIDE DEF a, z
<1>4. a \o z \in Seq(T) /\ Len(a \o z) = Len(s) - 1
  <2>1. Len(s) \in Nat /\ i \in Nat
    OBVIOUS
  <2>2. a \in Seq(T) /\ z \in Seq(T) /\ Len(a) + Len(z) = Len(s) - 1
    BY <1>1, <1>2, <2>1
  <2>3. Len(a \o z) = Len(a) + Len(z) /\ a \o z \in Seq(T)
    BY <2>2
  <2> QED
    BY <2>2, <2>3
<1>5. ASSUME NEW j \in 1..(Len(s) - 1)
      PROVE  (a \o z)[j] = IF j < i THEN s[j] ELSE s[j + 1]
  <2>1. CASE j < i
    BY <2>1, <1>1, <1>2
  <2>2. CASE ~(j < i)
    <3>1. (a \o z)[j] = z[j - (i - 1)] /\ j - (i - 1) \in 1..(Len(s) - i)
      BY <2>2, <1>1, <1>2
    <3>2. z[j - (i - 1)] = s[j - (i - 1) + i]
      BY <3>1, <1>2
    <3>3. j - (i - 1) + i = j + 1
      OBVIOUS
    <3> QED
      BY <2>2, <3>1, <3>2, <3>3
  <2> QED
    BY <2>1, <2>2
<1> QED
  BY <1>3, <1>4, <1>5

(* Taking a member out of a list without repetitions: the others stay, each
   once. *)
LEMMA RemoveFirstDrops ==
    ASSUME NEW T, NEW s \in Seq(T), Distinct(s), NEW x, Contains(s, x)
    PROVE  LET t == RemoveFirst(s, x)
           IN  /\ t \in Seq(T) /\ Len(t) = Len(s) - 1 /\ Distinct(t)
               /\ \A y : Contains(t, y) <=> Contains(s, y) /\ y # x
<1> DEFINE t == RemoveFirst(s, x)
           I == {i \in 1..Len(s) : s[i] = x}
<1>1. PICK i \in 1..Len(s) : s[i] = x
  BY DEF Contains
<1>2. I = {i}
  BY <1>1 DEF Distinct
<1>3. Min({i}) = i
  BY <1>1 DEF Min
<1>4. t = RemoveAt(s, i)
  BY <1>1, <1>2, <1>3 DEF RemoveFirst, SelectInSeq
<1> HIDE DEF t
<1>5. /\ t \in Seq(T) /\ Len(t) = Len(s) - 1
      /\ \A j \in 1..(Len(s) - 1) : t[j] = IF j < i THEN s[j] ELSE s[j + 1]
  BY <1>4, RemoveAtDrops
<1>6. Distinct(t)
  <2> SUFFICES ASSUME NEW j \in 1..Len(t), NEW k \in 1..Len(t), t[j] = t[k] PROVE j = k
    BY DEF Distinct
  <2>1. j \in 1..Len(s) /\ k \in 1..Len(s) /\ j + 1 \in 1..Len(s) /\ k + 1 \in 1..Len(s)
    BY <1>5
  <2>2. (IF j < i THEN s[j] ELSE s[j + 1]) = (IF k < i THEN s[k] ELSE s[k + 1])
    BY <1>5
  <2> QED
    BY <2>1, <2>2 DEF Distinct
<1>7. ASSUME NEW y PROVE Contains(t, y) <=> Contains(s, y) /\ y # x
  <2>1. ASSUME NEW j \in 1..Len(t), t[j] = y PROVE Contains(s, y) /\ y # x
    <3>1. j \in 1..Len(s) /\ j + 1 \in 1..Len(s)
      BY <1>5
    <3>2. y = IF j < i THEN s[j] ELSE s[j + 1]
      BY <2>1, <1>5
    <3> QED
      BY <3>1, <3>2, <1>1 DEF Distinct, Contains
  <2>2. ASSUME NEW j \in 1..Len(s), s[j] = y, y # x PROVE Contains(t, y)
    <3>1. CASE j < i
      BY <2>2, <3>1, <1>5 DEF Contains
    <3>2. CASE ~(j < i)
      <4>1. j > i
        BY <3>2, <2>2, <1>1
      <4>2. j - 1 \in 1..Len(t) /\ t[j - 1] = s[j]
        BY <4>1, <1>5
      <4> QED
        BY <4>2, <2>2 DEF Contains
    <3> QED
      BY <3>1, <3>2
  <2> QED
    BY <2>1, <2>2 DEF Contains
<1> QED
  BY <1>5, <1>6, <1>7 DEF t

(* However many registrations match, no more fire than the queue has room for. *)
LEMMA RoomForAll ==
    ASSUME XactAssumption, NEW x, NEW c, x.regs \in Seq(Descriptions),
           Len(x.queue) \in Nat, Len(x.queue) <= Capacity
    PROVE  LET fired == {i \in DOMAIN x.regs : Fires(x, c, i)}
           IN  IsFiniteSet(fired) /\ Cardinality(fired) \in Nat
               /\ Len(x.queue) + Cardinality(fired) <= Capacity
<1> DEFINE n == Len(x.regs)
           fired == {i \in DOMAIN x.regs : Fires(x, c, i)}
           before(i) == {j \in 1..(i - 1) : MatchesCue(x.regs[j], c)}
<1>1. n \in Nat /\ DOMAIN x.regs = 1..n /\ fired \in SUBSET (1..n)
  OBVIOUS
<1>2. IsFiniteSet(1..n) /\ IsFiniteSet(fired)
  <2>1. IsFiniteSet(1..n)
    BY <1>1, FS_Interval
  <2> HIDE DEF fired
  <2> QED
    BY <1>1, <2>1, FS_Subset
<1>3. CASE fired = {}
  BY <1>2, <1>3, FS_EmptySet
<1>4. CASE fired # {}
  <2>1. PICK m \in fired : \A y \in fired : y <= m
    <3>1. Max(fired) \in fired /\ \A y \in fired : y <= Max(fired)
      BY <1>1, <1>4, MaxUpTo
    <3> QED
      BY <3>1
  <2>2. m \in Nat /\ m <= n /\ Fires(x, c, m)
    BY <1>1
  <2>3. Len(x.queue) + Cardinality(before(m)) < Capacity
    BY <2>2 DEF Fires
  <2>4. fired \subseteq before(m) \cup {m}
    <3> SUFFICES ASSUME NEW i \in fired, i # m PROVE i \in before(m)
      OBVIOUS
    <3>1. i \in 1..n /\ i <= m /\ MatchesCue(x.regs[i], c)
      BY <2>1, <1>1 DEF Fires
    <3> QED
      BY <3>1, <2>2
  <2>5. before(m) \subseteq 1..n /\ m \notin before(m)
    BY <2>2, <1>1
  <2>a. IsFiniteSet(before(m))
    BY <2>5, <1>2, FS_Subset
  <2> HIDE DEF fired, before
  <2>6. Cardinality(before(m) \cup {m}) = Cardinality(before(m)) + 1
        /\ IsFiniteSet(before(m) \cup {m})
    BY <2>5, <2>a, FS_AddElement
  <2>7. Cardinality(fired) <= Cardinality(before(m) \cup {m})
    BY <2>4, <2>6, FS_Subset
  <2>8. Cardinality(before(m)) \in Nat /\ Cardinality(fired) \in Nat
    BY <2>a, <1>2, FS_CardinalityType
  <2> QED
    BY <2>3, <2>6, <2>7, <2>8, <1>2 DEF XactAssumption, fired
<1> QED
  BY <1>3, <1>4

(* Registrations and notices a list of stopping cues leaves. *)
LEMMA QueueStopAdds ==
    ASSUME XactAssumption, NEW x, NEW c, NEW destroyed,
           NEW R \in SUBSET Descriptions, NEW N,
           x.regs \in Seq(R), x.queue \in Seq(N), Len(x.queue) <= Capacity,
           Notification(c, destroyed) \in N
    PROVE  LET y == QueueStop(x, c, destroyed)
           IN  /\ y = [regs |-> y.regs, queue |-> y.queue]
               /\ y.regs \in Seq(R) /\ y.queue \in Seq(N) /\ Len(y.queue) <= Capacity
<1> DEFINE fired == {i \in DOMAIN x.regs : Fires(x, c, i)}
           n == Cardinality(fired)
           all == [i \in DOMAIN x.regs |-> i]
           kept == Only(all, {i \in DOMAIN x.regs : i \notin fired \/ x.regs[i].persistent})
           regs == [k \in DOMAIN kept |-> x.regs[kept[k]]]
           new == [k \in 1..n |-> Notification(c, destroyed)]
           queue == x.queue \o new
<1>1. QueueStop(x, c, destroyed) = [regs |-> regs, queue |-> queue]
  BY DEF QueueStop
<1>2. Len(x.queue) \in Nat /\ x.regs \in Seq(Descriptions)
  OBVIOUS
<1>3. n \in Nat /\ Len(x.queue) + n <= Capacity
  <2> HIDE DEF fired
  <2> QED
    BY <1>2, RoomForAll DEF fired
<1>4. regs \in Seq(R)
  <2>1. all \in Seq(DOMAIN x.regs)
    OBVIOUS
  <2>2. kept \in Seq(DOMAIN x.regs)
    <3> HIDE DEF all
    <3> QED
      BY <2>1, OnlyKeeps
  <2> HIDE DEF kept
  <2>3. \A k \in DOMAIN kept : x.regs[kept[k]] \in R
    BY <2>2
  <2> QED
    BY <2>2, <2>3
<1>5. queue \in Seq(N) /\ Len(queue) <= Capacity
  <2> HIDE DEF n
  <2>1. new \in Seq(N) /\ Len(new) = n
    BY <1>3
  <2> HIDE DEF new
  <2>2. Len(x.queue \o new) = Len(x.queue) + Len(new) /\ x.queue \o new \in Seq(N)
    BY <2>1
  <2> QED
    BY <2>1, <2>2, <1>3
<1> HIDE DEF regs, queue
<1> QED
  BY <1>1, <1>4, <1>5

(* An engine with these registrations and notices, once the cues in "released"
   are destroyed. *)
Told(x, regs, queue, released) ==
    [x EXCEPT !.regs = regs,
              !.queue = [i \in DOMAIN queue |->
                           [queue[i] EXCEPT !.gone = queue[i].gone \/ queue[i].cue \in released]]]

(* Stopping cues queues notices about them and no others, uses registrations up
   and makes none, and leaves no more notices than there is room for. *)
LEMMA StoppedKeeps ==
    ASSUME XactAssumption, NEW x, NEW C, NEW stopping \in Seq(C), NEW flagged, NEW released,
           NEW R \in SUBSET Descriptions, NEW N,
           x.regs \in Seq(R), x.queue \in Seq(N), Len(x.queue) <= Capacity,
           \A c \in C : Notification(c, c \in flagged) \in N
    PROVE  \E regs \in Seq(R), queue \in Seq(N) :
              /\ Len(queue) <= Capacity
              /\ Stopped(x, stopping, flagged, released) = Told(x, regs, queue, released)
<1> DEFINE n == Len(stopping)
           base == [regs |-> x.regs, queue |-> x.queue]
           A == {a \in [regs : Seq(R), queue : Seq(N)] : Len(a.queue) <= Capacity}
           h == [p \in A \X (1..n) |-> QueueStop(p[1], stopping[p[2]], stopping[p[2]] \in flagged)]
           Is(f) == f = [X \in SUBSET DOMAIN stopping |->
                           IF X = {} THEN base
                           ELSE QueueStop(f[X \ {Max(X)}], stopping[Max(X)],
                                          stopping[Max(X)] \in flagged)]
           iter == CHOOSE f : Is(f)
           all == iter[DOMAIN stopping]
<1>1. n \in Nat /\ DOMAIN stopping = 1..n /\ base \in A
  OBVIOUS
<1>2. Stopped(x, stopping, flagged, released) = Told(x, all.regs, all.queue, released)
  BY DEF Told, Stopped, FoldLeft, MapThenFoldSet
<1>3. ASSUME NEW a \in A, NEW i \in 1..n
      PROVE  QueueStop(a, stopping[i], stopping[i] \in flagged) \in A
  <2> DEFINE y == QueueStop(a, stopping[i], stopping[i] \in flagged)
  <2>1. Notification(stopping[i], stopping[i] \in flagged) \in N
    OBVIOUS
  <2>2. a.regs \in Seq(R) /\ a.queue \in Seq(N) /\ Len(a.queue) <= Capacity
    OBVIOUS
  <2>3. /\ y = [regs |-> y.regs, queue |-> y.queue]
        /\ y.regs \in Seq(R) /\ y.queue \in Seq(N) /\ Len(y.queue) <= Capacity
    BY <2>1, <2>2, QueueStopAdds
  <2> HIDE DEF y
  <2>4. y \in A
    BY <2>3
  <2> QED
    BY <2>4 DEF y
<1>4. h \in [A \X (1..n) -> A]
  <2> HIDE DEF A
  <2> QED
    BY <1>3
<1>5. PICK g : Folds(g, A, base, n, h)
  <2> HIDE DEF n, h, A, base
  <2> QED
    BY <1>1, <1>4, FoldExists
<1>6. /\ g \in [SUBSET (1..n) -> A]
      /\ \A X \in SUBSET (1..n) :
            g[X] = IF X = {} THEN base ELSE h[<<g[X \ {Max(X)}], Max(X)>>]
  BY <1>5, Zenon DEF Folds
<1>7. ASSUME NEW X \in SUBSET (1..n), X # {}
      PROVE  h[<<g[X \ {Max(X)}], Max(X)>>] =
                QueueStop(g[X \ {Max(X)}], stopping[Max(X)], stopping[Max(X)] \in flagged)
  <2>1. Max(X) \in 1..n
    BY <1>1, <1>7, MaxUpTo
  <2>2. g[X \ {Max(X)}] \in A
    BY <1>6, <1>7
  <2> HIDE DEF A
  <2> QED
    BY <2>1, <2>2
<1>8. Is(g)
  <2> HIDE DEF h, A, base
  <2> QED
    BY <1>1, <1>6, <1>7
<1>9. Is(iter)
  <2> HIDE DEF Is
  <2> QED
    BY <1>8
<1> HIDE DEF iter
<1>10. iter[1..0] = base
  <2>1. 1..0 = {} /\ {} \in SUBSET DOMAIN stopping
    OBVIOUS
  <2> HIDE DEF base
  <2> QED
    BY <1>9, <2>1
<1>11. ASSUME NEW i \in 1..n
       PROVE  iter[1..i] = QueueStop(iter[1..(i - 1)], stopping[i], stopping[i] \in flagged)
  <2> DEFINE X == 1..i
  <2>1. X \in SUBSET DOMAIN stopping /\ X # {} /\ Max(X) = i /\ X \ {i} = 1..(i - 1)
    <3> HIDE DEF n
    <3> QED
      BY <1>1, Prefix
  <2> HIDE DEF X
  <2>2. iter[X] = QueueStop(iter[X \ {Max(X)}], stopping[Max(X)], stopping[Max(X)] \in flagged)
    BY <1>9, <2>1, Zenon
  <2>3. iter[X] = QueueStop(iter[1..(i - 1)], stopping[i], stopping[i] \in flagged)
    BY <2>1, <2>2, Zenon
  <2> QED
    BY <2>3 DEF X
<1>12. all \in A
  <2> DEFINE I == {i \in 0..n : iter[1..i] \in A}
  <2>1. 0 \in I
    <3> HIDE DEF A, base
    <3>1. 0 \in 0..n
      BY <1>1
    <3> QED
      BY <1>1, <1>10, <3>1
  <2>2. ASSUME NEW k \in 1..n, k - 1 \in I PROVE k \in I
    <3> HIDE DEF A
    <3>1. iter[1..(k - 1)] \in A /\ k \in 0..n
      BY <2>2
    <3>2. iter[1..k] \in A
      BY <3>1, <1>3, <1>11, Zenon
    <3> QED
      BY <3>1, <3>2
  <2>3. 0..n \subseteq I
    <3> HIDE DEF I
    <3> QED
      BY <1>1, <2>1, <2>2, UpTo
  <2>4. n \in 0..n
    BY <1>1
  <2> QED
    BY <1>1, <2>3, <2>4
<1> HIDE DEF all
<1>13. all.regs \in Seq(R) /\ all.queue \in Seq(N) /\ Len(all.queue) <= Capacity
  BY <1>12
<1> QED
  BY <1>2, <1>13, Zenon

LEMMA FlattenIn ==
    ASSUME NEW C, NEW q \in Seq(Seq(C))
    PROVE  FlattenSeq(q) \in Seq(C)
<1> DEFINE n == Len(q)
           Is(f) == f = [i \in 1..n |-> IF i = 1 THEN q[i] ELSE f[i - 1] \o q[i]]
           flatten == CHOOSE f : Is(f)
           Good(g, k) == \A i \in 1..k : g[i] = IF i = 1 THEN q[i] ELSE g[i - 1] \o q[i]
           J == {k \in 0..n : \E g \in [1..k -> Seq(C)] : Good(g, k)}
<1>1. n \in Nat /\ \A i \in 1..n : q[i] \in Seq(C)
  OBVIOUS
<1>2. FlattenSeq(q) = IF n = 0 THEN q ELSE flatten[n]
  BY DEF FlattenSeq
<1>3. CASE n = 0
  BY <1>2, <1>3
<1>4. CASE n # 0
  <2>1. 0 \in J
    <3> DEFINE g == [i \in 1..0 |-> <<>>]
    <3>1. g \in [1..0 -> Seq(C)] /\ Good(g, 0) /\ 0 \in 0..n
      BY <1>1
    <3> QED
      BY <3>1
  <2>2. ASSUME NEW k \in 1..n, k - 1 \in J PROVE k \in J
    <3>1. PICK f \in [1..(k - 1) -> Seq(C)] : Good(f, k - 1)
      BY <2>2
    <3> DEFINE last == IF k = 1 THEN q[k] ELSE f[k - 1] \o q[k]
               g == [i \in 1..k |-> IF i = k THEN last ELSE f[i]]
    <3>2. last \in Seq(C)
      <4>1. CASE k = 1
        BY <4>1, <1>1
      <4>2. CASE k # 1
        <5>1. f[k - 1] \in Seq(C) /\ q[k] \in Seq(C)
          BY <4>2, <3>1, <1>1
        <5> QED
          BY <4>2, <5>1
      <4> QED
        BY <4>1, <4>2
    <3>3. g \in [1..k -> Seq(C)]
      <4> HIDE DEF last
      <4> QED
        BY <3>1, <3>2
    <3>4. ASSUME NEW i \in 1..k PROVE g[i] = IF i = 1 THEN q[i] ELSE g[i - 1] \o q[i]
      <4>1. CASE i = k
        <5>1. g[i] = last /\ (i # 1 => g[i - 1] = f[i - 1])
          <6> HIDE DEF last
          <6> QED
            BY <4>1
        <5> HIDE DEF g
        <5> QED
          BY <4>1, <5>1
      <4>2. CASE i # k
        <5>1. i \in 1..(k - 1)
          BY <4>2
        <5>2. g[i] = f[i] /\ (i # 1 => g[i - 1] = f[i - 1])
          <6> HIDE DEF last
          <6> QED
            BY <4>2, <5>1
        <5>3. f[i] = IF i = 1 THEN q[i] ELSE f[i - 1] \o q[i]
          BY <5>1, <3>1
        <5> HIDE DEF g
        <5> QED
          BY <5>2, <5>3
      <4> QED
        BY <4>1, <4>2
    <3>5. k \in 0..n
      BY <1>1
    <3>6. Good(g, k)
      <4> HIDE DEF g
      <4> QED
        BY <3>4, Zenon
    <3> HIDE DEF g, Good
    <3> QED
      BY <3>3, <3>5, <3>6
  <2>3. n \in J
    <3> HIDE DEF J
    <3>1. 0..n \subseteq J
      BY <1>1, <2>1, <2>2, UpTo
    <3> QED
      BY <1>1, <3>1
  <2>4. PICK g \in [1..n -> Seq(C)] : Good(g, n)
    BY <2>3
  <2>5. Is(g)
    BY <2>4
  <2>6. Is(flatten)
    <3> HIDE DEF Is
    <3> QED
      BY <2>5
  <2> HIDE DEF flatten
  <2>7. ASSUME NEW i \in 1..n
        PROVE  flatten[i] = IF i = 1 THEN q[i] ELSE flatten[i - 1] \o q[i]
    BY <2>6, Zenon
  <2> DEFINE I == {k \in 0..n : k = 0 \/ flatten[k] \in Seq(C)}
  <2>8. 0 \in I
    BY <1>1
  <2>9. ASSUME NEW k \in 1..n, k - 1 \in I PROVE k \in I
    <3> DEFINE was == flatten[k - 1]
    <3>1. k = 1 \/ was \in Seq(C)
      BY <2>9
    <3>2. flatten[k] = IF k = 1 THEN q[k] ELSE was \o q[k]
      BY <2>7
    <3> HIDE DEF was
    <3>3. flatten[k] \in Seq(C)
      BY <3>1, <3>2, <1>1
    <3> QED
      BY <3>3
  <2>10. n \in I
    <3> HIDE DEF I
    <3>1. 0..n \subseteq I
      BY <1>1, <2>8, <2>9, UpTo
    <3> QED
      BY <1>1, <3>1
  <2> QED
    BY <1>4, <1>2, <2>10
<1> QED
  BY <1>3, <1>4

-----------------------------------------------------------------------------
(* The inductive invariant: the lists of an engine hold what belongs to it. *)
Banks(e) == {b \in SoundBanks : Owner(b) = e}
Regs(e) == {d \in Descriptions : d.bank # NoBank => d.bank \in Banks(e)}

(* Notices whose cue is gone, or has stopped and is still the cue of the bank
   they name. *)
Notes(e) ==
    {n \in Notifications :
        /\ n.bank \in Banks(e)
        /\ n.destroyed => n.gone
        /\ n.gone \/ (cue[n.cue].bank = n.bank /\ ~cue[n.cue].playing)}

CuesIn(b) == {c \in Cues : cue[c].bank = b}

EngineType == [refs : Nat, held : 0..MaxRefs, waves : SUBSET WaveBanks,
               banks : Seq(SoundBanks), regs : Seq(Descriptions), queue : Seq(Notifications)]

(* An engine whose count exceeds its references by "owed" and whose lists hold
   these banks, all of them, and only these registrations and notices. *)
Fits(x, owed, B, R, N) ==
    /\ x \in EngineType
    /\ x.refs = x.held + Cardinality(x.waves) + Len(x.banks) + owed
    /\ IsFiniteSet(x.waves)
    /\ x.banks \in Seq(B) /\ Distinct(x.banks) /\ \A b \in B : Contains(x.banks, b)
    /\ x.regs \in Seq(R)
    /\ x.queue \in Seq(N) /\ Len(x.queue) <= Capacity

Housed == engine = [e \in Engines |-> engine[e]]
          /\ \A e \in Engines : Fits(engine[e], 0, Banks(e), Regs(e), Notes(e))

BankType == {DeadBank} \cup [engine : Engines, refs : 1..MaxRefs, cues : Seq(Cues)]

Stocked == /\ bank \in [SoundBanks -> BankType]
           /\ \A b \in SoundBanks : bank[b].cues \in Seq(CuesIn(b))

CueType == {DeadCue} \cup [bank : SoundBanks, index : Indexes, auto : BOOLEAN,
                            playing : BOOLEAN, sounding : BOOLEAN]

IInv == Housed /\ Stocked /\ cue \in [Cues -> CueType]

LEMMA Initially == Init => IInv
<1> SUFFICES ASSUME Init PROVE IInv
  OBVIOUS
<1> USE XactAssumption
<1>1. IsFiniteSet({}) /\ Cardinality({}) = 0
  BY FS_EmptySet
<1>2. \A b \in SoundBanks : bank[b] = DeadBank
  BY DEF Init
<1>3. \A e \in Engines : Banks(e) = {}
  BY <1>2 DEF Banks, Owner, DeadBank
<1>4. ASSUME NEW e \in Engines PROVE Fits(engine[e], 0, Banks(e), Regs(e), Notes(e))
  <2>1. engine[e] = DeadEngine
    BY DEF Init
  <2>2. DeadEngine \in EngineType
    BY DEF DeadEngine, EngineType
  <2>3. Distinct(<<>>)
    BY DEF Distinct
  <2> QED
    BY <1>1, <1>3, <2>1, <2>2, <2>3 DEF Fits, DeadEngine
<1>5. Stocked
  <2>1. bank \in [SoundBanks -> BankType]
    BY DEF Init, BankType
  <2>2. \A b \in SoundBanks : bank[b].cues = <<>>
    BY <1>2 DEF DeadBank
  <2>3. ASSUME NEW b \in SoundBanks PROVE bank[b].cues \in Seq(CuesIn(b))
    <3>1. <<>> \in Seq(CuesIn(b))
      OBVIOUS
    <3> QED
      BY <2>2, <3>1
  <2> QED
    BY <2>1, <2>3 DEF Stocked
<1> QED
  BY <1>4, <1>5 DEF Init, IInv, Housed, CueType

LEMMA Facts ==
    ASSUME IInv, XactAssumption
    PROVE  /\ \A b \in SoundBanks : LiveBank(b) => Owner(b) \in Engines
           /\ \A b \in SoundBanks :
                 Owner(b) \in Engines =>
                    /\ LiveBank(b) /\ LiveEngine(Owner(b)) /\ Contains(engine[Owner(b)].banks, b)
           /\ \A b \in SoundBanks : bank[b] # DeadBank <=> Owner(b) \in Engines
<1>1. \A b \in SoundBanks : bank[b] # DeadBank <=> Owner(b) \in Engines
  BY DEF IInv, Stocked, BankType, DeadBank, XactAssumption, Owner
<1>2. ASSUME NEW b \in SoundBanks, LiveBank(b) PROVE Owner(b) \in Engines
  <2>1. PICK e \in Engines : Contains(engine[e].banks, b)
    BY <1>2 DEF LiveBank
  <2>2. engine[e].banks \in Seq(Banks(e))
    BY DEF IInv, Housed, Fits
  <2>3. b \in Banks(e)
    BY <2>1, <2>2 DEF Contains
  <2> QED
    BY <2>3 DEF Banks
<1>3. ASSUME NEW b \in SoundBanks, Owner(b) \in Engines
      PROVE  LiveBank(b) /\ LiveEngine(Owner(b)) /\ Contains(engine[Owner(b)].banks, b)
  <2> DEFINE x == engine[Owner(b)]
  <2>1. Fits(x, 0, Banks(Owner(b)), Regs(Owner(b)), Notes(Owner(b))) /\ b \in Banks(Owner(b))
    BY <1>3 DEF IInv, Housed, Banks
  <2> HIDE DEF x
  <2>2. Contains(x.banks, b) /\ Len(x.banks) \in Nat /\ x.held \in Nat
    BY <2>1 DEF Fits, EngineType
  <2>3. Len(x.banks) > 0
    BY <2>2 DEF Contains
  <2>4. Cardinality(x.waves) \in Nat
    BY <2>1, FS_CardinalityType DEF Fits
  <2>5. x.refs > 0
    BY <2>1, <2>2, <2>3, <2>4 DEF Fits
  <2> QED
    BY <1>3, <2>2, <2>5 DEF x, LiveBank, LiveEngine
<1> QED
  BY <1>1, <1>2, <1>3

(* A reference that is dropped is no longer owed; with the last one nothing
   else is left. *)
LEMMA DroppedFits ==
    ASSUME NEW x, NEW B, NEW R, NEW N, Fits(x, 1, B, R, N), XactAssumption
    PROVE  Fits(Dropped(x), 0, B, R, N)
<1>1. /\ x.held \in Nat /\ Len(x.banks) \in Nat /\ x.refs \in Nat
      /\ x.refs = x.held + Cardinality(x.waves) + Len(x.banks) + 1
  BY DEF Fits, EngineType
<1>2. Cardinality(x.waves) \in Nat
  BY FS_CardinalityType DEF Fits
<1>3. CASE x.refs > 1
  <2> DEFINE y == [refs |-> x.refs - 1, held |-> x.held, waves |-> x.waves,
                   banks |-> x.banks, regs |-> x.regs, queue |-> x.queue]
  <2>1. x \in EngineType
    BY DEF Fits
  <2>2. Dropped(x) = y
    BY <1>3, <2>1 DEF Dropped, EngineType
  <2>3. y \in EngineType
    BY <1>1, <1>3, <2>1 DEF EngineType
  <2>4. y.refs = y.held + Cardinality(y.waves) + Len(y.banks) + 0
    BY <1>1, <1>2
  <2> QED
    BY <2>2, <2>3, <2>4 DEF Fits
<1>4. CASE ~(x.refs > 1)
  <2>1. Dropped(x) = DeadEngine /\ Len(x.banks) = 0
    BY <1>1, <1>2, <1>4 DEF Dropped
  <2>2. B = {}
    BY <2>1 DEF Fits, Contains
  <2>3. DeadEngine \in EngineType
    BY DEF DeadEngine, EngineType, XactAssumption
  <2>4. IsFiniteSet({}) /\ Cardinality({}) = 0
    BY FS_EmptySet
  <2>5. Distinct(<<>>)
    BY DEF Distinct
  <2> QED
    BY <2>1, <2>2, <2>3, <2>4, <2>5 DEF Fits, DeadEngine, XactAssumption
<1> QED
  BY <1>3, <1>4

-----------------------------------------------------------------------------
(* Calls that change one engine only *)

LEMMA EngineStep ==
    ASSUME IInv, NEW e \in Engines, NEW x, engine' = [engine EXCEPT ![e] = x],
           UNCHANGED <<bank, cue>>, Fits(x, 0, Banks(e), Regs(e), Notes(e))
    PROVE  IInv'
<1>1. \A f : Banks(f)' = Banks(f)
  BY DEF Banks, Owner
<1>2. \A f : Regs(f)' = Regs(f) /\ Notes(f)' = Notes(f)
  BY <1>1 DEF Regs, Notes
<1>3. engine \in [Engines -> {engine[f] : f \in Engines}]
  BY DEF IInv, Housed
<1>4. engine' = [f \in Engines |-> engine'[f]]
  BY <1>3
<1>5. ASSUME NEW f \in Engines PROVE Fits(engine'[f], 0, Banks(f)', Regs(f)', Notes(f)')
  BY <1>1, <1>2, <1>3 DEF IInv, Housed
<1>6. Stocked'
  <2>1. \A b : CuesIn(b)' = CuesIn(b)
    BY DEF CuesIn
  <2> QED
    BY <2>1 DEF IInv, Stocked
<1> QED
  BY <1>4, <1>5, <1>6 DEF IInv, Housed, Fits

Engine(refs, held, waves, banks, regs, queue) ==
    [refs |-> refs, held |-> held, waves |-> waves, banks |-> banks, regs |-> regs,
     queue |-> queue]

LEMMA Fields ==
    ASSUME NEW x \in EngineType
    PROVE  /\ x = Engine(x.refs, x.held, x.waves, x.banks, x.regs, x.queue)
           /\ x.refs \in Nat /\ x.held \in Nat /\ x.held <= MaxRefs
           /\ x.waves \subseteq WaveBanks /\ x.banks \in Seq(SoundBanks)
           /\ x.regs \in Seq(Descriptions) /\ x.queue \in Seq(Notifications)
           /\ Len(x.banks) \in Nat
BY DEF EngineType, Engine

LEMMA OneField ==
    ASSUME NEW x \in EngineType, NEW v
    PROVE  /\ [x EXCEPT !.banks = v] = Engine(x.refs, x.held, x.waves, v, x.regs, x.queue)
           /\ [x EXCEPT !.regs = v] = Engine(x.refs, x.held, x.waves, x.banks, v, x.queue)
           /\ [x EXCEPT !.queue = v] = Engine(x.refs, x.held, x.waves, x.banks, x.regs, v)
<1>1. x = [refs |-> x.refs, held |-> x.held, waves |-> x.waves, banks |-> x.banks,
           regs |-> x.regs, queue |-> x.queue]
  BY Fields DEF Engine
<1> QED
  BY <1>1 DEF Engine

LEMMA Typed ==
    ASSUME IInv
    PROVE  /\ engine \in [Engines -> EngineType]
           /\ \A e \in Engines : Fits(engine[e], 0, Banks(e), Regs(e), Notes(e))
<1>1. \A e \in Engines : engine[e] \in EngineType
  BY DEF IInv, Housed, Fits
<1> QED
  BY <1>1 DEF IInv, Housed

LEMMA Creates ==
    ASSUME IInv, XactAssumption, NEW e \in Engines, EngineCreate(e)
    PROVE  IInv'
<1> DEFINE x == engine[e]
           y == Engine(1, 1, {}, <<>>, <<>>, <<>>)
<1>1. x = DeadEngine /\ Fits(x, 0, Banks(e), Regs(e), Notes(e))
  BY Typed DEF EngineCreate
<1>2. engine' = [engine EXCEPT ![e] = y] /\ UNCHANGED <<bank, cue>>
  BY <1>1, Typed DEF EngineCreate, DeadEngine, Engine, EngineType
<1>3. Fits(y, 0, Banks(e), Regs(e), Notes(e))
  <2>1. y \in EngineType
    BY DEF EngineType, Engine, XactAssumption
  <2>2. IsFiniteSet({}) /\ Cardinality({}) = 0
    BY FS_EmptySet
  <2> QED
    BY <1>1, <2>1, <2>2 DEF Fits, DeadEngine, Engine
<1> QED
  BY <1>2, <1>3, EngineStep

LEMMA AddsRef ==
    ASSUME IInv, XactAssumption, NEW e \in Engines, EngineAddRef(e)
    PROVE  IInv'
<1> DEFINE x == engine[e]
           y == Engine(x.refs + 1, x.held + 1, x.waves, x.banks, x.regs, x.queue)
<1>1. Fits(x, 0, Banks(e), Regs(e), Notes(e)) /\ x \in EngineType
  BY DEF IInv, Housed, Fits
<1>2. engine' = [engine EXCEPT ![e] = y] /\ UNCHANGED <<bank, cue>>
  <2> DEFINE z == Engine(x.refs + 1, x.held, x.waves, x.banks, x.regs, x.queue)
  <2>1. [x EXCEPT !.refs = @ + 1, !.held = @ + 1] = y
    <3> HIDE DEF x
    <3>1. x = [refs |-> x.refs, held |-> x.held, waves |-> x.waves, banks |-> x.banks,
               regs |-> x.regs, queue |-> x.queue]
      BY <1>1, Fields DEF Engine
    <3>2. [x EXCEPT !.refs = @ + 1] = z
      BY <3>1 DEF Engine
    <3>3. [z EXCEPT !.held = @ + 1] = y
      BY DEF Engine
    <3>4. [x EXCEPT !.refs = @ + 1, !.held = @ + 1]
            = [[x EXCEPT !.refs = @ + 1] EXCEPT !.held = @ + 1]
      BY <3>1
    <3> HIDE DEF z, y
    <3> QED
      BY <3>2, <3>3, <3>4
  <2>2. engine' = [engine EXCEPT ![e] = [x EXCEPT !.refs = @ + 1, !.held = @ + 1]]
    BY Typed DEF EngineAddRef, EngineType
  <2> QED
    BY <2>1, <2>2 DEF EngineAddRef
<1>3. x.held + 1 \in 0..MaxRefs
  BY <1>1 DEF EngineAddRef, XactAssumption
<1>4. Cardinality(x.waves) \in Nat
  BY <1>1, FS_CardinalityType DEF Fits
<1>5. Fits(y, 0, Banks(e), Regs(e), Notes(e))
  <2> HIDE DEF x
  <2>1. y \in EngineType
    BY <1>1, <1>3 DEF EngineType, Engine
  <2> QED
    BY <1>1, <1>3, <1>4, <2>1, Fields DEF Fits, Engine
<1> QED
  BY <1>2, <1>5, EngineStep

LEMMA Releases ==
    ASSUME IInv, XactAssumption, NEW e \in Engines, EngineRelease(e)
    PROVE  IInv'
<1> DEFINE x == engine[e]
           y == Engine(x.refs, x.held - 1, x.waves, x.banks, x.regs, x.queue)
<1>1. Fits(x, 0, Banks(e), Regs(e), Notes(e)) /\ x \in EngineType /\ x.held > 0
  BY Typed DEF Fits, EngineRelease
<1>2. engine' = [engine EXCEPT ![e] = Dropped(y)] /\ UNCHANGED <<bank, cue>>
  <2>1. [x EXCEPT !.held = @ - 1] = y
    <3> HIDE DEF x
    <3>1. x = [refs |-> x.refs, held |-> x.held, waves |-> x.waves, banks |-> x.banks,
               regs |-> x.regs, queue |-> x.queue]
      BY <1>1, Fields DEF Engine
    <3> QED
      BY <3>1 DEF Engine
  <2> QED
    BY <2>1 DEF EngineRelease
<1>4. Cardinality(x.waves) \in Nat
  BY <1>1, FS_CardinalityType DEF Fits
<1>5. Fits(y, 1, Banks(e), Regs(e), Notes(e))
  <2> HIDE DEF x
  <2>1. y \in EngineType
    BY <1>1 DEF EngineType, Engine, XactAssumption
  <2> QED
    BY <1>1, <1>4, <2>1, Fields DEF Fits, Engine
<1> QED
  BY <1>2, <1>5, DroppedFits, EngineStep

LEMMA RegistersWaves ==
    ASSUME IInv, XactAssumption, NEW e \in Engines, NEW w \in WaveBanks,
           RegisterWaveBank(e, w)
    PROVE  IInv'
<1> DEFINE x == engine[e]
           y == Engine(x.refs + 1, x.held, x.waves \cup {w}, x.banks, x.regs, x.queue)
<1>1. Fits(x, 0, Banks(e), Regs(e), Notes(e)) /\ x \in EngineType /\ w \notin x.waves
  BY Typed DEF Fits, RegisterWaveBank
<1>2. engine' = [engine EXCEPT ![e] = y] /\ UNCHANGED <<bank, cue>>
  BY <1>1, Typed DEF RegisterWaveBank, Engine, EngineType
<1>3. /\ IsFiniteSet(x.waves \cup {w})
      /\ Cardinality(x.waves \cup {w}) = Cardinality(x.waves) + 1
  BY <1>1, FS_AddElement DEF Fits
<1>4. Cardinality(x.waves) \in Nat
  BY <1>1, FS_CardinalityType DEF Fits
<1>5. Fits(y, 0, Banks(e), Regs(e), Notes(e))
  <2> HIDE DEF x
  <2>1. y \in EngineType
    BY <1>1 DEF EngineType, Engine
  <2>2. x.refs = x.held + Cardinality(x.waves) + Len(x.banks)
    BY <1>1, <1>4, Fields DEF Fits
  <2>3. y.refs = y.held + Cardinality(y.waves) + Len(y.banks) + 0
    BY <1>1, <1>3, <1>4, <2>2, Fields DEF Engine
  <2> QED
    BY <1>1, <1>3, <2>1, <2>3 DEF Fits, Engine
<1> QED
  BY <1>2, <1>5, EngineStep

LEMMA UnRegistersWaves ==
    ASSUME IInv, XactAssumption, NEW e \in Engines, NEW w \in WaveBanks,
           UnRegisterWaveBank(e, w)
    PROVE  IInv'
<1> DEFINE x == engine[e]
           y == Engine(x.refs, x.held, x.waves \ {w}, x.banks, x.regs, x.queue)
<1>1. Fits(x, 0, Banks(e), Regs(e), Notes(e)) /\ x \in EngineType /\ w \in x.waves
  BY Typed DEF Fits, UnRegisterWaveBank
<1>2. engine' = [engine EXCEPT ![e] = Dropped(y)] /\ UNCHANGED <<bank, cue>>
  <2>1. [x EXCEPT !.waves = @ \ {w}] = y
    <3> HIDE DEF x
    <3>1. x = [refs |-> x.refs, held |-> x.held, waves |-> x.waves, banks |-> x.banks,
               regs |-> x.regs, queue |-> x.queue]
      BY <1>1, Fields DEF Engine
    <3> QED
      BY <3>1 DEF Engine
  <2> QED
    BY <2>1 DEF UnRegisterWaveBank
<1>3. /\ IsFiniteSet(x.waves \ {w})
      /\ Cardinality(x.waves \ {w}) = Cardinality(x.waves) - 1
  BY <1>1, FS_RemoveElement DEF Fits
<1>4. Cardinality(x.waves) \in Nat /\ Cardinality(x.waves \ {w}) \in Nat
  BY <1>1, <1>3, FS_CardinalityType DEF Fits
<1>5. Fits(y, 1, Banks(e), Regs(e), Notes(e))
  <2> HIDE DEF x
  <2>1. y \in EngineType
    BY <1>1 DEF EngineType, Engine
  <2> QED
    BY <1>1, <1>3, <1>4, <2>1, Fields DEF Fits, Engine
<1> QED
  BY <1>2, <1>5, DroppedFits, EngineStep

(* What it takes to change an engine's registrations and notices. *)
LEMMA Rewrites ==
    ASSUME NEW x, NEW owed, NEW B, NEW R, NEW N, NEW Q, NEW M, Fits(x, owed, B, R, N),
           NEW regs \in Seq(Q), NEW queue \in Seq(M), Len(queue) <= Capacity,
           Q \subseteq Descriptions, M \subseteq Notifications
    PROVE  LET y == Engine(x.refs, x.held, x.waves, x.banks, regs, queue)
           IN  Fits(y, owed, B, Q, M)
<1> DEFINE y == Engine(x.refs, x.held, x.waves, x.banks, regs, queue)
<1>1. x \in EngineType
  BY DEF Fits
<1>2. regs \in Seq(Descriptions) /\ queue \in Seq(Notifications)
  OBVIOUS
<1>3. y \in EngineType
  BY <1>1, <1>2 DEF EngineType, Engine
<1>4. y.refs = x.refs /\ y.held = x.held /\ y.waves = x.waves /\ y.banks = x.banks
      /\ y.regs = regs /\ y.queue = queue
  BY DEF Engine
<1> HIDE DEF y
<1>5. Fits(y, owed, B, Q, M)
  BY <1>3, <1>4 DEF Fits
<1> QED
  BY <1>5 DEF y

LEMMA RemoveFirstIn ==
    ASSUME NEW T, NEW s \in Seq(T), NEW x, Contains(s, x)
    PROVE  RemoveFirst(s, x) \in Seq(T)
<1> DEFINE I == {i \in 1..Len(s) : s[i] = x}
<1>1. I # {} /\ I \subseteq Nat
  BY DEF Contains
<1>2. PICK i \in I : \A j \in I : ~(<<j, i>> \in OpToRel(<, Nat))
  <2> HIDE DEF I
  <2> QED
    BY <1>1, NatLessThanWellFounded, WFMin, Zenon
<1>3. \A j \in I : i <= j
  <2>1. \A j \in I : ~(j < i)
    BY <1>1, <1>2 DEF OpToRel
  <2> HIDE DEF I
  <2> QED
    BY <1>1, <2>1, SMT
<1>4. Min(I) \in 1..Len(s)
  BY <1>2, <1>3 DEF Min
<1>5. RemoveFirst(s, x) = RemoveAt(s, Min(I))
  BY <1>1 DEF RemoveFirst, SelectInSeq, Contains
<1> HIDE DEF I
<1> QED
  BY <1>4, <1>5, RemoveAtDrops

LEMMA RegistersNotification ==
    ASSUME IInv, XactAssumption, NEW e \in Engines, NEW d \in Descriptions,
           RegisterNotification(e, d)
    PROVE  IInv'
<1> DEFINE x == engine[e]
           y == Engine(x.refs, x.held, x.waves, x.banks, <<d>> \o x.regs, x.queue)
<1>1. Fits(x, 0, Banks(e), Regs(e), Notes(e)) /\ x \in EngineType
  BY Typed DEF Fits
<1>2. engine' = [engine EXCEPT ![e] = y] /\ UNCHANGED <<bank, cue>>
  <2>1. [x EXCEPT !.regs = <<d>> \o x.regs] = y
    <3> HIDE DEF x
    <3> QED
      BY <1>1, OneField
  <2>2. engine' = [engine EXCEPT ![e] = [x EXCEPT !.regs = <<d>> \o x.regs]]
    BY DEF RegisterNotification
  <2> QED
    BY <2>1, <2>2 DEF RegisterNotification
<1>3. d \in Regs(e)
  BY Facts DEF RegisterNotification, Regs, Banks, XactAssumption, Description
<1>4. <<d>> \o x.regs \in Seq(Regs(e)) /\ x.queue \in Seq(Notes(e)) /\ Len(x.queue) <= Capacity
  BY <1>1, <1>3 DEF Fits
<1>5. Fits(y, 0, Banks(e), Regs(e), Notes(e))
  <2> HIDE DEF x
  <2> QED
    BY <1>1, <1>4, Rewrites DEF Regs, Notes
<1> QED
  BY <1>2, <1>5, EngineStep

LEMMA UnRegistersNotification ==
    ASSUME IInv, XactAssumption, NEW e \in Engines, NEW d \in Descriptions,
           UnRegisterNotification(e, d)
    PROVE  IInv'
<1> DEFINE x == engine[e]
           y == Engine(x.refs, x.held, x.waves, x.banks, RemoveFirst(x.regs, d), x.queue)
<1>1. Fits(x, 0, Banks(e), Regs(e), Notes(e)) /\ x \in EngineType
  BY Typed DEF Fits
<1>2. engine' = [engine EXCEPT ![e] = y] /\ UNCHANGED <<bank, cue>>
  <2>1. [x EXCEPT !.regs = RemoveFirst(x.regs, d)] = y
    <3> HIDE DEF x
    <3> QED
      BY <1>1, OneField
  <2>2. engine' = [engine EXCEPT ![e] = [x EXCEPT !.regs = RemoveFirst(x.regs, d)]]
    BY DEF UnRegisterNotification
  <2> QED
    BY <2>1, <2>2 DEF UnRegisterNotification
<1>4. RemoveFirst(x.regs, d) \in Seq(Regs(e)) /\ x.queue \in Seq(Notes(e))
      /\ Len(x.queue) <= Capacity
  BY <1>1, RemoveFirstIn DEF Fits, UnRegisterNotification
<1>5. Fits(y, 0, Banks(e), Regs(e), Notes(e))
  <2> HIDE DEF x
  <2> QED
    BY <1>1, <1>4, Rewrites DEF Regs, Notes
<1> QED
  BY <1>2, <1>5, EngineStep

LEMMA GetsNotification ==
    ASSUME IInv, XactAssumption, NEW e \in Engines, NEW d \in Descriptions,
           GetNotification(e, d)
    PROVE  IInv'
<1> DEFINE x == engine[e]
<1>1. Fits(x, 0, Banks(e), Regs(e), Notes(e)) /\ x \in EngineType
  BY Typed DEF Fits
<1>2. PICK i \in DOMAIN x.queue : engine' = [engine EXCEPT ![e].queue = RemoveAt(@, i)]
  BY DEF GetNotification
<1> DEFINE y == Engine(x.refs, x.held, x.waves, x.banks, x.regs, RemoveAt(x.queue, i))
<1>3. engine' = [engine EXCEPT ![e] = y] /\ UNCHANGED <<bank, cue>>
  BY <1>1, <1>2, Typed DEF GetNotification, Engine, EngineType
<1>4. /\ RemoveAt(x.queue, i) \in Seq(Notes(e)) /\ Len(RemoveAt(x.queue, i)) <= Capacity
      /\ x.regs \in Seq(Regs(e))
  <2> HIDE DEF x
  <2>1. x.queue \in Seq(Notes(e)) /\ x.regs \in Seq(Regs(e)) /\ Len(x.queue) <= Capacity
    BY <1>1 DEF Fits
  <2>2. i \in 1..Len(x.queue)
    BY <2>1, <1>2
  <2>3. RemoveAt(x.queue, i) \in Seq(Notes(e)) /\ Len(RemoveAt(x.queue, i)) = Len(x.queue) - 1
    BY <2>1, <2>2, RemoveAtDrops
  <2> QED
    BY <2>1, <2>3, XactAssumption DEF XactAssumption
<1>5. Fits(y, 0, Banks(e), Regs(e), Notes(e))
  <2> HIDE DEF x
  <2> QED
    BY <1>1, <1>4, Rewrites DEF Regs, Notes
<1> QED
  BY <1>3, <1>5, EngineStep

LEMMA FlushesNotification ==
    ASSUME IInv, XactAssumption, NEW e \in Engines, NEW d \in Descriptions,
           FlushNotification(e, d)
    PROVE  IInv'
<1> DEFINE x == engine[e]
           queue == Only(x.queue, {n \in ToSet(x.queue) : ~MatchesDescription(n, d)})
           y == Engine(x.refs, x.held, x.waves, x.banks, x.regs, queue)
<1>1. Fits(x, 0, Banks(e), Regs(e), Notes(e)) /\ x \in EngineType
  BY Typed DEF Fits
<1>2. engine' = [engine EXCEPT ![e] = y] /\ UNCHANGED <<bank, cue>>
  <2>1. [x EXCEPT !.queue = queue] = y
    <3> HIDE DEF x, queue
    <3> QED
      BY <1>1, OneField
  <2>2. engine' = [engine EXCEPT ![e] = [x EXCEPT !.queue = queue]]
    BY DEF FlushNotification
  <2> QED
    BY <2>1, <2>2 DEF FlushNotification
<1>4. queue \in Seq(Notes(e)) /\ Len(queue) <= Capacity /\ x.regs \in Seq(Regs(e))
  <2> HIDE DEF x
  <2>1. x.queue \in Seq(Notes(e)) /\ x.regs \in Seq(Regs(e)) /\ Len(x.queue) <= Capacity
    BY <1>1 DEF Fits
  <2>2. queue \in Seq(Notes(e)) /\ Len(queue) <= Len(x.queue)
    BY <2>1, OnlyKeeps
  <2> HIDE DEF queue
  <2> QED
    BY <2>1, <2>2 DEF XactAssumption
<1>5. Fits(y, 0, Banks(e), Regs(e), Notes(e))
  <2> HIDE DEF x, queue
  <2> QED
    BY <1>1, <1>4, Rewrites DEF Regs, Notes
<1> QED
  BY <1>2, <1>5, EngineStep

-----------------------------------------------------------------------------
(* Calls that change sound banks and cues *)

LEMMA FitsMore ==
    ASSUME NEW x, NEW owed, NEW B, NEW R, NEW N, NEW Q, NEW M, Fits(x, owed, B, R, N),
           R \subseteq Q, N \subseteq M
    PROVE  Fits(x, owed, B, Q, M)
<1>1. x.regs \in Seq(Q) /\ x.queue \in Seq(M)
  BY DEF Fits
<1> QED
  BY <1>1 DEF Fits

LEMMA Prepends ==
    ASSUME NEW T, NEW s \in Seq(T), Distinct(s), NEW b, ~Contains(s, b)
    PROVE  LET t == <<b>> \o s
           IN  /\ t \in Seq(T \cup {b}) /\ Len(t) = Len(s) + 1 /\ Distinct(t)
               /\ \A y : Contains(t, y) <=> Contains(s, y) \/ y = b
<1> DEFINE t == <<b>> \o s
<1>1. /\ t \in Seq(T \cup {b}) /\ Len(t) = Len(s) + 1 /\ t[1] = b
      /\ \A i \in 1..Len(s) : t[i + 1] = s[i]
  OBVIOUS
<1> HIDE DEF t
<1>2. Len(s) \in Nat /\ \A j \in 1..Len(t) : j = 1 \/ (j - 1 \in 1..Len(s) /\ t[j] = s[j - 1])
  BY <1>1
<1>3. Distinct(t)
  <2> SUFFICES ASSUME NEW i \in 1..Len(t), NEW j \in 1..Len(t), t[i] = t[j] PROVE i = j
    BY DEF Distinct
  <2>1. CASE i = 1 \/ j = 1
    BY <2>1, <1>1, <1>2 DEF Contains
  <2>2. CASE i # 1 /\ j # 1
    <3>1. i - 1 \in 1..Len(s) /\ j - 1 \in 1..Len(s) /\ s[i - 1] = s[j - 1]
      BY <2>2, <1>2
    <3>2. i - 1 = j - 1
      BY <3>1 DEF Distinct
    <3> QED
      BY <3>2
  <2> QED
    BY <2>1, <2>2
<1>4. ASSUME NEW y PROVE Contains(t, y) <=> Contains(s, y) \/ y = b
  <2>1. ASSUME Contains(t, y) PROVE Contains(s, y) \/ y = b
    BY <2>1, <1>1, <1>2 DEF Contains
  <2>2. ASSUME y = b PROVE Contains(t, y)
    <3>1. 1 \in 1..Len(t)
      BY <1>1, <1>2
    <3> QED
      BY <2>2, <3>1, <1>1 DEF Contains
  <2>3. ASSUME NEW i \in 1..Len(s), s[i] = y PROVE Contains(t, y)
    <3>1. i + 1 \in 1..Len(t) /\ t[i + 1] = y
      BY <2>3, <1>1, <1>2
    <3> QED
      BY <3>1 DEF Contains
  <2> QED
    BY <2>1, <2>2, <2>3 DEF Contains
<1> QED
  BY <1>1, <1>3, <1>4 DEF t

LEMMA CreatesBank ==
    ASSUME IInv, XactAssumption, NEW e \in Engines, NEW b \in SoundBanks,
           CreateSoundBank(e, b)
    PROVE  IInv'
<1> DEFINE x == engine[e]
           y == Engine(x.refs + 1, x.held, x.waves, <<b>> \o x.banks, x.regs, x.queue)
           new == [engine |-> e, refs |-> 1, cues |-> <<>>]
<1>1. Fits(x, 0, Banks(e), Regs(e), Notes(e)) /\ x \in EngineType
  BY Typed DEF Fits
<1>2. engine' = [engine EXCEPT ![e] = y]
  <2> DEFINE z == Engine(x.refs + 1, x.held, x.waves, x.banks, x.regs, x.queue)
  <2>1. x = [refs |-> x.refs, held |-> x.held, waves |-> x.waves, banks |-> x.banks,
             regs |-> x.regs, queue |-> x.queue]
    BY <1>1, Fields DEF Engine
  <2>2. [x EXCEPT !.refs = @ + 1] = z
    <3> HIDE DEF x
    <3> QED
      BY <2>1 DEF Engine
  <2>3. [z EXCEPT !.banks = <<b>> \o @] = y
    <3>1. z.banks = x.banks
      BY DEF Engine
    <3> DEFINE v == <<b>> \o x.banks
    <3>2. [z EXCEPT !.banks = v] = y
      <4>1. y = Engine(x.refs + 1, x.held, x.waves, v, x.regs, x.queue)
        OBVIOUS
      <4> HIDE DEF v, x, y
      <4>2. [z EXCEPT !.banks = v] = Engine(x.refs + 1, x.held, x.waves, v, x.regs, x.queue)
        BY DEF Engine
      <4> QED
        BY <4>1, <4>2
    <3> HIDE DEF z, y
    <3> QED
      BY <3>1, <3>2
  <2>4. engine' = [engine EXCEPT ![e] = [[x EXCEPT !.refs = @ + 1] EXCEPT !.banks = <<b>> \o @]]
    BY Typed DEF CreateSoundBank, EngineType
  <2> HIDE DEF x, y, z
  <2> QED
    BY <2>2, <2>3, <2>4
<1>3. bank' = [bank EXCEPT ![b] = new] /\ UNCHANGED cue /\ bank[b] = DeadBank
  BY DEF CreateSoundBank
<1>4. bank \in [SoundBanks -> BankType]
  BY DEF IInv, Stocked
<1>5. bank' \in [SoundBanks -> BankType]
  <2>1. new \in BankType
    BY DEF BankType, XactAssumption
  <2> QED
    BY <1>3, <1>4, <2>1
<1>6. \A f \in Engines : b \notin Banks(f)
  BY <1>3 DEF Banks, Owner, DeadBank, XactAssumption
<1>7. \A f \in Engines : Banks(f)' = IF f = e THEN Banks(f) \cup {b} ELSE Banks(f)
  BY <1>3, <1>4, <1>6 DEF Banks, Owner
<1>8. \A f \in Engines : Regs(f) \subseteq Regs(f)' /\ Notes(f) \subseteq Notes(f)'
  BY <1>3, <1>7 DEF Regs, Notes
<1>9. ~Contains(x.banks, b)
  BY <1>1, <1>6 DEF Fits, Contains
<1>10. Fits(y, 0, Banks(e)', Regs(e), Notes(e))
  <2> HIDE DEF x
  <2>1. /\ <<b>> \o x.banks \in Seq(Banks(e) \cup {b})
        /\ Len(<<b>> \o x.banks) = Len(x.banks) + 1 /\ Distinct(<<b>> \o x.banks)
        /\ \A z : Contains(<<b>> \o x.banks, z) <=> Contains(x.banks, z) \/ z = b
    BY <1>1, <1>9, Prepends DEF Fits
  <2> DEFINE banks == <<b>> \o x.banks
  <2>2. banks \in Seq(SoundBanks)
    BY <1>1, Fields
  <2> HIDE DEF banks
  <2>3. y \in EngineType
    BY <1>1, <2>2 DEF EngineType, Engine, banks
  <2>4. Cardinality(x.waves) \in Nat /\ Len(x.banks) \in Nat /\ x.held \in Nat
    BY <1>1, FS_CardinalityType, Fields DEF Fits
  <2>5. /\ y.refs = x.refs + 1 /\ y.held = x.held /\ y.waves = x.waves /\ y.banks = banks
        /\ y.regs = x.regs /\ y.queue = x.queue
    BY DEF Engine, banks
  <2>6. y.refs = y.held + Cardinality(y.waves) + Len(y.banks) + 0
    <3>1. Len(banks) = Len(x.banks) + 1
      BY <2>1 DEF banks
    <3>2. x.refs = x.held + Cardinality(x.waves) + Len(x.banks)
      BY <1>1, <2>4 DEF Fits
    <3> HIDE DEF y
    <3> QED
      BY <2>4, <2>5, <3>1, <3>2
  <2>7. Banks(e)' = Banks(e) \cup {b}
    BY <1>7
  <2>8. banks \in Seq(Banks(e)') /\ Distinct(banks) /\ \A z \in Banks(e)' : Contains(banks, z)
    BY <1>1, <2>1, <2>7 DEF banks, Fits
  <2> HIDE DEF y
  <2> QED
    BY <1>1, <2>3, <2>5, <2>6, <2>8 DEF Fits
<1>11. ASSUME NEW f \in Engines PROVE Fits(engine'[f], 0, Banks(f)', Regs(f)', Notes(f)')
  <2>1. CASE f = e
    <3>1. engine'[f] = y
      BY <2>1, <1>2, Typed
    <3> HIDE DEF y
    <3> QED
      BY <2>1, <3>1, <1>8, <1>10, FitsMore
  <2>2. CASE f # e
    <3>1. engine'[f] = engine[f] /\ Banks(f)' = Banks(f)
      BY <2>2, <1>2, <1>7, Typed
    <3>2. Fits(engine[f], 0, Banks(f), Regs(f), Notes(f))
      BY Typed
    <3> QED
      BY <3>1, <3>2, <1>8, FitsMore
  <2> QED
    BY <2>1, <2>2
<1>12. engine' = [f \in Engines |-> engine'[f]]
  BY <1>2, Typed
<1>13. Stocked'
  <2>1. \A f : CuesIn(f)' = CuesIn(f)
    BY <1>3 DEF CuesIn
  <2>2. \A f \in SoundBanks : bank'[f].cues \in Seq(CuesIn(f))
    BY <1>3, <1>4 DEF IInv, Stocked
  <2> QED
    BY <2>1, <2>2, <1>5 DEF Stocked
<1> QED
  BY <1>3, <1>11, <1>12, <1>13 DEF IInv, Housed, Fits

LEMMA SameOwners ==
    ASSUME \A b \in SoundBanks : Owner(b)' = Owner(b), UNCHANGED <<engine, cue>>, IInv,
           Stocked'
    PROVE  IInv'
<1>1. \A e : Banks(e)' = Banks(e)
  BY DEF Banks
<1>2. \A e : Regs(e)' = Regs(e) /\ Notes(e)' = Notes(e)
  BY <1>1 DEF Regs, Notes
<1> QED
  BY <1>1, <1>2 DEF IInv, Housed, Fits

LEMMA BankReferences ==
    ASSUME IInv, XactAssumption, NEW b \in SoundBanks, LiveBank(b), NEW k \in 1..MaxRefs,
           bank' = [bank EXCEPT ![b].refs = k], UNCHANGED <<engine, cue>>
    PROVE  IInv'
<1>1. bank \in [SoundBanks -> BankType] /\ bank[b] # DeadBank
  BY Facts DEF IInv, Stocked
<1>2. bank[b] \in [engine : Engines, refs : 1..MaxRefs, cues : Seq(Cues)]
  BY <1>1 DEF BankType
<1>3. [bank[b] EXCEPT !.refs = k] \in [engine : Engines, refs : 1..MaxRefs, cues : Seq(Cues)]
      /\ [bank[b] EXCEPT !.refs = k].engine = bank[b].engine
      /\ [bank[b] EXCEPT !.refs = k].cues = bank[b].cues
  BY <1>2
<1>4. bank' = [bank EXCEPT ![b] = [bank[b] EXCEPT !.refs = k]]
  OBVIOUS
<1>5. bank' \in [SoundBanks -> BankType]
  BY <1>1, <1>3, <1>4 DEF BankType
<1>6. \A f \in SoundBanks : bank'[f].engine = bank[f].engine /\ bank'[f].cues = bank[f].cues
  BY <1>1, <1>3, <1>4
<1>7. Stocked'
  <2>1. \A f : CuesIn(f)' = CuesIn(f)
    BY DEF CuesIn
  <2> QED
    BY <2>1, <1>5, <1>6 DEF IInv, Stocked
<1>8. \A f \in SoundBanks : Owner(f)' = Owner(f)
  BY <1>6 DEF Owner
<1> QED
  BY <1>7, <1>8, SameOwners

LEMMA ForeignIn ==
    ASSUME NEW T, NEW s \in Seq(T), NEW b
    PROVE  /\ Foreign(s, b) \in Seq({r \in T : r.bank # b})
           /\ Len(Foreign(s, b)) <= Len(s)
<1> DEFINE S == {r \in ToSet(s) : r.bank # b}
<1>1. Only(s, S) \in Seq(T \cap S) /\ Len(Only(s, S)) <= Len(s)
  <2> HIDE DEF S
  <2> QED
    BY OnlyIn, OnlyKeeps
<1>2. T \cap S \subseteq {r \in T : r.bank # b}
  OBVIOUS
<1> DEFINE t == Only(s, S)
<1> HIDE DEF t
<1>3. t \in Seq(T \cap S) /\ Len(t) <= Len(s)
  BY <1>1 DEF t
<1> HIDE DEF S
<1>4. t \in Seq({r \in T : r.bank # b})
  BY <1>2, <1>3
<1> QED
  BY <1>3, <1>4 DEF t, S, Foreign

LEMMA FinallyReleases ==
    ASSUME IInv, XactAssumption, NEW b \in SoundBanks, LiveBank(b), FinalRelease(b)
    PROVE  IInv'
<1>0. PICK e \in Engines : e = Owner(b)
  BY Facts
<1> DEFINE x == engine[e]
           banks == RemoveFirst(x.banks, b)
           regs == Foreign(x.regs, b)
           queue == Foreign(x.queue, b)
           y == Engine(x.refs, x.held, x.waves, banks, regs, queue)
<1>1. e \in Engines /\ Contains(x.banks, b)
  BY <1>0, Facts
<1>2. Fits(x, 0, Banks(e), Regs(e), Notes(e)) /\ x \in EngineType
  BY <1>1, Typed DEF Fits
<1>3. engine' = [engine EXCEPT ![e] = Dropped(y)]
  <2> DEFINE z == Engine(x.refs, x.held, x.waves, banks, x.regs, x.queue)
  <2>1. [x EXCEPT !.banks = RemoveFirst(@, b)] = z
    <3> HIDE DEF x
    <3> QED
      BY <1>2, OneField
  <2>2. Without(z, b) = y
    <3> DEFINE w == Engine(x.refs, x.held, x.waves, banks, regs, x.queue)
    <3>1. z.regs = x.regs /\ w.queue = x.queue
      BY DEF Engine
    <3>2. Without(z, b) = [[z EXCEPT !.regs = Foreign(z.regs, b)]
                              EXCEPT !.queue = Foreign(z.queue, b)] /\ z.queue = x.queue
      BY DEF Without, Engine
    <3>3. [z EXCEPT !.regs = regs] = w
      <4> HIDE DEF x, banks, regs
      <4> QED
        BY DEF Engine
    <3>4. [w EXCEPT !.queue = queue] = y
      <4> HIDE DEF x, banks, regs, queue
      <4> QED
        BY DEF Engine
    <3>5. regs = Foreign(z.regs, b) /\ queue = Foreign(z.queue, b)
      BY <3>1, <3>2
    <3> HIDE DEF x, y, z, w, banks, regs, queue
    <3> QED
      BY <3>2, <3>3, <3>4, <3>5
  <2>3. engine' = [engine EXCEPT ![e] = Dropped(Without([x EXCEPT !.banks = RemoveFirst(@, b)], b))]
    BY <1>0 DEF FinalRelease
  <2> HIDE DEF x, y, z
  <2> QED
    BY <2>1, <2>2, <2>3
<1>4. /\ bank' = [bank EXCEPT ![b] = DeadBank]
      /\ cue' = [c \in Cues |-> IF Contains(bank[b].cues, c) THEN DeadCue ELSE cue[c]]
  BY DEF FinalRelease
<1>5. /\ bank \in [SoundBanks -> BankType] /\ cue \in [Cues -> CueType]
      /\ \A f \in SoundBanks : bank[f].cues \in Seq(CuesIn(f))
  BY DEF IInv, Stocked
<1>6. bank' \in [SoundBanks -> BankType] /\ cue' \in [Cues -> CueType]
  BY <1>4, <1>5 DEF BankType, CueType
<1>7. \A c \in Cues : Contains(bank[b].cues, c) => cue[c].bank = b
  <2> DEFINE s == bank[b].cues
  <2>1. s \in Seq(CuesIn(b))
    BY <1>5
  <2> HIDE DEF s
  <2>2. \A i \in 1..Len(s) : cue[s[i]].bank = b
    BY <2>1 DEF CuesIn
  <2> QED
    BY <2>2 DEF Contains, s
<1>8. \A f \in Engines : Banks(f)' = Banks(f) \ {b}
  BY <1>4, <1>5 DEF Banks, Owner, DeadBank, XactAssumption
<1>9. \A f \in Engines : \A n \in Notes(f) : n.bank # b => n \in Notes(f)'
  <2> SUFFICES ASSUME NEW f \in Engines, NEW n \in Notes(f), n.bank # b PROVE n \in Notes(f)'
    OBVIOUS
  <2>1. n \in Notifications /\ n.cue \in Cues
    BY DEF Notes, Notifications
  <2>2. n.gone \/ cue'[n.cue] = cue[n.cue]
    BY <2>1, <1>4, <1>7 DEF Notes
  <2> QED
    BY <2>1, <2>2, <1>8 DEF Notes
<1>10. \A f \in Engines : \A d \in Regs(f) : d.bank # b => d \in Regs(f)'
  BY <1>8 DEF Regs
<1>11. Fits(y, 1, Banks(e)', Regs(e)', Notes(e)')
  <2> HIDE DEF x
  <2>1. banks \in Seq(Banks(e)) /\ Len(banks) = Len(x.banks) - 1 /\ Distinct(banks)
        /\ \A z : Contains(banks, z) <=> (Contains(x.banks, z) /\ z # b)
    BY <1>1, <1>2, RemoveFirstDrops DEF Fits
  <2>2. /\ regs \in Seq({r \in Regs(e) : r.bank # b})
        /\ queue \in Seq({n \in Notes(e) : n.bank # b}) /\ Len(queue) <= Len(x.queue)
    BY <1>2, ForeignIn DEF Fits
  <2> HIDE DEF banks, regs, queue
  <2>3. banks \in Seq(Banks(e)')
    <3>1. \A i \in 1..Len(banks) : Contains(banks, banks[i])
      BY DEF Contains
    <3>2. \A i \in 1..Len(banks) : banks[i] # b
      BY <2>1, <3>1
    <3>3. banks \in Seq(Banks(e) \ {b})
      BY <2>1, <3>2
    <3> QED
      BY <3>3, <1>1, <1>8
  <2>4. regs \in Seq(Regs(e)')
    <3>1. {r \in Regs(e) : r.bank # b} \subseteq Regs(e)'
      BY <1>1, <1>10
    <3> QED
      BY <2>2, <3>1
  <2>5. queue \in Seq(Notes(e)')
    <3>1. {n \in Notes(e) : n.bank # b} \subseteq Notes(e)'
      BY <1>1, <1>9
    <3> QED
      BY <2>2, <3>1
  <2>6. banks \in Seq(SoundBanks) /\ regs \in Seq(Descriptions) /\ queue \in Seq(Notifications)
    BY <2>1, <2>2 DEF Banks, Regs, Notes
  <2>7. y \in EngineType
    BY <1>2, <2>6 DEF EngineType, Engine
  <2>8. /\ y.refs = x.refs /\ y.held = x.held /\ y.waves = x.waves /\ y.banks = banks
        /\ y.regs = regs /\ y.queue = queue
    BY DEF Engine
  <2>9. Cardinality(x.waves) \in Nat /\ Len(x.banks) \in Nat /\ x.held \in Nat
        /\ Len(x.queue) \in Nat
    BY <1>2, FS_CardinalityType, Fields DEF Fits
  <2>10. y.refs = y.held + Cardinality(y.waves) + Len(y.banks) + 1
    <3>1. x.refs = x.held + Cardinality(x.waves) + Len(x.banks)
      BY <1>2, <2>9 DEF Fits
    <3> HIDE DEF y
    <3> QED
      BY <2>1, <2>8, <2>9, <3>1
  <2>11. \A z \in Banks(e)' : Contains(banks, z)
    BY <1>1, <1>2, <1>8, <2>1 DEF Fits
  <2>12. Len(queue) <= Capacity
    BY <1>2, <2>2, <2>6, <2>9 DEF Fits, XactAssumption
  <2> HIDE DEF y
  <2> QED
    BY <1>2, <2>1, <2>3, <2>4, <2>5, <2>7, <2>8, <2>10, <2>11, <2>12 DEF Fits
<1>12. ASSUME NEW f \in Engines PROVE Fits(engine'[f], 0, Banks(f)', Regs(f)', Notes(f)')
  <2>1. CASE f = e
    <3>1. engine'[f] = Dropped(y)
      BY <2>1, <1>3, Typed
    <3> HIDE DEF y
    <3> QED
      BY <2>1, <3>1, <1>11, DroppedFits
  <2>2. CASE f # e
    <3>1. b \notin Banks(f)
      BY <2>2, <1>0 DEF Banks
    <3>2. engine'[f] = engine[f] /\ Banks(f)' = Banks(f)
      BY <2>2, <3>1, <1>3, <1>8, Typed
    <3>3. Regs(f) \subseteq Regs(f)' /\ Notes(f) \subseteq Notes(f)'
      <4>1. \A d \in Regs(f) : d.bank # b
        BY <3>1 DEF Regs, XactAssumption
      <4>2. \A n \in Notes(f) : n.bank # b
        BY <3>1 DEF Notes
      <4> QED
        BY <4>1, <4>2, <1>9, <1>10
    <3>4. Fits(engine[f], 0, Banks(f), Regs(f), Notes(f))
      BY Typed
    <3> QED
      BY <3>2, <3>3, <3>4, FitsMore
  <2> QED
    BY <2>1, <2>2
<1>13. engine' = [f \in Engines |-> engine'[f]]
  BY <1>3, Typed
<1>14. Stocked'
  <2> SUFFICES ASSUME NEW f \in SoundBanks PROVE bank'[f].cues \in Seq(CuesIn(f)')
    BY <1>6 DEF Stocked
  <2>1. CASE f = b
    <3>1. bank'[f].cues = <<>>
      BY <2>1, <1>4, <1>5 DEF DeadBank
    <3>2. <<>> \in Seq(CuesIn(f)')
      OBVIOUS
    <3> QED
      BY <3>1, <3>2
  <2>2. CASE f # b
    <3>1. bank'[f].cues = bank[f].cues
      BY <2>2, <1>4, <1>5
    <3>2. CuesIn(f) \subseteq CuesIn(f)'
      BY <2>2, <1>4, <1>7 DEF CuesIn
    <3> QED
      BY <3>1, <3>2, <1>5
  <2> QED
    BY <2>1, <2>2
<1> QED
  BY <1>6, <1>12, <1>13, <1>14 DEF IInv, Housed

LEMMA SameBanks ==
    ASSUME IInv, \A b \in SoundBanks : Owner(b)' = Owner(b), UNCHANGED engine,
           \A f \in Engines : Notes(f) \subseteq Notes(f)',
           Stocked', cue' \in [Cues -> CueType]
    PROVE  IInv'
<1>1. \A f : Banks(f)' = Banks(f)
  BY DEF Banks
<1>2. \A f : Regs(f)' = Regs(f)
  BY <1>1 DEF Regs
<1>3. ASSUME NEW f \in Engines PROVE Fits(engine'[f], 0, Banks(f)', Regs(f)', Notes(f)')
  <2>1. Fits(engine[f], 0, Banks(f), Regs(f), Notes(f))
    BY Typed
  <2> QED
    BY <2>1, <1>1, <1>2, FitsMore
<1>4. engine' = [f \in Engines |-> engine'[f]]
  BY DEF IInv, Housed
<1> QED
  BY <1>3, <1>4 DEF IInv, Housed

LEMMA CreatesCue ==
    ASSUME IInv, XactAssumption, NEW b \in SoundBanks, NEW i \in Indexes,
           NEW auto \in BOOLEAN, NEW play \in BOOLEAN, CreateCue(b, i, auto, play)
    PROVE  IInv'
<1> DEFINE new == [bank |-> b, index |-> i, auto |-> auto, playing |-> play, sounding |-> play]
<1>1. PICK c \in Cues : /\ cue[c] = DeadCue
                        /\ cue' = [cue EXCEPT ![c] = new]
                        /\ bank' = [bank EXCEPT ![b].cues = <<c>> \o @]
  BY DEF CreateCue
<1>2. /\ bank \in [SoundBanks -> BankType] /\ cue \in [Cues -> CueType]
      /\ \A f \in SoundBanks : bank[f].cues \in Seq(CuesIn(f))
  BY DEF IInv, Stocked
<1>3. cue' \in [Cues -> CueType]
  <2>1. new \in CueType
    BY DEF CueType
  <2> HIDE DEF new
  <2> QED
    BY <2>1, <1>1, <1>2
<1> DEFINE cues == <<c>> \o bank[b].cues
           full == [bank[b] EXCEPT !.cues = cues]
<1>4. /\ bank[b] \in [engine : Engines, refs : 1..MaxRefs, cues : Seq(Cues)]
      /\ bank' = [bank EXCEPT ![b] = full]
  <2>1. bank[b] # DeadBank
    BY Facts DEF CreateCue
  <2> QED
    BY <2>1, <1>1, <1>2 DEF BankType
<1>5. full \in BankType /\ full.engine = bank[b].engine /\ full.cues = cues
  <2>1. cues \in Seq(Cues)
    BY <1>4
  <2> HIDE DEF cues
  <2> QED
    BY <2>1, <1>4 DEF BankType
<1>6. cue'[c] = new /\ \A z \in Cues : z # c => cue'[z] = cue[z]
  BY <1>1, <1>2
<1>7. Stocked'
  <2>1. bank' \in [SoundBanks -> BankType]
    BY <1>2, <1>4, <1>5
  <2>2. ASSUME NEW f \in SoundBanks PROVE bank'[f].cues \in Seq(CuesIn(f)')
    <3>1. CuesIn(f) \subseteq CuesIn(f)'
      BY <1>1, <1>6 DEF CuesIn, DeadCue, XactAssumption
    <3>2. bank[f].cues \in Seq(CuesIn(f)')
      BY <1>2, <3>1
    <3>3. CASE f = b
      <4>1. c \in CuesIn(f)'
        BY <1>6, <3>3 DEF CuesIn
      <4>2. bank'[f].cues = <<c>> \o bank[f].cues
        BY <3>3, <1>2, <1>4, <1>5
      <4> DEFINE old == bank[f].cues
                 C == CuesIn(f)'
      <4>3. old \in Seq(C) /\ c \in C
        BY <3>2, <4>1
      <4> HIDE DEF old, C
      <4>4. <<c>> \o old \in Seq(C)
        BY <4>3
      <4> QED
        BY <4>2, <4>4 DEF old, C
    <3>4. CASE f # b
      BY <3>2, <3>4, <1>4
    <3> QED
      BY <3>3, <3>4
  <2> QED
    BY <2>1, <2>2 DEF Stocked
<1>8. \A f \in SoundBanks : Owner(f)' = Owner(f)
  BY <1>2, <1>4, <1>5 DEF Owner
<1>9. \A f \in Engines : Notes(f) \subseteq Notes(f)'
  <2>1. \A f : Banks(f)' = Banks(f)
    BY <1>8 DEF Banks
  <2>2. ASSUME NEW f \in Engines, NEW n \in Notes(f) PROVE n \in Notes(f)'
    <3>1. n \in Notifications /\ n.cue \in Cues /\ n.bank \in SoundBanks
      BY DEF Notes, Notifications
    <3>2. n.gone \/ n.cue # c
      BY <3>1, <1>1 DEF Notes, DeadCue, XactAssumption
    <3> QED
      BY <3>1, <3>2, <2>1, <1>6 DEF Notes
  <2> QED
    BY <2>2
<1> QED
  BY <1>3, <1>7, <1>8, <1>9, SameBanks DEF CreateCue

LEMMA Finishes ==
    ASSUME IInv, NEW c \in Cues, HostFinishes(c)
    PROVE  IInv'
<1>1. cue \in [Cues -> CueType] /\ cue[c] # DeadCue
  BY DEF IInv, HostFinishes, DeadCue
<1>2. cue[c] \in [bank : SoundBanks, index : Indexes, auto : BOOLEAN,
                  playing : BOOLEAN, sounding : BOOLEAN]
  BY <1>1 DEF CueType
<1> DEFINE new == [cue[c] EXCEPT !.sounding = FALSE]
<1>3. new \in CueType /\ new.bank = cue[c].bank /\ new.playing = cue[c].playing
  BY <1>2 DEF CueType
<1>4. cue' = [cue EXCEPT ![c] = new] /\ UNCHANGED <<engine, bank>>
  BY DEF HostFinishes
<1>5. cue' \in [Cues -> CueType]
  <2> HIDE DEF new
  <2> QED
    BY <1>1, <1>3, <1>4
<1>6. \A z \in Cues : cue'[z].bank = cue[z].bank /\ cue'[z].playing = cue[z].playing
  BY <1>1, <1>3, <1>4
<1>7. \A f \in SoundBanks : Owner(f)' = Owner(f)
  BY <1>4 DEF Owner
<1>8. Stocked'
  <2>1. \A f : CuesIn(f)' = CuesIn(f)
    BY <1>6 DEF CuesIn
  <2> QED
    BY <2>1, <1>4 DEF IInv, Stocked
<1>9. \A f \in Engines : Notes(f) \subseteq Notes(f)'
  <2>1. \A f : Banks(f)' = Banks(f)
    BY <1>7 DEF Banks
  <2> QED
    BY <2>1, <1>6 DEF Notes, Notifications
<1> QED
  BY <1>4, <1>5, <1>7, <1>8, <1>9, SameBanks

(* A notice once its cue is among the destroyed. *)
Outcome(n, released) == [n EXCEPT !.gone = n.gone \/ n.cue \in released]

LEMMA Outcomes ==
    ASSUME NEW n \in Notifications, NEW released
    PROVE  LET m == Outcome(n, released)
           IN  /\ m = [bank |-> n.bank, index |-> n.index, cue |-> n.cue,
                       destroyed |-> n.destroyed, gone |-> m.gone]
               /\ m \in Notifications
               /\ m.gone <=> n.gone \/ n.cue \in released
<1> DEFINE g == (n.gone \/ n.cue \in released)
           m == [bank |-> n.bank, index |-> n.index, cue |-> n.cue,
                 destroyed |-> n.destroyed, gone |-> g]
<1>1. g \in BOOLEAN
  OBVIOUS
<1>2. Outcome(n, released) = [n EXCEPT !.gone = g]
  BY DEF Outcome
<1> HIDE DEF g
<1>3. [n EXCEPT !.gone = g] = m
  BY DEF Notifications
<1>4. m \in Notifications
  BY <1>1 DEF Notifications
<1>5. m.gone = g
  OBVIOUS
<1>6. Outcome(n, released) = m
  BY <1>2, <1>3
<1>7. m = [bank |-> n.bank, index |-> n.index, cue |-> n.cue,
           destroyed |-> n.destroyed, gone |-> m.gone]
  BY <1>5
<1> HIDE DEF m
<1> QED
  BY <1>4, <1>5, <1>6, <1>7 DEF g

LEMMA Notifies ==
    ASSUME NEW c \in Cues, cue[c].bank \in SoundBanks, cue[c].index \in Indexes,
           NEW destroyed \in BOOLEAN
    PROVE  /\ Notification(c, destroyed) \in Notifications
           /\ Notification(c, destroyed).bank = cue[c].bank
           /\ Notification(c, destroyed).cue = c
           /\ Notification(c, destroyed).destroyed = destroyed
BY DEF Notification, Notifications

LEMMA StoppedFits ==
    ASSUME XactAssumption, NEW x, NEW B, NEW R \in SUBSET Descriptions, NEW N, NEW M,
           Fits(x, 0, B, R, N), N \subseteq Notifications, M \subseteq Notifications,
           NEW C, NEW stopping \in Seq(C), NEW flagged, NEW released,
           \A n \in N : Outcome(n, released) \in M,
           \A c \in C : /\ Notification(c, c \in flagged) \in Notifications
                        /\ Outcome(Notification(c, c \in flagged), released) \in M
    PROVE  Fits(Stopped(x, stopping, flagged, released), 0, B, R, M)
<1> DEFINE Pre == {n \in Notifications : Outcome(n, released) \in M}
<1>1. /\ x.regs \in Seq(R) /\ x.queue \in Seq(Pre) /\ Len(x.queue) <= Capacity
      /\ \A c \in C : Notification(c, c \in flagged) \in Pre
  <2>1. N \subseteq Pre
    OBVIOUS
  <2>2. x.regs \in Seq(R) /\ x.queue \in Seq(N) /\ Len(x.queue) <= Capacity
    BY DEF Fits
  <2>3. x.queue \in Seq(Pre)
    <3> HIDE DEF Pre
    <3> QED
      BY <2>1, <2>2
  <2> QED
    BY <2>2, <2>3
<1> HIDE DEF Pre
<1>2. PICK regs \in Seq(R), queue \in Seq(Pre) :
         /\ Len(queue) <= Capacity
         /\ Stopped(x, stopping, flagged, released) = Told(x, regs, queue, released)
  BY <1>1, StoppedKeeps
<1> DEFINE told == [i \in DOMAIN queue |->
                      [queue[i] EXCEPT !.gone = queue[i].gone \/ queue[i].cue \in released]]
<1>3. told \in Seq(M) /\ Len(told) = Len(queue)
  <2>1. \A i \in DOMAIN queue : told[i] = Outcome(queue[i], released)
    BY DEF Outcome
  <2>2. \A i \in DOMAIN queue : told[i] \in M
    BY <2>1 DEF Pre
  <2>3. DOMAIN told = 1..Len(queue) /\ DOMAIN queue = 1..Len(queue)
    OBVIOUS
  <2>4. told = [i \in 1..Len(queue) |-> told[i]]
    BY <2>3
  <2> HIDE DEF told
  <2> QED
    BY <2>2, <2>3, <2>4
<1> DEFINE y == Engine(x.refs, x.held, x.waves, x.banks, regs, told)
<1>4. Stopped(x, stopping, flagged, released) = y
  <2>1. Stopped(x, stopping, flagged, released)
          = [[x EXCEPT !.regs = regs] EXCEPT !.queue = told]
    BY <1>2 DEF Told
  <2>2. x \in EngineType
    BY DEF Fits
  <2>3. x = [refs |-> x.refs, held |-> x.held, waves |-> x.waves, banks |-> x.banks,
             regs |-> x.regs, queue |-> x.queue]
    BY <2>2, Fields DEF Engine
  <2> HIDE DEF told
  <2>4. [x EXCEPT !.regs = regs]
          = Engine(x.refs, x.held, x.waves, x.banks, regs, x.queue)
    BY <2>3 DEF Engine
  <2>5. [Engine(x.refs, x.held, x.waves, x.banks, regs, x.queue) EXCEPT !.queue = told] = y
    BY DEF Engine
  <2> HIDE DEF y
  <2> QED
    BY <2>1, <2>4, <2>5
<1> HIDE DEF told
<1>5. Fits(y, 0, B, R, M)
  BY <1>2, <1>3, Rewrites
<1> HIDE DEF y
<1> QED
  BY <1>4, <1>5

LEMMA ListedKeeps ==
    ASSUME IInv, NEW b \in SoundBanks, NEW S
    PROVE  /\ Listed(b, S) \in BankType /\ Listed(b, S).engine = Owner(b)
           /\ Listed(b, S).cues \in Seq(CuesIn(b) \ S)
<1> DEFINE was == bank[b].cues
           cues == Only(was, Cues \ S)
<1>1. bank[b] \in BankType /\ was \in Seq(CuesIn(b))
  BY DEF IInv, Stocked
<1>2. cues \in Seq(CuesIn(b) \cap (Cues \ S)) /\ Len(cues) <= Len(was)
  <2> HIDE DEF was
  <2> QED
    BY <1>1, OnlyIn, OnlyKeeps
<1>3. Listed(b, S) = [bank[b] EXCEPT !.cues = cues]
  BY DEF Listed
<1> HIDE DEF cues
<1>4. cues \in Seq(CuesIn(b) \ S) /\ cues \in Seq(Cues)
  <2>1. CuesIn(b) \cap (Cues \ S) \subseteq CuesIn(b) \ S /\ CuesIn(b) \ S \subseteq Cues
    BY DEF CuesIn
  <2> QED
    BY <2>1, <1>2
<1>5. CASE bank[b] = DeadBank
  <2>1. cues = <<>>
    BY <1>5, <1>2 DEF DeadBank
  <2>2. Listed(b, S) = DeadBank
    BY <2>1, <1>3, <1>5 DEF DeadBank
  <2>3. <<>> \in Seq(CuesIn(b) \ S)
    OBVIOUS
  <2> QED
    BY <2>2, <2>3, <1>5 DEF BankType, Owner, DeadBank
<1>6. CASE bank[b] # DeadBank
  BY <1>1, <1>3, <1>4, <1>6 DEF BankType, Owner
<1> QED
  BY <1>5, <1>6

LEMMA Stops ==
    ASSUME IInv, XactAssumption, NEW b \in SoundBanks, NEW i, NEW c, SoundBankStop(b, i, c)
    PROVE  IInv'
<1> DEFINE hit == {x \in Cues : IF c # NoCue THEN x = c ELSE i = AnyIndex \/ cue[x].index = i}
<1> DEFINE stopping == Only(bank[b].cues, hit)
<1>1. PICK e \in Engines : e = Owner(b)
  BY Facts DEF SoundBankStop
<1>2. PICK released : released = ToSet(stopping)
  OBVIOUS
<1>3. /\ engine' = [engine EXCEPT ![e] = Stopped(engine[e], stopping, released, released)]
      /\ bank' = [bank EXCEPT ![b] = Listed(b, released)]
      /\ cue' = [x \in Cues |-> IF x \in released THEN DeadCue ELSE cue[x]]
  BY <1>1, <1>2 DEF SoundBankStop
<1>4. /\ bank \in [SoundBanks -> BankType] /\ cue \in [Cues -> CueType]
      /\ \A f \in SoundBanks : bank[f].cues \in Seq(CuesIn(f))
  BY DEF IInv, Stocked
<1>5. stopping \in Seq(released) /\ released \subseteq CuesIn(b)
  <2> DEFINE was == bank[b].cues
  <2>1. was \in Seq(CuesIn(b)) /\ stopping = Only(was, hit)
    BY <1>4
  <2> HIDE DEF was, hit, stopping
  <2>2. stopping \in Seq(CuesIn(b))
    BY <2>1, OnlyKeeps
  <2> QED
    BY <2>2, <1>2 DEF ToSet
<1> HIDE DEF stopping
<1>6. \A x \in released : x \in Cues /\ cue[x].bank = b /\ cue[x].index \in Indexes
  BY <1>4, <1>5 DEF CuesIn, CueType, DeadCue, XactAssumption
<1>7. cue' \in [Cues -> CueType]
  BY <1>3, <1>4 DEF CueType
<1>8. \A f \in SoundBanks : Owner(f)' = Owner(f)
  BY <1>3, <1>4, ListedKeeps DEF Owner
<1>9. \A f : Banks(f)' = Banks(f) /\ Regs(f)' = Regs(f)
  BY <1>8 DEF Banks, Regs
<1>10. \A n \in Notifications :
          n.cue \notin released => cue'[n.cue] = cue[n.cue]
  BY <1>3 DEF Notifications
<1>11. Fits(Stopped(engine[e], stopping, released, released), 0, Banks(e), Regs(e), Notes(e)')
  <2>1. Fits(engine[e], 0, Banks(e), Regs(e), Notes(e))
    BY Typed
  <2>2. ASSUME NEW n \in Notes(e) PROVE Outcome(n, released) \in Notes(e)'
    <3>1. /\ n \in Notifications /\ n.bank \in Banks(e) /\ (n.destroyed => n.gone)
          /\ n.gone \/ (cue[n.cue].bank = n.bank /\ ~cue[n.cue].playing)
      BY DEF Notes
    <3> DEFINE m == Outcome(n, released)
    <3>2. /\ m \in Notifications /\ m.bank = n.bank /\ m.cue = n.cue
          /\ m.destroyed = n.destroyed /\ (m.gone <=> n.gone \/ n.cue \in released)
      <4> HIDE DEF m
      <4>1. /\ m = [bank |-> n.bank, index |-> n.index, cue |-> n.cue,
                    destroyed |-> n.destroyed, gone |-> m.gone]
            /\ m \in Notifications
            /\ m.gone <=> n.gone \/ n.cue \in released
        BY <3>1, Outcomes DEF m
      <4> QED
        BY <4>1
    <3> HIDE DEF m
    <3>3. m \in Notes(e)'
      BY <3>1, <3>2, <1>9, <1>10 DEF Notes
    <3> QED
      BY <3>3 DEF m
  <2>3. ASSUME NEW x \in released
        PROVE  /\ Notification(x, x \in released) \in Notifications
               /\ Outcome(Notification(x, x \in released), released) \in Notes(e)'
    <3> DEFINE n == Notification(x, x \in released)
               m == Outcome(n, released)
    <3>1. x \in Cues /\ cue[x].bank = b /\ cue[x].index \in Indexes /\ x \in released
      BY <1>6
    <3>2. n \in Notifications /\ n.bank = b /\ n.cue = x
      <4>1. (x \in released) \in BOOLEAN
        OBVIOUS
      <4> QED
        BY <3>1, <4>1, Notifies
    <3> HIDE DEF n
    <3>3. m \in Notifications /\ m.bank = b /\ m.gone
      <4> HIDE DEF m
      <4>1. /\ m = [bank |-> n.bank, index |-> n.index, cue |-> n.cue,
                    destroyed |-> n.destroyed, gone |-> m.gone]
            /\ m \in Notifications
            /\ m.gone <=> n.gone \/ n.cue \in released
        BY <3>2, Outcomes DEF m
      <4> QED
        BY <4>1, <3>1, <3>2
    <3>4. b \in Banks(e)'
      BY <1>1, <1>9 DEF Banks
    <3> HIDE DEF m
    <3>5. m \in Notes(e)'
      BY <3>3, <3>4 DEF Notes
    <3> QED
      BY <3>2, <3>5 DEF n, m
  <2> DEFINE M == Notes(e)'
  <2>4. Notes(e) \subseteq Notifications /\ M \subseteq Notifications
        /\ Regs(e) \in SUBSET Descriptions
    BY DEF Notes, Regs
  <2>5. \A n \in Notes(e) : Outcome(n, released) \in M
    BY <2>2
  <2>6. \A x \in released :
           /\ Notification(x, x \in released) \in Notifications
           /\ Outcome(Notification(x, x \in released), released) \in M
    BY <2>3
  <2> HIDE DEF M
  <2>7. Fits(Stopped(engine[e], stopping, released, released), 0, Banks(e), Regs(e), M)
    BY <2>1, <2>4, <2>5, <2>6, <1>5, StoppedFits
  <2> QED
    BY <2>7 DEF M
<1>12. ASSUME NEW f \in Engines PROVE Fits(engine'[f], 0, Banks(f)', Regs(f)', Notes(f)')
  <2>1. CASE f = e
    BY <2>1, <1>3, <1>9, <1>11, Typed
  <2>2. CASE f # e
    <3>1. engine'[f] = engine[f]
      BY <2>2, <1>3, Typed
    <3>2. Notes(f) \subseteq Notes(f)'
      <4> SUFFICES ASSUME NEW n \in Notes(f) PROVE n \in Notes(f)'
        OBVIOUS
      <4>1. n \in Notifications /\ n.bank # b
        BY <2>2, <1>1 DEF Notes, Banks
      <4>2. n.gone \/ n.cue \notin released
        BY <4>1, <1>6 DEF Notes
      <4> QED
        BY <4>1, <4>2, <1>9, <1>10 DEF Notes
    <3>3. Fits(engine[f], 0, Banks(f), Regs(f), Notes(f))
      BY Typed
    <3> QED
      BY <3>1, <3>2, <3>3, <1>9, FitsMore
  <2> QED
    BY <2>1, <2>2
<1>13. engine' = [f \in Engines |-> engine'[f]]
  BY <1>3, Typed
<1>14. Stocked'
  <2>1. bank' \in [SoundBanks -> BankType]
    BY <1>3, <1>4, ListedKeeps
  <2>2. ASSUME NEW f \in SoundBanks PROVE bank'[f].cues \in Seq(CuesIn(f)')
    <3>1. CASE f = b
      <4>1. CuesIn(b) \ released \subseteq CuesIn(b)'
        BY <1>3 DEF CuesIn
      <4>2. Listed(b, released).cues \in Seq(CuesIn(b) \ released)
        BY ListedKeeps
      <4>3. bank'[f] = Listed(b, released)
        BY <3>1, <1>3, <1>4
      <4> QED
        BY <3>1, <4>1, <4>2, <4>3
    <3>2. CASE f # b
      <4>1. CuesIn(f) \subseteq CuesIn(f)'
        BY <3>2, <1>3, <1>6 DEF CuesIn
      <4>2. bank'[f] = bank[f]
        BY <3>2, <1>3, <1>4
      <4> QED
        BY <4>1, <4>2, <1>4
    <3> QED
      BY <3>1, <3>2
  <2> QED
    BY <2>1, <2>2 DEF Stocked
<1> QED
  BY <1>7, <1>12, <1>13, <1>14 DEF IInv, Housed

LEMMA Works ==
    ASSUME IInv, XactAssumption, DoWork
    PROVE  IInv'
<1> DEFINE over == {c \in Cues : Ended(c)}
           flagged == {c \in Cues : DestroyedFlag(c)}
<1>1. PICK released : released = Reaped
  OBVIOUS
<1>2. /\ engine' = [e \in Engines |-> Stopped(engine[e], Only(CuesOf(e), over), flagged, released)]
      /\ bank' = [b \in SoundBanks |-> Listed(b, released)]
      /\ cue' = [c \in Cues |-> IF c \in released THEN DeadCue
                                ELSE IF Ended(c) THEN Silenced(c) ELSE cue[c]]
  BY <1>1, Zenon DEF DoWork
<1>3. /\ bank \in [SoundBanks -> BankType] /\ cue \in [Cues -> CueType]
      /\ \A f \in SoundBanks : bank[f].cues \in Seq(CuesIn(f))
  BY DEF IInv, Stocked
<1>4. \A c \in Cues : Ended(c) => /\ cue[c].bank \in SoundBanks /\ cue[c].index \in Indexes
                                  /\ cue[c].playing /\ cue[c].auto \in BOOLEAN
                                  /\ Silenced(c) \in CueType
                                  /\ Silenced(c).bank = cue[c].bank /\ ~Silenced(c).playing
  <2> SUFFICES ASSUME NEW c \in Cues, Ended(c)
               PROVE  /\ cue[c].bank \in SoundBanks /\ cue[c].index \in Indexes
                      /\ cue[c].playing /\ cue[c].auto \in BOOLEAN
                      /\ Silenced(c) \in CueType
                      /\ Silenced(c).bank = cue[c].bank /\ ~Silenced(c).playing
    OBVIOUS
  <2>1. cue[c] # DeadCue /\ cue[c].playing
    BY DEF Ended, DeadCue
  <2>2. cue[c] \in [bank : SoundBanks, index : Indexes, auto : BOOLEAN,
                    playing : BOOLEAN, sounding : BOOLEAN]
    BY <2>1, <1>3 DEF CueType
  <2> DEFINE z == cue[c]
             new == [z EXCEPT !.playing = FALSE]
  <2>3. z \in [bank : SoundBanks, index : Indexes, auto : BOOLEAN,
               playing : BOOLEAN, sounding : BOOLEAN]
    BY <2>2
  <2> HIDE DEF z
  <2>4. new \in [bank : SoundBanks, index : Indexes, auto : BOOLEAN,
                 playing : BOOLEAN, sounding : BOOLEAN] /\ new.bank = z.bank /\ new.playing = FALSE
    BY <2>3
  <2>5. Silenced(c) = new
    BY DEF Silenced, z
  <2> HIDE DEF new
  <2>6. Silenced(c) \in CueType /\ Silenced(c).bank = cue[c].bank /\ ~Silenced(c).playing
    BY <2>4, <2>5 DEF z, CueType
  <2> QED
    BY <2>1, <2>3, <2>6 DEF z
<1>5. cue' \in [Cues -> CueType]
  BY <1>2, <1>3, <1>4 DEF CueType
<1>6. \A f \in SoundBanks : Owner(f)' = Owner(f)
  BY <1>2, ListedKeeps DEF Owner
<1>7. \A f : Banks(f)' = Banks(f) /\ Regs(f)' = Regs(f)
  BY <1>6 DEF Banks, Regs
<1>8. \A c \in Cues \ released : /\ cue'[c].bank = cue[c].bank
                                 /\ ~Ended(c) => cue'[c] = cue[c]
                                 /\ Ended(c) => ~cue'[c].playing /\ ~cue[c].auto
  BY <1>1, <1>2, <1>3, <1>4 DEF Reaped
<1>9. ASSUME NEW e \in Engines PROVE Fits(engine'[e], 0, Banks(e)', Regs(e)', Notes(e)')
  <2> DEFINE C == {c \in over : cue[c].bank \in Banks(e)}
             stopping == Only(CuesOf(e), over)
  <2>1. Fits(engine[e], 0, Banks(e), Regs(e), Notes(e))
    BY Typed
  <2>2. stopping \in Seq(C)
    <3> DEFINE D == {c \in Cues : cue[c].bank \in Banks(e)}
               banks == engine[e].banks
               q == [i \in DOMAIN banks |-> bank[banks[i]].cues]
    <3>1. banks \in Seq(Banks(e)) /\ DOMAIN banks = 1..Len(banks)
      BY <2>1 DEF Fits
    <3>2. \A b \in Banks(e) : bank[b].cues \in Seq(D)
      <4>1. \A b \in Banks(e) : b \in SoundBanks /\ CuesIn(b) \subseteq D
        BY DEF Banks, CuesIn
      <4> HIDE DEF D
      <4> QED
        BY <4>1, <1>3
    <3>3. q \in Seq(Seq(D))
      <4> HIDE DEF D, banks
      <4>1. \A i \in DOMAIN banks : q[i] \in Seq(D)
        BY <3>1, <3>2
      <4>2. q = [i \in 1..Len(banks) |-> q[i]]
        BY <3>1
      <4> HIDE DEF q
      <4> QED
        BY <4>1, <4>2, <3>1
    <3>4. CuesOf(e) = FlattenSeq(q)
      BY DEF CuesOf
    <3> HIDE DEF D, q, over
    <3>5. CuesOf(e) \in Seq(D)
      BY <3>3, <3>4, FlattenIn
    <3>6. Only(CuesOf(e), over) \in Seq(D \cap over)
      BY <3>5, OnlyIn
    <3>7. D \cap over \subseteq C
      BY DEF D, over
    <3> HIDE DEF C
    <3> QED
      BY <3>6, <3>7
  <2>3. ASSUME NEW n \in Notes(e) PROVE Outcome(n, released) \in Notes(e)'
    <3>1. /\ n \in Notifications /\ n.bank \in Banks(e) /\ (n.destroyed => n.gone)
          /\ n.gone \/ (cue[n.cue].bank = n.bank /\ ~cue[n.cue].playing)
      BY DEF Notes
    <3> DEFINE m == Outcome(n, released)
    <3>2. /\ m \in Notifications /\ m.bank = n.bank /\ m.cue = n.cue
          /\ m.destroyed = n.destroyed /\ (m.gone <=> n.gone \/ n.cue \in released)
      <4> HIDE DEF m
      <4>1. /\ m = [bank |-> n.bank, index |-> n.index, cue |-> n.cue,
                    destroyed |-> n.destroyed, gone |-> m.gone]
            /\ m \in Notifications
            /\ m.gone <=> n.gone \/ n.cue \in released
        BY <3>1, Outcomes DEF m
      <4> QED
        BY <4>1
    <3> HIDE DEF m
    <3>3. m.gone \/ (cue'[m.cue].bank = m.bank /\ ~cue'[m.cue].playing)
      <4> SUFFICES ASSUME ~m.gone PROVE cue'[m.cue].bank = m.bank /\ ~cue'[m.cue].playing
        OBVIOUS
      <4>1. m.cue \in Cues \ released /\ cue[m.cue].bank = m.bank /\ ~cue[m.cue].playing
        BY <3>1, <3>2 DEF Notifications
      <4>2. ~Ended(m.cue)
        BY <4>1 DEF Ended
      <4> QED
        BY <4>1, <4>2, <1>8
    <3>4. m \in Notes(e)'
      BY <3>1, <3>2, <3>3, <1>7 DEF Notes
    <3> QED
      BY <3>4 DEF m
  <2>4. ASSUME NEW c \in C
        PROVE  /\ Notification(c, c \in flagged) \in Notifications
               /\ Outcome(Notification(c, c \in flagged), released) \in Notes(e)'
    <3>1. c \in Cues /\ Ended(c) /\ cue[c].bank \in Banks(e)
      OBVIOUS
    <3>2. (c \in flagged <=> cue[c].auto) /\ (c \in released <=> cue[c].auto)
      BY <3>1, <1>1, <1>4 DEF DestroyedFlag, Reaped
    <3> DEFINE n == Notification(c, c \in flagged)
               m == Outcome(n, released)
    <3>3. /\ n \in Notifications /\ n.bank = cue[c].bank /\ n.cue = c
          /\ n.destroyed <=> cue[c].auto
      <4>1. (c \in flagged) \in BOOLEAN
        OBVIOUS
      <4>2. c \in Cues /\ cue[c].bank \in SoundBanks /\ cue[c].index \in Indexes
        BY <3>1, <1>4
      <4> HIDE DEF flagged
      <4>3. n \in Notifications /\ n.bank = cue[c].bank /\ n.cue = c
            /\ n.destroyed = (c \in flagged)
        BY <4>1, <4>2, Notifies
      <4> QED
        BY <4>3, <3>2
    <3> HIDE DEF n
    <3>4. ~n.gone
      BY DEF n, Notification
    <3>5. /\ m \in Notifications /\ m.bank = cue[c].bank /\ m.cue = c
          /\ m.destroyed <=> cue[c].auto
          /\ m.gone <=> cue[c].auto
      <4> HIDE DEF m
      <4>1. /\ m = [bank |-> n.bank, index |-> n.index, cue |-> n.cue,
                    destroyed |-> n.destroyed, gone |-> m.gone]
            /\ m \in Notifications
            /\ m.gone <=> n.gone \/ n.cue \in released
        BY <3>3, Outcomes DEF m
      <4>2. m.bank = n.bank /\ m.cue = n.cue /\ m.destroyed = n.destroyed
        BY <4>1
      <4> QED
        BY <4>1, <4>2, <3>2, <3>3, <3>4
    <3>7. cue[c].auto \/ (cue'[c].bank = cue[c].bank /\ ~cue'[c].playing)
      BY <3>1, <3>2, <1>4, <1>8
    <3> HIDE DEF m
    <3>8. m \in Notes(e)'
      BY <3>1, <3>5, <3>7, <1>7 DEF Notes
    <3> QED
      BY <3>3, <3>8 DEF n, m
  <2> DEFINE M == Notes(e)'
  <2>5. Notes(e) \subseteq Notifications /\ M \subseteq Notifications
        /\ Regs(e) \in SUBSET Descriptions
    BY DEF Notes, Regs
  <2>6. \A n \in Notes(e) : Outcome(n, released) \in M
    BY <2>3
  <2>7. \A c \in C :
           /\ Notification(c, c \in flagged) \in Notifications
           /\ Outcome(Notification(c, c \in flagged), released) \in M
    BY <2>4
  <2>8. engine'[e] = Stopped(engine[e], stopping, flagged, released)
    BY <1>2
  <2> HIDE DEF M, C, stopping, flagged
  <2>9. Fits(Stopped(engine[e], stopping, flagged, released), 0, Banks(e), Regs(e), M)
    BY <2>1, <2>2, <2>5, <2>6, <2>7, StoppedFits
  <2> QED
    BY <2>8, <2>9, <1>7 DEF M
<1>10. engine' = [f \in Engines |-> engine'[f]]
  BY <1>2
<1>11. Stocked'
  <2>1. bank' \in [SoundBanks -> BankType]
    BY <1>2, ListedKeeps
  <2>2. ASSUME NEW f \in SoundBanks PROVE bank'[f].cues \in Seq(CuesIn(f)')
    <3>1. CuesIn(f) \ released \subseteq CuesIn(f)'
      BY <1>8 DEF CuesIn
    <3>2. Listed(f, released).cues \in Seq(CuesIn(f) \ released)
      BY ListedKeeps
    <3>3. bank'[f] = Listed(f, released)
      BY <1>2
    <3> QED
      BY <3>1, <3>2, <3>3
  <2> QED
    BY <2>1, <2>2 DEF Stocked
<1> QED
  BY <1>5, <1>9, <1>10, <1>11 DEF IInv, Housed

LEMMA BankAddsRef ==
    ASSUME IInv, XactAssumption, NEW b \in SoundBanks, SoundBankAddRef(b)
    PROVE  IInv'
<1>1. bank[b] \in [engine : Engines, refs : 1..MaxRefs, cues : Seq(Cues)]
  BY Facts DEF SoundBankAddRef, IInv, Stocked, BankType
<1>2. bank[b].refs + 1 \in 1..MaxRefs
  BY <1>1 DEF SoundBankAddRef, XactAssumption
<1>3. bank' = [bank EXCEPT ![b].refs = bank[b].refs + 1] /\ UNCHANGED <<engine, cue>>
  BY DEF SoundBankAddRef
<1> QED
  BY <1>2, <1>3, BankReferences DEF SoundBankAddRef

LEMMA BankReleases ==
    ASSUME IInv, XactAssumption, NEW b \in SoundBanks, SoundBankRelease(b)
    PROVE  IInv'
<1>1. bank[b] \in [engine : Engines, refs : 1..MaxRefs, cues : Seq(Cues)] /\ LiveBank(b)
  BY Facts DEF SoundBankRelease, IInv, Stocked, BankType
<1>2. CASE FinalRelease(b)
  BY <1>1, <1>2, FinallyReleases
<1>3. CASE /\ bank[b].refs > 1
           /\ bank' = [bank EXCEPT ![b].refs = @ - 1] /\ UNCHANGED <<engine, cue>>
  <2>1. bank[b].refs - 1 \in 1..MaxRefs
    BY <1>1, <1>3 DEF XactAssumption
  <2> QED
    BY <1>1, <1>3, <2>1, BankReferences
<1> QED
  BY <1>2, <1>3 DEF SoundBankRelease

LEMMA Inductive == IInv /\ [Next]_vars => IInv'
<1> SUFFICES ASSUME IInv, [Next]_vars PROVE IInv'
  OBVIOUS
<1>0. XactAssumption
  BY XactAssumption
<1>1. ASSUME NEW e \in Engines, EngineCalls(e) PROVE IInv'
  <2>1. CASE EngineCreate(e)
    BY <1>0, <2>1, Creates
  <2>2. CASE EngineAddRef(e)
    BY <1>0, <2>2, AddsRef
  <2>3. CASE EngineRelease(e)
    BY <1>0, <2>3, Releases
  <2>4. CASE \E w \in WaveBanks : RegisterWaveBank(e, w)
    BY <1>0, <2>4, RegistersWaves
  <2>5. CASE \E w \in WaveBanks : UnRegisterWaveBank(e, w)
    BY <1>0, <2>5, UnRegistersWaves
  <2>6. CASE \E b \in SoundBanks : CreateSoundBank(e, b)
    BY <1>0, <2>6, CreatesBank
  <2>7. CASE \E d \in Descriptions : RegisterNotification(e, d)
    BY <1>0, <2>7, RegistersNotification
  <2>8. CASE \E d \in Descriptions : UnRegisterNotification(e, d)
    BY <1>0, <2>8, UnRegistersNotification
  <2>9. CASE \E d \in Descriptions : GetNotification(e, d)
    BY <1>0, <2>9, GetsNotification
  <2>10. CASE \E d \in Descriptions : FlushNotification(e, d)
    BY <1>0, <2>10, FlushesNotification
  <2> QED
    BY <1>1, <2>1, <2>2, <2>3, <2>4, <2>5, <2>6, <2>7, <2>8, <2>9, <2>10 DEF EngineCalls
<1>2. ASSUME NEW b \in SoundBanks, SoundBankCalls(b) PROVE IInv'
  <2>1. CASE SoundBankAddRef(b)
    BY <1>0, <2>1, BankAddsRef
  <2>2. CASE SoundBankRelease(b)
    BY <1>0, <2>2, BankReleases
  <2>3. CASE \E i \in Indexes : PrepareEx(b, i)
    BY <1>0, <2>3, CreatesCue DEF PrepareEx
  <2>4. CASE \E i \in Indexes : PlayEx(b, i, TRUE) \/ PlayEx(b, i, FALSE)
    BY <1>0, <2>4, CreatesCue DEF PlayEx
  <2>5. CASE \E i \in Indexes \cup {AnyIndex}, c \in Cues \cup {NoCue} : SoundBankStop(b, i, c)
    BY <1>0, <2>5, Stops
  <2> QED
    BY <1>2, <2>1, <2>2, <2>3, <2>4, <2>5 DEF SoundBankCalls
<1>3. CASE DoWork
  BY <1>0, <1>3, Works
<1>4. ASSUME NEW c \in Cues, HostFinishes(c) PROVE IInv'
  BY <1>4, Finishes
<1>5. CASE UNCHANGED vars
  <2>1. Stocked'
    <3>1. \A b : CuesIn(b)' = CuesIn(b)
      BY <1>5 DEF CuesIn, vars
    <3> QED
      BY <3>1, <1>5 DEF Stocked, IInv, vars
  <2> QED
    BY <1>5, <2>1, SameOwners DEF vars, Owner
<1> QED
  BY <1>1, <1>2, <1>3, <1>4, <1>5 DEF Next

(* The inductive invariant holds whatever calls are made. *)
THEOREM Invariance == Spec => []IInv
<1> QED
  BY Initially, Inductive, PTL DEF Spec

-----------------------------------------------------------------------------
(* Releasing the guest's references leaves an engine alive while a bank exists,
   and nothing but what it counts keeps it alive: a bank that exists is in the
   list of a living engine (xact_emulation.cpp:831-843, 855-873). *)
THEOREM EnginesOutlive == Spec => []EngineOutlivesBanks
<1>1. IInv => EngineOutlivesBanks
  <2> SUFFICES ASSUME IInv PROVE EngineOutlivesBanks
    OBVIOUS
  <2>1. TypeOK
    BY Typed DEF TypeOK, EngineType, BankType, CueType, IInv, Stocked
  <2>2. ASSUME NEW e \in Engines
        PROVE  engine[e].refs = engine[e].held + Cardinality(engine[e].waves) + Len(engine[e].banks)
    <3> DEFINE x == engine[e]
    <3>1. Fits(x, 0, Banks(e), Regs(e), Notes(e)) /\ x \in EngineType
      BY Typed DEF Fits
    <3> HIDE DEF x
    <3>2. Cardinality(x.waves) \in Nat /\ x.held \in Nat /\ Len(x.banks) \in Nat
      BY <3>1, XactAssumption, FS_CardinalityType, Fields DEF Fits
    <3>3. x.refs = x.held + Cardinality(x.waves) + Len(x.banks)
      BY <3>1, <3>2 DEF Fits
    <3> QED
      BY <3>3 DEF x
  <2>3. ASSUME NEW b \in SoundBanks, bank[b] # DeadBank
        PROVE  LiveEngine(Owner(b)) /\ Contains(engine[Owner(b)].banks, b)
    BY <2>3, XactAssumption, Facts
  <2> QED
    BY <2>1, <2>2, <2>3 DEF EngineOutlivesBanks
<1> QED
  BY <1>1, Invariance, PTL

(* Every notice the guest can read is true when it reads it: its bank is there
   and is the engine's, a cue it calls destroyed is gone, one that is still
   there has stopped, and the queue keeps its limit however many registrations
   one call fires (xact_emulation.cpp:707-813, 1030-1040). *)
THEOREM NoticesAreTruthful == Spec => []NoticesTruthful
<1>1. IInv => NoticesTruthful
  <2> SUFFICES ASSUME IInv, NEW e \in Engines
               PROVE  LET named == {engine[e].regs[i].bank : i \in DOMAIN engine[e].regs}
                                      \cup {n.bank : n \in Queued(e)}
                      IN  /\ Len(engine[e].queue) <= Capacity
                          /\ \A b \in named \ {NoBank} : LiveBank(b) /\ Owner(b) = e
                          /\ \A n \in Queued(e) :
                                /\ n.destroyed => n.gone
                                /\ n.gone \/ ~cue[n.cue].playing
    BY DEF NoticesTruthful
  <2>1. /\ engine[e].regs \in Seq(Regs(e)) /\ engine[e].queue \in Seq(Notes(e))
        /\ Len(engine[e].queue) <= Capacity
    BY Typed DEF Fits
  <2>2. \A i \in DOMAIN engine[e].regs : engine[e].regs[i] \in Regs(e)
    BY <2>1
  <2>3. \A n \in Queued(e) : n \in Notes(e)
    BY <2>1 DEF Queued
  <2>4. \A b \in Banks(e) : LiveBank(b) /\ Owner(b) = e
    BY Facts, XactAssumption DEF Banks
  <2>5. \A n \in Queued(e) : /\ n.bank \in Banks(e)
                             /\ n.destroyed => n.gone
                             /\ n.gone \/ ~cue[n.cue].playing
    BY <2>3 DEF Notes
  <2>6. \A i \in DOMAIN engine[e].regs :
           engine[e].regs[i].bank # NoBank => engine[e].regs[i].bank \in Banks(e)
    BY <2>2 DEF Regs
  <2> QED
    BY <2>1, <2>4, <2>5, <2>6
<1> QED
  BY <1>1, Invariance, PTL
=============================================================================
