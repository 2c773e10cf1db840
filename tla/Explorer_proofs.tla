--------------------------- MODULE Explorer_proofs ---------------------------
(***************************************************************************)
(* Theorems about a page of results and the language of its queries        *)
(* (Explorer, ResultQuery), for all fields, results, filters and orders.   *)
(***************************************************************************)
EXTENDS Explorer, FiniteSetTheorems, SequenceTheorems, WellFoundedInduction, TLAPS

-----------------------------------------------------------------------------
(* What is done step by step for the numbers up to N.                      *)
LEMMA LeastMember ==
  ASSUME NEW S \in SUBSET Nat, S # {}
  PROVE  \E k \in S : \A l \in S : k <= l
<1> DEFINE R == {p \in Nat \X Nat : p[1] < p[2]}
<1>1. IsWellFoundedOn(R, Nat)
  BY NatLessThanWellFounded, Zenon DEF OpToRel
<1>2. PICK k \in S : \A l \in S : ~ (<<l, k>> \in R)
  <2> HIDE DEF R
  <2> QED BY <1>1, WFMin, Zenon
<1>3. ASSUME NEW l \in S PROVE k <= l
  <2>1. k \in Nat /\ l \in Nat
    OBVIOUS
  <2>2. l < k => <<l, k>> \in R
    BY <2>1
  <2>3. ~(l < k)
    <3> HIDE DEF R
    <3> QED BY <1>2, <2>2
  <2> QED BY <2>1, <2>3
<1> QED BY <1>3

LEMMA UpToN ==
  ASSUME NEW N \in Nat, NEW S, 0 \in S, \A n \in 1..N : n - 1 \in S => n \in S
  PROVE  \A n \in 0..N : n \in S
<1> DEFINE bad == {n \in 0..N : n \notin S}
<1>1. SUFFICES ASSUME bad # {} PROVE FALSE
  OBVIOUS
<1>2. bad \in SUBSET Nat
  OBVIOUS
<1>3. PICK n \in bad : \A m \in bad : n <= m
  <2> HIDE DEF bad
  <2> QED BY <1>1, <1>2, LeastMember
<1>4. n \in 0..N /\ n \notin S /\ n # 0
  OBVIOUS
<1>5. n \in 1..N /\ n - 1 \in 0..N
  BY <1>4
<1>6. n - 1 \notin bad
  <2> HIDE DEF bad
  <2> QED BY <1>3, <1>5
<1> QED BY <1>4, <1>5, <1>6

Iterates(f, X, N, base, step) ==
  /\ f \in [0..N -> X]
  /\ f[0] = base
  /\ \A n \in 1..N : f[n] = step[<<n, f[n - 1]>>]

LEMMA Iterated ==
  ASSUME NEW X, NEW N \in Nat, NEW base \in X, NEW step \in [(1..N) \X X -> X]
  PROVE  \E f : Iterates(f, X, N, base, step)
<1> DEFINE Steps(k, f) == f[0] = base /\ \A n \in 1..k : f[n] = step[<<n, f[n - 1]>>]
           S == {k \in 0..N : \E f \in [0..k -> X] : Steps(k, f)}
<1>1. 0 \in S
  <2> DEFINE f == [n \in 0..0 |-> base]
  <2>1. 0 \in 0..0 /\ \A n \in 1..0 : FALSE
    OBVIOUS
  <2>2. f \in [0..0 -> X] /\ f[0] = base
    BY <2>1
  <2> HIDE DEF f
  <2> QED BY <2>1, <2>2
<1>2. ASSUME NEW k \in 1..N, k - 1 \in S PROVE k \in S
  <2>1. PICK f \in [0..(k - 1) -> X] : Steps(k - 1, f)
    BY <1>2
  <2>2. /\ k \in Nat /\ k # 0 /\ \A n \in 1..k : n - 1 \in 0..(k - 1)
        /\ \A n \in 1..k : n = k \/ n \in 1..(k - 1)
        /\ \A n \in 0..k : n = k \/ n \in 0..(k - 1)
    OBVIOUS
  <2> DEFINE g == [n \in 0..k |-> IF n = k THEN step[<<k, f[k - 1]>>] ELSE f[n]]
  <2>3. f[k - 1] \in X /\ step[<<k, f[k - 1]>>] \in X
    BY <2>2
  <2>4. g \in [0..k -> X]
    BY <2>2, <2>3
  <2>5. \A n \in 0..(k - 1) : g[n] = f[n]
    OBVIOUS
  <2>6. g[k] = step[<<k, f[k - 1]>>]
    OBVIOUS
  <2> HIDE DEF g
  <2>7. g[0] = base
    BY <2>1, <2>2, <2>5
  <2>8. ASSUME NEW n \in 1..k PROVE g[n] = step[<<n, g[n - 1]>>]
    <3>1. n - 1 \in 0..(k - 1) /\ g[n - 1] = f[n - 1]
      BY <2>2, <2>5
    <3>2. CASE n = k
      BY <2>6, <3>1, <3>2
    <3>3. CASE n \in 1..(k - 1)
      <4>1. n \in 0..(k - 1)
        BY <3>3
      <4> QED BY <2>1, <2>5, <3>1, <3>3, <4>1
    <3> QED BY <2>2, <3>2, <3>3
  <2> QED BY <2>4, <2>7, <2>8
<1>3. N \in S
  <2> HIDE DEF S
  <2> QED BY <1>1, <1>2, UpToN
<1> QED BY <1>3 DEF Iterates

-----------------------------------------------------------------------------
(* Kept goes through a sequence and keeps the elements at some positions.  *)
Keeps(f, s, K, S) ==
  /\ f \in [0..Len(s) -> Seq(S)]
  /\ f[0] = <<>>
  /\ \A i \in 1..Len(s) : f[i] = IF i \in K THEN Append(f[i - 1], s[i]) ELSE f[i - 1]

LEMMA KeptSteps ==
  ASSUME NEW S, NEW s \in Seq(S), NEW K
  PROVE  \E f : Keeps(f, s, K, S) /\ Kept(s, K) = f[Len(s)]
<1> DEFINE N == Len(s)
           step == [p \in (1..N) \X Seq(S) |->
                      IF p[1] \in K THEN Append(p[2], s[p[1]]) ELSE p[2]]
           kept(f) == [i \in 0..N |-> IF i = 0 THEN <<>>
                                      ELSE IF i \in K THEN Append(f[i - 1], s[i]) ELSE f[i - 1]]
<1>1. N \in Nat /\ \A i \in 1..N : s[i] \in S
  OBVIOUS
<1>2. step \in [(1..N) \X Seq(S) -> Seq(S)]
  BY <1>1
<1>3. <<>> \in Seq(S)
  OBVIOUS
<1>4. PICK f : Iterates(f, Seq(S), N, <<>>, step)
  <2> HIDE DEF step, N
  <2> QED BY <1>1, <1>2, <1>3, Iterated, Zenon
<1>5. f \in [0..N -> Seq(S)] /\ f[0] = <<>> /\ \A i \in 1..N : f[i] = step[<<i, f[i - 1]>>]
  <2> HIDE DEF step, N
  <2> QED BY <1>4 DEF Iterates
<1>6. \A i \in 1..N : /\ f[i - 1] \in Seq(S)
                      /\ f[i] = IF i \in K THEN Append(f[i - 1], s[i]) ELSE f[i - 1]
  <2> SUFFICES ASSUME NEW i \in 1..N
               PROVE  /\ f[i - 1] \in Seq(S)
                      /\ f[i] = IF i \in K THEN Append(f[i - 1], s[i]) ELSE f[i - 1]
    OBVIOUS
  <2>1. f[i - 1] \in Seq(S)
    BY <1>1, <1>5
  <2>2. \A v \in Seq(S) : step[<<i, v>>] = IF i \in K THEN Append(v, s[i]) ELSE v
    OBVIOUS
  <2> HIDE DEF step
  <2> QED BY <1>5, <2>1, <2>2
<1>7. f = kept(f)
  <2>1. \A i \in 0..N : f[i] = kept(f)[i]
    <3> HIDE DEF step
    <3>1. \A i \in 0..N : i = 0 \/ i \in 1..N
      BY <1>1
    <3> HIDE DEF N
    <3> QED BY <1>5, <1>6, <3>1
  <2> HIDE DEF kept
  <2>2. kept(f) = [i \in 0..N |-> kept(f)[i]]
    BY DEF kept
  <2> QED BY <1>5, <2>1, <2>2
<1> DEFINE g == CHOOSE h : h = kept(h)
<1>8. g = kept(g)
  <2> HIDE DEF kept
  <2> QED BY <1>7, Zenon
<1>9. Kept(s, K) = g[N]
  BY Zenon DEF Kept
<1>10. \A i \in 0..N : g[i] = f[i]
  <2> DEFINE T == {i \in 0..N : g[i] = f[i]}
  <2>0. /\ g[0] = <<>>
        /\ \A i \in 1..N : g[i] = IF i \in K THEN Append(g[i - 1], s[i]) ELSE g[i - 1]
    <3> HIDE DEF g
    <3>1. \A i \in 0..N : g[i] = IF i = 0 THEN <<>>
                                 ELSE IF i \in K THEN Append(g[i - 1], s[i]) ELSE g[i - 1]
      BY <1>8
    <3> QED BY <1>1, <3>1
  <2> HIDE DEF g
  <2>1. 0 \in T
    BY <1>1, <1>5, <2>0
  <2>2. ASSUME NEW i \in 1..N, i - 1 \in T PROVE i \in T
    BY <1>1, <1>6, <2>0, <2>2
  <2>3. \A i \in 0..N : i \in T
    <3> HIDE DEF T, N
    <3> QED BY <1>1, <2>1, <2>2, UpToN
  <2> QED BY <2>3
<1>11. Keeps(f, s, K, S)
  BY <1>5, <1>6 DEF Keeps
<1>12. Kept(s, K) = f[N]
  <2> HIDE DEF g
  <2> QED BY <1>1, <1>9, <1>10
<1> QED BY <1>11, <1>12

\* The sequence t consists of the elements of s at the positions of K up to n.
Picks(p, t, s, K, n) ==
  /\ p \in [1..Len(t) -> K \cap (1..n)]
  /\ \A k \in 1..Len(t) : t[k] = s[p[k]]
  /\ \A j, k \in 1..Len(t) : j < k => p[j] < p[k]
  /\ \A i \in K \cap (1..n) : \E k \in 1..Len(t) : p[k] = i

LEMMA KeptPicks ==
  ASSUME NEW S, NEW s \in Seq(S), NEW K
  PROVE  /\ Kept(s, K) \in Seq(S)
         /\ \E p : Picks(p, Kept(s, K), s, K, Len(s))
<1> DEFINE N == Len(s)
<1>1. PICK f : Keeps(f, s, K, S) /\ Kept(s, K) = f[N]
  BY KeptSteps
<1>2. /\ N \in Nat /\ f[0] = <<>>
      /\ \A i \in 0..N : f[i] \in Seq(S)
      /\ \A i \in 1..N : f[i] = IF i \in K THEN Append(f[i - 1], s[i]) ELSE f[i - 1]
  <2>1. N \in Nat /\ \A i \in 1..N : i \in DOMAIN s
    OBVIOUS
  <2>2. /\ f \in [0..N -> Seq(S)] /\ f[0] = <<>>
        /\ \A i \in 1..N : f[i] = IF i \in K THEN Append(f[i - 1], s[i]) ELSE f[i - 1]
    BY <1>1 DEF Keeps
  <2> HIDE DEF N
  <2> QED BY <2>1, <2>2
<1> DEFINE T == {i \in 0..N : \E p : Picks(p, f[i], s, K, i)}
<1>3. 0 \in T
  <2> DEFINE p == [k \in 1..0 |-> 0]
  <2>1. Picks(p, <<>>, s, K, 0)
    BY DEF Picks
  <2> HIDE DEF p
  <2> QED BY <1>2, <2>1
<1>4. ASSUME NEW i \in 1..N, i - 1 \in T PROVE i \in T
  <2> DEFINE t == f[i - 1]
             n == Len(t)
  <2>1. PICK p : Picks(p, t, s, K, i - 1)
    BY <1>4
  <2>2. i - 1 \in 0..N /\ i \in 0..N /\ t \in Seq(S) /\ n \in Nat /\ s[i] \in S
    BY <1>2
  <2>3. /\ p \in [1..n -> K \cap (1..(i - 1))]
        /\ \A k \in 1..n : t[k] = s[p[k]]
        /\ \A j, k \in 1..n : j < k => p[j] < p[k]
        /\ \A j \in K \cap (1..(i - 1)) : \E k \in 1..n : p[k] = j
    BY <2>1 DEF Picks
  <2>4. CASE i \notin K
    <3>1. f[i] = t /\ K \cap (1..i) = K \cap (1..(i - 1))
      BY <1>2, <2>2, <2>4
    <3>2. Picks(p, f[i], s, K, i)
      BY <2>1, <3>1 DEF Picks
    <3> QED BY <2>2, <3>2
  <2>5. CASE i \in K
    <3> DEFINE q == [k \in 1..(n + 1) |-> IF k = n + 1 THEN i ELSE p[k]]
               u == f[i]
    <3>1. u = Append(t, s[i])
      BY <1>2, <2>5
    <3>2. /\ u \in Seq(S) /\ Len(u) = n + 1 /\ u[n + 1] = s[i]
          /\ \A k \in 1..n : u[k] = t[k]
      BY <2>2, <3>1
    <3>3. /\ q[n + 1] = i /\ (\A k \in 1..n : q[k] = p[k])
          /\ \A k \in 1..(n + 1) : k = n + 1 \/ k \in 1..n
      BY <2>2
    <3>4. q \in [1..(n + 1) -> K \cap (1..i)]
      BY <2>2, <2>3, <2>5
    <3> HIDE DEF q, u
    <3>5. \A k \in 1..(n + 1) : u[k] = s[q[k]]
      <4> HIDE DEF n, t
      <4> QED BY <2>3, <3>2, <3>3
    <3>6. ASSUME NEW j \in 1..(n + 1), NEW k \in 1..(n + 1), j < k PROVE q[j] < q[k]
      <4>1. j \in 1..n
        BY <2>2, <3>6
      <4>2. p[j] \in 1..(i - 1)
        BY <2>3, <4>1
      <4> HIDE DEF n, t
      <4>3. CASE k = n + 1
        BY <2>2, <3>3, <4>1, <4>2, <4>3
      <4>4. CASE k \in 1..n
        BY <2>3, <3>3, <3>6, <4>1, <4>4
      <4> QED BY <3>3, <4>3, <4>4
    <3>7. ASSUME NEW j \in K \cap (1..i) PROVE \E k \in 1..(n + 1) : q[k] = j
      <4>0. n \in Nat /\ n + 1 \in 1..(n + 1) /\ \A k \in 1..n : k \in 1..(n + 1)
        BY <2>2
      <4> HIDE DEF n, t
      <4>1. CASE j = i
        BY <3>3, <4>0, <4>1
      <4>2. CASE j # i
        <5>1. j \in K \cap (1..(i - 1))
          BY <4>2
        <5>2. PICK k \in 1..n : p[k] = j
          BY <2>3, <5>1
        <5> QED BY <3>3, <4>0, <5>2
      <4> QED BY <4>1, <4>2
    <3>8. Picks(q, u, s, K, i)
      BY <3>2, <3>4, <3>5, <3>6, <3>7 DEF Picks
    <3> QED BY <2>2, <3>8 DEF u
  <2> QED BY <2>4, <2>5
<1>5. N \in T
  <2>1. N \in 0..N
    BY <1>2
  <2> HIDE DEF T, N
  <2>2. \A i \in 0..N : i \in T
    BY <1>2, <1>3, <1>4, UpToN
  <2> QED BY <2>1, <2>2
<1> QED BY <1>1, <1>2, <1>5

\* Nothing is lost when every position is kept.
LEMMA KeptAll ==
  ASSUME NEW S, NEW s \in Seq(S), NEW K, DOMAIN s \subseteq K
  PROVE  Kept(s, K) = s
<1> DEFINE N == Len(s)
<1>1. PICK f : Keeps(f, s, K, S) /\ Kept(s, K) = f[N]
  BY KeptSteps
<1>2. /\ N \in Nat /\ f[0] = <<>>
      /\ \A i \in 0..N : f[i] \in Seq(S)
      /\ \A i \in 1..N : f[i] = Append(f[i - 1], s[i])
  <2>1. N \in Nat /\ \A i \in 1..N : i \in DOMAIN s
    OBVIOUS
  <2>2. /\ f \in [0..N -> Seq(S)] /\ f[0] = <<>>
        /\ \A i \in 1..N : f[i] = IF i \in K THEN Append(f[i - 1], s[i]) ELSE f[i - 1]
    BY <1>1 DEF Keeps
  <2> HIDE DEF N
  <2> QED BY <2>1, <2>2
<1> DEFINE T == {i \in 0..N : Len(f[i]) = i /\ \A j \in 1..i : f[i][j] = s[j]}
<1>3. 0 \in T
  BY <1>2
<1>4. ASSUME NEW i \in 1..N, i - 1 \in T PROVE i \in T
  <2>1. i - 1 \in 0..N /\ f[i - 1] \in Seq(S) /\ s[i] \in S
    BY <1>2
  <2>2. Len(f[i - 1]) = i - 1 /\ \A j \in 1..(i - 1) : f[i - 1][j] = s[j]
    BY <1>4
  <2>3. f[i] = Append(f[i - 1], s[i])
    BY <1>2
  <2>4. Len(f[i]) = i /\ f[i][i] = s[i] /\ \A j \in 1..(i - 1) : f[i][j] = f[i - 1][j]
    BY <2>1, <2>2, <2>3
  <2>5. \A j \in 1..i : j = i \/ j \in 1..(i - 1)
    OBVIOUS
  <2> QED BY <2>1, <2>2, <2>4, <2>5
<1>5. N \in T
  <2>1. N \in 0..N
    BY <1>2
  <2> HIDE DEF T, N
  <2>2. \A i \in 0..N : i \in T
    BY <1>2, <1>3, <1>4, UpToN
  <2> QED BY <2>1, <2>2
<1>6. f[N] \in Seq(S) /\ Len(f[N]) = Len(s) /\ \A j \in 1..Len(s) : f[N][j] = s[j]
  BY <1>2, <1>5
<1>7. f[N] = s
  <2> HIDE DEF N
  <2> QED BY <1>6
<1> QED BY <1>1, <1>7

-----------------------------------------------------------------------------
(* Options.                                                                *)
LEMMA NoFirstFault ==
  ASSUME NEW codes, NEW n \in Nat, DOMAIN codes = 1..n
  PROVE  FirstFault(codes) = "none" <=> \A i \in 1..n : codes[i] = "none"
<1> DEFINE bad == {i \in 1..n : codes[i] # "none"}
           First(i) == codes[i] # "none" /\ \A j \in 1..(i - 1) : codes[j] = "none"
<1>0. ASSUME bad = {} PROVE FirstFault(codes) = "none" /\ \A i \in 1..n : codes[i] = "none"
  <2>1. \A i \in 1..n : codes[i] = "none"
    BY <1>0
  <2> QED BY <2>1 DEF FirstFault
<1>1. SUFFICES ASSUME bad # {} PROVE FirstFault(codes) # "none"
  <2>1. bad # {} => ~ \A i \in 1..n : codes[i] = "none"
    OBVIOUS
  <2> HIDE DEF bad
  <2> QED BY <1>0, <2>1
<1>2. PICK i \in bad : \A j \in bad : i <= j
  <2>1. bad \in SUBSET Nat
    OBVIOUS
  <2> HIDE DEF bad
  <2> QED BY <1>1, <2>1, LeastMember
<1>3. \E k \in 1..n : First(k)
  <2>1. \A j \in 1..(i - 1) : j \in 1..n /\ j \notin bad
    BY <1>2
  <2>2. First(i)
    BY <1>2, <2>1
  <2> QED BY <1>2, <2>2
<1>4. First(CHOOSE k \in 1..n : First(k))
  <2> HIDE DEF First
  <2> QED BY <1>3, Zenon
<1>5. FirstFault(codes) = codes[CHOOSE k \in 1..n : First(k)]
  <2>1. ~ \A j \in DOMAIN codes : codes[j] = "none"
    BY <1>1
  <2> QED BY <2>1, Zenon DEF FirstFault
<1> QED BY <1>4, <1>5

Directions == {"asc", "desc"}
Orders(fields) == Seq(fields \X Directions)
Different(order) == \A i, j \in 1..Len(order) : order[i][1] = order[j][1] => i = j

LEMMA ShortNotEmpty ==
  ASSUME NEW S, NEW s \in Seq(S), Len(s) = 1 \/ Len(s) = 2
  PROVE  s # <<>>
OBVIOUS

LEMMA DefaultRead ==
  /\ DefaultOrder \in Orders(FieldNames)
  /\ DefaultOrder # <<>>
  /\ Different(DefaultOrder)
  /\ Len(DefaultOrder) <= MaxOrderFields
<1>1. DefaultOrder \in Orders(FieldNames) /\ DefaultOrder # <<>>
  BY DefaultsAssumption DEF Orders, Directions
<1>2. DOMAIN DefaultOrder = 1..Len(DefaultOrder)
  BY <1>1 DEF Orders
<1> QED BY <1>1, <1>2, DefaultsAssumption DEF Different

LEMMA OrderRead ==
  ASSUME NEW items \in Seq(Seq(Words)), OrderFault(items) = "none"
  PROVE  /\ OrderOf(items) \in Orders(FieldNames)
         /\ OrderOf(items) # <<>>
         /\ Different(OrderOf(items))
         /\ Len(OrderOf(items)) <= MaxOrderFields
<1> DEFINE n == Len(items)
           last == IF n > MaxOrderFields THEN "too_many_order_fields" ELSE "none"
           found == [i \in DOMAIN items |-> OrderItemFault(items, i)]
           codes == Append(found, last)
<1>1. n \in Nat /\ DOMAIN items = 1..n /\ \A i \in 1..n : items[i] \in Seq(Words)
  OBVIOUS
<1> DEFINE C == {found[i] : i \in 1..n} \cup {last}
<1>3. found \in Seq(C) /\ Len(found) = n /\ last \in C
  <2>1. found \in [1..n -> C]
    BY <1>1
  <2>2. last \in C
    OBVIOUS
  <2> HIDE DEF found, last, C, n
  <2> QED BY <1>1, <2>1, <2>2
<1>4. /\ DOMAIN codes = 1..(n + 1) /\ codes[n + 1] = last
      /\ \A i \in 1..n : codes[i] = found[i]
  <2> HIDE DEF found, last
  <2> QED BY <1>1, <1>3
<1>5. FirstFault(codes) = "none"
  BY DEF OrderFault
<1>6. \A i \in 1..(n + 1) : codes[i] = "none"
  <2> HIDE DEF codes
  <2> QED BY <1>1, <1>4, <1>5, NoFirstFault
<1>7. (\A i \in 1..n : found[i] = "none") /\ last = "none"
  <2> HIDE DEF codes, found, last
  <2> QED BY <1>1, <1>4, <1>6
<1>8. \A i \in 1..n : /\ Len(items[i]) \in {1, 2}
                      /\ items[i][1] \in FieldNames
                      /\ Len(items[i]) = 2 => items[i][2] \in Directions
                      /\ \A j \in 1..(i - 1) : items[j] = <<>> \/ items[j][1] # items[i][1]
  <2> SUFFICES ASSUME NEW i \in 1..n
               PROVE  /\ Len(items[i]) \in {1, 2}
                      /\ items[i][1] \in FieldNames
                      /\ Len(items[i]) = 2 => items[i][2] \in Directions
                      /\ \A j \in 1..(i - 1) : items[j] = <<>> \/ items[j][1] # items[i][1]
    OBVIOUS
  <2>1. OrderItemFault(items, i) = "none"
    BY <1>1, <1>7
  <2> QED BY <2>1 DEF OrderItemFault, Directions
<1> HIDE DEF codes, found, last
<1>9. n <= MaxOrderFields
  BY <1>7, <1>1, QueryAssumption DEF last
<1>10. CASE items = <<>>
  <2>1. OrderOf(items) = DefaultOrder
    BY <1>10 DEF OrderOf
  <2> QED BY <2>1, DefaultRead
<1>11. CASE items # <<>>
  <2> DEFINE order == [i \in 1..n |-> <<items[i][1], IF Len(items[i]) = 2 THEN items[i][2] ELSE "asc">>]
  <2>1. OrderOf(items) = order
    BY <1>1, <1>11 DEF OrderOf
  <2>2. order \in [1..n -> FieldNames \X Directions]
    BY <1>1, <1>8 DEF Directions
  <2>3. \A i \in 1..n : order[i][1] = items[i][1]
    OBVIOUS
  <2>0. n # 0
    BY <1>11
  <2> HIDE DEF order, n
  <2>4. order \in Orders(FieldNames) /\ Len(order) = n /\ n # 0 /\ order # <<>>
    BY <1>1, <2>0, <2>2 DEF Orders
  <2>5. ASSUME NEW i \in 1..n, NEW j \in 1..n, order[i][1] = order[j][1], j < i PROVE FALSE
    <3>1. j \in 1..(i - 1)
      BY <2>5
    <3>2. items[j] # <<>>
      <4>1. (Len(items[j]) = 1 \/ Len(items[j]) = 2) /\ items[j] \in Seq(Words)
        BY <1>1, <1>8
      <4> QED BY <4>1, ShortNotEmpty, Zenon
    <3> QED BY <1>8, <2>3, <2>5, <3>1, <3>2
  <2>6. Different(order)
    <3> SUFFICES ASSUME NEW i \in 1..n, NEW j \in 1..n, order[i][1] = order[j][1]
                 PROVE  i = j
      BY <2>4 DEF Different
    <3> QED BY <2>5
  <2> QED BY <1>9, <2>1, <2>4, <2>6
<1> QED BY <1>10, <1>11

(* The query is accepted if and only if each of its options is.            *)
LEMMA Accepted ==
  ASSUME NEW o
  PROVE  QueryFault(o) = "none" <=>
           /\ ~ o.unsupported /\ ~ o.repeated
           /\ ParseFilter(o.filter).error = "none"
           /\ OrderFault(o.orderby) = "none"
           /\ ToSet(o.select) \subseteq FieldNames
           /\ BoundedFault(o.top, TRUE) = "none" /\ BoundedFault(o.skip, FALSE) = "none"
           /\ o.count \in {"", "true", "false"}
<1> DEFINE c1 == IF o.unsupported THEN "unsupported_option" ELSE "none"
           c2 == IF o.repeated THEN "duplicate_option" ELSE "none"
           c3 == ParseFilter(o.filter).error
           c4 == OrderFault(o.orderby)
           c5 == IF ToSet(o.select) \subseteq FieldNames THEN "none" ELSE "unknown_field"
           c6 == BoundedFault(o.top, TRUE)
           c7 == BoundedFault(o.skip, FALSE)
           c8 == IF o.count \in {"", "true", "false"} THEN "none" ELSE "invalid_count"
           codes == <<c1, c2, c3, c4, c5, c6, c7, c8>>
<1>1. QueryFault(o) = FirstFault(codes)
  BY Zenon DEF QueryFault
<1>2. /\ c1 = "none" <=> ~ o.unsupported
      /\ c2 = "none" <=> ~ o.repeated
      /\ c5 = "none" <=> ToSet(o.select) \subseteq FieldNames
      /\ c8 = "none" <=> o.count \in {"", "true", "false"}
  <2>1. c1 = "none" <=> ~ o.unsupported
    BY Zenon
  <2>2. c2 = "none" <=> ~ o.repeated
    BY Zenon
  <2>3. c5 = "none" <=> ToSet(o.select) \subseteq FieldNames
    BY Zenon
  <2>4. c8 = "none" <=> o.count \in {"", "true", "false"}
    BY Zenon
  <2> QED BY <2>1, <2>2, <2>3, <2>4, Zenon
<1> HIDE DEF c1, c2, c3, c4, c5, c6, c7, c8
<1>3. /\ codes[1] = c1 /\ codes[2] = c2 /\ codes[3] = c3 /\ codes[4] = c4
      /\ codes[5] = c5 /\ codes[6] = c6 /\ codes[7] = c7 /\ codes[8] = c8
      /\ DOMAIN codes = 1..8 /\ 8 \in Nat
  OBVIOUS
<1> HIDE DEF codes
<1>4. FirstFault(codes) = "none" <=> \A i \in 1..8 : codes[i] = "none"
  BY <1>3, NoFirstFault, Zenon
<1>5. (\A i \in 1..8 : codes[i] = "none") <=>
         /\ c1 = "none" /\ c2 = "none" /\ c3 = "none" /\ c4 = "none"
         /\ c5 = "none" /\ c6 = "none" /\ c7 = "none" /\ c8 = "none"
  <2>1. ASSUME NEW i \in 1..8
        PROVE  i = 1 \/ i = 2 \/ i = 3 \/ i = 4 \/ i = 5 \/ i = 6 \/ i = 7 \/ i = 8
    OBVIOUS
  <2> QED BY <1>3, <2>1
<1> QED BY <1>1, <1>2, <1>4, <1>5, Zenon DEF c3, c4, c6, c7

-----------------------------------------------------------------------------
(* The keys that the headings of a page show.                              *)
LEMMA OrdersWiden ==
  ASSUME NEW F, NEW G, F \subseteq G
  PROVE  Orders(F) \subseteq Orders(G)
<1>1. F \X Directions \subseteq G \X Directions
  OBVIOUS
<1> QED BY <1>1, SeqMonotonic, Zenon DEF Orders

LEMMA KeysOnOrder ==
  ASSUME NEW F, NEW order \in Orders(F), Different(order), NEW G
  PROVE  KeysOn(order, G) \in Orders(F \cap G) /\ Different(KeysOn(order, G))
<1> DEFINE K == {i \in DOMAIN order : order[i][1] \in G}
           t == Kept(order, K)
<1>1. t \in Seq(F \X Directions) /\ \E p : Picks(p, t, order, K, Len(order))
  <2> HIDE DEF K
  <2> QED BY KeptPicks DEF Orders
<1>2. PICK p : Picks(p, t, order, K, Len(order))
  BY <1>1
<1>3. ASSUME NEW i \in 1..Len(t), NEW j \in 1..Len(t), t[i][1] = t[j][1] PROVE i = j
  <2> HIDE DEF t, K
  <2>1. /\ p[i] \in 1..Len(order) /\ p[j] \in 1..Len(order)
        /\ t[i] = order[p[i]] /\ t[j] = order[p[j]]
        /\ i < j => p[i] < p[j]
        /\ j < i => p[j] < p[i]
    BY <1>2 DEF Picks
  <2>2. p[i] = p[j]
    BY <1>3, <2>1 DEF Different
  <2> QED BY <2>1, <2>2
<1>4. t \in Orders(F \cap G)
  <2>1. \A k \in 1..Len(t) : p[k] \in K /\ t[k] = order[p[k]]
    BY <1>2 DEF Picks
  <2>2. \A k \in 1..Len(t) : t[k][1] \in G
    BY <2>1
  <2> HIDE DEF t, K
  <2>3. \A k \in 1..Len(t) : t[k] \in F \X Directions
    BY <1>1
  <2>4. \A k \in 1..Len(t) : t[k] \in (F \cap G) \X Directions
    BY <2>2, <2>3
  <2> QED BY <1>1, <2>4 DEF Orders
<1>5. t = KeysOn(order, G)
  BY Zenon DEF KeysOn
<1> HIDE DEF t
<1>6. Different(t)
  BY <1>3 DEF Different
<1> QED BY <1>4, <1>5, <1>6

LEMMA DefaultSortRead ==
  DefaultSort \in Orders(TableFields) /\ DefaultSort # <<>> /\ Different(DefaultSort)
<1>1. DefaultSort \in Orders(TableFields) /\ DefaultSort # <<>>
  BY ExplorerAssumption DEF Orders, Directions
<1>2. DOMAIN DefaultSort = 1..Len(DefaultSort)
  BY <1>1 DEF Orders
<1> QED BY <1>1, <1>2, ExplorerAssumption DEF Different

First(raw) == {i \in DOMAIN raw : /\ raw[i][1] \in Columns
                                  /\ \A j \in 1..(i - 1) : raw[j][1] # raw[i][1]}

LEMMA SortRead ==
  ASSUME NEW raw \in SortKeyLists
  PROVE  /\ ParseSort(raw) \in Orders(TableFields)
         /\ ParseSort(raw) # <<>>
         /\ Different(ParseSort(raw))
<1> DEFINE K == First(raw)
           t == Kept(raw, K)
           n == Len(raw)
<1>0. raw \in Seq(Words \X Directions) /\ n \in Nat /\ DOMAIN raw = 1..n
  BY DEF SortKeyLists, Directions
<1>1. t \in Seq(Words \X Directions) /\ \E p : Picks(p, t, raw, K, n)
  <2> HIDE DEF K
  <2> QED BY <1>0, KeptPicks
<1>2. PICK p : Picks(p, t, raw, K, n)
  BY <1>1
<1>3. ParseSort(raw) = IF t = <<>> THEN DefaultSort ELSE t
  BY Zenon DEF ParseSort, First
<1> HIDE DEF t, K, n
<1>4. /\ \A k \in 1..Len(t) : p[k] \in K /\ p[k] \in 1..n /\ t[k] = raw[p[k]]
      /\ \A j, k \in 1..Len(t) : j < k => p[j] < p[k]
  BY <1>2 DEF Picks
<1>5. \A k \in 1..Len(t) : t[k] \in TableFields \X Directions
  <2> SUFFICES ASSUME NEW k \in 1..Len(t) PROVE t[k] \in TableFields \X Directions
    OBVIOUS
  <2>1. t[k] \in Words \X Directions
    BY <1>1
  <2>2. t[k][1] \in Columns
    BY <1>4 DEF K, First
  <2>3. t[k][1] \in TableFields
    BY <2>2, ExplorerAssumption
  <2> QED BY <2>1, <2>3
<1>6. t \in Orders(TableFields)
  BY <1>1, <1>5 DEF Orders
<1>7. ASSUME NEW i \in 1..Len(t), NEW j \in 1..Len(t), t[i][1] = t[j][1], i < j PROVE FALSE
  <2>1. p[i] \in 1..(p[j] - 1)
    BY <1>4, <1>7, <1>0
  <2>2. raw[p[i]][1] # raw[p[j]][1]
    BY <1>4, <2>1 DEF K, First
  <2> QED BY <1>4, <1>7, <2>2
<1>8. Different(t)
  <2>1. Len(t) \in Nat
    BY <1>1
  <2> SUFFICES ASSUME NEW i \in 1..Len(t), NEW j \in 1..Len(t), t[i][1] = t[j][1]
               PROVE  i = j
    BY DEF Different
  <2> QED BY <1>7, <2>1
<1> QED BY <1>3, <1>6, <1>8, DefaultSortRead

LEMMA SortKept ==
  ASSUME NEW keys \in Orders(Columns), keys # <<>>, Different(keys)
  PROVE  ParseSort(keys) = keys
<1>1. DOMAIN keys \subseteq First(keys)
  <2> SUFFICES ASSUME NEW i \in 1..Len(keys) PROVE i \in First(keys)
    BY DEF Orders
  <2>1. keys[i][1] \in Columns /\ DOMAIN keys = 1..Len(keys) /\ Len(keys) \in Nat
    BY DEF Orders
  <2>2. ASSUME NEW j \in 1..(i - 1) PROVE keys[j][1] # keys[i][1]
    <3>1. j \in 1..Len(keys) /\ j # i
      BY <2>1
    <3> QED BY <3>1 DEF Different
  <2> QED BY <2>1, <2>2 DEF First
<1>2. Kept(keys, First(keys)) = keys
  BY <1>1, KeptAll DEF Orders
<1>3. ParseSort(keys) = IF Kept(keys, First(keys)) = <<>> THEN DefaultSort
                        ELSE Kept(keys, First(keys))
  BY Zenon DEF ParseSort, First
<1> QED BY <1>2, <1>3

LEMMA ShownOrder ==
  ASSUME NEW u \in Addresses
  PROVE  /\ ShownSort(u) \in Orders(TableFields)
         /\ ShownSort(u) # <<>>
         /\ Different(ShownSort(u))
<1> DEFINE order == OrderOf(Script(u).orderby)
           visible == KeysOn(order, TableFields)
<1>1. u.sort \in SortKeyLists
  BY DEF Addresses
<1>2. CASE ~ (Valid(Script(u)) /\ visible # <<>>)
  BY <1>1, <1>2, SortRead DEF ShownSort, ShownOf
<1>3. CASE Valid(Script(u)) /\ visible # <<>>
  <2>1. Script(u) \in OptionRecords
    BY <1>3 DEF Valid, Script, Addresses
  <2>2. QueryFault(Script(u)) = "none"
    BY <1>3 DEF Valid
  <2>3. OrderFault(Script(u).orderby) = "none" /\ Script(u).orderby \in Seq(Seq(Words))
    <3>1. OrderFault(Script(u).orderby) = "none"
      BY <2>2, Accepted, Zenon
    <3>2. Script(u).orderby \in Seq(Seq(Words))
      BY <2>1 DEF OptionRecords
    <3> QED BY <3>1, <3>2
  <2>4. order \in Orders(FieldNames) /\ Different(order)
    BY <2>3, OrderRead
  <2>5. visible \in Orders(FieldNames \cap TableFields) /\ Different(visible)
    <3> HIDE DEF order
    <3> QED BY <2>4, KeysOnOrder
  <2>6. FieldNames \cap TableFields = TableFields
    BY ExplorerAssumption
  <2> QED BY <1>3, <2>5, <2>6 DEF ShownSort, ShownOf
<1> QED BY <1>2, <1>3

-----------------------------------------------------------------------------
(* The address of the page and the text in its script area.                *)
Typed == url \in Addresses /\ box \in Seq(Tokens)

Unfiltered(none, all) ==
  [q |-> none, tags |-> {}, match |-> all, noise |-> {}, machine |-> none,
   css |-> none, low |-> Absent, high |-> Absent]

LEMMA UnfilteredTyped ==
  ASSUME NEW none \in Words, NEW all \in Words
  PROVE  Unfiltered(none, all) \in FilterRecords
BY DEF Unfiltered, FilterRecords

LEMMA BlankTyped == Blank \in Addresses
<1>1. NoFilters \in FilterRecords
  <2>1. "" \in Words /\ "all" \in Words
    BY WordsAssumption, Zenon
  <2>2. NoFilters = Unfiltered("", "all")
    BY Zenon DEF NoFilters, Unfiltered
  <2> QED BY <2>1, <2>2, UnfilteredTyped, Zenon
<1>2. <<>> \in SortKeyLists
  BY DEF SortKeyLists
<1> QED BY <1>1, <1>2 DEF Blank, Addresses

\* The order that the page's script goes on from.
LEMMA CurrentTyped ==
  ASSUME Typed
  PROVE  CurrentSort \in SortKeyLists /\ ShownSort(url) \in SortKeyLists
<1>1. /\ ShownSort(url) \in Orders(TableFields) /\ Different(ShownSort(url))
  BY ShownOrder DEF Typed
<1>2. RenderedSort(url) \in Orders(TableFields \cap VisibleColumns(url))
  <2>1. KeysOn(ShownSort(url), VisibleColumns(url)) \in Orders(TableFields \cap VisibleColumns(url))
    BY <1>1, KeysOnOrder
  <2> QED BY <2>1, Zenon DEF RenderedSort
<1>3. TableFields \subseteq Words
  BY QueryAssumption, ExplorerAssumption
<1>4. \A F : F \subseteq Words => Orders(F) \subseteq SortKeyLists
  BY OrdersWiden, Zenon DEF Orders, SortKeyLists, Directions
<1>5. url.sort \in SortKeyLists
  BY DEF Typed, Addresses
<1> QED BY <1>1, <1>2, <1>3, <1>4, <1>5 DEF CurrentSort

LEMMA ClickedTyped ==
  ASSUME NEW current \in SortKeyLists, NEW field \in Words, NEW direction \in Directions
  PROVE  Clicked(current, field, direction) \in SortKeyLists
<1>1. ASSUME current # <<>> PROVE current[1] \in Words \X Directions
  BY <1>1 DEF SortKeyLists, Directions
<1>2. \A key \in Words \X Directions : Reverse1(key) \in Words \X Directions
  BY DEF Reverse1, Directions
<1>3. \A key \in Words \X Directions : <<key>> \in SortKeyLists
  BY DEF SortKeyLists, Directions
<1>4. <<field, direction>> \in Words \X Directions
  OBVIOUS
<1> QED BY <1>1, <1>2, <1>3, <1>4 DEF Clicked

\* Shift-click on a field reverses the first of its keys, or appends one.
On(current, field) == {i \in DOMAIN current : current[i][1] = field}

LEMMA ShiftClickedNew ==
  ASSUME NEW current, NEW field, On(current, field) = {}
  PROVE  ShiftClicked(current, field) = Append(current, <<field, "asc">>)
BY Zenon DEF ShiftClicked, On

LEMMA ShiftClickedAgain ==
  ASSUME NEW S, NEW current \in Seq(S), NEW field, On(current, field) # {}
  PROVE  \E first \in On(current, field) :
           /\ \A i \in On(current, field) : first <= i
           /\ ShiftClicked(current, field)
                = [current EXCEPT ![first] = Reverse1(current[first])]
<1> DEFINE same == On(current, field)
           Least(i) == \A j \in same : i <= j
           first == CHOOSE i \in same : Least(i)
<1>1. ShiftClicked(current, field) = [current EXCEPT ![first] = Reverse1(current[first])]
  BY Zenon DEF ShiftClicked, On
<1>2. \E i \in same : Least(i)
  <2>1. same \in SUBSET Nat /\ same # {}
    BY DEF On
  <2> HIDE DEF same
  <2> QED BY <2>1, LeastMember
<1>3. first \in same /\ Least(first)
  <2> HIDE DEF Least, same
  <2> QED BY <1>2, Zenon
<1> HIDE DEF first
<1> QED BY <1>1, <1>3, Zenon

LEMMA ShiftClickedTyped ==
  ASSUME NEW F, NEW current \in Seq(F \X Directions), NEW field \in F
  PROVE  ShiftClicked(current, field) \in Seq(F \X Directions)
<1>1. CASE On(current, field) = {}
  <2>1. ShiftClicked(current, field) = Append(current, <<field, "asc">>)
    BY <1>1, ShiftClickedNew, Zenon
  <2>2. <<field, "asc">> \in F \X Directions
    BY DEF Directions
  <2> QED BY <2>1, <2>2
<1>2. CASE On(current, field) # {}
  <2>1. PICK first \in On(current, field) :
          ShiftClicked(current, field) = [current EXCEPT ![first] = Reverse1(current[first])]
    BY <1>2, ShiftClickedAgain, Zenon
  <2>2. current[first] \in F \X Directions /\ first \in DOMAIN current
    BY DEF On
  <2>3. Reverse1(current[first]) \in F \X Directions
    BY <2>2 DEF Reverse1, Directions
  <2> QED BY <2>1, <2>2, <2>3
<1> QED BY <1>1, <1>2

StateOf(f, none) ==
  [f EXCEPT !.match = IF @ \in {"all", "any"} THEN @ ELSE "all",
            !.machine = IF @ \in Classes \cup {"unreported"} THEN @ ELSE none,
            !.low = IF @ # Absent /\ @ < 0 THEN Absent ELSE @,
            !.high = IF @ # Absent /\ @ < 0 THEN Absent ELSE @]

LEMMA StateTyped ==
  ASSUME NEW f \in FilterRecords
  PROVE  FilterState(f) \in FilterRecords
<1>0. "all" \in Words
  BY WordsAssumption, Zenon
<1>1. "" \in Words
  BY WordsAssumption, Zenon
<1>2. FilterState(f) = StateOf(f, "")
  BY Zenon DEF FilterState, StateOf
<1>3. ASSUME NEW none \in Words PROVE StateOf(f, none) \in FilterRecords
  BY <1>0, <1>3 DEF StateOf, FilterRecords
<1> QED BY <1>1, <1>2, <1>3, Zenon

LEMMA SortedTyped ==
  ASSUME Typed, NEW keys \in SortKeyLists
  PROVE  /\ Sorted(keys) \in Addresses
         /\ Sorted(keys).sort = keys
         /\ Sorted(keys).odata = NoScript /\ Sorted(keys).direct = NoScript
BY DEF Sorted, Typed, Addresses

LEMMA SubmitTyped ==
  ASSUME Typed, NEW f \in FilterRecords, NEW text \in OptionRecords \cup {NoScript},
         Submit(f, text)
  PROVE  url' \in Addresses /\ box' = <<>>
<1>1. LastValid(url) \in OptionRecords \cup {NoScript}
  BY DEF LastValid, Typed, Addresses
<1>2. Blank \in Addresses
  BY BlankTyped
<1>3. url.sort \in SortKeyLists /\ url.columns \in SUBSET Words
  BY DEF Typed, Addresses
<1> DEFINE sort == IF KeepsSort THEN url.sort ELSE <<>>
           columns == IF KeepsSort THEN url.columns ELSE {}
           last == LastValid(url)
<1>4. sort \in SortKeyLists /\ columns \in SUBSET Words
  <2>1. <<>> \in SortKeyLists
    BY DEF SortKeyLists
  <2> QED BY <1>3, <2>1
<1>5. /\ url' = [Blank EXCEPT !.filters = f, !.odata = text, !.last = last,
                              !.sort = sort, !.columns = columns]
      /\ box' = <<>>
  BY Zenon DEF Submit, Go
<1> HIDE DEF sort, columns, last
<1>6. last \in OptionRecords \cup {NoScript}
  BY <1>1 DEF last
<1> QED BY <1>2, <1>4, <1>5, <1>6 DEF Addresses

LEMMA FieldsAreWords ==
  /\ FieldNames \subseteq Words /\ TableFields \subseteq FieldNames /\ Columns \subseteq TableFields
  /\ VisibleColumns(url) \subseteq Columns
<1>1. FieldNames \subseteq Words /\ TableFields \subseteq FieldNames /\ Columns \subseteq TableFields
  BY QueryAssumption, ExplorerAssumption
<1>2. VisibleColumns(url) \subseteq Columns
  BY ExplorerAssumption DEF VisibleColumns
<1> QED BY <1>1, <1>2

LEMMA StepTyped ==
  ASSUME Typed, [Next]_vars
  PROVE  Typed'
<1>0. url \in Addresses /\ box \in Seq(Tokens) /\ <<>> \in Seq(Tokens)
  BY DEF Typed
<1>1. ASSUME NEW chunk \in Chunks, Type(chunk) PROVE Typed'
  <2>1. chunk \in Seq(Tokens)
    BY ExplorerAssumption
  <2> QED BY <1>0, <1>1, <2>1 DEF Type, Typed
<1>2. ASSUME NEW u \in DeepLinks, Visit(u) PROVE Typed'
  <2>1. u \in Addresses
    BY ExplorerAssumption
  <2> QED BY <1>0, <1>2, <2>1 DEF Visit, Go, Typed
<1>3. ASSUME NEW text \in Scripts \cup {NoScript}, RunScript(text) PROVE Typed'
  <2>1. text \in OptionRecords \cup {NoScript}
    BY ExplorerAssumption
  <2>2. PageFilters(url) \in FilterRecords
    <3>1. FilterState(url.filters) \in FilterRecords
      BY <1>0, StateTyped DEF Addresses
    <3> QED BY <3>1 DEF PageFilters, FilterRecords
  <2> QED BY <1>0, <1>3, <2>1, <2>2, SubmitTyped DEF RunScript, Typed
<1>4. ASSUME NEW f \in FilterSets, SetFilters(f) PROVE Typed'
  <2>1. f \in FilterRecords /\ url.odata \in OptionRecords \cup {NoScript}
    BY <1>0, ExplorerAssumption DEF Addresses
  <2> QED BY <1>0, <1>4, <2>1, SubmitTyped DEF SetFilters, Typed
<1>5. ASSUME NEW keys \in SortKeyLists, Go(Sorted(keys)) PROVE Typed'
  BY <1>0, <1>5, SortedTyped DEF Go, Typed
<1>6. ASSUME NEW field \in Columns, Click(field) \/ ShiftClick(field) \/ FollowHeading(field)
      PROVE  Typed'
  <2>1. field \in Words /\ field \in FieldNames /\ "asc" \in Directions
    BY FieldsAreWords DEF Directions
  <2>2. CurrentSort \in SortKeyLists /\ ShownSort(url) \in SortKeyLists
    BY CurrentTyped
  <2>3. CASE Click(field)
    BY <1>5, <2>1, <2>2, <2>3, ClickedTyped DEF Click
  <2>4. CASE ShiftClick(field)
    <3>1. ShiftClicked(CurrentSort, field) \in SortKeyLists
      BY <2>1, <2>2, ShiftClickedTyped, Zenon DEF SortKeyLists, Directions
    <3> QED BY <1>5, <2>4, <3>1 DEF ShiftClick
  <2>5. CASE FollowHeading(field)
    <3>1. DefaultDirection[field] \in Directions
      BY <2>1, ExplorerAssumption DEF Directions
    <3> QED BY <1>5, <2>1, <2>2, <2>5, <3>1, ClickedTyped DEF FollowHeading
  <2> QED BY <1>6, <2>3, <2>4, <2>5
<1>7. CASE ResetSort
  <2>1. <<>> \in SortKeyLists
    BY DEF SortKeyLists
  <2> QED BY <1>0, <1>7, <2>1 DEF ResetSort, Go, Typed, Addresses
<1>8. ASSUME NEW choice \in {{}, NarrowView}, ChooseColumns(choice) PROVE Typed'
  <2>1. choice \in SUBSET Words
    BY FieldsAreWords, ExplorerAssumption
  <2> QED BY <1>0, <1>8, <2>1 DEF ChooseColumns, Go, Typed, Addresses
<1>9. CASE UNCHANGED vars
  BY <1>0, <1>9 DEF vars, Typed
<1> QED BY <1>1, <1>2, <1>3, <1>4, <1>6, <1>7, <1>8, <1>9 DEF Next, UsePage

(* Every address that a reader comes to gives each filter, key and script  *)
(* the form its parser expects, and what is typed is a text of tokens.     *)
THEOREM SpecTyped == Spec => []Typed
<1>1. Init => Typed
  BY BlankTyped DEF Init, Typed
<1>2. Typed /\ [Next]_vars => Typed'
  BY StepTyped
<1> QED BY <1>1, <1>2, PTL DEF Spec

-----------------------------------------------------------------------------
\* ClicksFollowMarks, for one click of the script of the page.
Clean ==
  /\ url.sort = <<>> \/ (Script(url) = NoScript /\ url.sort = ShownSort(url))
  /\ RenderedSort(url) = ShownSort(url) /\ ~Fails(url)

LEMMA CleanCurrent ==
  ASSUME Typed, Clean
  PROVE  /\ CurrentSort = ShownSort(url)
         /\ ShownSort(url) \in Orders(Columns)
         /\ ShownSort(url) # <<>>
         /\ Different(ShownSort(url))
<1> DEFINE before == ShownSort(url)
<1>1. before \in Orders(TableFields) /\ before # <<>> /\ Different(before)
  BY ShownOrder DEF Typed
<1>2. CurrentSort = before
  BY <1>1 DEF Clean, CurrentSort
<1>3. \A key \in ToSet(before) : key[1] \in Columns
  BY DEF Clean, Fails
<1>4. \A i \in 1..Len(before) : before[i][1] \in Columns
  <2> HIDE DEF before
  <2>1. \A i \in 1..Len(before) : before[i] \in ToSet(before)
    BY <1>1 DEF ToSet, Orders
  <2> QED BY <1>3, <2>1
<1>5. before \in Orders(Columns)
  <2> HIDE DEF before
  <2>1. \A i \in 1..Len(before) : before[i] \in Columns \X Directions
    BY <1>1, <1>4 DEF Orders
  <2> QED BY <1>1, <2>1 DEF Orders
<1> QED BY <1>1, <1>2, <1>5

\* What the headings show after the page's script went on to some keys.
LEMMA ShownAfter ==
  ASSUME Typed, NEW keys \in Orders(Columns), keys # <<>>, Different(keys), Go(Sorted(keys))
  PROVE  ShownSort(url)' = keys
<1>1. keys \in SortKeyLists
  BY FieldsAreWords, OrdersWiden, Zenon DEF Orders, SortKeyLists, Directions
<1>2. /\ url'.sort = keys /\ url'.odata = NoScript /\ url'.direct = NoScript
  BY <1>1, SortedTyped DEF Go
<1>3. ~Valid(Script(url'))
  BY <1>2 DEF Script, Valid
<1>4. ShownSort(url') = ParseSort(url'.sort)
  BY <1>3, Zenon DEF ShownSort, ShownOf
<1> QED BY <1>2, <1>4, SortKept

LEMMA ClickShown ==
  ASSUME Typed, Clean, NEW field \in Columns, Click(field)
  PROVE  LET before == ShownSort(url)
             after == ShownSort(url')
         IN  /\ Len(after) = 1 /\ after[1][1] = field
             /\ before[1][1] = field => after[1] = Reverse1(before[1])
<1> DEFINE before == ShownSort(url)
           key == IF before[1][1] = field THEN Reverse1(before[1]) ELSE <<field, "asc">>
<1>1. CurrentSort = before /\ before \in Orders(Columns) /\ before # <<>>
  BY CleanCurrent
<1>2. before[1] \in Columns \X Directions
  BY <1>1 DEF Orders
<1>3. key \in Columns \X Directions /\ key[1] = field
  BY <1>2 DEF Reverse1, Directions
<1>4. Clicked(CurrentSort, field, "asc") = <<key>>
  BY <1>1 DEF Clicked
<1> HIDE DEF key
<1>5. <<key>> \in Orders(Columns) /\ <<key>> # <<>> /\ Different(<<key>>)
  BY <1>3 DEF Orders, Different
<1>6. Go(Sorted(<<key>>))
  BY <1>4 DEF Click
<1>7. ShownSort(url') = <<key>>
  BY <1>5, <1>6, ShownAfter
<1> QED BY <1>3, <1>7 DEF key

LEMMA ShiftClickShown ==
  ASSUME Typed, Clean, NEW field \in Columns, ShiftClick(field)
  PROVE  LET before == ShownSort(url)
             after == ShownSort(url')
         IN  IF \E i \in DOMAIN before : before[i][1] = field
             THEN after = [i \in DOMAIN before |->
                             IF before[i][1] = field THEN Reverse1(before[i]) ELSE before[i]]
             ELSE after = Append(before, <<field, "asc">>)
<1> DEFINE before == ShownSort(url)
           n == Len(before)
           keys == ShiftClicked(before, field)
           toggled == [i \in DOMAIN before |->
                         IF before[i][1] = field THEN Reverse1(before[i]) ELSE before[i]]
<1>1. /\ CurrentSort = before /\ before \in Orders(Columns) /\ before # <<>>
      /\ Different(before)
  BY CleanCurrent
<1>2. Go(Sorted(keys))
  BY <1>1 DEF ShiftClick
<1>3. n \in Nat /\ DOMAIN before = 1..n /\ \A i \in 1..n : before[i] \in Columns \X Directions
  BY <1>1 DEF Orders
<1>4. \A i, j \in 1..n : before[i][1] = before[j][1] => i = j
  BY <1>1 DEF Different
<1> HIDE DEF before, keys
<1>5. CASE On(before, field) = {}
  <2>1. keys = Append(before, <<field, "asc">>)
    BY <1>5, ShiftClickedNew, Zenon DEF keys
  <2>2. /\ keys \in Orders(Columns) /\ keys # <<>> /\ Len(keys) = n + 1
        /\ keys[n + 1][1] = field /\ \A i \in 1..n : keys[i] = before[i]
    <3> DEFINE key == <<field, "asc">>
    <3>1. key \in Columns \X Directions /\ key[1] = field
      BY DEF Directions
    <3>2. before \in Seq(Columns \X Directions)
      BY <1>1 DEF Orders
    <3>3. keys = Append(before, key)
      BY <2>1
    <3> HIDE DEF key
    <3>4. /\ keys \in Seq(Columns \X Directions) /\ Len(keys) = n + 1
          /\ keys[n + 1] = key /\ \A i \in 1..n : keys[i] = before[i]
      BY <3>1, <3>2, <3>3
    <3>5. keys # <<>>
      BY <1>3, <3>4
    <3> QED BY <3>1, <3>4, <3>5 DEF Orders
  <2>3. \A i \in 1..n : before[i][1] # field
    BY <1>3, <1>5 DEF On
  <2>4. Different(keys)
    <3> SUFFICES ASSUME NEW i \in 1..(n + 1), NEW j \in 1..(n + 1), keys[i][1] = keys[j][1]
                 PROVE  i = j
      BY <2>2 DEF Different
    <3> HIDE DEF n
    <3>1. (i = n + 1 \/ i \in 1..n) /\ (j = n + 1 \/ j \in 1..n)
      BY <1>3
    <3> QED BY <1>4, <2>2, <2>3, <3>1
  <2>5. ShownSort(url') = keys
    BY <1>2, <2>2, <2>4, ShownAfter
  <2>6. ~ \E i \in DOMAIN before : before[i][1] = field
    BY <1>3, <2>3
  <2> QED BY <2>1, <2>5, <2>6, Zenon DEF before
<1>6. CASE On(before, field) # {}
  <2>1. PICK first \in On(before, field) :
          keys = [before EXCEPT ![first] = Reverse1(before[first])]
    BY <1>1, <1>6, ShiftClickedAgain, Zenon DEF keys, Orders
  <2>2. first \in 1..n /\ before[first][1] = field
    BY <1>3 DEF On
  <2>3. \A i \in 1..n : before[i][1] = field <=> i = first
    BY <1>4, <2>2
  <2>4. keys = toggled
    BY <1>3, <2>1, <2>3
  <2>5. \A i \in 1..n : keys[i] \in Columns \X Directions /\ keys[i][1] = before[i][1]
    BY <1>3, <2>4 DEF Reverse1, Directions
  <2>6. DOMAIN keys = 1..n
    BY <1>3, <2>4
  <2> HIDE DEF n, toggled
  <2>7. keys \in Orders(Columns) /\ Len(keys) = n
    <3>1. keys = [i \in 1..n |-> keys[i]]
      BY <1>3, <2>4, <2>6 DEF toggled
    <3> QED BY <1>3, <2>5, <3>1 DEF Orders
  <2>8. keys # <<>>
    BY <2>2, <2>7 DEF Orders
  <2>9. Different(keys)
    BY <1>4, <2>5, <2>7 DEF Different
  <2>10. ShownSort(url') = toggled
    BY <1>2, <2>4, <2>7, <2>8, <2>9, ShownAfter
  <2>11. \E i \in DOMAIN before : before[i][1] = field
    BY <1>3, <2>2
  <2> QED BY <2>10, <2>11, Zenon DEF before, toggled
<1> QED BY <1>5, <1>6

(* A click on a heading goes by the marks that the headings show, whatever *)
(* keys, columns and scripts the address has, in the cases that the        *)
(* property names.                                                         *)
THEOREM ClicksGoByMarks == Spec => ClicksFollowMarks
<1> DEFINE Step ==
      LET before == ShownSort(url)
          after == ShownSort(url')
      IN  (/\ url.sort = <<>> \/ (Script(url) = NoScript /\ url.sort = before)
           /\ RenderedSort(url) = before /\ ~Fails(url) /\ ~Fails(url')) =>
            \A field \in Columns :
              LET Marked(i) == before[i][1] = field IN
              /\ Click(field) =>
                   /\ Len(after) = 1 /\ after[1][1] = field
                   /\ Marked(1) => after[1] = Reverse1(before[1])
              /\ ShiftClick(field) =>
                   IF \E i \in DOMAIN before : Marked(i)
                   THEN after = [i \in DOMAIN before |->
                                   IF Marked(i) THEN Reverse1(before[i]) ELSE before[i]]
                   ELSE after = Append(before, <<field, "asc">>)
<1>1. ASSUME Typed PROVE Step
  <2>1. SUFFICES ASSUME Clean PROVE Step
    BY Zenon DEF Clean
  <2>2. ASSUME NEW field \in Columns, Click(field)
        PROVE  LET before == ShownSort(url)
                   after == ShownSort(url')
               IN  /\ Len(after) = 1 /\ after[1][1] = field
                   /\ before[1][1] = field => after[1] = Reverse1(before[1])
    BY <1>1, <2>1, <2>2, ClickShown, Zenon
  <2>3. ASSUME NEW field \in Columns, ShiftClick(field)
        PROVE  LET before == ShownSort(url)
                   after == ShownSort(url')
               IN  IF \E i \in DOMAIN before : before[i][1] = field
                   THEN after = [i \in DOMAIN before |->
                                   IF before[i][1] = field THEN Reverse1(before[i]) ELSE before[i]]
                   ELSE after = Append(before, <<field, "asc">>)
    BY <1>1, <2>1, <2>3, ShiftClickShown, Zenon
  <2> QED BY <2>2, <2>3, Zenon
<1>2. Typed => [Step]_vars
  BY <1>1
<1>3. ClicksFollowMarks <=> [][Step]_vars
  BY DEF ClicksFollowMarks
<1> HIDE DEF Step
<1> QED BY <1>2, <1>3, SpecTyped, PTL

(* The query of a page with a faulty script is the last valid one that was *)
(* run from there.                                                         *)
THEOREM LastValidStays == Spec => LastValidSurvives
<1> DEFINE Step ==
      (/\ url.odata # NoScript /\ url'.odata # NoScript /\ url'.last = LastValid(url)
       /\ Valid(url.odata) \/ Valid(url.last)
       /\ ~Valid(url'.odata) /\ ~Fails(url))
      => Query(url') = Query(url)
<1>1. Step
  BY DEF LastValid, Script, Query, QueryOptions
<1>2. [Step]_vars
  BY <1>1
<1>3. LastValidSurvives <=> [][Step]_vars
  BY DEF LastValidSurvives
<1> HIDE DEF Step
<1> QED BY <1>2, <1>3, PTL

-----------------------------------------------------------------------------
(* Syntax trees.                                                           *)
Grown(below) ==
  LeafNodes \cup [node : {"not"}, child : below]
            \cup [node : {"logic"}, op : {"and", "or"},
                  children : {s \in Seq(below) : Len(s) > 1}]

LEMMA TreesGrow ==
  /\ Trees[0] = LeafNodes
  /\ \A d \in 1..MaxFilterLength : Trees[d] = Grown(Trees[d - 1])
<1> DEFINE N == MaxFilterLength
           trees(f, k) == [d \in 0..k |-> IF d = 0 THEN LeafNodes ELSE Grown(f[d - 1])]
           S == {k \in 0..N : \E f : f = trees(f, k)}
<1>0. N \in Nat /\ 0 \in 0..N /\ 0 \in 0..0 /\ \A d \in 0..0 : d = 0
  BY QueryAssumption
<1>1. 0 \in S
  <2> DEFINE f == [d \in 0..0 |-> LeafNodes]
  <2>1. \A d \in 0..0 : f[d] = trees(f, 0)[d]
    BY <1>0
  <2>2. f = trees(f, 0)
    BY <2>1
  <2> HIDE DEF f, trees
  <2> QED BY <1>0, <2>2
<1>2. ASSUME NEW k \in 1..N, k - 1 \in S PROVE k \in S
  <2>1. PICK f : f = trees(f, k - 1)
    BY <1>2
  <2>2. /\ k \in Nat /\ k # 0 /\ k \in 0..N
        /\ \A d \in 0..k : d = k \/ d \in 0..(k - 1)
        /\ \A d \in 0..k : d # 0 => d - 1 \in 0..(k - 1)
        /\ \A d \in 0..(k - 1) : d # k /\ d \in 0..k
    BY <1>0
  <2> DEFINE g == [d \in 0..k |-> IF d = k THEN Grown(f[k - 1]) ELSE f[d]]
  <2>3. \A d \in 0..(k - 1) : g[d] = f[d]
    BY <2>2
  <2>4. \A d \in 0..(k - 1) : f[d] = IF d = 0 THEN LeafNodes ELSE Grown(f[d - 1])
    BY <2>1
  <2>5. ASSUME NEW d \in 0..k PROVE g[d] = IF d = 0 THEN LeafNodes ELSE Grown(g[d - 1])
    <3>1. d # 0 => g[d - 1] = f[d - 1]
      BY <2>2, <2>3
    <3>2. CASE d = k
      BY <2>2, <3>1, <3>2
    <3>3. CASE d \in 0..(k - 1)
      <4> HIDE DEF g
      <4> QED BY <2>3, <2>4, <3>1, <3>3
    <3> QED BY <2>2, <3>2, <3>3
  <2>6. g = trees(g, k)
    BY <2>5
  <2> HIDE DEF g, trees
  <2> QED BY <2>2, <2>6
<1>3. N \in S
  <2>1. N \in 0..N
    BY <1>0
  <2> HIDE DEF S, N
  <2> QED BY <1>0, <1>1, <1>2, <2>1, UpToN
<1> DEFINE g == CHOOSE h : h = trees(h, N)
<1>4. g = trees(g, N)
  <2>1. PICK f : f = trees(f, N)
    BY <1>3
  <2> HIDE DEF trees, N
  <2> QED BY <2>1, Zenon
<1>5. Trees = g
  BY Zenon DEF Trees, Grown
<1> HIDE DEF g
<1>6. \A d \in 0..N : g[d] = IF d = 0 THEN LeafNodes ELSE Grown(g[d - 1])
  BY <1>4
<1>7. \A d \in 1..N : d \in 0..N /\ d # 0
  BY <1>0
<1> QED BY <1>0, <1>5, <1>6, <1>7

LEMMA TreesWiden ==
  ASSUME NEW d \in 0..MaxFilterLength, NEW c \in 0..d
  PROVE  Trees[c] \subseteq Trees[d]
<1> DEFINE N == MaxFilterLength
           T == {k \in 0..N : k = 0 \/ Trees[k - 1] \subseteq Trees[k]}
           S == {k \in 0..N : \A j \in 0..k : Trees[j] \subseteq Trees[k]}
<1>0. N \in Nat /\ 0 \in 0..N /\ \A k \in 1..N : k - 1 \in 0..N /\ k \in 0..N
  BY QueryAssumption
<1>1. \A A, B : A \subseteq B => Grown(A) \subseteq Grown(B)
  <2> SUFFICES ASSUME NEW A, NEW B, A \subseteq B PROVE Grown(A) \subseteq Grown(B)
    OBVIOUS
  <2>1. Seq(A) \subseteq Seq(B)
    BY SeqMonotonic
  <2> QED BY <2>1 DEF Grown
<1>2. \A k \in 0..N : k \in T
  <2>1. 0 \in T
    BY <1>0
  <2>2. ASSUME NEW k \in 1..N, k - 1 \in T PROVE k \in T
    <3>1. Trees[k] = Grown(Trees[k - 1])
      BY TreesGrow
    <3>2. CASE k = 1
      <4>1. Trees[0] \subseteq Grown(Trees[0])
        BY TreesGrow DEF Grown
      <4> QED BY <1>0, <3>1, <3>2, <4>1
    <3>3. CASE k # 1
      <4>1. k - 1 \in 1..N /\ k - 1 # 0
        BY <1>0, <3>3
      <4>2. Trees[k - 1 - 1] \subseteq Trees[k - 1] /\ Trees[k - 1] = Grown(Trees[k - 1 - 1])
        BY <2>2, <4>1, TreesGrow
      <4> QED BY <1>0, <1>1, <3>1, <4>2
    <3> QED BY <3>2, <3>3
  <2> HIDE DEF T, N
  <2> QED BY <1>0, <2>1, <2>2, UpToN
<1>3. \A k \in 0..N : k \in S
  <2>1. 0 \in S
    BY <1>0
  <2>2. ASSUME NEW k \in 1..N, k - 1 \in S PROVE k \in S
    <3>1. Trees[k - 1] \subseteq Trees[k]
      BY <1>0, <1>2
    <3>2. \A j \in 0..k : j = k \/ j \in 0..(k - 1)
      BY <1>0
    <3> QED BY <1>0, <2>2, <3>1, <3>2
  <2> HIDE DEF S, N
  <2> QED BY <1>0, <2>1, <2>2, UpToN
<1> QED BY <1>3

LEMMA LeafShape ==
  ASSUME NEW n \in LeafNodes
  PROVE  \/ n.node = "none"
         \/ /\ n.node \in {"compare", "function"}
            /\ n.op \in Comparisons \cup Functions3 /\ n.field \in FieldNames
            /\ n.value \in Int \cup {Null}
            /\ n.node = "function" => n.op \in Functions3 /\ n.value \in Int
            /\ n.node = "compare" => n.op \in Comparisons
<1>1. NoNode.node = "none"
  BY DEF NoNode
<1> QED BY <1>1 DEF LeafNodes

LEMMA TreeShape ==
  ASSUME NEW d \in 0..MaxFilterLength, NEW n \in Trees[d]
  PROVE  \/ n \in LeafNodes
         \/ /\ d - 1 \in 0..MaxFilterLength /\ d \in 1..MaxFilterLength
            /\ \/ /\ n.node = "not" /\ n.child \in Trees[d - 1]
               \/ /\ n.node = "logic" /\ n.op \in {"and", "or"}
                  /\ n.children \in Seq(Trees[d - 1]) /\ Len(n.children) > 1
<1>1. CASE d = 0
  BY <1>1, TreesGrow
<1>2. CASE d # 0
  <2>1. d \in 1..MaxFilterLength /\ d - 1 \in 0..MaxFilterLength
    BY <1>2, QueryAssumption
  <2>2. n \in Grown(Trees[d - 1])
    BY <2>1, TreesGrow
  <2> QED BY <2>1, <2>2 DEF Grown
<1> QED BY <1>1, <1>2

Long(V) == {s \in Seq(V) : Len(s) > 1}

\* What is computed of a tree from what it computes of the trees below.
Combine(f, n, leaf, neg, logic) ==
  IF n.node = "not" THEN neg[f[n.child]]
  ELSE IF n.node = "logic" THEN logic[n.op][[i \in DOMAIN n.children |-> f[n.children[i]]]]
  ELSE leaf[n]

LEMMA CombineTyped ==
  ASSUME NEW V, NEW leaf \in [LeafNodes -> V], NEW neg \in [V -> V],
         NEW logic \in [{"and", "or"} -> [Long(V) -> V]],
         NEW d \in 0..MaxFilterLength, NEW f, NEW n \in Trees[d],
         d = 0 \/ \A m \in Trees[d - 1] : f[m] \in V
  PROVE  Combine(f, n, leaf, neg, logic) \in V
<1>1. CASE n \in LeafNodes
  <2>1. n.node # "not" /\ n.node # "logic"
    BY <1>1, LeafShape
  <2> QED BY <1>1, <2>1 DEF Combine
<1>2. CASE n \notin LeafNodes
  <2>1. d \in 1..MaxFilterLength
    BY <1>2, TreeShape
  <2>2. \A m \in Trees[d - 1] : f[m] \in V
    BY <2>1
  <2>3. CASE n.node = "not"
    BY <1>2, <2>2, <2>3, TreeShape DEF Combine
  <2>4. CASE n.node # "not"
    <3>1. /\ n.node = "logic" /\ n.op \in {"and", "or"}
          /\ n.children \in Seq(Trees[d - 1]) /\ Len(n.children) > 1
      BY <1>2, <2>4, TreeShape
    <3> DEFINE s == [i \in DOMAIN n.children |-> f[n.children[i]]]
    <3>2. \A i \in 1..Len(n.children) : n.children[i] \in Trees[d - 1]
      BY <3>1
    <3>3. Len(n.children) \in Nat /\ DOMAIN n.children = 1..Len(n.children)
      BY <3>1
    <3>4. s \in [1..Len(n.children) -> V]
      BY <2>2, <3>2, <3>3
    <3>5. s \in Seq(V) /\ Len(s) = Len(n.children)
      <4> DEFINE m == Len(n.children)
      <4> HIDE DEF s, m
      <4> QED BY <3>3, <3>4
    <3> HIDE DEF s
    <3>6. s \in Long(V)
      BY <3>1, <3>5 DEF Long
    <3>7. Combine(f, n, leaf, neg, logic) = logic[n.op][s]
      BY <2>4, <3>1, Zenon DEF Combine, s
    <3> QED BY <3>1, <3>6, <3>7
  <2> QED BY <2>3, <2>4
<1> QED BY <1>1, <1>2

LEMMA CombineAgrees ==
  ASSUME NEW leaf, NEW neg, NEW logic,
         NEW d \in 0..MaxFilterLength, NEW f, NEW g, NEW n \in Trees[d],
         d = 0 \/ \A m \in Trees[d - 1] : f[m] = g[m]
  PROVE  Combine(f, n, leaf, neg, logic) = Combine(g, n, leaf, neg, logic)
<1>1. CASE n \in LeafNodes
  <2>1. n.node # "not" /\ n.node # "logic"
    BY <1>1, LeafShape
  <2> QED BY <2>1 DEF Combine
<1>2. CASE n \notin LeafNodes
  <2>1. d \in 1..MaxFilterLength
    BY <1>2, TreeShape
  <2>2. \A m \in Trees[d - 1] : f[m] = g[m]
    BY <2>1
  <2>3. CASE n.node = "not"
    <3>1. f[n.child] = g[n.child]
      BY <1>2, <2>2, <2>3, TreeShape
    <3> QED BY <2>3, <3>1, Zenon DEF Combine
  <2>4. CASE n.node # "not"
    <3>1. /\ n.node = "logic" /\ n.children \in Seq(Trees[d - 1])
      BY <1>2, <2>4, TreeShape
    <3>2. \A i \in DOMAIN n.children : f[n.children[i]] = g[n.children[i]]
      BY <2>2, <3>1
    <3>3. [i \in DOMAIN n.children |-> f[n.children[i]]] = [i \in DOMAIN n.children |-> g[n.children[i]]]
      BY <3>2
    <3> QED BY <2>4, <3>1, <3>3, Zenon DEF Combine
  <2> QED BY <2>3, <2>4
<1> QED BY <1>1, <1>2

LEMMA TreeRecursion ==
  ASSUME NEW V, NEW leaf \in [LeafNodes -> V], NEW neg \in [V -> V],
         NEW logic \in [{"and", "or"} -> [Long(V) -> V]]
  PROVE  \E f \in [FilterTrees -> V] :
           \A n \in FilterTrees : f[n] = Combine(f, n, leaf, neg, logic)
<1> DEFINE N == MaxFilterLength
           Good(f, d) == /\ f \in [Trees[d] -> V]
                         /\ \A n \in Trees[d] : f[n] = Combine(f, n, leaf, neg, logic)
           S == {d \in 0..N : \E f : Good(f, d)}
<1>0. N \in Nat /\ 0 \in 0..N /\ N \in 0..N /\ \A d \in 1..N : d - 1 \in 0..N /\ d \in 0..N /\ d # 0
  BY QueryAssumption
<1>1. 0 \in S
  <2> DEFINE f == [n \in Trees[0] |-> leaf[n]]
  <2>1. \A n \in Trees[0] : Combine(f, n, leaf, neg, logic) = leaf[n]
    BY TreesGrow, LeafShape DEF Combine
  <2>2. f \in [Trees[0] -> V] /\ \A n \in Trees[0] : f[n] = leaf[n]
    BY TreesGrow
  <2> HIDE DEF f
  <2> QED BY <1>0, <2>1, <2>2
<1>2. ASSUME NEW d \in 1..N, d - 1 \in S PROVE d \in S
  <2>1. PICK f : Good(f, d - 1)
    BY <1>2
  <2> DEFINE g == [n \in Trees[d] |-> Combine(f, n, leaf, neg, logic)]
  <2>2. \A n \in Trees[d] : Combine(f, n, leaf, neg, logic) \in V
    <3>1. \A m \in Trees[d - 1] : f[m] \in V
      BY <2>1
    <3> QED BY <1>0, <3>1, CombineTyped
  <2>3. g \in [Trees[d] -> V] /\ \A n \in Trees[d] : g[n] = Combine(f, n, leaf, neg, logic)
    BY <2>2
  <2> HIDE DEF g
  <2>4. \A m \in Trees[d - 1] : g[m] = f[m]
    <3>1. d - 1 \in 0..d
      BY <1>0
    <3>2. Trees[d - 1] \subseteq Trees[d]
      BY <1>0, <3>1, TreesWiden
    <3> QED BY <2>1, <2>3, <3>2
  <2>5. \A n \in Trees[d] : Combine(g, n, leaf, neg, logic) = Combine(f, n, leaf, neg, logic)
    <3> SUFFICES ASSUME NEW n \in Trees[d]
                 PROVE  Combine(g, n, leaf, neg, logic) = Combine(f, n, leaf, neg, logic)
      OBVIOUS
    <3>1. d \in 0..MaxFilterLength
      BY <1>0
    <3> HIDE DEF N
    <3>2. d = 0 \/ \A m \in Trees[d - 1] : g[m] = f[m]
      BY <2>4
    <3> QED BY <3>1, <3>2, CombineAgrees
  <2>6. Good(g, d)
    BY <2>3, <2>5
  <2> HIDE DEF Good
  <2> QED BY <1>0, <2>6
<1>3. \A d \in 0..N : d \in S
  <2> HIDE DEF S, N
  <2> QED BY <1>0, <1>1, <1>2, UpToN
<1> QED BY <1>0, <1>3 DEF FilterTrees

LEMMA LongWidens ==
  ASSUME NEW A, NEW B, A \subseteq B
  PROVE  Long(A) \subseteq Long(B)
<1>1. Seq(A) \subseteq Seq(B)
  BY SeqMonotonic
<1> QED BY <1>1 DEF Long

LEMMA FilterShape ==
  ASSUME NEW n \in FilterTrees
  PROVE  \/ n \in LeafNodes
         \/ n.node = "not" /\ n.child \in FilterTrees
         \/ n.node = "logic" /\ n.op \in {"and", "or"} /\ n.children \in Long(FilterTrees)
<1> DEFINE N == MaxFilterLength
<1>0. N \in 0..N
  BY QueryAssumption
<1>1. \/ n \in LeafNodes
      \/ /\ N - 1 \in 0..N
         /\ \/ n.node = "not" /\ n.child \in Trees[N - 1]
            \/ n.node = "logic" /\ n.op \in {"and", "or"} /\ n.children \in Long(Trees[N - 1])
  BY <1>0, TreeShape DEF FilterTrees, Long
<1>2. N - 1 \in 0..N => Trees[N - 1] \subseteq FilterTrees
  BY <1>0, TreesWiden DEF FilterTrees
<1> HIDE DEF N
<1>3. N - 1 \in 0..N => Long(Trees[N - 1]) \subseteq Long(FilterTrees)
  BY <1>2, LongWidens
<1> QED BY <1>1, <1>2, <1>3

LEMMA ImagesTyped ==
  ASSUME NEW S, NEW V, NEW s \in Seq(S), NEW f, \A x \in S : f[x] \in V
  PROVE  /\ [i \in DOMAIN s |-> f[s[i]]] \in Seq(V)
         /\ Len([i \in DOMAIN s |-> f[s[i]]]) = Len(s)
<1> DEFINE m == Len(s)
           t == [i \in DOMAIN s |-> f[s[i]]]
<1>1. m \in Nat /\ DOMAIN s = 1..m /\ \A i \in 1..m : s[i] \in S
  OBVIOUS
<1>2. t \in [1..m -> V]
  BY <1>1
<1> HIDE DEF m, t
<1>3. t \in Seq(V) /\ Len(t) = m
  BY <1>1, <1>2
<1> QED BY <1>3, Zenon DEF m, t

\* A filter holds for the leaves and is passed on upwards, so it holds for all.
LEMMA TreeInduction ==
  ASSUME NEW P, LeafNodes \subseteq P,
         \A n \in FilterTrees : n.node = "not" /\ n.child \in P => n \in P,
         \A n \in FilterTrees : n.node = "logic" /\ n.children \in Long(FilterTrees \cap P) => n \in P
  PROVE  FilterTrees \subseteq P
<1> DEFINE N == MaxFilterLength
           S == {d \in 0..N : Trees[d] \subseteq FilterTrees \cap P}
<1>0. N \in Nat /\ 0 \in 0..N /\ N \in 0..N /\ \A d \in 1..N : d - 1 \in 0..N /\ d \in 0..N /\ d # 0
  BY QueryAssumption
<1>1. \A d \in 0..N : Trees[d] \subseteq FilterTrees
  BY <1>0, TreesWiden DEF FilterTrees
<1>2. 0 \in S
  BY <1>0, <1>1, TreesGrow
<1>3. ASSUME NEW d \in 1..N, d - 1 \in S PROVE d \in S
  <2> SUFFICES ASSUME NEW n \in Trees[d] PROVE n \in P
    BY <1>0, <1>1
  <2>1. \/ n \in LeafNodes
        \/ n.node = "not" /\ n.child \in Trees[d - 1]
        \/ n.node = "logic" /\ n.children \in Long(Trees[d - 1])
    BY <1>0, TreeShape DEF Long
  <2>2. Trees[d - 1] \subseteq FilterTrees \cap P /\ n \in FilterTrees
    BY <1>0, <1>1, <1>3
  <2>3. Long(Trees[d - 1]) \subseteq Long(FilterTrees \cap P)
    BY <2>2, LongWidens
  <2> QED BY <2>1, <2>2, <2>3
<1>4. \A d \in 0..N : d \in S
  <2> HIDE DEF S, N
  <2> QED BY <1>0, <1>2, <1>3, UpToN
<1> QED BY <1>0, <1>4 DEF FilterTrees

-----------------------------------------------------------------------------
(* What a filter matches.                                                  *)
Truths == {"true", "false", "unknown"}

LeafValue(n, r, odd) ==
  IF n.node = "none" THEN "true"
  ELSE IF n.node = "compare" /\ n.op = "ne" THEN Negation(Lookup(n, r, ~odd))
  ELSE Lookup(n, r, odd)

LEMMA NegationTyped == \A v : Negation(v) \in Truths
BY DEF Negation, Truths

LEMMA JointTyped == \A op, V : Joint(op, V) \in Truths
BY DEF Joint, Conjunction, Disjunction, Truths

LEMMA LookupTyped ==
  ASSUME NEW n, NEW r, NEW odd
  PROVE  Lookup(n, r, odd) \in Truths
BY DEF Lookup, Kleene, Truths

LEMMA LeafValueTyped ==
  ASSUME NEW n, NEW r, NEW odd
  PROVE  LeafValue(n, r, odd) \in Truths
<1>1. Lookup(n, r, odd) \in Truths
  BY LookupTyped
<1> QED BY <1>1, NegationTyped DEF LeafValue, Truths

ValueOf(f, n, r, odd) == Valued(n, r, f)[odd]

Below(f, n, odd) == {f[n.children[i]][odd] : i \in DOMAIN n.children}

LEMMA ValueOfNot ==
  ASSUME NEW f, NEW n, NEW r, NEW odd \in BOOLEAN, n.node = "not"
  PROVE  ValueOf(f, n, r, odd) = Negation(f[n.child][~odd])
BY DEF ValueOf, Valued

LEMMA ValueOfLogic ==
  ASSUME NEW f, NEW n, NEW r, NEW odd \in BOOLEAN, n.node = "logic"
  PROVE  ValueOf(f, n, r, odd) = Joint(n.op, Below(f, n, odd))
BY DEF ValueOf, Valued, Below

LEMMA ValueOfLeaf ==
  ASSUME NEW f, NEW n, NEW r, NEW odd \in BOOLEAN, n.node # "not", n.node # "logic"
  PROVE  ValueOf(f, n, r, odd) = LeafValue(n, r, odd)
BY DEF ValueOf, Valued, LeafValue

LEMMA ValueOfAll ==
  ASSUME NEW f, NEW n, NEW r
  PROVE  Valued(n, r, f) = [odd \in BOOLEAN |-> ValueOf(f, n, r, odd)]
BY DEF ValueOf, Valued

LEMMA ValueOfTyped ==
  ASSUME NEW f, NEW n, NEW r, NEW odd \in BOOLEAN
  PROVE  ValueOf(f, n, r, odd) \in Truths
<1> DEFINE v == ValueOf(f, n, r, odd)
<1>1. CASE n.node = "not"
  <2>1. v = Negation(f[n.child][~odd])
    BY <1>1, ValueOfNot, Zenon
  <2> HIDE DEF v
  <2>2. v \in Truths
    BY <2>1, NegationTyped
  <2> QED BY <2>2 DEF v
<1>2. CASE n.node = "logic"
  <2>1. v = Joint(n.op, Below(f, n, odd))
    BY <1>2, ValueOfLogic, Zenon
  <2> HIDE DEF v
  <2>2. v \in Truths
    BY <2>1, JointTyped
  <2> QED BY <2>2 DEF v
<1>3. CASE n.node # "not" /\ n.node # "logic"
  <2>1. v = LeafValue(n, r, odd)
    BY <1>3, ValueOfLeaf, Zenon
  <2> HIDE DEF v
  <2>2. v \in Truths
    BY <2>1, LeafValueTyped
  <2> QED BY <2>2 DEF v
<1> QED BY <1>1, <1>2, <1>3

LEMMA EvaluateSteps ==
  ASSUME NEW r
  PROVE  \E g : /\ \A n \in FilterTrees, odd \in BOOLEAN : g[n][odd] = ValueOf(g, n, r, odd)
                /\ \A n, odd : Evaluate(n, r, odd) = g[n][odd]
<1> DEFINE V == [BOOLEAN -> Truths]
           leaf == [n \in LeafNodes |-> [odd \in BOOLEAN |-> LeafValue(n, r, odd)]]
           neg == [v \in V |-> [odd \in BOOLEAN |-> Negation(v[~odd])]]
           logic == [op \in {"and", "or"} |-> [s \in Long(V) |->
                       [odd \in BOOLEAN |-> Joint(op, {s[i][odd] : i \in DOMAIN s})]]]
           body(f) == [n \in FilterTrees |-> Valued(n, r, f)]
<1>1. leaf \in [LeafNodes -> V]
  BY LeafValueTyped
<1>2. neg \in [V -> V]
  BY NegationTyped
<1>3. logic \in [{"and", "or"} -> [Long(V) -> V]]
  <2> DEFINE at(op, s) == [odd \in BOOLEAN |-> Joint(op, {s[i][odd] : i \in DOMAIN s})]
  <2>1. \A op, s : at(op, s) \in V
    BY JointTyped
  <2> HIDE DEF V, at
  <2>2. \A op : [s \in Long(V) |-> at(op, s)] \in [Long(V) -> V]
    BY <2>1
  <2>3. [op \in {"and", "or"} |-> [s \in Long(V) |-> at(op, s)]] \in [{"and", "or"} -> [Long(V) -> V]]
    BY <2>2
  <2> QED BY <2>3, Zenon DEF at
<1>4. PICK f \in [FilterTrees -> V] :
        \A n \in FilterTrees : f[n] = Combine(f, n, leaf, neg, logic)
  <2> HIDE DEF leaf, neg, logic, V
  <2> QED BY <1>1, <1>2, <1>3, TreeRecursion
<1>5. ASSUME NEW n \in FilterTrees
      PROVE  f[n] = [odd \in BOOLEAN |-> ValueOf(f, n, r, odd)]
  <2>3. CASE n \in LeafNodes
    <3>1. n.node # "not" /\ n.node # "logic"
      BY <2>3, LeafShape
    <3>2. Combine(f, n, leaf, neg, logic) = leaf[n]
      BY <3>1, Zenon DEF Combine
    <3>3. ASSUME NEW odd \in BOOLEAN PROVE ValueOf(f, n, r, odd) = LeafValue(n, r, odd)
      <4>1. n.node # "not"
        BY <3>1
      <4>2. n.node # "logic"
        BY <3>1
      <4> QED BY <4>1, <4>2, ValueOfLeaf, Zenon
    <3>4. leaf[n] = [odd \in BOOLEAN |-> LeafValue(n, r, odd)]
      BY <2>3
    <3>5. f[n] = leaf[n]
      BY <1>4, <3>2, Zenon
    <3> HIDE DEF leaf
    <3> QED BY <3>3, <3>4, <3>5
  <2>4. CASE n.node = "not" /\ n.child \in FilterTrees
    <3>1. Combine(f, n, leaf, neg, logic) = neg[f[n.child]]
      BY <2>4, Zenon DEF Combine
    <3>2. \A odd \in BOOLEAN : ValueOf(f, n, r, odd) = Negation(f[n.child][~odd])
      BY <2>4, ValueOfNot, Zenon
    <3>3. f[n.child] \in V
      BY <1>4, <2>4
    <3>4. neg[f[n.child]] = [odd \in BOOLEAN |-> Negation(f[n.child][~odd])]
      BY <3>3
    <3>5. f[n] = [odd \in BOOLEAN |-> Negation(f[n.child][~odd])]
      BY <1>4, <3>1, <3>4, Zenon
    <3> QED BY <3>2, <3>5
  <2>5. CASE n.node = "logic" /\ n.op \in {"and", "or"} /\ n.children \in Long(FilterTrees)
    <3> DEFINE s == [i \in DOMAIN n.children |-> f[n.children[i]]]
    <3>1. n.node # "not"
      BY <2>5
    <3>2. Combine(f, n, leaf, neg, logic) = logic[n.op][s]
      BY <2>5, <3>1, Zenon DEF Combine
    <3>3. s \in Long(V) /\ DOMAIN s = DOMAIN n.children
      <4>1. n.children \in Seq(FilterTrees) /\ Len(n.children) > 1
        BY <2>5 DEF Long
      <4>2. \A m \in FilterTrees : f[m] \in V
        BY <1>4
      <4> HIDE DEF V
      <4>3. s \in Seq(V) /\ Len(s) = Len(n.children)
        BY <4>1, <4>2, ImagesTyped
      <4> QED BY <4>1, <4>3 DEF Long
    <3>4. \A odd \in BOOLEAN : ValueOf(f, n, r, odd) =
            Joint(n.op, {s[i][odd] : i \in DOMAIN s})
      <4> SUFFICES ASSUME NEW odd \in BOOLEAN
                   PROVE  ValueOf(f, n, r, odd) = Joint(n.op, {s[i][odd] : i \in DOMAIN s})
        OBVIOUS
      <4>1. {s[i][odd] : i \in DOMAIN s} = Below(f, n, odd)
        BY DEF Below
      <4>2. ValueOf(f, n, r, odd) = Joint(n.op, Below(f, n, odd))
        BY <2>5, ValueOfLogic, Zenon
      <4> HIDE DEF s
      <4> QED BY <4>1, <4>2
    <3> HIDE DEF s, V
    <3>5. logic[n.op][s] = [odd \in BOOLEAN |-> Joint(n.op, {s[i][odd] : i \in DOMAIN s})]
      BY <2>5, <3>3
    <3> HIDE DEF logic
    <3> QED BY <1>4, <3>2, <3>4, <3>5
  <2> QED BY <2>3, <2>4, <2>5, FilterShape
<1>6. f = body(f)
  <2> HIDE DEF V
  <2>1. f = [n \in FilterTrees |-> f[n]]
    BY <1>4
  <2>2. body(f) = [n \in FilterTrees |-> f[n]]
    BY <1>5, ValueOfAll
  <2> QED BY <2>1, <2>2
<1> DEFINE g == CHOOSE h : h = body(h)
<1>7. g = body(g)
  <2> HIDE DEF body
  <2> QED BY <1>6, Zenon
<1>8. ASSUME NEW n, NEW odd PROVE Evaluate(n, r, odd) = g[n][odd]
  BY Zenon DEF Evaluate
<1> HIDE DEF g
<1>9. \A n \in FilterTrees, odd \in BOOLEAN : g[n][odd] = ValueOf(g, n, r, odd)
  <2>1. \A n \in FilterTrees : g[n] = [odd \in BOOLEAN |-> ValueOf(g, n, r, odd)]
    <3>1. \A n \in FilterTrees : g[n] = Valued(n, r, g)
      BY <1>7, Zenon
    <3> QED BY <3>1, ValueOfAll
  <2> QED BY <2>1
<1> QED BY <1>8, <1>9

LEMMA LeavesBelow ==
  ASSUME NEW n \in FilterTrees
  PROVE  /\ n.node = "not" => Leaves[n] = Leaves[n.child]
         /\ n.node = "logic" => \A i \in DOMAIN n.children : Leaves[n.children[i]] \subseteq Leaves[n]
         /\ n \in LeafNodes /\ n.node # "none" => n \in Leaves[n]
<1> DEFINE V == SUBSET LeafNodes
           leaf == [m \in LeafNodes |-> IF m.node = "none" THEN {} ELSE {m}]
           neg == [v \in V |-> v]
           logic == [op \in {"and", "or"} |-> [s \in Long(V) |-> UNION {s[i] : i \in DOMAIN s}]]
           node(f, m) ==
             CASE m.node = "logic" -> UNION {f[m.children[i]] : i \in DOMAIN m.children}
               [] m.node = "not"   -> f[m.child]
               [] m.node = "none"  -> {}
               [] OTHER            -> {m}
           body(f) == [m \in FilterTrees |-> node(f, m)]
<1>1. leaf \in [LeafNodes -> V]
  OBVIOUS
<1>2. neg \in [V -> V]
  OBVIOUS
<1>3. logic \in [{"and", "or"} -> [Long(V) -> V]]
  <2> DEFINE all(s) == UNION {s[i] : i \in DOMAIN s}
  <2>1. \A s \in Long(V) : all(s) \in V
    <3> SUFFICES ASSUME NEW s \in Long(V) PROVE all(s) \in V
      OBVIOUS
    <3>1. \A i \in DOMAIN s : s[i] \in V
      BY DEF Long
    <3> QED BY <3>1
  <2> HIDE DEF V, all
  <2>2. [s \in Long(V) |-> all(s)] \in [Long(V) -> V]
    BY <2>1
  <2>3. [op \in {"and", "or"} |-> [s \in Long(V) |-> all(s)]] \in [{"and", "or"} -> [Long(V) -> V]]
    BY <2>2
  <2> QED BY <2>3, Zenon DEF all
<1>4. PICK f \in [FilterTrees -> V] :
        \A m \in FilterTrees : f[m] = Combine(f, m, leaf, neg, logic)
  <2> HIDE DEF leaf, neg, logic, V
  <2> QED BY <1>1, <1>2, <1>3, TreeRecursion
<1>5. ASSUME NEW m \in FilterTrees PROVE f[m] = node(f, m)
  <2>1. CASE m \in LeafNodes
    <3>1. m.node # "not" /\ m.node # "logic"
      BY <2>1, LeafShape
    <3>2. Combine(f, m, leaf, neg, logic) = leaf[m]
      BY <3>1, Zenon DEF Combine
    <3>3. leaf[m] = IF m.node = "none" THEN {} ELSE {m}
      BY <2>1
    <3> QED BY <1>4, <3>1, <3>2, <3>3
  <2>2. CASE m.node = "not" /\ m.child \in FilterTrees
    <3>1. Combine(f, m, leaf, neg, logic) = neg[f[m.child]]
      BY <2>2, Zenon DEF Combine
    <3>2. neg[f[m.child]] = f[m.child]
      BY <1>4, <2>2
    <3> QED BY <1>4, <2>2, <3>1, <3>2
  <2>3. CASE m.node = "logic" /\ m.op \in {"and", "or"} /\ m.children \in Long(FilterTrees)
    <3> DEFINE s == [i \in DOMAIN m.children |-> f[m.children[i]]]
    <3>1. m.node # "not"
      BY <2>3
    <3>2. Combine(f, m, leaf, neg, logic) = logic[m.op][s]
      BY <2>3, <3>1, Zenon DEF Combine
    <3>3. s \in Long(V)
      <4>1. m.children \in Seq(FilterTrees) /\ Len(m.children) > 1
        BY <2>3 DEF Long
      <4>2. \A x \in FilterTrees : f[x] \in V
        BY <1>4
      <4> HIDE DEF V
      <4>3. s \in Seq(V) /\ Len(s) = Len(m.children)
        BY <4>1, <4>2, ImagesTyped
      <4> QED BY <4>1, <4>3 DEF Long
    <3>4. UNION {s[i] : i \in DOMAIN s} = UNION {f[m.children[i]] : i \in DOMAIN m.children}
      OBVIOUS
    <3> HIDE DEF s, V
    <3>5. logic[m.op][s] = UNION {s[i] : i \in DOMAIN s}
      BY <2>3, <3>3
    <3>6. node(f, m) = UNION {f[m.children[i]] : i \in DOMAIN m.children}
      BY <2>3
    <3> HIDE DEF logic, node
    <3> QED BY <1>4, <3>2, <3>4, <3>5, <3>6
  <2> QED BY <2>1, <2>2, <2>3, FilterShape
<1>6. f = body(f)
  <2> HIDE DEF V, node
  <2> QED BY <1>4, <1>5
<1> DEFINE g == CHOOSE h : h = body(h)
<1>7. g = body(g)
  <2> HIDE DEF body
  <2> QED BY <1>6, Zenon
<1>8. Leaves = g
  BY Zenon DEF Leaves
<1> HIDE DEF g
<1>9. Leaves[n] = node(Leaves, n)
  <2> HIDE DEF body
  <2>1. Leaves = body(Leaves)
    BY <1>7, <1>8, Zenon
  <2> USE DEF body
  <2> HIDE DEF node
  <2> QED BY <2>1, Zenon
<1>10. n \in LeafNodes => n.node # "not" /\ n.node # "logic"
  BY LeafShape
<1>11. n.node = "not" => Leaves[n] = Leaves[n.child]
  BY <1>9
<1>12. n.node = "logic" => \A i \in DOMAIN n.children : Leaves[n.children[i]] \subseteq Leaves[n]
  BY <1>9
<1>13. n \in LeafNodes /\ n.node # "none" => n \in Leaves[n]
  BY <1>9, <1>10
<1> QED BY <1>11, <1>12, <1>13

\* The filter selects a row if and only if its negation does not.
LEMMA LeafDivides ==
  ASSUME NEW n \in LeafNodes, n.node # "none" => n.field \notin MetricFields, NEW r \in Results
  PROVE  LeafValue(n, r, FALSE) = "true" <=> LeafValue(n, r, TRUE) # "false"
<1>1. CASE n.node = "none"
  BY <1>1 DEF LeafValue
<1>2. CASE n.node # "none"
  <2>1. n.field \notin MetricFields
    BY <1>2
  <2>2. \/ Lookup(n, r, TRUE) = Lookup(n, r, FALSE) /\ Lookup(n, r, TRUE) \in {"true", "false"}
        \/ Lookup(n, r, TRUE) = "false" /\ Lookup(n, r, FALSE) = "unknown"
    BY <2>1 DEF Lookup, Kleene
  <2> QED BY <1>2, <2>2 DEF LeafValue, Negation
<1> QED BY <1>1, <1>2

LEMMA JointDivides ==
  ASSUME NEW S, NEW plain \in [S -> Truths], NEW odd \in [S -> Truths], NEW op,
         \A i \in S : plain[i] = "true" <=> odd[i] # "false"
  PROVE  Joint(op, {plain[i] : i \in S}) = "true" <=> Joint(op, {odd[i] : i \in S}) # "false"
BY DEF Joint, Conjunction, Disjunction, Truths

LEMMA FilterDivides ==
  ASSUME NEW r \in Results, NEW tree \in FilterTrees,
         \A leaf \in Leaves[tree] : leaf.field \notin MetricFields
  PROVE  Evaluate(tree, r, FALSE) = "true" <=> Evaluate(tree, r, TRUE) # "false"
<1> DEFINE plain == {n \in FilterTrees : \A leaf \in Leaves[n] : leaf.field \notin MetricFields}
<1>1. PICK g : /\ \A n \in FilterTrees, odd \in BOOLEAN : g[n][odd] = ValueOf(g, n, r, odd)
               /\ \A n, odd : Evaluate(n, r, odd) = g[n][odd]
  BY EvaluateSteps
<1> DEFINE P == {n \in FilterTrees : n \in plain => (g[n][FALSE] = "true" <=> g[n][TRUE] # "false")}
<1>2. LeafNodes \subseteq P
  <2> SUFFICES ASSUME NEW n \in LeafNodes PROVE n \in P
    OBVIOUS
  <2>1. n \in FilterTrees /\ n.node # "not" /\ n.node # "logic"
    <3>1. MaxFilterLength \in 0..MaxFilterLength /\ 0 \in 0..MaxFilterLength
      BY QueryAssumption
    <3>2. Trees[0] \subseteq FilterTrees
      BY <3>1, TreesWiden DEF FilterTrees
    <3> QED BY <3>2, TreesGrow, LeafShape
  <2>2. \A odd \in BOOLEAN : g[n][odd] = LeafValue(n, r, odd)
    <3> SUFFICES ASSUME NEW odd \in BOOLEAN PROVE g[n][odd] = LeafValue(n, r, odd)
      OBVIOUS
    <3>1. ValueOf(g, n, r, odd) = LeafValue(n, r, odd)
      BY <2>1, ValueOfLeaf
    <3> QED BY <1>1, <2>1, <3>1
  <2>3. n \in plain /\ n.node # "none" => n.field \notin MetricFields
    BY <2>1, LeavesBelow
  <2> HIDE DEF plain
  <2> QED BY <2>1, <2>2, <2>3, LeafDivides
<1>3. ASSUME NEW n \in FilterTrees, n.node = "not", n.child \in P PROVE n \in P
  <2>1. n \in plain => n.child \in plain
    BY <1>3, LeavesBelow
  <2>2. \A odd \in BOOLEAN : g[n][odd] = Negation(g[n.child][~odd])
    BY <1>1, <1>3, ValueOfNot
  <2>3. n.child \in FilterTrees
    BY <1>3
  <2>4. g[n.child][TRUE] \in Truths /\ g[n.child][FALSE] \in Truths
    <3>1. \A odd \in BOOLEAN : ValueOf(g, n.child, r, odd) \in Truths
      BY ValueOfTyped
    <3> QED BY <1>1, <2>3, <3>1
  <2> HIDE DEF plain
  <2>5. g[n][FALSE] = Negation(g[n.child][TRUE]) /\ g[n][TRUE] = Negation(g[n.child][FALSE])
    BY <2>2
  <2> QED BY <1>3, <2>1, <2>4, <2>5 DEF Negation, Truths
<1>4. ASSUME NEW n \in FilterTrees, n.node = "logic", n.children \in Long(FilterTrees \cap P)
      PROVE  n \in P
  <2> DEFINE S == DOMAIN n.children
             even == [i \in S |-> g[n.children[i]][FALSE]]
             odd == [i \in S |-> g[n.children[i]][TRUE]]
  <2>1. \A i \in S : n.children[i] \in P /\ n.children[i] \in FilterTrees
    <3> HIDE DEF P
    <3> QED BY <1>4 DEF Long
  <2>2. n \in plain => \A i \in S : n.children[i] \in plain
    <3> HIDE DEF P
    <3> QED BY <1>4, <2>1, LeavesBelow
  <2>3. \A m \in FilterTrees : g[m][TRUE] \in Truths /\ g[m][FALSE] \in Truths
    <3> SUFFICES ASSUME NEW m \in FilterTrees PROVE g[m][TRUE] \in Truths /\ g[m][FALSE] \in Truths
      OBVIOUS
    <3>1. \A b \in BOOLEAN : ValueOf(g, m, r, b) \in Truths
      BY ValueOfTyped
    <3> QED BY <1>1, <3>1
  <2>4. even \in [S -> Truths] /\ odd \in [S -> Truths]
    BY <2>1, <2>3
  <2>5. /\ g[n][FALSE] = Joint(n.op, {even[i] : i \in S})
        /\ g[n][TRUE] = Joint(n.op, {odd[i] : i \in S})
    <3>1. {even[i] : i \in S} = Below(g, n, FALSE) /\ {odd[i] : i \in S} = Below(g, n, TRUE)
      BY DEF Below
    <3>2. \A b \in BOOLEAN : g[n][b] = Joint(n.op, Below(g, n, b))
      BY <1>1, <1>4, ValueOfLogic
    <3> HIDE DEF even, odd
    <3> QED BY <3>1, <3>2
  <2>6. n \in plain => \A i \in S : even[i] = "true" <=> odd[i] # "false"
    <3> HIDE DEF plain
    <3> QED BY <2>1, <2>2
  <2> HIDE DEF even, odd, S, plain
  <2>7. n \in plain =>
          (Joint(n.op, {even[i] : i \in S}) = "true" <=> Joint(n.op, {odd[i] : i \in S}) # "false")
    BY <2>4, <2>6, JointDivides
  <2> QED BY <1>4, <2>5, <2>7
<1>5. FilterTrees \subseteq P
  <2> HIDE DEF P
  <2> QED BY <1>2, <1>3, <1>4, TreeInduction
<1>6. tree \in plain
  OBVIOUS
<1> HIDE DEF plain
<1> QED BY <1>1, <1>5, <1>6

-----------------------------------------------------------------------------
(* What is read of a text.                                                 *)
Outcome(v) == \E error, nodes, at : v = [error |-> error, nodes |-> nodes, at |-> at]

\* Operands are read from i on, and a node of them takes a token more than its
\* depth.
Reached(v, i, L) ==
  /\ Outcome(v)
  /\ v.error = "none" =>
       /\ v.at \in (i + 1)..(L + 1)
       /\ Len(v.nodes) = 1 => v.nodes \in Seq(Trees[v.at - i - 1])
       /\ Len(v.nodes) # 1 => /\ Len(v.nodes) > 1 /\ v.at - i - 2 >= 0
                              /\ v.nodes \in Seq(Trees[v.at - i - 2])

Single(v, i, L) == Reached(v, i, L) /\ (v.error = "none" => Len(v.nodes) = 1)

LEMMA EofKind == Eof.kind = "eof"
BY Zenon DEF Eof

LEMMA TokenAt ==
  ASSUME NEW text \in Seq(Tokens), NEW i \in Nat \ {0}
  PROVE  /\ At(text, i).kind # "eof" => i \in 1..Len(text)
         /\ i \in 1..Len(text) => At(text, i) = text[i] /\ At(text, i) \in Tokens
         /\ i > Len(text) => At(text, i) = Eof
<1>1. i > Len(text) => At(text, i) = Eof
  BY DEF At
<1>2. i \in 1..Len(text) => At(text, i) = text[i] /\ At(text, i) \in Tokens
  BY DEF At
<1> QED BY <1>1, <1>2, EofKind

LEMMA Outcomes ==
  /\ \A code, a : Outcome(Fault(code, a)) /\ Fault(code, a).error = code
  /\ \A nodes, a : Outcome(Parsed(nodes, a)) /\ Parsed(nodes, a).error = "none"
<1>1. \A code, a : Outcome(Fault(code, a)) /\ Fault(code, a).error = code
  BY DEF Outcome, Fault
<1>2. \A nodes, a : Outcome(Parsed(nodes, a)) /\ Parsed(nodes, a).error = "none"
  BY DEF Outcome, Parsed
<1> QED BY <1>1, <1>2

LEMMA FaultRead ==
  ASSUME NEW v, Outcome(v), v.error # "none", NEW i, NEW L
  PROVE  Single(v, i, L)
BY DEF Single, Reached

LEMMA SingleRead ==
  ASSUME NEW L \in 0..MaxFilterLength, NEW i \in 1..(L + 1), NEW a \in (i + 1)..(L + 1),
         NEW n \in Trees[a - i - 1]
  PROVE  Single(Parsed(<<n>>, a), i, L)
<1> DEFINE v == Parsed(<<n>>, a)
<1>1. Outcome(v) /\ v.at = a /\ v.nodes = <<n>>
  BY DEF Outcome, Parsed
<1>2. <<n>> \in Seq(Trees[a - i - 1]) /\ Len(<<n>>) = 1
  <2> DEFINE S == Trees[a - i - 1]
  <2>1. n \in S
    OBVIOUS
  <2> HIDE DEF S
  <2>2. <<n>> \in Seq(S) /\ Len(<<n>>) = 1
    BY <2>1
  <2> QED BY <2>2, Zenon DEF S
<1> HIDE DEF v
<1>3. Reached(v, i, L)
  BY <1>1, <1>2 DEF Reached
<1>4. Single(v, i, L)
  BY <1>1, <1>2, <1>3 DEF Single
<1> QED BY <1>4 DEF v

LEMMA LeafRead ==
  ASSUME NEW L \in 0..MaxFilterLength, NEW i \in 1..(L + 1), NEW a \in (i + 1)..(L + 1),
         NEW n \in LeafNodes
  PROVE  Single(Parsed(<<n>>, a), i, L)
<1>1. a - i - 1 \in 0..MaxFilterLength /\ 0 \in 0..(a - i - 1)
  BY QueryAssumption
<1>2. Trees[0] \subseteq Trees[a - i - 1]
  BY <1>1, TreesWiden
<1> QED BY <1>2, TreesGrow, SingleRead

LEMMA FunctionRead ==
  ASSUME NEW text \in Seq(Tokens), Len(text) <= MaxFilterLength, NEW i \in 1..(Len(text) + 1)
  PROVE  Single(ParseFunction(text, i), i, Len(text))
<1> DEFINE f == At(text, i + 2).text
           L == Len(text)
           v == ParseFunction(text, i)
           node == Function(At(text, i).text, f, At(text, i + 4).value)
<1>0. L \in 0..MaxFilterLength /\ i \in Nat \ {0}
  BY QueryAssumption
<1>1. \/ v.error # "none"
      \/ /\ v = Parsed(<<node>>, i + 6)
         /\ At(text, i).text \in Functions3 /\ f \in FieldNames
         /\ LiteralFault(f, text, i + 4) = "none"
         /\ At(text, i + 5).kind = "rparen"
  BY Outcomes DEF ParseFunction
<1>6. Outcome(v)
  BY Outcomes DEF ParseFunction
<1>2. ASSUME At(text, i + 5).kind = "rparen" PROVE i + 5 \in 1..L
  BY <1>0, <1>2, TokenAt
<1>3. ASSUME LiteralFault(f, text, i + 4) = "none" PROVE At(text, i + 4).value \in Int
  <2>1. At(text, i + 4).kind # "eof"
    BY <1>3 DEF LiteralFault
  <2>2. At(text, i + 4) \in Tokens
    BY <1>0, <2>1, TokenAt
  <2> QED BY <2>2 DEF Tokens
<1>4. CASE v.error # "none"
  <2> HIDE DEF v
  <2>1. Single(v, i, L)
    BY <1>4, <1>6, FaultRead
  <2> QED BY <2>1 DEF v
<1>5. CASE /\ v = Parsed(<<node>>, i + 6)
           /\ At(text, i).text \in Functions3 /\ f \in FieldNames
           /\ LiteralFault(f, text, i + 4) = "none"
           /\ At(text, i + 5).kind = "rparen"
  <2>1. node \in LeafNodes
    BY <1>3, <1>5 DEF LeafNodes, Function
  <2>2. i + 6 \in (i + 1)..(L + 1)
    BY <1>0, <1>2, <1>5
  <2> HIDE DEF node, v
  <2>3. Single(v, i, L)
    BY <1>0, <1>5, <2>1, <2>2, LeafRead
  <2> QED BY <2>3 DEF v
<1> QED BY <1>1, <1>4, <1>5

LEMMA ComparisonRead ==
  ASSUME NEW text \in Seq(Tokens), Len(text) <= MaxFilterLength, NEW i \in 1..(Len(text) + 1)
  PROVE  Single(ParseComparison(text, i), i, Len(text))
<1> DEFINE f == At(text, i).text
           op == At(text, i + 1).text
           L == Len(text)
           value == LiteralValue(At(text, i + 2))
           v == ParseComparison(text, i)
           node == Compare(op, f, value)
<1>0. L \in 0..MaxFilterLength /\ i \in Nat \ {0}
  BY QueryAssumption
<1>1. \/ v.error # "none"
      \/ /\ v = Parsed(<<node>>, i + 3)
         /\ f \in FieldNames /\ op \in Comparisons
         /\ LiteralFault(f, text, i + 2) = "none"
  BY Outcomes DEF ParseComparison
<1>6. Outcome(v)
  BY Outcomes DEF ParseComparison
<1>3. ASSUME LiteralFault(f, text, i + 2) = "none"
      PROVE  value \in Int \cup {Null} /\ i + 2 \in 1..L
  <2>1. At(text, i + 2).kind # "eof"
    BY <1>3 DEF LiteralFault
  <2>2. At(text, i + 2) \in Tokens /\ i + 2 \in 1..L
    BY <1>0, <2>1, TokenAt
  <2> QED BY <2>2 DEF Tokens, LiteralValue
<1>4. CASE v.error # "none"
  <2> HIDE DEF v
  <2>1. Single(v, i, L)
    BY <1>4, <1>6, FaultRead
  <2> QED BY <2>1 DEF v
<1>5. CASE /\ v = Parsed(<<node>>, i + 3)
           /\ f \in FieldNames /\ op \in Comparisons
           /\ LiteralFault(f, text, i + 2) = "none"
  <2>1. node \in LeafNodes
    BY <1>3, <1>5 DEF LeafNodes, Compare
  <2>2. i + 3 \in (i + 1)..(L + 1)
    BY <1>0, <1>3, <1>5
  <2> HIDE DEF node, v
  <2>3. Single(v, i, L)
    BY <1>0, <1>5, <2>1, <2>2, LeafRead
  <2> QED BY <2>3 DEF v
<1> QED BY <1>1, <1>4, <1>5

LEMMA CombinedRead ==
  ASSUME NEW L \in 0..MaxFilterLength, NEW i \in 1..(L + 1), NEW v, Reached(v, i, L),
         NEW op \in {"and", "or"}
  PROVE  Single(Combined(op, v), i, L)
<1>1. CASE v.error # "none" \/ Len(v.nodes) = 1
  BY <1>1 DEF Combined, Single
<1>2. CASE v.error = "none" /\ Len(v.nodes) # 1
  <2> DEFINE node == Logic(op, v.nodes)
             d == v.at - i - 1
  <2>1. /\ v.at \in (i + 1)..(L + 1) /\ v.nodes \in Seq(Trees[d - 1]) /\ Len(v.nodes) > 1
        /\ d \in 1..MaxFilterLength
    BY <1>2, QueryAssumption DEF Reached
  <2>2. node \in Trees[d]
    <3>1. node \in Grown(Trees[d - 1])
      BY <2>1 DEF Grown, Logic
    <3> QED BY <2>1, <3>1, TreesGrow
  <2>3. Combined(op, v) = Parsed(<<node>>, v.at)
    BY <1>2 DEF Combined
  <2> HIDE DEF node
  <2> QED BY <2>1, <2>2, <2>3, SingleRead
<1> QED BY <1>1, <1>2

LEMMA EnclosedRead ==
  ASSUME NEW text \in Seq(Tokens), Len(text) <= MaxFilterLength, NEW i \in 1..Len(text),
         NEW v, Single(v, i + 1, Len(text))
  PROVE  Single(Enclosed(text, v), i, Len(text))
<1> DEFINE L == Len(text)
<1>0. L \in 0..MaxFilterLength /\ i \in Nat \ {0}
  BY QueryAssumption
<1>1. CASE v.error # "none"
  BY <1>1 DEF Enclosed, Single, Reached
<1>2. CASE v.error = "none" /\ At(text, v.at).kind # "rparen"
  BY <1>2, FaultRead, Outcomes DEF Enclosed
<1>3. CASE v.error = "none" /\ At(text, v.at).kind = "rparen"
  <2> DEFINE a == v.at
             w == Enclosed(text, v)
  <2>1. a \in (i + 1 + 1)..(L + 1) /\ Len(v.nodes) = 1 /\ v.nodes \in Seq(Trees[a - (i + 1) - 1])
    BY <1>3 DEF Single, Reached
  <2>2. a \in Nat \ {0} /\ At(text, a).kind # "eof"
    BY <1>0, <1>3, <2>1
  <2>3. a \in (i + 2)..L
    BY <1>0, <2>1, <2>2, TokenAt
  <2>4. /\ a - (i + 1) - 1 = a - i - 2 /\ a + 1 - i - 1 = a - i
        /\ a - i \in 0..MaxFilterLength /\ a - i - 2 \in 0..(a - i)
        /\ a + 1 \in (i + 1)..(L + 1)
    <3> HIDE DEF a, L
    <3> QED BY <1>0, <2>3, QueryAssumption
  <2>5. Seq(Trees[a - i - 2]) \subseteq Seq(Trees[a - i])
    <3>1. Trees[a - i - 2] \subseteq Trees[a - i]
      <4> HIDE DEF a
      <4> QED BY <2>4, TreesWiden
    <3> QED BY <3>1, SeqMonotonic
  <2>6. PICK e, ns, b : v = [error |-> e, nodes |-> ns, at |-> b]
    BY DEF Single, Reached, Outcome
  <2>7. w = [error |-> "none", nodes |-> v.nodes, at |-> a + 1]
    <3>1. [v EXCEPT !.at = @ + 1] = [error |-> e, nodes |-> ns, at |-> b + 1]
      BY <2>6
    <3>2. Enclosed(text, v) = [v EXCEPT !.at = @ + 1]
      BY <1>3 DEF Enclosed
    <3>3. e = "none" /\ ns = v.nodes /\ b = v.at
      BY <1>3, <2>6
    <3> QED BY <3>1, <3>2, <3>3
  <2> HIDE DEF a, w
  <2>8. /\ Outcome(w) /\ w.error = "none" /\ w.at = a + 1 /\ w.nodes = v.nodes
    BY <2>7 DEF Outcome
  <2>9. w.nodes \in Seq(Trees[w.at - i - 1]) /\ Len(w.nodes) = 1
    BY <2>1, <2>4, <2>5, <2>8
  <2>10. Single(w, i, L)
    BY <2>4, <2>8, <2>9 DEF Single, Reached
  <2> QED BY <2>10 DEF w
<1> QED BY <1>1, <1>2, <1>3

LEMMA NegatedRead ==
  ASSUME NEW L \in 0..MaxFilterLength, NEW i \in 1..L, NEW v, Single(v, i + 1, L)
  PROVE  Single(Negated(v), i, L)
<1>1. CASE v.error # "none"
  BY <1>1 DEF Negated, Single, Reached
<1>2. CASE v.error = "none"
  <2> DEFINE a == v.at
             n == v.nodes[1]
  <2>1. a \in (i + 1 + 1)..(L + 1) /\ Len(v.nodes) = 1 /\ v.nodes \in Seq(Trees[a - (i + 1) - 1])
    BY <1>2 DEF Single, Reached
  <2> DEFINE S == Trees[a - (i + 1) - 1]
  <2>2. n \in S
    <3>1. v.nodes \in Seq(S) /\ Len(v.nodes) = 1
      BY <2>1
    <3> HIDE DEF S
    <3> QED BY <3>1
  <2> HIDE DEF a
  <2>3. a - i - 1 \in 1..MaxFilterLength /\ a - i - 1 - 1 = a - (i + 1) - 1 /\ a \in (i + 1)..(L + 1)
    BY <2>1, QueryAssumption
  <2>4. Not(n) \in Trees[a - i - 1]
    <3>1. n \in Trees[a - i - 1 - 1]
      BY <2>2, <2>3
    <3> HIDE DEF n, S
    <3>2. Not(n) \in Grown(Trees[a - i - 1 - 1])
      BY <3>1 DEF Grown, Not
    <3> QED BY <2>3, <3>2, TreesGrow
  <2>5. Negated(v) = Parsed(<<Not(n)>>, a)
    BY <1>2 DEF Negated, a
  <2>6. i \in 1..(L + 1)
    OBVIOUS
  <2> HIDE DEF n, S
  <2> QED BY <2>3, <2>4, <2>5, <2>6, SingleRead
<1> QED BY <1>1, <1>2

\* What is looked up of p further on in the text is read there.
ReadAfter(p, i, L) ==
  \A j \in (i + 1)..(L + 1) : /\ Reached(p[<<"or", j>>], j, L)
                              /\ Reached(p[<<"and", j>>], j, L)
                              /\ Single(p[<<"not", j>>], j, L)

SameAfter(p, q, i, L) ==
  \A j \in (i + 1)..(L + 1), goal \in {"or", "and", "not"} : p[<<goal, j>>] = q[<<goal, j>>]

LEMMA WordAt ==
  ASSUME NEW text \in Seq(Tokens), NEW i \in Nat \ {0}, NEW w, At(text, i) = Word(w)
  PROVE  i \in 1..Len(text)
<1>1. At(text, i).kind # "eof"
  BY DEF Word
<1> QED BY <1>1, TokenAt

LEMMA NotRead ==
  ASSUME NEW text \in Seq(Tokens), Len(text) <= MaxFilterLength, NEW i \in 1..(Len(text) + 1),
         NEW p, ReadAfter(p, i, Len(text))
  PROVE  Single(ParseNot(text, i, p), i, Len(text))
<1> DEFINE L == Len(text)
<1>0. L \in 0..MaxFilterLength /\ i \in Nat \ {0} /\ L \in Nat
  BY QueryAssumption
<1>1. CASE At(text, i) = Word("not")
  <2>1. i \in 1..L
    BY <1>0, <1>1, WordAt
  <2>2. i + 1 \in (i + 1)..(L + 1)
    BY <1>0, <2>1
  <2>3. Single(p[<<"not", i + 1>>], i + 1, L)
    BY <2>2 DEF ReadAfter
  <2>4. ParseNot(text, i, p) = Negated(p[<<"not", i + 1>>])
    BY <1>1 DEF ParseNot
  <2> HIDE DEF L
  <2> QED BY <1>0, <2>1, <2>3, <2>4, NegatedRead DEF L
<1>2. CASE At(text, i) # Word("not") /\ At(text, i).kind = "lparen"
  <2>1. i \in 1..L
    BY <1>0, <1>2, TokenAt
  <2>2. i + 1 \in (i + 1)..(L + 1) /\ i + 1 \in 1..(L + 1)
    BY <1>0, <2>1
  <2> DEFINE v == p[<<"or", i + 1>>]
  <2>3. Reached(v, i + 1, L)
    BY <2>2 DEF ReadAfter
  <2>4. Single(Combined("or", v), i + 1, L)
    <3> HIDE DEF L, v
    <3> QED BY <1>0, <2>2, <2>3, CombinedRead
  <2>5. ParseNot(text, i, p) = Enclosed(text, Combined("or", v))
    BY <1>2 DEF ParseNot, ParsePrimary
  <2> HIDE DEF v
  <2> QED BY <2>1, <2>4, <2>5, EnclosedRead
<1>3. CASE At(text, i) # Word("not") /\ At(text, i).kind # "lparen"
  <2>1. \/ ParseNot(text, i, p) = Fault("unexpected_token", i)
        \/ ParseNot(text, i, p) = ParseFunction(text, i)
        \/ ParseNot(text, i, p) = ParseComparison(text, i)
    BY <1>3 DEF ParseNot, ParsePrimary
  <2>2. Single(Fault("unexpected_token", i), i, L)
    BY FaultRead, Outcomes
  <2> QED BY <2>1, <2>2, FunctionRead, ComparisonRead
<1> QED BY <1>1, <1>2, <1>3

LEMMA NotAgrees ==
  ASSUME NEW text \in Seq(Tokens), NEW i \in 1..(Len(text) + 1), NEW p, NEW q,
         SameAfter(p, q, i, Len(text))
  PROVE  ParseNot(text, i, p) = ParseNot(text, i, q)
<1> DEFINE L == Len(text)
<1>0. i \in Nat \ {0} /\ L \in Nat
  OBVIOUS
<1>1. CASE At(text, i) = Word("not")
  <2>1. i \in 1..L
    BY <1>0, <1>1, WordAt
  <2>2. i + 1 \in (i + 1)..(L + 1)
    BY <1>0, <2>1
  <2>3. p[<<"not", i + 1>>] = q[<<"not", i + 1>>]
    BY <2>2 DEF SameAfter
  <2> QED BY <1>1, <2>3 DEF ParseNot
<1>2. CASE At(text, i) # Word("not") /\ At(text, i).kind = "lparen"
  <2>1. i \in 1..L
    BY <1>0, <1>2, TokenAt
  <2>2. i + 1 \in (i + 1)..(L + 1)
    BY <1>0, <2>1
  <2>3. p[<<"or", i + 1>>] = q[<<"or", i + 1>>]
    BY <2>2 DEF SameAfter
  <2> QED BY <1>2, <2>3 DEF ParseNot, ParsePrimary
<1>3. CASE At(text, i) # Word("not") /\ At(text, i).kind # "lparen"
  BY <1>3 DEF ParseNot, ParsePrimary
<1> QED BY <1>1, <1>2, <1>3

LEMMA ChainRead ==
  ASSUME NEW text \in Seq(Tokens), Len(text) <= MaxFilterLength, NEW i \in 1..(Len(text) + 1),
         NEW p, ReadAfter(p, i, Len(text)), NEW op \in {"and", "or"},
         NEW first, Single(first, i, Len(text))
  PROVE  Reached(ParseChain(op, text, first, p), i, Len(text))
<1> DEFINE L == Len(text)
           a == first.at
           rest == p[<<op, a + 1>>]
           v == ParseChain(op, text, first, p)
<1>0. L \in 0..MaxFilterLength /\ i \in Nat \ {0} /\ L \in Nat /\ MaxFilterLength \in Nat
  BY QueryAssumption
<1>1. CASE first.error # "none" \/ At(text, a) # Word(op)
  BY <1>1 DEF ParseChain, Single
<1>2. CASE first.error = "none" /\ At(text, a) = Word(op)
  <2>1. a \in (i + 1)..(L + 1) /\ Len(first.nodes) = 1 /\ first.nodes \in Seq(Trees[a - i - 1])
    BY <1>2 DEF Single, Reached
  <2>2. a \in Nat \ {0}
    <3> HIDE DEF a, L
    <3> QED BY <1>0, <2>1
  <2>3. a \in (i + 1)..L /\ a + 1 \in (i + 1)..(L + 1)
    <3>1. a \in 1..Len(text)
      BY <1>2, <2>2, WordAt
    <3> HIDE DEF a
    <3> QED BY <1>0, <2>1, <3>1
  <2> HIDE DEF a
  <2>4. Reached(rest, a + 1, L)
    BY <2>3 DEF ReadAfter
  <2>5. v = [rest EXCEPT !.nodes = first.nodes \o @]
    BY <1>2 DEF ParseChain, a
  <2> HIDE DEF rest, v
  <2>6. PICK e, ns, b : rest = [error |-> e, nodes |-> ns, at |-> b]
    BY <2>4 DEF Reached, Outcome
  <2>7. v = [error |-> rest.error, nodes |-> first.nodes \o rest.nodes, at |-> rest.at]
    BY <2>5, <2>6
  <2>8. Outcome(v)
    BY <2>7 DEF Outcome
  <2>9. CASE rest.error # "none"
    <3>1. v.error # "none"
      BY <2>7, <2>9
    <3>2. Reached(v, i, L)
      BY <2>8, <3>1, FaultRead DEF Single
    <3> QED BY <3>2 DEF v
  <2>10. CASE rest.error = "none"
    <3> DEFINE c == rest.at
    <3>1. /\ c \in (a + 1 + 1)..(L + 1)
          /\ Len(rest.nodes) = 1 => rest.nodes \in Seq(Trees[c - (a + 1) - 1])
          /\ Len(rest.nodes) # 1 => /\ Len(rest.nodes) > 1 /\ c - (a + 1) - 2 >= 0
                                    /\ rest.nodes \in Seq(Trees[c - (a + 1) - 2])
      BY <2>4, <2>10 DEF Reached
    <3> HIDE DEF c, L
    <3>2. /\ c - i - 2 \in 0..MaxFilterLength /\ a - i - 1 \in 0..(c - i - 2)
          /\ c - (a + 1) - 1 \in 0..(c - i - 2)
          /\ c - (a + 1) - 2 >= 0 => c - (a + 1) - 2 \in 0..(c - i - 2)
          /\ c \in (i + 1)..(L + 1) /\ c - i - 2 >= 0
      BY <1>0, <2>3, <3>1
    <3>3. first.nodes \in Seq(Trees[c - i - 2])
      <4>1. Trees[a - i - 1] \subseteq Trees[c - i - 2]
        BY <3>2, TreesWiden
      <4>2. Seq(Trees[a - i - 1]) \subseteq Seq(Trees[c - i - 2])
        BY <4>1, SeqMonotonic
      <4> QED BY <2>1, <4>2
    <3>4. rest.nodes \in Seq(Trees[c - i - 2]) /\ Len(rest.nodes) >= 1
      <4>1. Trees[c - (a + 1) - 1] \subseteq Trees[c - i - 2]
        BY <3>2, TreesWiden
      <4>2. c - (a + 1) - 2 >= 0 => Trees[c - (a + 1) - 2] \subseteq Trees[c - i - 2]
        BY <3>2, TreesWiden
      <4>3. Seq(Trees[c - (a + 1) - 1]) \subseteq Seq(Trees[c - i - 2])
        BY <4>1, SeqMonotonic
      <4>4. c - (a + 1) - 2 >= 0 => Seq(Trees[c - (a + 1) - 2]) \subseteq Seq(Trees[c - i - 2])
        BY <4>2, SeqMonotonic
      <4>5. CASE Len(rest.nodes) = 1
        BY <3>1, <4>3, <4>5
      <4>6. CASE Len(rest.nodes) # 1
        <5>1. rest.nodes \in Seq(Trees[c - i - 2])
          BY <3>1, <4>4, <4>6
        <5>2. Len(rest.nodes) \in Nat
          BY <5>1
        <5> QED BY <3>1, <4>6, <5>1, <5>2
      <4> QED BY <4>5, <4>6
    <3> DEFINE S == Trees[c - i - 2]
               ns1 == first.nodes
               ns2 == rest.nodes
    <3>5. ns1 \o ns2 \in Seq(S) /\ Len(ns1 \o ns2) > 1
      <4>1. ns1 \in Seq(S) /\ ns2 \in Seq(S) /\ Len(ns1) = 1 /\ Len(ns2) >= 1
        BY <2>1, <3>3, <3>4
      <4> HIDE DEF S, ns1, ns2
      <4>2. Len(ns1 \o ns2) = Len(ns1) + Len(ns2)
        BY <4>1, ConcatProperties
      <4>5. Len(ns2) \in Nat
        BY <4>1
      <4>3. ns1 \o ns2 \in Seq(S)
        BY <4>1, ConcatProperties
      <4>4. Len(ns1 \o ns2) > 1
        BY <4>1, <4>2, <4>5
      <4> QED BY <4>3, <4>4
    <3>6. v.error = "none" /\ v.at = c /\ v.nodes = first.nodes \o rest.nodes
      BY <2>7, <2>10 DEF c
    <3>7. v.nodes \in Seq(Trees[v.at - i - 2]) /\ Len(v.nodes) > 1 /\ v.at \in (i + 1)..(L + 1)
          /\ v.at - i - 2 >= 0 /\ Len(v.nodes) # 1
      <4>1. v.nodes \in Seq(Trees[v.at - i - 2]) /\ Len(v.nodes) > 1
        BY <3>5, <3>6, Zenon
      <4>2. Len(v.nodes) \in Nat
        BY <4>1
      <4>3. Len(v.nodes) # 1
        <5> DEFINE m == Len(v.nodes)
        <5>1. m > 1 /\ m \in Nat
          BY <4>1, <4>2
        <5> HIDE DEF m
        <5>2. m # 1
          BY <5>1
        <5> QED BY <5>2 DEF m
      <4>4. v.at \in (i + 1)..(L + 1) /\ v.at - i - 2 >= 0
        BY <3>2, <3>6
      <4> QED BY <4>1, <4>3, <4>4
    <3>8. Reached(v, i, L)
      BY <2>8, <3>7 DEF Reached
    <3> QED BY <3>8 DEF v, L
  <2> QED BY <2>9, <2>10
<1> QED BY <1>1, <1>2

LEMMA ChainAgrees ==
  ASSUME NEW text \in Seq(Tokens), NEW i \in 1..(Len(text) + 1), NEW p, NEW q,
         SameAfter(p, q, i, Len(text)), NEW op \in {"and", "or"},
         NEW first, Single(first, i, Len(text))
  PROVE  ParseChain(op, text, first, p) = ParseChain(op, text, first, q)
<1> DEFINE L == Len(text)
           a == first.at
<1>1. CASE first.error # "none" \/ At(text, a) # Word(op)
  BY <1>1 DEF ParseChain
<1>2. CASE first.error = "none" /\ At(text, a) = Word(op)
  <2>0. L \in Nat
    OBVIOUS
  <2>1. a \in (i + 1)..(L + 1)
    BY <1>2 DEF Single, Reached
  <2>2. a \in Nat \ {0}
    <3> HIDE DEF a, L
    <3> QED BY <2>0, <2>1
  <2>3. a \in 1..L
    BY <1>2, <2>2, WordAt
  <2>4. a + 1 \in (i + 1)..(L + 1)
    <3> HIDE DEF a, L
    <3> QED BY <2>0, <2>1, <2>3
  <2>5. p[<<op, a + 1>>] = q[<<op, a + 1>>]
    <3> HIDE DEF a
    <3> QED BY <2>4 DEF SameAfter
  <2> QED BY <1>2, <2>5 DEF ParseChain
<1> QED BY <1>1, <1>2

Goals == {"or", "and", "not"}

ParseOf(goal, text, i, p) ==
  CASE goal = "or" -> ParseChain("or", text, Combined("and", p[<<"and", i>>]), p)
    [] goal = "and" -> ParseChain("and", text, p[<<"not", i>>], p)
    [] goal = "not" -> ParseNot(text, i, p)

\* What p says of the positions from m on is what is parsed there.
ParsesFrom(p, text, m) ==
  \A i \in m..(Len(text) + 1), goal \in Goals : p[<<goal, i>>] = ParseOf(goal, text, i, p)

ReadHere(p, i, L) ==
  /\ Single(p[<<"not", i>>], i, L)
  /\ Reached(p[<<"and", i>>], i, L)
  /\ Single(Combined("and", p[<<"and", i>>]), i, L)
  /\ Reached(p[<<"or", i>>], i, L)

LEMMA HereRead ==
  ASSUME NEW text \in Seq(Tokens), Len(text) <= MaxFilterLength, NEW i \in 1..(Len(text) + 1),
         NEW p, ReadAfter(p, i, Len(text)),
         \A goal \in Goals : p[<<goal, i>>] = ParseOf(goal, text, i, p)
  PROVE  ReadHere(p, i, Len(text))
<1> DEFINE L == Len(text)
<1>0. L \in 0..MaxFilterLength
  BY QueryAssumption
<1>1. p[<<"not", i>>] = ParseNot(text, i, p)
  BY DEF ParseOf, Goals
<1>2. p[<<"and", i>>] = ParseChain("and", text, p[<<"not", i>>], p)
  BY DEF ParseOf, Goals
<1>3. p[<<"or", i>>] = ParseChain("or", text, Combined("and", p[<<"and", i>>]), p)
  BY DEF ParseOf, Goals
<1>4. Single(p[<<"not", i>>], i, L)
  BY <1>1, NotRead
<1>5. Reached(p[<<"and", i>>], i, L)
  BY <1>2, <1>4, ChainRead
<1>6. Single(Combined("and", p[<<"and", i>>]), i, L)
  <2> HIDE DEF L
  <2>1. i \in 1..(L + 1)
    BY DEF L
  <2> QED BY <1>0, <1>5, <2>1, CombinedRead
<1>7. Reached(p[<<"or", i>>], i, L)
  BY <1>3, <1>6, ChainRead
<1> QED BY <1>4, <1>5, <1>6, <1>7 DEF ReadHere

\* Downwards from the end of a text.
LEMMA DownTo ==
  ASSUME NEW L \in Nat, NEW S, L + 1 \in S, \A i \in 1..L : i + 1 \in S => i \in S
  PROVE  \A i \in 1..(L + 1) : i \in S
<1> DEFINE T == {k \in 0..L : L + 1 - k \in S}
<1>1. 0 \in T
  OBVIOUS
<1>2. ASSUME NEW k \in 1..L, k - 1 \in T PROVE k \in T
  <2>1. L + 1 - k \in 1..L /\ L + 1 - (k - 1) = L + 1 - k + 1
    OBVIOUS
  <2> QED BY <1>2, <2>1
<1>3. \A k \in 0..L : k \in T
  <2> HIDE DEF T
  <2> QED BY <1>1, <1>2, UpToN
<1>4. ASSUME NEW i \in 1..(L + 1) PROVE i \in S
  <2>1. L + 1 - i \in 0..L /\ L + 1 - (L + 1 - i) = i
    OBVIOUS
  <2> QED BY <1>3, <2>1
<1> QED BY <1>4

LEMMA AllRead ==
  ASSUME NEW text \in Seq(Tokens), Len(text) <= MaxFilterLength,
         NEW m \in 1..(Len(text) + 1), NEW p, ParsesFrom(p, text, m)
  PROVE  \A i \in m..(Len(text) + 1) : ReadAfter(p, i, Len(text)) /\ ReadHere(p, i, Len(text))
<1> DEFINE L == Len(text)
           S == {i \in 1..(L + 1) : i >= m => ReadAfter(p, i, L) /\ ReadHere(p, i, L)}
<1>0. L \in Nat
  OBVIOUS
<1>1. ASSUME NEW i \in m..(L + 1), ReadAfter(p, i, L) PROVE ReadHere(p, i, L)
  <2>1. \A goal \in Goals : p[<<goal, i>>] = ParseOf(goal, text, i, p)
    BY DEF ParsesFrom
  <2>2. i \in 1..(L + 1)
    BY <1>0
  <2> QED BY <1>1, <2>1, <2>2, HereRead
<1>2. L + 1 \in S
  <2>1. ReadAfter(p, L + 1, L)
    <3>1. (L + 1 + 1)..(L + 1) = {}
      BY <1>0
    <3> QED BY <3>1 DEF ReadAfter
  <2>2. L + 1 \in m..(L + 1) /\ L + 1 \in 1..(L + 1)
    BY <1>0
  <2> QED BY <1>1, <2>1, <2>2
<1>3. ASSUME NEW i \in 1..L, i + 1 \in S PROVE i \in S
  <2> SUFFICES ASSUME i >= m PROVE ReadAfter(p, i, L) /\ ReadHere(p, i, L)
    BY <1>0
  <2>1. i + 1 >= m /\ i \in m..(L + 1)
    BY <1>0
  <2>2. ReadAfter(p, i + 1, L) /\ ReadHere(p, i + 1, L)
    BY <1>3, <2>1
  <2>3. ReadAfter(p, i, L)
    <3>1. \A j \in (i + 1)..(L + 1) : j = i + 1 \/ j \in (i + 1 + 1)..(L + 1)
      BY <1>0
    <3> DEFINE Known(j) == /\ Reached(p[<<"or", j>>], j, L)
                           /\ Reached(p[<<"and", j>>], j, L)
                           /\ Single(p[<<"not", j>>], j, L)
    <3>2. Known(i + 1)
      BY <2>2, Zenon DEF ReadHere
    <3>3. \A j \in (i + 1 + 1)..(L + 1) : Known(j)
      BY <2>2, Zenon DEF ReadAfter
    <3>4. \A j \in (i + 1)..(L + 1) : Known(j)
      BY <3>1, <3>2, <3>3, Zenon
    <3> QED BY <3>4, Zenon DEF ReadAfter
  <2> QED BY <1>1, <2>1, <2>3
<1>4. \A i \in 1..(L + 1) : i \in S
  <2> HIDE DEF S, L
  <2> QED BY <1>0, <1>2, <1>3, DownTo
<1>5. \A i \in m..(L + 1) : i \in 1..(L + 1) /\ i >= m
  BY <1>0
<1> QED BY <1>4, <1>5

LEMMA ParseOfAgrees ==
  ASSUME NEW text \in Seq(Tokens), NEW i \in 1..(Len(text) + 1), NEW p, NEW q,
         SameAfter(p, q, i, Len(text)), NEW goal \in Goals,
         goal # "not" => p[<<"not", i>>] = q[<<"not", i>>] /\ Single(p[<<"not", i>>], i, Len(text)),
         goal = "or" => /\ p[<<"and", i>>] = q[<<"and", i>>]
                        /\ Single(Combined("and", p[<<"and", i>>]), i, Len(text))
  PROVE  ParseOf(goal, text, i, p) = ParseOf(goal, text, i, q)
<1>1. CASE goal = "not"
  BY <1>1, NotAgrees DEF ParseOf
<1>2. CASE goal = "and"
  <2>1. p[<<"not", i>>] = q[<<"not", i>>] /\ Single(p[<<"not", i>>], i, Len(text))
    BY <1>2
  <2>2. ParseChain("and", text, p[<<"not", i>>], p) = ParseChain("and", text, p[<<"not", i>>], q)
    BY <2>1, ChainAgrees
  <2> QED BY <1>2, <2>1, <2>2 DEF ParseOf
<1>3. CASE goal = "or"
  <2> DEFINE first == Combined("and", p[<<"and", i>>])
  <2>1. p[<<"and", i>>] = q[<<"and", i>>] /\ Single(first, i, Len(text))
    BY <1>3
  <2>2. first = Combined("and", q[<<"and", i>>])
    BY <2>1
  <2> HIDE DEF first
  <2>3. ParseChain("or", text, first, p) = ParseChain("or", text, first, q)
    BY <2>1, ChainAgrees
  <2>4. ParseOf("or", text, i, p) = ParseChain("or", text, first, p)
    BY DEF ParseOf, first
  <2>5. ParseOf("or", text, i, q) = ParseChain("or", text, first, q)
    BY <2>2 DEF ParseOf
  <2> QED BY <1>3, <2>3, <2>4, <2>5
<1> QED BY <1>1, <1>2, <1>3 DEF Goals

LEMMA ParseExtends ==
  ASSUME NEW text \in Seq(Tokens), Len(text) <= MaxFilterLength,
         NEW i \in 1..(Len(text) + 1), NEW p, ParsesFrom(p, text, i + 1)
  PROVE  \E q : ParsesFrom(q, text, i)
<1> DEFINE L == Len(text)
           v1 == ParseNot(text, i, p)
           v2 == ParseChain("and", text, v1, p)
           v3 == ParseChain("or", text, Combined("and", v2), p)
           here(goal) == IF goal = "not" THEN v1 ELSE IF goal = "and" THEN v2 ELSE v3
           q == [x \in Goals \X (i..(L + 1)) |-> IF x[2] = i THEN here(x[1]) ELSE p[x]]
<1>0. L \in 0..MaxFilterLength /\ L \in Nat
  BY QueryAssumption
<1>1. \A j \in (i + 1)..(L + 1) : ReadAfter(p, j, L) /\ ReadHere(p, j, L)
  <2>1. CASE i = L + 1
    BY <1>0, <2>1
  <2>2. CASE i # L + 1
    <3>1. i + 1 \in 1..(L + 1)
      BY <1>0, <2>2
    <3> QED BY <3>1, AllRead
  <2> QED BY <2>1, <2>2
<1>2. ReadAfter(p, i, L)
  BY <1>1, Zenon DEF ReadAfter, ReadHere
<1>3. Single(v1, i, L)
  BY <1>2, NotRead
<1>4. Reached(v2, i, L)
  <2> HIDE DEF v1
  <2> QED BY <1>2, <1>3, ChainRead
<1>5. Single(Combined("and", v2), i, L)
  <2> HIDE DEF v2, L
  <2>1. i \in 1..(L + 1)
    BY DEF L
  <2> QED BY <1>0, <1>4, <2>1, CombinedRead
<1> HIDE DEF v1, v2, v3
<1>6. /\ q[<<"not", i>>] = v1 /\ q[<<"and", i>>] = v2 /\ q[<<"or", i>>] = v3
      /\ \A j \in (i + 1)..(L + 1), goal \in Goals : q[<<goal, j>>] = p[<<goal, j>>]
  <2>1. i \in i..(L + 1) /\ \A j \in (i + 1)..(L + 1) : j \in i..(L + 1) /\ j # i
    BY <1>0
  <2>2. \A goal \in Goals : q[<<goal, i>>] = here(goal)
    <3> HIDE DEF here, L
    <3> QED BY <2>1
  <2>3. \A j \in (i + 1)..(L + 1), goal \in Goals : q[<<goal, j>>] = p[<<goal, j>>]
    <3> HIDE DEF here, L
    <3> QED BY <2>1
  <2> HIDE DEF q
  <2>4. q[<<"not", i>>] = v1 /\ q[<<"and", i>>] = v2 /\ q[<<"or", i>>] = v3
    BY <2>2 DEF Goals
  <2> QED BY <2>3, <2>4
<1> HIDE DEF q
<1>7. SameAfter(p, q, i, L)
  BY <1>6, Zenon DEF SameAfter, Goals
<1>8. ASSUME NEW goal \in Goals PROVE q[<<goal, i>>] = ParseOf(goal, text, i, q)
  <2>1. v1 = ParseNot(text, i, q)
    BY <1>7, NotAgrees DEF v1
  <2>2. v2 = ParseChain("and", text, v1, q)
    BY <1>3, <1>7, ChainAgrees DEF v2
  <2>3. v3 = ParseChain("or", text, Combined("and", v2), q)
    BY <1>5, <1>7, ChainAgrees DEF v3
  <2> QED BY <1>6, <2>1, <2>2, <2>3 DEF ParseOf, Goals
<1>9. ASSUME NEW j \in (i + 1)..(L + 1), NEW goal \in Goals
      PROVE  q[<<goal, j>>] = ParseOf(goal, text, j, q)
  <2>1. p[<<goal, j>>] = ParseOf(goal, text, j, p)
    BY DEF ParsesFrom
  <2>2. SameAfter(p, q, j, L) /\ j \in 1..(L + 1)
    <3>1. \A k \in (j + 1)..(L + 1) : k \in (i + 1)..(L + 1)
      BY <1>0
    <3>2. SameAfter(p, q, j, L)
      BY <1>7, <3>1, Zenon DEF SameAfter
    <3> QED BY <1>0, <3>2
  <2>3. /\ p[<<"not", j>>] = q[<<"not", j>>] /\ p[<<"and", j>>] = q[<<"and", j>>]
        /\ Single(p[<<"not", j>>], j, L) /\ Single(Combined("and", p[<<"and", j>>]), j, L)
    BY <1>1, <1>6, Zenon DEF ReadHere, Goals
  <2>4. ParseOf(goal, text, j, p) = ParseOf(goal, text, j, q)
    BY <2>2, <2>3, ParseOfAgrees
  <2> QED BY <1>6, <2>1, <2>4
<1>10. ParsesFrom(q, text, i)
  <2>1. \A j \in i..(L + 1) : j = i \/ j \in (i + 1)..(L + 1)
    BY <1>0
  <2> QED BY <1>8, <1>9, <2>1, Zenon DEF ParsesFrom
<1> QED BY <1>10

LEMMA ParseSteps ==
  ASSUME NEW text \in Seq(Tokens), Len(text) <= MaxFilterLength
  PROVE  ParsesFrom(Parse(text), text, 1)
<1> DEFINE L == Len(text)
           D == Goals \X (1..(L + 1))
           body(p) == [x \in D |-> ParseOf(x[1], text, x[2], p)]
           S == {m \in 1..(L + 1) : \E p : ParsesFrom(p, text, m)}
<1>0. L \in Nat /\ 1 \in 1..(L + 1)
  OBVIOUS
<1>1. L + 1 \in S
  <2>1. L + 1 \in 1..(L + 1) /\ (L + 1 + 1)..(L + 1) = {}
    BY <1>0
  <2>2. ParsesFrom(0, text, L + 1 + 1)
    BY <2>1 DEF ParsesFrom
  <2>3. \E p : ParsesFrom(p, text, L + 1)
    BY <2>1, <2>2, ParseExtends
  <2> QED BY <2>1, <2>3
<1>2. ASSUME NEW i \in 1..L, i + 1 \in S PROVE i \in S
  <2>1. i \in 1..(L + 1)
    BY <1>0
  <2>2. PICK p : ParsesFrom(p, text, i + 1)
    BY <1>2
  <2>3. \E q : ParsesFrom(q, text, i)
    BY <2>1, <2>2, ParseExtends
  <2> QED BY <2>1, <2>3
<1>3. 1 \in S
  <2> HIDE DEF S, L
  <2> QED BY <1>0, <1>1, <1>2, DownTo
<1>4. PICK p : ParsesFrom(p, text, 1)
  BY <1>3
<1> DEFINE f == [x \in D |-> p[x]]
<1>5. \A i \in 1..(L + 1), goal \in Goals : f[<<goal, i>>] = p[<<goal, i>>]
  <2> HIDE DEF L
  <2> QED OBVIOUS
<1>6. ParsesFrom(f, text, 1)
  <2> SUFFICES ASSUME NEW i \in 1..(L + 1), NEW goal \in Goals
               PROVE  f[<<goal, i>>] = ParseOf(goal, text, i, f)
    <3> HIDE DEF f
    <3> QED BY Zenon DEF ParsesFrom
  <2>1. p[<<goal, i>>] = ParseOf(goal, text, i, p)
    BY <1>4 DEF ParsesFrom
  <2>2. \A j \in (i + 1)..(L + 1) : j \in 1..(L + 1)
    BY <1>0
  <2>3. i \in 1..(L + 1) /\ i \in Nat
    BY <1>0
  <2> HIDE DEF f
  <2>4. SameAfter(p, f, i, L)
    BY <1>5, <2>2, Zenon DEF SameAfter, Goals
  <2>5. ReadHere(p, i, L)
    <3>1. \A j \in 1..(L + 1) : ReadHere(p, j, L)
      BY <1>0, <1>4, AllRead
    <3> QED BY <2>3, <3>1
  <2>6. /\ p[<<"not", i>>] = f[<<"not", i>>] /\ p[<<"and", i>>] = f[<<"and", i>>]
        /\ Single(p[<<"not", i>>], i, L) /\ Single(Combined("and", p[<<"and", i>>]), i, L)
    BY <1>5, <2>5, Zenon DEF ReadHere, Goals
  <2>7. ParseOf(goal, text, i, p) = ParseOf(goal, text, i, f)
    BY <2>3, <2>4, <2>6, ParseOfAgrees
  <2> QED BY <1>5, <2>1, <2>7
<1>7. f = body(f)
  <2>1. ASSUME NEW x \in D PROVE f[x] = ParseOf(x[1], text, x[2], f)
    <3>1. PICK goal \in Goals, i \in 1..(L + 1) : x = <<goal, i>>
      BY DEF Goals
    <3> HIDE DEF f
    <3>2. f[<<goal, i>>] = ParseOf(goal, text, i, f)
      BY <1>6, Zenon DEF ParsesFrom
    <3>3. x[1] = goal /\ x[2] = i
      BY <3>1
    <3> QED BY <3>1, <3>2, <3>3
  <2>2. f = [x \in D |-> f[x]]
    BY Zenon
  <2>3. body(f) = [x \in D |-> f[x]]
    BY <2>1
  <2> QED BY <2>2, <2>3
<1> DEFINE g == CHOOSE h : h = body(h)
<1>8. g = body(g)
  <2> HIDE DEF body
  <2> QED BY <1>7, Zenon
<1>9. Parse(text) = g
  BY Zenon DEF Parse, ParseOf, Goals
<1> HIDE DEF g
<1>10. ASSUME NEW i \in 1..(L + 1), NEW goal \in Goals
       PROVE  g[<<goal, i>>] = ParseOf(goal, text, i, g)
  <2>1. \A x \in D : g[x] = ParseOf(x[1], text, x[2], g)
    <3> HIDE DEF D
    <3> QED BY <1>8
  <2>2. <<goal, i>> \in D /\ <<goal, i>>[1] = goal /\ <<goal, i>>[2] = i
    OBVIOUS
  <2> HIDE DEF D
  <2> QED BY <2>1, <2>2
<1>11. ParsesFrom(g, text, 1)
  BY <1>10, Zenon DEF ParsesFrom
<1> QED BY <1>9, <1>11

LEMMA WholeRead ==
  ASSUME NEW text \in Seq(Tokens), Len(text) <= MaxFilterLength
  PROVE  /\ Single(Combined("or", Parse(text)[<<"or", 1>>]), 1, Len(text))
         /\ Reached(Parse(text)[<<"or", 1>>], 1, Len(text))
<1> DEFINE L == Len(text)
           v == Parse(text)[<<"or", 1>>]
<1>0. L \in 0..MaxFilterLength /\ L \in Nat /\ 1 \in 1..(L + 1)
  BY QueryAssumption
<1>1. Reached(v, 1, L)
  <2>1. ReadHere(Parse(text), 1, L)
    BY <1>0, ParseSteps, AllRead
  <2> QED BY <2>1 DEF ReadHere
<1> HIDE DEF v, L
<1>2. Single(Combined("or", v), 1, L)
  BY <1>0, <1>1, CombinedRead
<1> QED BY <1>1, <1>2, Zenon DEF v, L

LEMMA FilterRead ==
  ASSUME NEW text \in Seq(Tokens), ParseFilter(text).error = "none"
  PROVE  ParseFilter(text).nodes[1] \in Trees[MaxFilterLength - 1]
<1> DEFINE M == MaxFilterLength
<1>0. M \in Nat /\ M - 1 \in 0..M /\ 0 \in 0..(M - 1)
  BY QueryAssumption
<1>1. CASE text = <<>>
  <2>1. ParseFilter(text).nodes[1] = NoNode
    BY <1>1 DEF ParseFilter, Parsed
  <2>2. NoNode \in Trees[0]
    BY TreesGrow DEF LeafNodes
  <2>3. Trees[0] \subseteq Trees[M - 1]
    BY <1>0, TreesWiden
  <2> QED BY <2>1, <2>2, <2>3
<1>2. CASE text # <<>>
  <2> DEFINE L == Len(text)
             w == Combined("or", Parse(text)[<<"or", 1>>])
             a == w.at
             n == w.nodes[1]
  <2>1. L <= M /\ ParseFilter(text) = Complete(text, w)
    <3> HIDE DEF w
    <3>1. ~ (L > M) /\ ParseFilter(text) = Complete(text, w)
      BY <1>2 DEF ParseFilter, Fault, w
    <3>2. L \in Nat
      OBVIOUS
    <3> QED BY <1>0, <3>1, <3>2
  <2>2. Single(w, 1, L)
    BY <2>1, WholeRead
  <2> HIDE DEF w
  <2>3. Complete(text, w) = w /\ w.error = "none"
    BY <2>1 DEF Complete, Fault
  <2>4. a \in 2..(L + 1) /\ Len(w.nodes) = 1 /\ w.nodes \in Seq(Trees[a - 1 - 1])
    BY <2>2, <2>3 DEF Single, Reached
  <2> DEFINE S == Trees[a - 1 - 1]
  <2>5. n \in S
    <3>1. w.nodes \in Seq(S) /\ Len(w.nodes) = 1
      BY <2>4
    <3> HIDE DEF S
    <3> QED BY <3>1
  <2>6. L \in Nat
    OBVIOUS
  <2> HIDE DEF a
  <2>7. a - 1 - 1 \in 0..(M - 1)
    BY <1>0, <2>1, <2>4, <2>6
  <2>8. S \subseteq Trees[M - 1]
    BY <1>0, <2>7, TreesWiden
  <2> QED BY <2>1, <2>3, <2>5, <2>8
<1> QED BY <1>1, <1>2

LEMMA NotFilter ==
  ASSUME NEW n \in Trees[MaxFilterLength - 1]
  PROVE  /\ n \in FilterTrees /\ Not(n) \in FilterTrees
         /\ Not(n).node = "not" /\ Not(n).child = n
<1> DEFINE M == MaxFilterLength
<1>0. M \in Nat /\ M - 1 \in 0..M /\ M \in 1..M /\ M \in 0..M
  BY QueryAssumption
<1>1. Trees[M - 1] \subseteq FilterTrees
  BY <1>0, TreesWiden DEF FilterTrees
<1>2. Not(n) \in Grown(Trees[M - 1])
  BY DEF Grown, Not
<1>3. Trees[M] = Grown(Trees[M - 1])
  BY <1>0, TreesGrow
<1>4. Not(n).node = "not" /\ Not(n).child = n
  BY DEF Not
<1> QED BY <1>1, <1>2, <1>3, <1>4 DEF FilterTrees

LEMMA NotValue ==
  ASSUME NEW n \in Trees[MaxFilterLength - 1], NEW r
  PROVE  /\ Evaluate(Not(n), r, FALSE) = Negation(Evaluate(n, r, TRUE))
         /\ Evaluate(n, r, TRUE) \in Truths /\ Evaluate(n, r, FALSE) \in Truths
<1>1. PICK g : /\ \A m \in FilterTrees, odd \in BOOLEAN : g[m][odd] = ValueOf(g, m, r, odd)
               /\ \A m, odd : Evaluate(m, r, odd) = g[m][odd]
  BY EvaluateSteps
<1>2. /\ n \in FilterTrees /\ Not(n) \in FilterTrees
      /\ Not(n).node = "not" /\ Not(n).child = n
  BY NotFilter
<1> DEFINE m == Not(n)
<1> HIDE DEF m
<1>3. m \in FilterTrees /\ m.node = "not" /\ m.child = n
  BY <1>2 DEF m
<1>4. ValueOf(g, m, r, FALSE) = Negation(g[m.child][~FALSE])
  BY <1>3, ValueOfNot
<1>5. g[m][FALSE] = Negation(g[n][TRUE])
  BY <1>1, <1>3, <1>4
<1>6. \A odd \in BOOLEAN : g[n][odd] \in Truths
  BY <1>1, <1>2, ValueOfTyped
<1>7. /\ Evaluate(m, r, FALSE) = g[m][FALSE]
      /\ Evaluate(n, r, TRUE) = g[n][TRUE]
      /\ Evaluate(n, r, FALSE) = g[n][FALSE]
  BY <1>1
<1>8. Evaluate(m, r, FALSE) = Negation(Evaluate(n, r, TRUE))
  BY <1>5, <1>7
<1> QED BY <1>6, <1>7, <1>8 DEF m

\* _compile_filter: whatever a filter says of null, nothing is selected both by
\* it and by its negation, and nothing by neither.
LEMMA NegationSplits ==
  ASSUME NEW q, q.filter \in Trees[MaxFilterLength - 1]
  PROVE  NegationDivides(q)
<1> SUFFICES ASSUME \A leaf \in Leaves[q.filter] : leaf.field \notin MetricFields,
                    NEW r \in Results
             PROVE  Matches(q.filter, r) <=> ~Matches(Not(q.filter), r)
  BY DEF NegationDivides
<1> DEFINE n == q.filter
<1>1. n \in FilterTrees
  BY NotFilter
<1> HIDE DEF n
<1>2. Evaluate(n, r, FALSE) = "true" <=> Evaluate(n, r, TRUE) # "false"
  BY <1>1, FilterDivides DEF n
<1>3. Evaluate(Not(n), r, FALSE) = Negation(Evaluate(n, r, TRUE))
  BY NotValue DEF n
<1>4. Evaluate(n, r, TRUE) \in Truths
  BY NotValue DEF n
<1>5. Evaluate(Not(n), r, FALSE) = "true" <=> Evaluate(n, r, TRUE) = "false"
  BY <1>3, <1>4 DEF Negation, Truths
<1>6. Evaluate(n, r, FALSE) = "true" <=> ~ (Evaluate(Not(n), r, FALSE) = "true")
  BY <1>2, <1>5
<1> QED BY <1>6, Zenon DEF Matches, n

-----------------------------------------------------------------------------
(* Orders and pages.                                                       *)
LEMMA KeyDecides ==
  ASSUME NEW order \in Orders(FieldNames), NEW a \in Results, NEW b \in Results, a # b
  PROVE  Precedes(order, a, b) \/ Precedes(order, b, a)
<1> DEFINE keys == SortKeys(order)
           n == Len(keys)
           Split(i) == KeyPrecedes(keys[i], a, b) \/ KeyPrecedes(keys[i], b, a)
           S == {i \in 1..n : Split(i)}
<1>1. keys \in Orders(FieldNames) /\ \E i \in 1..n : keys[i][1] = "id"
  <2>0. order \in Seq(FieldNames \X Directions) /\ DOMAIN order = 1..Len(order) /\ Len(order) \in Nat
    BY DEF Orders
  <2>1. CASE \E i \in DOMAIN order : order[i][1] = "id"
    BY <2>0, <2>1 DEF SortKeys
  <2>2. CASE ~ \E i \in DOMAIN order : order[i][1] = "id"
    <3> DEFINE key == <<"id", "asc">>
    <3>1. key \in FieldNames \X Directions /\ key[1] = "id"
      BY QueryAssumption DEF Directions
    <3>2. keys = Append(order, key)
      BY <2>2 DEF SortKeys
    <3> HIDE DEF key, keys
    <3>3. keys \in Seq(FieldNames \X Directions) /\ Len(keys) = Len(order) + 1
          /\ keys[Len(order) + 1] = key
      BY <2>0, <3>1, <3>2
    <3>4. Len(order) + 1 \in 1..n
      BY <2>0, <3>3
    <3> QED BY <3>1, <3>3, <3>4 DEF Orders
  <2> QED BY <2>1, <2>2
<1>2. n \in Nat /\ DOMAIN keys = 1..n
  <2> HIDE DEF keys
  <2> QED BY <1>1 DEF Orders
<1>3. PICK k \in 1..n : keys[k][1] = "id"
  BY <1>1
<1> HIDE DEF keys
<1>4. k \in S
  <2>1. /\ Row[a]["id"] \in Int /\ Row[b]["id"] \in Int /\ Row[a]["id"] # Row[b]["id"]
        /\ Null \notin Int
    <3>1. Row[a] \in [FieldNames -> Int \cup {Null}] /\ Row[b] \in [FieldNames -> Int \cup {Null}]
      BY QueryAssumption
    <3>2. "id" \in FieldNames /\ "id" \notin NullableFields
      BY QueryAssumption
    <3>3. Row[a]["id"] # Null /\ Row[b]["id"] # Null
      BY <3>2, QueryAssumption
    <3>4. Row[a]["id"] # Row[b]["id"]
      BY QueryAssumption
    <3>5. Row[a]["id"] \in Int \cup {Null} /\ Row[b]["id"] \in Int \cup {Null}
      BY <3>1, <3>2
    <3> QED BY <3>3, <3>4, <3>5, QueryAssumption
  <2> DEFINE u == Row[a]["id"]
             v == Row[b]["id"]
  <2>2. /\ KeyPrecedes(keys[k], a, b) = IF keys[k][2] = "desc" THEN u > v ELSE u < v
        /\ KeyPrecedes(keys[k], b, a) = IF keys[k][2] = "desc" THEN v > u ELSE v < u
    <3>1. u # Null /\ v # Null
      BY <2>1
    <3> QED BY <1>3, <3>1 DEF KeyPrecedes
  <2>3. u \in Int /\ v \in Int /\ u # v
    BY <2>1
  <2> HIDE DEF u, v
  <2>4. u < v \/ v < u
    BY <2>3
  <2>5. Split(k)
    <3>1. CASE keys[k][2] = "desc"
      BY <2>2, <2>3, <2>4, <3>1
    <3>2. CASE keys[k][2] # "desc"
      BY <2>2, <2>4, <3>2
    <3> QED BY <3>1, <3>2
  <2> HIDE DEF Split
  <2> QED BY <2>5
<1>5. PICK i \in S : \A j \in S : i <= j
  <2>1. S \in SUBSET Nat /\ S # {}
    BY <1>2, <1>4
  <2> HIDE DEF S
  <2> QED BY <2>1, LeastMember
<1>6. \A j \in 1..(i - 1) : j \in 1..n /\ j \notin S
  <2>1. i \in 1..n
    OBVIOUS
  <2> HIDE DEF S
  <2> QED BY <1>2, <1>5, <2>1
<1>7. \A j \in 1..(i - 1) : ~ KeyPrecedes(keys[j], a, b) /\ ~ KeyPrecedes(keys[j], b, a)
  BY <1>6
<1>8. i \in DOMAIN keys /\ (KeyPrecedes(keys[i], a, b) \/ KeyPrecedes(keys[i], b, a))
  BY <1>2, <1>5
<1> HIDE DEF S
<1>9. CASE KeyPrecedes(keys[i], a, b)
  BY <1>7, <1>8, <1>9, Zenon DEF Precedes, keys
<1>10. CASE KeyPrecedes(keys[i], b, a)
  BY <1>7, <1>8, <1>10, Zenon DEF Precedes, keys
<1> QED BY <1>8, <1>9, <1>10

LEMMA Listed ==
  ASSUME NEW R, IsFiniteSet(R), NEW s \in SetToSeqs(R)
  PROVE  /\ Cardinality(R) \in Nat /\ s \in [1..Cardinality(R) -> R]
         /\ \A i, j \in 1..Cardinality(R) : s[i] = s[j] => i = j
         /\ \A x \in R : \E i \in 1..Cardinality(R) : s[i] = x
<1> DEFINE n == Cardinality(R)
           D == 1..n
<1>1. n \in Nat
  BY FS_CardinalityType
<1>2. s \in [D -> R] /\ \A i, j \in D : i # j => s[i] # s[j]
  BY Zenon DEF SetToSeqs
<1>3. Cardinality(D) = n
  <2>1. D = 1..n /\ 1 \in Int /\ n \in Int
    BY <1>1
  <2>2. Cardinality(1..n) = IF 1 > n THEN 0 ELSE n - 1 + 1
    BY <2>1, FS_Interval
  <2> HIDE DEF n
  <2> QED BY <1>1, <2>2
<1> HIDE DEF D
<1>4. s \in Injection(D, R)
  BY <1>2 DEF Injection, IsInjective
<1>5. s \in Surjection(D, R)
  BY <1>3, <1>4, FS_Injection
<1>6. \A x \in R : \E i \in D : s[i] = x
  BY <1>5 DEF Surjection
<1> QED BY <1>1, <1>2, <1>6 DEF D

LEMMA OneAnswer ==
  ASSUME NEW order \in Orders(FieldNames), NEW R \in SUBSET Results,
         NEW s \in Sequences(order, R), NEW t \in Sequences(order, R)
  PROVE  /\ s = t
         /\ s \in Seq(R)
<1> DEFINE n == Cardinality(R)
           bad == {i \in 1..n : s[i] # t[i]}
<1>0. IsFiniteSet(R)
  BY FS_Subset, QueryAssumption
<1>1. s \in SetToSeqs(R) /\ t \in SetToSeqs(R)
  BY DEF Sequences
<1>2. /\ n \in Nat /\ s \in [1..n -> R] /\ t \in [1..n -> R]
      /\ \A i, j \in 1..n : s[i] = s[j] => i = j
      /\ \A i, j \in 1..n : t[i] = t[j] => i = j
  BY <1>0, <1>1, Listed
<1>3. /\ \A x \in R : \E i \in 1..n : s[i] = x
      /\ \A x \in R : \E i \in 1..n : t[i] = x
  BY <1>0, <1>1, Listed
<1>4. /\ \A i, j \in 1..n : i < j => ~ Precedes(order, s[j], s[i])
      /\ \A i, j \in 1..n : i < j => ~ Precedes(order, t[j], t[i])
  <2>1. DOMAIN s = 1..n /\ DOMAIN t = 1..n
    BY <1>2
  <2> HIDE DEF n
  <2> QED BY <2>1 DEF Sequences
<1> HIDE DEF n
<1>5. ASSUME bad # {} PROVE FALSE
  <2>1. PICK i \in bad : \A j \in bad : i <= j
    <3>1. bad \in SUBSET Nat
      BY <1>2
    <3> HIDE DEF bad
    <3> QED BY <1>5, <3>1, LeastMember
  <2>2. i \in 1..n /\ s[i] # t[i] /\ \A j \in 1..n : j < i => s[j] = t[j]
    <3>1. i \in 1..n /\ s[i] # t[i]
      OBVIOUS
    <3>2. \A j \in 1..n : j < i => j \notin bad
      <4> HIDE DEF bad
      <4> QED BY <1>2, <2>1, <3>1
    <3> QED BY <3>1, <3>2
  <2>3. s[i] \in R /\ t[i] \in R
    BY <1>2, <2>2
  <2>4. PICK j \in 1..n : s[j] = t[i]
    BY <1>3, <2>3
  <2>5. PICK k \in 1..n : t[k] = s[i]
    BY <1>3, <2>3
  <2>6. i < j
    <3>1. j # i
      BY <2>2, <2>4
    <3>2. ~ (j < i)
      <4> SUFFICES ASSUME j < i PROVE FALSE
        OBVIOUS
      <4>1. t[j] = t[i]
        BY <2>2, <2>4
      <4> QED BY <1>2, <2>2, <3>1, <4>1
    <3> QED BY <1>2, <2>2, <3>1, <3>2
  <2>7. i < k
    <3>1. k # i
      BY <2>2, <2>5
    <3>2. ~ (k < i)
      <4> SUFFICES ASSUME k < i PROVE FALSE
        OBVIOUS
      <4>1. s[k] = s[i]
        BY <2>2, <2>5
      <4> QED BY <1>2, <2>2, <3>1, <4>1
    <3> QED BY <1>2, <2>2, <3>1, <3>2
  <2>8. ~ Precedes(order, t[i], s[i])
    BY <1>4, <2>2, <2>4, <2>6
  <2>9. ~ Precedes(order, s[i], t[i])
    BY <1>4, <2>2, <2>5, <2>7
  <2>10. s[i] \in Results /\ t[i] \in Results
    BY <2>3
  <2> QED BY <2>2, <2>8, <2>9, <2>10, KeyDecides
<1>6. \A i \in 1..n : s[i] = t[i]
  BY <1>5
<1> HIDE DEF bad
<1>7. s = t
  BY <1>2, <1>6
<1>8. s \in Seq(R)
  BY <1>2
<1> QED BY <1>7, <1>8

\* Two neighbouring slices make one.
Joins(s, a, b, e) == Slice(s, a + 1, b) \o Slice(s, b + 1, e) = Slice(s, a + 1, e)

LEMMA SlicesJoin ==
  ASSUME NEW R, NEW s \in Seq(R), NEW a \in Nat, NEW b \in Nat, NEW e \in Nat, a <= b, b <= e
  PROVE  Joins(s, a, b, e)
<1> SUFFICES Slice(s, a + 1, b) \o Slice(s, b + 1, e) = Slice(s, a + 1, e)
  BY DEF Joins
<1> DEFINE n == Len(s)
<1>1. n \in Nat /\ \A i \in 1..n : s[i] \in R
  OBVIOUS
<1>2. CASE b <= n
  <2> DEFINE f == IF e > n THEN n ELSE e
  <2>1. /\ Slice(s, a + 1, b) = SubSeq(s, a + 1, b)
        /\ Slice(s, b + 1, e) = SubSeq(s, b + 1, f)
        /\ Slice(s, a + 1, e) = SubSeq(s, a + 1, f)
    <3>1. ~ (b > n)
      <4> HIDE DEF n
      <4> QED BY <1>1, <1>2
    <3> QED BY <3>1 DEF Slice
  <2>2. a + 1 \in 1..(n + 1) /\ b \in ((a + 1) - 1)..n /\ f \in b..n
    <3> HIDE DEF n
    <3> QED BY <1>1, <1>2
  <2> HIDE DEF f
  <2>3. SubSeq(s, a + 1, b) \o SubSeq(s, b + 1, f) = SubSeq(s, a + 1, f)
    <3>1. a + 1 \in 1..(Len(s) + 1) /\ b \in ((a + 1) - 1)..Len(s) /\ f \in b..Len(s)
      BY <2>2
    <3> QED BY <3>1, ConcatAdjacentSubSeq
  <2> QED BY <2>1, <2>3
<1>3. CASE b > n
  <2>1. /\ Slice(s, a + 1, b) = SubSeq(s, a + 1, n)
        /\ Slice(s, b + 1, e) = SubSeq(s, b + 1, n)
        /\ Slice(s, a + 1, e) = SubSeq(s, a + 1, n)
    <3>1. b > n /\ e > n
      <4> HIDE DEF n
      <4> QED BY <1>1, <1>3
    <3> QED BY <3>1 DEF Slice
  <2> HIDE DEF n
  <2>2. SubSeq(s, b + 1, n) = <<>>
    BY <1>1, <1>3, SubSeqEmpty
  <2>3. SubSeq(s, a + 1, n) \in Seq(R)
    <3>1. \A i \in (a + 1)..n : s[i] \in R
      BY <1>1
    <3> QED BY <1>1, <3>1, SubSeqProperties
  <2>4. SubSeq(s, a + 1, n) \o <<>> = SubSeq(s, a + 1, n)
    BY <2>3, ConcatEmptySeq
  <2> QED BY <2>1, <2>2, <2>4
<1>4. b <= n \/ b > n
  <2> HIDE DEF n
  <2> QED BY <1>1
<1> QED BY <1>2, <1>3, <1>4

\* A page and the next one are the page of twice the size.
LEMMA PagesSplit ==
  ASSUME NEW q, q = [filter |-> q.filter, order |-> q.order, select |-> q.select,
                     top |-> q.top, skip |-> q.skip, count |-> q.count],
         q.order \in Orders(FieldNames), q.top \in Nat, q.skip \in Nat
  PROVE  PagesDivide(q, Results)
<1> DEFINE found == {r \in Results : Matches(q.filter, r)}
           top == q.top
           skip == q.skip
<1> SUFFICES ASSUME NEW s \in Answers(q, Results), NEW t \in Answers(q, Results)
             PROVE  PageOf(q, s) \o PageOf([q EXCEPT !.skip = skip + top], t)
                      = Slice(s, skip + 1, skip + 2 * top)
  BY DEF PagesDivide
<1>1. s \in Sequences(q.order, found) /\ t \in Sequences(q.order, found)
  BY DEF Answers
<1>2. s = t /\ s \in Seq(found)
  <2>1. found \in SUBSET Results
    OBVIOUS
  <2> HIDE DEF found
  <2> QED BY <1>1, <2>1, OneAnswer
<1> HIDE DEF found
<1>3. [q EXCEPT !.skip = skip + top].skip = skip + top /\ [q EXCEPT !.skip = skip + top].top = top
  OBVIOUS
<1>4. /\ PageOf(q, s) = Slice(s, skip + 1, skip + top)
      /\ PageOf([q EXCEPT !.skip = skip + top], t) = Slice(s, (skip + top) + 1, (skip + top) + top)
  BY <1>2, <1>3 DEF PageOf
<1> HIDE DEF top, skip
<1>5. top \in Nat /\ skip \in Nat
  BY DEF top, skip
<1>6. skip + 2 * top = (skip + top) + top
  BY <1>5
<1> DEFINE middle == skip + top
           end == middle + top
<1>7. middle \in Nat /\ end \in Nat /\ skip <= middle /\ middle <= end
  BY <1>5
<1>8. Slice(s, skip + 1, middle) \o Slice(s, middle + 1, end) = Slice(s, skip + 1, end)
  <2>1. s \in Seq(found) /\ skip \in Nat /\ middle \in Nat /\ end \in Nat
    BY <1>2, <1>5, <1>7
  <2>2. skip <= middle /\ middle <= end
    BY <1>7
  <2> HIDE DEF middle, end
  <2>3. Joins(s, skip, middle, end)
    BY <2>1, <2>2, SlicesJoin
  <2> QED BY <2>3 DEF Joins
<1> QED BY <1>4, <1>6, <1>8, Zenon DEF middle, end

-----------------------------------------------------------------------------
(* The text of a filter.                                                   *)
LEMMA ByAppending ==
  ASSUME NEW S, NEW P, \A x \in S : <<x>> \in P,
         \A s \in Seq(S) \cap P, x \in S : s # <<>> => Append(s, x) \in P
  PROVE  \A s \in Seq(S) : s # <<>> => s \in P
<1> SUFFICES ASSUME NEW s \in Seq(S), s # <<>> PROVE s \in P
  OBVIOUS
<1> DEFINE n == Len(s)
           T == {m \in 0..n : m = 0 \/ SubSeq(s, 1, m) \in P}
<1>1. n \in Nat /\ n # 0 /\ \A i \in 1..n : s[i] \in S
  OBVIOUS
<1>2. 0 \in T
  BY <1>1
<1>3. ASSUME NEW m \in 1..n, m - 1 \in T PROVE m \in T
  <2>1. m \in 1..Len(s) /\ 1 \in 1..Len(s) /\ m \in 1..Len(s)
    BY <1>1
  <2>2. SubSeq(s, 1, m) = SubSeq(s, 1, m - 1) \o <<s[m]>>
    BY <2>1, SubSeqRecursiveSecond
  <2>3. \A i \in 1..(m - 1) : s[i] \in S
    BY <1>1
  <2>4. m - 1 \in Int /\ 1 \in Int /\ m - 1 \in Nat /\ m \in 0..n
    BY <1>1
  <2>5. SubSeq(s, 1, m - 1) \in Seq(S) /\ (m - 1 # 0 => Len(SubSeq(s, 1, m - 1)) = m - 1)
    <3>1. Len(SubSeq(s, 1, m - 1)) = IF 1 <= m - 1 THEN (m - 1) - 1 + 1 ELSE 0
      BY <2>3, <2>4, SubSeqProperties
    <3>2. SubSeq(s, 1, m - 1) \in Seq(S)
      BY <2>3, <2>4, SubSeqProperties
    <3> HIDE DEF n
    <3> QED BY <2>4, <3>1, <3>2
  <2> DEFINE t == SubSeq(s, 1, m - 1)
  <2>6. CASE m - 1 = 0
    <3>1. t = <<>>
      BY <2>6, SubSeqEmpty
    <3>2. s[m] \in S
      BY <1>1, <2>1
    <3>3. <<s[m]>> \in P
      BY <3>2
    <3>4. t \o <<s[m]>> = <<s[m]>>
      <4>1. <<s[m]>> \in Seq(S)
        BY <3>2
      <4> QED BY <3>1, <4>1, ConcatEmptySeq
    <3> QED BY <2>2, <2>4, <3>3, <3>4
  <2>7. CASE m - 1 # 0
    <3>1. t \in P
      BY <1>3, <2>7
    <3>2. t \in Seq(S) /\ Len(t) # 0
      BY <2>5, <2>7
    <3> HIDE DEF t
    <3>3. t # <<>> /\ Append(t, s[m]) = t \o <<s[m]>>
      BY <1>1, <2>1, <3>2
    <3>4. Append(t, s[m]) \in P
      BY <1>1, <2>1, <3>1, <3>2, <3>3
    <3> QED BY <2>2, <2>4, <3>3, <3>4 DEF t
  <2> QED BY <2>6, <2>7
<1>4. \A m \in 0..n : m \in T
  <2> HIDE DEF T, n
  <2> QED BY <1>1, <1>2, <1>3, UpToN
<1>5. SubSeq(s, 1, n) \in P
  <2>1. n \in T
    <3> HIDE DEF T, n
    <3> QED BY <1>1, <1>4
  <2> QED BY <1>1, <2>1
<1> QED BY <1>5, SubSeqFull

LEMMA AppendConcat ==
  ASSUME NEW S, NEW s \in Seq(S), NEW u \in Seq(S), NEW x \in S
  PROVE  s \o Append(u, x) = Append(s \o u, x) /\ Append(u, x) \in Seq(S)
<1>1. <<x>> \in Seq(S) /\ s \o u \in Seq(S)
  OBVIOUS
<1>2. Append(u, x) = u \o <<x>> /\ Append(s \o u, x) = (s \o u) \o <<x>>
  BY <1>1, AppendIsConcat
<1>3. (s \o u) \o <<x>> = s \o (u \o <<x>>)
  BY <1>1, ConcatAssociative
<1> QED BY <1>2, <1>3

Regroups(a, w, b, c) == ((a \o w) \o b) \o w \o c = (a \o w) \o (b \o w \o c)

LEMMA Regroup ==
  ASSUME NEW S, NEW a \in Seq(S), NEW b \in Seq(S), NEW c \in Seq(S), NEW w \in Seq(S)
  PROVE  Regroups(a, w, b, c)
<1>1. a \o w \in Seq(S) /\ b \o w \in Seq(S)
  OBVIOUS
<1>2. ((a \o w) \o b) \o w = (a \o w) \o (b \o w)
  BY <1>1, ConcatAssociative
<1>3. ((a \o w) \o (b \o w)) \o c = (a \o w) \o ((b \o w) \o c)
  <2> DEFINE p == a \o w
             q == b \o w
  <2>1. p \in Seq(S) /\ q \in Seq(S)
    BY <1>1
  <2> HIDE DEF p, q
  <2>2. (p \o q) \o c = p \o (q \o c)
    BY <2>1, ConcatAssociative
  <2> QED BY <2>2 DEF p, q
<1>4. (((a \o w) \o b) \o w) \o c = ((a \o w) \o (b \o w)) \o c
  BY <1>2, Zenon
<1> QED BY <1>3, <1>4, Zenon DEF Regroups

Spaced(op, s, t) == s \o <<Word(op)>> \o t

LEMMA SpacedTyped ==
  ASSUME NEW op \in {"and", "or"}, NEW s \in Seq(Tokens), NEW t \in Seq(Tokens)
  PROVE  Spaced(op, s, t) \in Seq(Tokens)
<1>1. "and" \in Words /\ "or" \in Words
  BY WordsAssumption, Zenon
<1>2. Word(op) \in Tokens
  BY <1>1 DEF Word, Tokens
<1> QED BY <1>2 DEF Spaced

LEMMA SpacedRegroup ==
  ASSUME NEW op \in {"and", "or"},
         NEW a \in Seq(Tokens), NEW b \in Seq(Tokens), NEW c \in Seq(Tokens)
  PROVE  Spaced(op, Spaced(op, a, b), c) = Spaced(op, a, Spaced(op, b, c))
<1>1. "and" \in Words /\ "or" \in Words
  BY WordsAssumption, Zenon
<1> DEFINE w == <<Word(op)>>
<1>2. w \in Seq(Tokens)
  BY <1>1 DEF Word, Tokens
<1> HIDE DEF w
<1>3. Regroups(a, w, b, c)
  BY <1>2, Regroup
<1> QED BY <1>3, Zenon DEF Spaced, w, Regroups

Joins2(f, op, texts) ==
  /\ f[1] = texts[1]
  /\ \A i \in 2..Len(texts) : f[i] = Spaced(op, f[i - 1], texts[i])

LEMMA ConjoinedSteps ==
  ASSUME NEW op \in {"and", "or"}, NEW texts \in Seq(Seq(Tokens)), texts # <<>>
  PROVE  \E f : /\ Joins2(f, op, texts)
                /\ \A i \in 1..Len(texts) : f[i] \in Seq(Tokens)
                /\ Conjoined(op, texts) = f[Len(texts)]
<1> DEFINE n == Len(texts)
           X == Seq(Tokens)
           step == [x \in (1..(n - 1)) \X X |-> Spaced(op, x[2], texts[x[1] + 1])]
           joined(f) == [i \in DOMAIN texts |->
             IF i = 1 THEN texts[1] ELSE f[i - 1] \o <<Word(op)>> \o texts[i]]
<1>1. n \in Nat /\ n - 1 \in Nat /\ DOMAIN texts = 1..n /\ \A i \in 1..n : texts[i] \in X
  OBVIOUS
<1>2. step \in [(1..(n - 1)) \X X -> X]
  <2>1. \A i \in 1..(n - 1), v \in X : Spaced(op, v, texts[i + 1]) \in X
    BY <1>1, SpacedTyped
  <2> HIDE DEF X, n
  <2> QED BY <2>1
<1>3. texts[1] \in X
  BY <1>1
<1>4. PICK h : Iterates(h, X, n - 1, texts[1], step)
  <2> HIDE DEF step, X, n
  <2> QED BY <1>1, <1>2, <1>3, Iterated
<1>5. /\ h[0] = texts[1]
      /\ \A i \in 0..(n - 1) : h[i] \in X
      /\ \A i \in 1..(n - 1) : h[i] = Spaced(op, h[i - 1], texts[i + 1])
  <2>1. /\ h \in [0..(n - 1) -> X] /\ h[0] = texts[1]
        /\ \A i \in 1..(n - 1) : h[i] = step[<<i, h[i - 1]>>]
    BY <1>4 DEF Iterates
  <2>2. \A i \in 1..(n - 1) : i - 1 \in 0..(n - 1)
    BY <1>1
  <2> HIDE DEF n, X
  <2>3. \A i \in 1..(n - 1), v \in X : step[<<i, v>>] = Spaced(op, v, texts[i + 1])
    OBVIOUS
  <2> HIDE DEF step
  <2> QED BY <2>1, <2>2, <2>3
<1> DEFINE f == [i \in 1..n |-> h[i - 1]]
<1>6. /\ f[1] = texts[1]
      /\ \A i \in 1..n : f[i] \in X
      /\ \A i \in 2..n : f[i] = Spaced(op, f[i - 1], texts[i])
  <2>1. 1 \in 1..n /\ 1 - 1 = 0
    BY <1>1
  <2>2. \A i \in 1..n : f[i] = h[i - 1] /\ i - 1 \in 0..(n - 1)
    BY <1>1
  <2>3. \A i \in 2..n : i - 1 \in 1..(n - 1) /\ (i - 1) + 1 = i /\ i \in 1..n /\ i - 1 \in 1..n
    BY <1>1
  <2>4. f[1] = h[0]
    BY <2>1, <2>2
  <2> HIDE DEF f, X, n
  <2>5. ASSUME NEW i \in 2..n PROVE f[i] = Spaced(op, f[i - 1], texts[i])
    <3>1. h[i - 1] = Spaced(op, h[(i - 1) - 1], texts[(i - 1) + 1])
      BY <1>5, <2>3
    <3>2. f[i - 1] = h[(i - 1) - 1] /\ f[i] = h[i - 1]
      BY <2>2, <2>3
    <3> QED BY <2>3, <3>1, <3>2
  <2> QED BY <1>5, <2>2, <2>4, <2>5
<1>7. f = joined(f)
  <2>1. \A i \in 1..n : f[i] = joined(f)[i]
    <3>1. \A i \in 1..n : i = 1 \/ i \in 2..n
      BY <1>1
    <3> HIDE DEF f, n
    <3> QED BY <1>1, <1>6, <3>1 DEF Spaced
  <2>2. f = [i \in 1..n |-> f[i]]
    OBVIOUS
  <2> HIDE DEF f, n
  <2>3. joined(f) = [i \in 1..n |-> joined(f)[i]]
    BY <1>1
  <2> HIDE DEF joined
  <2> QED BY <2>1, <2>2, <2>3
<1> DEFINE g == CHOOSE y : y = joined(y)
<1>8. g = joined(g)
  <2> HIDE DEF joined, f
  <2> QED BY <1>7, Zenon
<1>9. Conjoined(op, texts) = g[n]
  BY Zenon DEF Conjoined
<1> HIDE DEF g, f
<1>10. \A i \in 1..n : g[i] = IF i = 1 THEN texts[1] ELSE Spaced(op, g[i - 1], texts[i])
  <2>1. \A i \in 1..n : joined(g)[i] = IF i = 1 THEN texts[1] ELSE Spaced(op, g[i - 1], texts[i])
    BY <1>1 DEF Spaced
  <2> HIDE DEF joined
  <2> QED BY <1>8, <2>1
<1>11. \A i \in 0..n : i = 0 \/ g[i] = f[i]
  <2> DEFINE T == {i \in 0..n : i = 0 \/ g[i] = f[i]}
  <2>1. 0 \in T
    BY <1>1
  <2>2. ASSUME NEW i \in 1..n, i - 1 \in T PROVE i \in T
    <3>1. i = 1 \/ (i \in 2..n /\ i # 1 /\ i - 1 # 0)
      BY <1>1
    <3>2. i \in 0..n
      BY <1>1
    <3>3. i - 1 = 0 \/ g[i - 1] = f[i - 1]
      BY <2>2
    <3> HIDE DEF n
    <3>4. g[i] = f[i]
      BY <1>6, <1>10, <3>1, <3>3
    <3> QED BY <3>2, <3>4
  <2>3. \A i \in 0..n : i \in T
    <3> HIDE DEF T, n
    <3> QED BY <1>1, <2>1, <2>2, UpToN
  <2> QED BY <2>3
<1>12. Conjoined(op, texts) = f[n]
  <2> HIDE DEF n
  <2>1. n \in 0..n /\ n # 0
    BY <1>1
  <2> QED BY <1>9, <1>11, <2>1
<1>13. Joins2(f, op, texts)
  BY <1>6 DEF Joins2
<1> QED BY <1>6, <1>12, <1>13

LEMMA ConjoinedOne ==
  ASSUME NEW op \in {"and", "or"}, NEW t \in Seq(Tokens)
  PROVE  Conjoined(op, <<t>>) = t
<1>1. <<t>> \in Seq(Seq(Tokens)) /\ <<t>> # <<>> /\ Len(<<t>>) = 1 /\ <<t>>[1] = t
  OBVIOUS
<1>2. PICK f : Joins2(f, op, <<t>>) /\ Conjoined(op, <<t>>) = f[Len(<<t>>)]
  BY <1>1, ConjoinedSteps, Zenon
<1> QED BY <1>1, <1>2 DEF Joins2

LEMMA ConjoinedTyped ==
  ASSUME NEW op \in {"and", "or"}, NEW texts \in Seq(Seq(Tokens)), texts # <<>>
  PROVE  Conjoined(op, texts) \in Seq(Tokens)
<1>1. PICK f : /\ \A i \in 1..Len(texts) : f[i] \in Seq(Tokens)
               /\ Conjoined(op, texts) = f[Len(texts)]
  BY ConjoinedSteps
<1> DEFINE n == Len(texts)
<1>2. n \in 1..n
  OBVIOUS
<1> HIDE DEF n
<1>3. f[n] \in Seq(Tokens)
  BY <1>1, <1>2 DEF n
<1> QED BY <1>1, <1>3 DEF n

LEMMA ConjoinedAppend ==
  ASSUME NEW op \in {"and", "or"}, NEW texts \in Seq(Seq(Tokens)), texts # <<>>,
         NEW t \in Seq(Tokens)
  PROVE  Conjoined(op, Append(texts, t)) = Spaced(op, Conjoined(op, texts), t)
<1> DEFINE n == Len(texts)
           more == Append(texts, t)
<1>1. /\ n \in Nat \ {0} /\ Len(more) = n + 1 /\ more \in Seq(Seq(Tokens)) /\ more # <<>>
      /\ \A i \in 1..n : more[i] = texts[i]
      /\ more[n + 1] = t
  <2> DEFINE X == Seq(Tokens)
  <2>1. texts \in Seq(X) /\ t \in X
    OBVIOUS
  <2> HIDE DEF X
  <2>2. more \in Seq(X) /\ Len(more) = n + 1 /\ n \in Nat /\ n # 0
    BY <2>1
  <2>3. more # <<>> /\ more[n + 1] = t /\ \A i \in 1..n : more[i] = texts[i]
    BY <2>1, AppendProperties
  <2> HIDE DEF more, n
  <2> QED BY <2>2, <2>3 DEF X
<1>2. PICK f : Joins2(f, op, texts) /\ Conjoined(op, texts) = f[n]
  BY ConjoinedSteps
<1> HIDE DEF more
<1>3. PICK g : Joins2(g, op, more) /\ Conjoined(op, more) = g[Len(more)]
  BY <1>1, ConjoinedSteps
<1>4. \A i \in 0..n : i = 0 \/ g[i] = f[i]
  <2> DEFINE T == {i \in 0..n : i = 0 \/ g[i] = f[i]}
  <2>0. /\ f[1] = texts[1] /\ g[1] = more[1]
        /\ \A i \in 2..n : f[i] = Spaced(op, f[i - 1], texts[i])
        /\ \A i \in 2..(n + 1) : g[i] = Spaced(op, g[i - 1], more[i])
    BY <1>1, <1>2, <1>3 DEF Joins2
  <2>1. 0 \in T
    BY <1>1
  <2>2. ASSUME NEW i \in 1..n, i - 1 \in T PROVE i \in T
    <3>1. i = 1 \/ (i \in 2..n /\ i \in 2..(n + 1) /\ i # 1 /\ i - 1 # 0)
      BY <1>1
    <3>2. i \in 0..n /\ more[i] = texts[i]
      BY <1>1
    <3>3. i - 1 = 0 \/ g[i - 1] = f[i - 1]
      BY <2>2
    <3> HIDE DEF n
    <3>4. g[i] = f[i]
      BY <2>0, <3>1, <3>2, <3>3
    <3> QED BY <3>2, <3>4
  <2>3. \A i \in 0..n : i \in T
    <3> HIDE DEF T, n
    <3> QED BY <1>1, <2>1, <2>2, UpToN
  <2> QED BY <2>3
<1> HIDE DEF n
<1>5. g[n] = f[n] /\ n + 1 \in 2..(n + 1) /\ (n + 1) - 1 = n
  BY <1>1, <1>4
<1>6. g[n + 1] = Spaced(op, g[(n + 1) - 1], more[n + 1])
  BY <1>1, <1>3, <1>5 DEF Joins2
<1> QED BY <1>1, <1>2, <1>3, <1>5, <1>6 DEF more

LEMMA ConjoinedConcat ==
  ASSUME NEW op \in {"and", "or"}, NEW s \in Seq(Seq(Tokens)), s # <<>>,
         NEW t \in Seq(Seq(Tokens)), t # <<>>
  PROVE  Conjoined(op, s \o t) = Spaced(op, Conjoined(op, s), Conjoined(op, t))
<1> DEFINE S == Seq(Tokens)
           P == {u \in Seq(S) : Conjoined(op, s \o u) = Spaced(op, Conjoined(op, s), Conjoined(op, u))}
<1>1. ASSUME NEW x \in S PROVE <<x>> \in P
  <2>1. s \o <<x>> = Append(s, x) /\ <<x>> \in Seq(S)
    OBVIOUS
  <2>2. Conjoined(op, <<x>>) = x
    BY ConjoinedOne
  <2>3. Conjoined(op, Append(s, x)) = Spaced(op, Conjoined(op, s), x)
    BY ConjoinedAppend
  <2> QED BY <2>1, <2>2, <2>3
<1>2. ASSUME NEW u \in Seq(S) \cap P, NEW x \in S, u # <<>> PROVE Append(u, x) \in P
  <2>1. s \o Append(u, x) = Append(s \o u, x) /\ Append(u, x) \in Seq(S)
    <3> HIDE DEF S, P
    <3>1. s \in Seq(S) /\ u \in Seq(S)
      BY <1>2 DEF S
    <3> QED BY <3>1, AppendConcat
  <2>2. s \o u \in Seq(S) /\ s \o u # <<>>
    OBVIOUS
  <2>3. Conjoined(op, Append(s \o u, x)) = Spaced(op, Conjoined(op, s \o u), x)
    BY <2>2, ConjoinedAppend
  <2>4. Conjoined(op, Append(u, x)) = Spaced(op, Conjoined(op, u), x)
    BY <1>2, ConjoinedAppend
  <2>5. Conjoined(op, s \o u) = Spaced(op, Conjoined(op, s), Conjoined(op, u))
    BY <1>2
  <2>6. Conjoined(op, s) \in S /\ Conjoined(op, u) \in S
    BY <1>2, ConjoinedTyped
  <2>7. \A a, b, c \in S : Spaced(op, Spaced(op, a, b), c) = Spaced(op, a, Spaced(op, b, c))
    BY SpacedRegroup
  <2> HIDE DEF S
  <2>8. Conjoined(op, Append(s \o u, x)) = Spaced(op, Conjoined(op, s), Conjoined(op, Append(u, x)))
    BY <2>3, <2>4, <2>5, <2>6, <2>7
  <2> QED BY <2>1, <2>8
<1>3. t \in P
  <2> HIDE DEF P
  <2> QED BY <1>1, <1>2, ByAppending
<1> QED BY <1>3

LEMMA TokenTyped ==
  ASSUME NEW kind \in {"ident", "lparen", "rparen", "comma", "string", "number"},
         NEW w \in Words, NEW v \in Int
  PROVE  [kind |-> kind, text |-> w, value |-> v] \in Tokens
BY DEF Tokens

LEMMA WordTyped == \A w \in Words : Word(w) \in Tokens
<1>1. 0 \in Int
  OBVIOUS
<1> QED BY <1>1, TokenTyped DEF Word

LEMMA SignsTyped ==
  /\ Open \in Tokens /\ Close \in Tokens /\ Comma \in Tokens
  /\ \A v \in Int : Str(v) \in Tokens /\ Num(v) \in Tokens /\ Bool(v) \in Tokens
<1>1. "" \in Words
  BY WordsAssumption, Zenon
<1>0. "true" \in Words /\ "false" \in Words
  BY WordsAssumption, Zenon
<1>2. 0 \in Int
  OBVIOUS
<1>3. \A w \in Words, v \in Int :
        /\ [kind |-> "lparen", text |-> w, value |-> v] \in Tokens
        /\ [kind |-> "rparen", text |-> w, value |-> v] \in Tokens
        /\ [kind |-> "comma", text |-> w, value |-> v] \in Tokens
        /\ [kind |-> "string", text |-> w, value |-> v] \in Tokens
        /\ [kind |-> "number", text |-> w, value |-> v] \in Tokens
        /\ [kind |-> "ident", text |-> w, value |-> v] \in Tokens
  BY DEF Tokens
<1>4. Open \in Tokens /\ Close \in Tokens /\ Comma \in Tokens
  BY <1>1, <1>2, <1>3, Zenon DEF Open, Close, Comma
<1>5. ASSUME NEW v \in Int PROVE Str(v) \in Tokens /\ Num(v) \in Tokens
  BY <1>1, <1>3, Zenon DEF Str, Num
<1>6. ASSUME NEW v \in Int PROVE Bool(v) \in Tokens
  BY <1>0, <1>3 DEF Bool
<1> QED BY <1>4, <1>5, <1>6

LEMMA LiteralTyped ==
  ASSUME NEW f \in FieldNames, NEW v \in Int \cup {Null}
  PROVE  LiteralToken(f, v) \in Tokens
<1>1. "null" \in Words
  BY WordsAssumption, Zenon
<1>2. CASE v = Null
  BY <1>1, <1>2, WordTyped DEF LiteralToken
<1>3. CASE v # Null
  BY <1>3, SignsTyped DEF LiteralToken
<1> QED BY <1>2, <1>3

LeafText(n) ==
  IF n.node = "none" THEN <<>>
  ELSE IF n.node = "compare"
       THEN <<Word(n.field), Word(n.op), LiteralToken(n.field, n.value)>>
  ELSE <<Word(n.op), Open, Word(n.field), Comma, LiteralToken(n.field, n.value), Close>>

LEMMA LeafTextTyped ==
  ASSUME NEW n \in LeafNodes
  PROVE  LeafText(n) \in Seq(Tokens)
<1>1. CASE n.node = "none"
  BY <1>1 DEF LeafText
<1>2. CASE n.node # "none"
  <2>1. /\ n.op \in Comparisons \cup Functions3 /\ n.field \in FieldNames
        /\ n.value \in Int \cup {Null}
    BY <1>2, LeafShape
  <2>2. n.op \in Words /\ n.field \in Words
    <3>1. Comparisons \cup Functions3 \subseteq Words /\ FieldNames \subseteq Words
      BY WordsAssumption, QueryAssumption, Zenon
    <3> QED BY <2>1, <3>1
  <2>3. Word(n.op) \in Tokens /\ Word(n.field) \in Tokens
    BY <2>2, WordTyped
  <2>4. LiteralToken(n.field, n.value) \in Tokens
    BY <2>1, LiteralTyped
  <2>5. Open \in Tokens /\ Close \in Tokens /\ Comma \in Tokens
    BY SignsTyped
  <2> DEFINE a == Word(n.op)
             b == Word(n.field)
             c == LiteralToken(n.field, n.value)
  <2> HIDE DEF a, b, c
  <2>6. <<b, a, c>> \in Seq(Tokens) /\ <<a, Open, b, Comma, c, Close>> \in Seq(Tokens)
    BY <2>3, <2>4, <2>5 DEF a, b, c
  <2> QED BY <1>2, <2>6 DEF LeafText, a, b, c
<1> QED BY <1>1, <1>2

Binds(op) == IF op = "or" THEN 1 ELSE 2

Texts(f, nodes, outer) == [i \in DOMAIN nodes |-> f[nodes[i]][outer]]

TextOf(f, n, outer) == RenderedIn(n, outer, f)

LEMMA TextOfLeaf ==
  ASSUME NEW f, NEW n \in LeafNodes, NEW outer \in 0..3
  PROVE  TextOf(f, n, outer) = LeafText(n)
<1>1. \/ n.node = "none"
      \/ n.node = "compare"
      \/ n.node = "function"
  BY LeafShape
<1> QED BY <1>1 DEF TextOf, RenderedIn, LeafText

LEMMA TextOfNot ==
  ASSUME NEW f, NEW n, n.node = "not", NEW outer \in 0..3
  PROVE  TextOf(f, n, outer) = <<Word("not")>> \o f[n.child][3]
BY Zenon DEF TextOf, RenderedIn

LEMMA TextOfLogic ==
  ASSUME NEW f, NEW n, n.node = "logic", NEW outer \in 0..3
  PROVE  TextOf(f, n, outer) = RenderLogic(n.op, Texts(f, n.children, Binds(n.op)), outer)
BY DEF TextOf, RenderedIn, Texts, Binds

LEMMA TextOfAll ==
  ASSUME NEW f, NEW n
  PROVE  Rendered(n, f) = [outer \in 0..3 |-> TextOf(f, n, outer)]
BY Zenon DEF TextOf, Rendered

LEMMA RenderLogicTyped ==
  ASSUME NEW op \in {"and", "or"}, NEW texts \in Seq(Seq(Tokens)), texts # <<>>, NEW outer
  PROVE  RenderLogic(op, texts, outer) \in Seq(Tokens)
<1>1. Conjoined(op, texts) \in Seq(Tokens)
  BY ConjoinedTyped
<1>2. \A t \in Seq(Tokens) : Parenthesised(t) \in Seq(Tokens)
  BY SignsTyped DEF Parenthesised
<1> QED BY <1>1, <1>2 DEF RenderLogic

LEMMA TextsTyped ==
  ASSUME NEW nodes \in Seq(FilterTrees), NEW f,
         \A n \in FilterTrees : f[n] \in [0..3 -> Seq(Tokens)], NEW outer \in 0..3
  PROVE  Texts(f, nodes, outer) \in Seq(Seq(Tokens)) /\ Len(Texts(f, nodes, outer)) = Len(nodes)
<1> DEFINE L == Len(nodes)
           X == Seq(Tokens)
<1>1. L \in Nat /\ DOMAIN nodes = 1..L /\ \A i \in 1..L : nodes[i] \in FilterTrees
  OBVIOUS
<1>2. \A i \in 1..L : f[nodes[i]][outer] \in X
  BY <1>1
<1> HIDE DEF X, L
<1>3. Texts(f, nodes, outer) = [i \in 1..L |-> f[nodes[i]][outer]]
  BY <1>1 DEF Texts
<1>4. [i \in 1..L |-> f[nodes[i]][outer]] \in Seq(X)
  BY <1>1, <1>2
<1>5. Len([i \in 1..L |-> f[nodes[i]][outer]]) = L
  BY <1>1
<1> QED BY <1>3, <1>4, <1>5 DEF X, L

LEMMA LeavesAreTrees == LeafNodes \subseteq FilterTrees
<1>1. MaxFilterLength \in 0..MaxFilterLength /\ 0 \in 0..MaxFilterLength
  BY QueryAssumption
<1>2. Trees[0] \subseteq Trees[MaxFilterLength]
  BY <1>1, TreesWiden
<1> QED BY <1>2, TreesGrow DEF FilterTrees

LEMMA LogicShape ==
  ASSUME NEW n \in FilterTrees, n.node = "logic"
  PROVE  n.op \in {"and", "or"} /\ n.children \in Long(FilterTrees)
<1>1. n \notin LeafNodes
  BY LeafShape
<1> QED BY <1>1, FilterShape

LEMMA RenderSteps ==
  /\ \A n \in FilterTrees : Render[n] \in [0..3 -> Seq(Tokens)]
  /\ \A n \in FilterTrees, outer \in 0..3 : Render[n][outer] = TextOf(Render, n, outer)
<1> DEFINE V == [0..3 -> Seq(Tokens)]
           leaf == [n \in LeafNodes |-> [outer \in 0..3 |-> LeafText(n)]]
           neg == [v \in V |-> [outer \in 0..3 |-> <<Word("not")>> \o v[3]]]
           texts(s, op) == [i \in DOMAIN s |-> s[i][Binds(op)]]
           logic == [op \in {"and", "or"} |-> [s \in Long(V) |->
                       [outer \in 0..3 |-> RenderLogic(op, texts(s, op), outer)]]]
           body(f) == [n \in FilterTrees |-> Rendered(n, f)]
<1>1. leaf \in [LeafNodes -> V]
  BY LeafTextTyped
<1>2. neg \in [V -> V]
  <2>1. "not" \in Words
    BY WordsAssumption, Zenon
  <2>2. Word("not") \in Tokens
    BY <2>1, WordTyped
  <2>3. \A t \in Seq(Tokens) : <<Word("not")>> \o t \in Seq(Tokens)
    BY <2>2
  <2> QED BY <2>3
<1>3. logic \in [{"and", "or"} -> [Long(V) -> V]]
  <2> DEFINE at(op, s) == [outer \in 0..3 |-> RenderLogic(op, texts(s, op), outer)]
  <2>1. ASSUME NEW op \in {"and", "or"}, NEW s \in Long(V) PROVE at(op, s) \in V
    <3>1. Binds(op) \in 0..3
      BY DEF Binds
    <3> DEFINE X == Seq(Tokens)
               L == Len(s)
    <3>2. L \in Nat /\ L > 1 /\ DOMAIN s = 1..L /\ \A i \in 1..L : s[i] \in V
      BY DEF Long
    <3>3. \A i \in 1..L : s[i][Binds(op)] \in X
      BY <3>1, <3>2
    <3> HIDE DEF X, L
    <3>4. texts(s, op) \in Seq(X) /\ Len(texts(s, op)) = L
      BY <3>2, <3>3
    <3> HIDE DEF texts
    <3>5. texts(s, op) # <<>>
      BY <3>2, <3>4
    <3>6. texts(s, op) \in Seq(Seq(Tokens))
      BY <3>4 DEF X
    <3> QED BY <3>5, <3>6, RenderLogicTyped
  <2> HIDE DEF V, at
  <2>2. \A op \in {"and", "or"} : [s \in Long(V) |-> at(op, s)] \in [Long(V) -> V]
    BY <2>1
  <2>3. [op \in {"and", "or"} |-> [s \in Long(V) |-> at(op, s)]] \in [{"and", "or"} -> [Long(V) -> V]]
    BY <2>2
  <2> QED BY <2>3, Zenon DEF at
<1>4. PICK f \in [FilterTrees -> V] :
        \A n \in FilterTrees : f[n] = Combine(f, n, leaf, neg, logic)
  <2> HIDE DEF leaf, neg, logic, V
  <2> QED BY <1>1, <1>2, <1>3, TreeRecursion
<1>5. ASSUME NEW n \in FilterTrees
      PROVE  f[n] = [outer \in 0..3 |-> TextOf(f, n, outer)]
  <2>3. CASE n \in LeafNodes
    <3>1. n.node # "not" /\ n.node # "logic"
      BY <2>3, LeafShape
    <3>2. Combine(f, n, leaf, neg, logic) = leaf[n]
      BY <3>1, Zenon DEF Combine
    <3>3. \A outer \in 0..3 : TextOf(f, n, outer) = LeafText(n)
      BY <2>3, TextOfLeaf
    <3>4. leaf[n] = [outer \in 0..3 |-> LeafText(n)]
      BY <2>3
    <3>5. f[n] = leaf[n]
      BY <1>4, <3>2, Zenon
    <3> HIDE DEF leaf
    <3> QED BY <3>3, <3>4, <3>5
  <2>4. CASE n.node = "not" /\ n.child \in FilterTrees
    <3>1. Combine(f, n, leaf, neg, logic) = neg[f[n.child]]
      BY <2>4, Zenon DEF Combine
    <3>2. \A outer \in 0..3 : TextOf(f, n, outer) = <<Word("not")>> \o f[n.child][3]
      BY <2>4, TextOfNot, Zenon
    <3>3. f[n.child] \in V
      BY <1>4, <2>4
    <3>4. neg[f[n.child]] = [outer \in 0..3 |-> <<Word("not")>> \o f[n.child][3]]
      BY <3>3
    <3>5. f[n] = [outer \in 0..3 |-> <<Word("not")>> \o f[n.child][3]]
      BY <1>4, <3>1, <3>4, Zenon
    <3> QED BY <3>2, <3>5
  <2>5. CASE n.node = "logic" /\ n.op \in {"and", "or"} /\ n.children \in Long(FilterTrees)
    <3> DEFINE s == [i \in DOMAIN n.children |-> f[n.children[i]]]
    <3>1. n.node # "not"
      BY <2>5
    <3>2. Combine(f, n, leaf, neg, logic) = logic[n.op][s]
      BY <2>5, <3>1, Zenon DEF Combine
    <3>3. s \in Long(V)
      <4>1. n.children \in Seq(FilterTrees) /\ Len(n.children) > 1
        BY <2>5 DEF Long
      <4>2. \A m \in FilterTrees : f[m] \in V
        BY <1>4
      <4> HIDE DEF V
      <4>3. s \in Seq(V) /\ Len(s) = Len(n.children)
        BY <4>1, <4>2, ImagesTyped
      <4> QED BY <4>1, <4>3 DEF Long
    <3>4. texts(s, n.op) = Texts(f, n.children, Binds(n.op))
      <4>1. \A i \in DOMAIN n.children : s[i] = f[n.children[i]]
        OBVIOUS
      <4>2. DOMAIN s = DOMAIN n.children
        OBVIOUS
      <4> HIDE DEF s
      <4> QED BY <4>1, <4>2, Zenon DEF Texts
    <3>8. n.node = "logic"
      BY <2>5
    <3>7. \A outer \in 0..3 :
            TextOf(f, n, outer) = RenderLogic(n.op, Texts(f, n.children, Binds(n.op)), outer)
      BY <3>8, TextOfLogic, Zenon
    <3> HIDE DEF s, V, texts
    <3>5. \A outer \in 0..3 : TextOf(f, n, outer) = RenderLogic(n.op, texts(s, n.op), outer)
      BY <3>4, <3>7, Zenon
    <3>6. logic[n.op][s] = [outer \in 0..3 |-> RenderLogic(n.op, texts(s, n.op), outer)]
      BY <2>5, <3>3
    <3> HIDE DEF logic
    <3> QED BY <1>4, <3>2, <3>5, <3>6
  <2> QED BY <2>3, <2>4, <2>5, FilterShape
<1>6. f = body(f)
  <2> HIDE DEF V
  <2>1. f = [n \in FilterTrees |-> f[n]]
    BY <1>4
  <2>2. body(f) = [n \in FilterTrees |-> f[n]]
    BY <1>5, TextOfAll
  <2> QED BY <2>1, <2>2
<1> DEFINE g == CHOOSE h : h = body(h)
<1>7. g = body(g)
  <2> HIDE DEF body
  <2> QED BY <1>6, Zenon
<1>8. Render = g
  BY Zenon DEF Render
<1> HIDE DEF g
<1>9. \A n \in FilterTrees : Render[n] = Rendered(n, Render)
  BY <1>7, <1>8, Zenon
<1>11. \A n \in FilterTrees : Render[n] = [outer \in 0..3 |-> TextOf(Render, n, outer)]
  BY <1>9, TextOfAll
<1>10. \A n \in FilterTrees, outer \in 0..3 : Render[n][outer] = TextOf(Render, n, outer)
  BY <1>11
<1>12. FilterTrees \subseteq {n \in FilterTrees : Render[n] \in V}
  <2> DEFINE P == {n \in FilterTrees : Render[n] \in V}
  <2>1. LeafNodes \subseteq P
    <3>1. LeafNodes \subseteq FilterTrees
      BY LeavesAreTrees
    <3>2. ASSUME NEW n \in LeafNodes PROVE Render[n] \in V
      <4>1. \A outer \in 0..3 : TextOf(Render, n, outer) \in Seq(Tokens)
        BY TextOfLeaf, LeafTextTyped
      <4> QED BY <1>11, <3>1, <4>1
    <3> QED BY <3>1, <3>2
  <2>2. ASSUME NEW n \in FilterTrees, n.node = "not", n.child \in P PROVE n \in P
    <3>1. "not" \in Words
      BY WordsAssumption, Zenon
    <3>2. Word("not") \in Tokens /\ Render[n.child][3] \in Seq(Tokens)
      BY <2>2, <3>1, WordTyped
    <3>3. <<Word("not")>> \o Render[n.child][3] \in Seq(Tokens)
      BY <3>2
    <3>5. n.node = "not"
      BY <2>2
    <3>6. \A outer \in 0..3 : TextOf(Render, n, outer) = <<Word("not")>> \o Render[n.child][3]
      BY <3>5, TextOfNot, Zenon
    <3>4. \A outer \in 0..3 : TextOf(Render, n, outer) \in Seq(Tokens)
      <4> DEFINE X == Seq(Tokens)
                 t == <<Word("not")>> \o Render[n.child][3]
      <4>1. t \in X
        BY <3>3
      <4> HIDE DEF t, X
      <4>3. \A outer \in 0..3 : TextOf(Render, n, outer) = t
        BY <3>6, Zenon DEF t
      <4>2. \A outer \in 0..3 : TextOf(Render, n, outer) \in X
        BY <4>1, <4>3
      <4> QED BY <4>2 DEF X
    <3>7. [outer \in 0..3 |-> TextOf(Render, n, outer)] \in V
      BY <3>4
    <3>8. Render[n] \in V
      BY <1>11, <3>7, Zenon
    <3> QED BY <3>8
  <2>3. ASSUME NEW n \in FilterTrees, n.node = "logic", n.children \in Long(FilterTrees \cap P)
        PROVE  n \in P
    <3> DEFINE texts2 == Texts(Render, n.children, Binds(n.op))
    <3>1. n.op \in {"and", "or"}
      BY <2>3, LogicShape
    <3>2. texts2 \in Seq(Seq(Tokens)) /\ texts2 # <<>>
      <4> DEFINE X == Seq(Tokens)
                 L == Len(n.children)
      <4>1. /\ L \in Nat /\ L > 1 /\ DOMAIN n.children = 1..L
            /\ \A i \in 1..L : n.children[i] \in P
        <5> DEFINE Q == FilterTrees \cap P
        <5>1. n.children \in Seq(Q) /\ L > 1
          BY <2>3, Zenon DEF Long
        <5>2. Q \subseteq P
          OBVIOUS
        <5> DEFINE c == n.children
        <5> HIDE DEF Q, P, c
        <5>3. c \in Seq(Q) /\ Len(c) > 1
          BY <5>1 DEF c
        <5>4. Len(c) \in Nat /\ DOMAIN c = 1..Len(c) /\ \A i \in 1..Len(c) : c[i] \in Q
          BY <5>3
        <5> QED BY <5>2, <5>3, <5>4 DEF c
      <4>2. Binds(n.op) \in 0..3
        BY DEF Binds
      <4>3. \A i \in 1..L : Render[n.children[i]][Binds(n.op)] \in X
        BY <4>1, <4>2
      <4> HIDE DEF X, L
      <4>6. texts2 = [i \in DOMAIN n.children |-> Render[n.children[i]][Binds(n.op)]]
        BY Zenon DEF Texts
      <4>7. DOMAIN n.children = 1..L
        BY <4>1
      <4>4. texts2 = [i \in 1..L |-> Render[n.children[i]][Binds(n.op)]]
        BY <4>6, <4>7, Zenon
      <4> HIDE DEF texts2
      <4>9. /\ [i \in 1..L |-> Render[n.children[i]][Binds(n.op)]] \in Seq(X)
            /\ Len([i \in 1..L |-> Render[n.children[i]][Binds(n.op)]]) = L
        <5> DEFINE rd(i) == Render[n.children[i]][Binds(n.op)]
        <5>1. \A i \in 1..L : rd(i) \in X
          BY <4>3
        <5> HIDE DEF rd
        <5>3. L \in Nat
          BY <4>1
        <5>2. [i \in 1..L |-> rd(i)] \in Seq(X)
          BY <5>1, <5>3
        <5>4. Len([i \in 1..L |-> rd(i)]) = L
          BY <5>3
        <5> QED BY <5>2, <5>4 DEF rd
      <4>5. texts2 \in Seq(X) /\ Len(texts2) = L
        BY <4>4, <4>9, Zenon
      <4>8. texts2 # <<>>
        BY <4>1, <4>5
      <4> QED BY <4>5, <4>8 DEF X
    <3>3. \A outer \in 0..3 : TextOf(Render, n, outer) = RenderLogic(n.op, texts2, outer)
      BY <2>3, TextOfLogic, Zenon
    <3> HIDE DEF texts2
    <3>4. \A outer \in 0..3 : TextOf(Render, n, outer) \in Seq(Tokens)
      BY <3>1, <3>2, <3>3, RenderLogicTyped
    <3> QED BY <1>11, <3>4
  <2> HIDE DEF P
  <2>4. FilterTrees \subseteq P
    BY <2>1, <2>2, <2>3, TreeInduction
  <2> QED BY <2>4 DEF P
<1> QED BY <1>10, <1>12

-----------------------------------------------------------------------------
(* The size of a filter.                                                   *)
Sums(f, s) ==
  /\ f \in [0..Len(s) -> Nat]
  /\ f[0] = 0
  /\ \A i \in 1..Len(s) : f[i] = f[i - 1] + s[i]

LEMMA TotalSteps ==
  ASSUME NEW s \in Seq(Nat)
  PROVE  \E f : Sums(f, s) /\ Total(s) = f[Len(s)]
<1> DEFINE N == Len(s)
           step == [p \in (1..N) \X Nat |-> p[2] + s[p[1]]]
           total(f) == [i \in 0..N |-> IF i = 0 THEN 0 ELSE f[i - 1] + s[i]]
<1>1. N \in Nat /\ \A i \in 1..N : s[i] \in Nat
  OBVIOUS
<1>2. step \in [(1..N) \X Nat -> Nat]
  <2> HIDE DEF N
  <2> QED BY <1>1
<1>3. 0 \in Nat
  OBVIOUS
<1>4. PICK f : Iterates(f, Nat, N, 0, step)
  <2> HIDE DEF step, N
  <2> QED BY <1>1, <1>2, <1>3, Iterated, Zenon
<1>5. f \in [0..N -> Nat] /\ f[0] = 0 /\ \A i \in 1..N : f[i] = step[<<i, f[i - 1]>>]
  <2> HIDE DEF step, N
  <2> QED BY <1>4 DEF Iterates
<1>6. \A i \in 1..N : f[i - 1] \in Nat /\ f[i] = f[i - 1] + s[i]
  <2> SUFFICES ASSUME NEW i \in 1..N PROVE f[i - 1] \in Nat /\ f[i] = f[i - 1] + s[i]
    OBVIOUS
  <2>1. f[i - 1] \in Nat
    BY <1>1, <1>5
  <2>2. \A v \in Nat : step[<<i, v>>] = v + s[i]
    OBVIOUS
  <2> HIDE DEF step
  <2> QED BY <1>5, <2>1, <2>2
<1>7. f = total(f)
  <2>1. \A i \in 0..N : f[i] = total(f)[i]
    <3> HIDE DEF step
    <3>1. \A i \in 0..N : i = 0 \/ i \in 1..N
      BY <1>1
    <3> HIDE DEF N
    <3> QED BY <1>5, <1>6, <3>1
  <2> HIDE DEF total
  <2>2. total(f) = [i \in 0..N |-> total(f)[i]]
    BY DEF total
  <2> QED BY <1>5, <2>1, <2>2
<1> DEFINE g == CHOOSE h : h = total(h)
<1>8. g = total(g)
  <2> HIDE DEF total
  <2> QED BY <1>7, Zenon
<1>9. Total(s) = g[N]
  BY Zenon DEF Total
<1>10. \A i \in 0..N : g[i] = f[i]
  <2> DEFINE T == {i \in 0..N : g[i] = f[i]}
  <2>0. g[0] = 0 /\ \A i \in 1..N : g[i] = g[i - 1] + s[i]
    <3> HIDE DEF g
    <3>1. \A i \in 0..N : g[i] = IF i = 0 THEN 0 ELSE g[i - 1] + s[i]
      BY <1>8
    <3> QED BY <1>1, <3>1
  <2> HIDE DEF g
  <2>1. 0 \in T
    BY <1>1, <1>5, <2>0
  <2>2. ASSUME NEW i \in 1..N, i - 1 \in T PROVE i \in T
    BY <1>1, <1>6, <2>0, <2>2
  <2>3. \A i \in 0..N : i \in T
    <3> HIDE DEF T, N
    <3> QED BY <1>1, <2>1, <2>2, UpToN
  <2> QED BY <2>3
<1>11. Sums(f, s)
  BY <1>5, <1>6 DEF Sums
<1>12. Total(s) = f[N]
  <2> HIDE DEF g
  <2> QED BY <1>1, <1>9, <1>10
<1> QED BY <1>11, <1>12

LEMMA TotalTyped ==
  ASSUME NEW s \in Seq(Nat)
  PROVE  Total(s) \in Nat
<1>1. PICK f : Sums(f, s) /\ Total(s) = f[Len(s)]
  BY TotalSteps
<1>2. Len(s) \in 0..Len(s)
  OBVIOUS
<1> QED BY <1>1, <1>2 DEF Sums

LEMMA TotalAppend ==
  ASSUME NEW s \in Seq(Nat), NEW x \in Nat
  PROVE  Total(Append(s, x)) = Total(s) + x
<1> DEFINE n == Len(s)
           t == Append(s, x)
<1>1. /\ n \in Nat /\ t \in Seq(Nat) /\ Len(t) = n + 1 /\ t[n + 1] = x
      /\ \A i \in 1..n : t[i] = s[i]
  OBVIOUS
<1>2. PICK f : Sums(f, s) /\ Total(s) = f[n]
  BY TotalSteps
<1> HIDE DEF t
<1>3. PICK g : Sums(g, t) /\ Total(t) = g[Len(t)]
  BY <1>1, TotalSteps
<1> HIDE DEF n
<1>4. /\ f[0] = 0 /\ g[0] = 0
      /\ \A i \in 1..n : f[i] = f[i - 1] + s[i]
      /\ \A i \in 1..(n + 1) : g[i] = g[i - 1] + t[i]
  BY <1>1, <1>2, <1>3 DEF Sums, n
<1> DEFINE T == {i \in 0..n : g[i] = f[i]}
<1>5. 0 \in T
  BY <1>1, <1>4
<1>6. ASSUME NEW i \in 1..n, i - 1 \in T PROVE i \in T
  <2>1. i \in 0..n /\ i \in 1..(n + 1)
    BY <1>1
  <2>2. g[i - 1] = f[i - 1] /\ t[i] = s[i]
    BY <1>1, <1>6
  <2>3. g[i] = f[i]
    BY <1>4, <2>1, <2>2
  <2> QED BY <2>1, <2>3
<1>7. \A i \in 0..n : i \in T
  <2> HIDE DEF T
  <2> QED BY <1>1, <1>5, <1>6, UpToN
<1>8. g[n] = f[n] /\ n + 1 \in 1..(n + 1) /\ (n + 1) - 1 = n
  BY <1>1, <1>7
<1>9. g[n + 1] = g[(n + 1) - 1] + t[n + 1]
  BY <1>4, <1>8
<1> QED BY <1>1, <1>2, <1>3, <1>8, <1>9 DEF t

LEMMA TotalNone == Total(<<>>) = 0
<1>1. <<>> \in Seq(Nat)
  OBVIOUS
<1>2. PICK f : Sums(f, <<>>) /\ Total(<<>>) = f[Len(<<>>)]
  BY <1>1, TotalSteps, Zenon
<1>3. Len(<<>>) = 0
  OBVIOUS
<1>4. f[0] = 0
  BY <1>2 DEF Sums
<1> QED BY <1>2, <1>3, <1>4, Zenon

LEMMA TotalOne ==
  ASSUME NEW x \in Nat
  PROVE  Total(<<x>>) = x
<1>1. <<>> \in Seq(Nat) /\ Append(<<>>, x) = <<x>>
  OBVIOUS
<1>2. Total(Append(<<>>, x)) = Total(<<>>) + x
  BY <1>1, TotalAppend
<1> QED BY <1>1, <1>2, TotalNone

LEMMA TotalConcat ==
  ASSUME NEW s \in Seq(Nat), NEW t \in Seq(Nat), t # <<>>
  PROVE  Total(s \o t) = Total(s) + Total(t)
<1> DEFINE P == {u \in Seq(Nat) : Total(s \o u) = Total(s) + Total(u)}
<1>1. ASSUME NEW x \in Nat PROVE <<x>> \in P
  <2>1. s \o <<x>> = Append(s, x) /\ <<x>> \in Seq(Nat)
    OBVIOUS
  <2>2. Total(Append(s, x)) = Total(s) + x
    BY TotalAppend
  <2>3. Total(<<x>>) = x
    BY TotalOne
  <2> QED BY <2>1, <2>2, <2>3
<1>2. ASSUME NEW u \in Seq(Nat) \cap P, NEW x \in Nat, u # <<>> PROVE Append(u, x) \in P
  <2>1. s \o Append(u, x) = Append(s \o u, x) /\ Append(u, x) \in Seq(Nat)
    <3> HIDE DEF P
    <3>1. u \in Seq(Nat)
      BY <1>2
    <3> QED BY <3>1, AppendConcat
  <2>2. s \o u \in Seq(Nat)
    BY <1>2
  <2>3. Total(Append(s \o u, x)) = Total(s \o u) + x
    BY <2>2, TotalAppend
  <2>4. Total(Append(u, x)) = Total(u) + x
    BY <1>2, TotalAppend
  <2>5. Total(s \o u) = Total(s) + Total(u)
    BY <1>2
  <2>6. Total(s) \in Nat /\ Total(u) \in Nat
    BY <1>2, TotalTyped
  <2>7. Total(Append(s \o u, x)) = Total(s) + Total(Append(u, x))
    <3> DEFINE a == Total(s)
               b == Total(u)
    <3> HIDE DEF a, b
    <3>1. a \in Nat /\ b \in Nat /\ Total(s \o u) = a + b
      BY <2>5, <2>6 DEF a, b
    <3>2. Total(Append(u, x)) = b + x
      BY <2>4 DEF b
    <3>3. (a + b) + x = a + (b + x)
      BY <3>1
    <3>4. Total(Append(s \o u, x)) = (a + b) + x
      BY <2>3, <3>1, Zenon
    <3> QED BY <3>2, <3>3, <3>4, Zenon DEF a
  <2> QED BY <2>1, <2>7
<1>3. t \in P
  <2> HIDE DEF P
  <2> QED BY <1>1, <1>2, ByAppending
<1> QED BY <1>3

Images(f, s) == [i \in DOMAIN s |-> f[s[i]]]

LEMMA ImagesOne ==
  ASSUME NEW f, NEW x
  PROVE  Images(f, <<x>>) = <<f[x]>>
BY DEF Images

LEMMA ImagesSeq ==
  ASSUME NEW S, NEW V, NEW f, \A x \in S : f[x] \in V, NEW s \in Seq(S)
  PROVE  Images(f, s) \in Seq(V)
<1>1. [i \in DOMAIN s |-> f[s[i]]] \in Seq(V)
  BY ImagesTyped
<1> QED BY <1>1, Zenon DEF Images

LEMMA ImagesLen ==
  ASSUME NEW S, NEW s \in Seq(S), NEW f
  PROVE  Len(Images(f, s)) = Len(s)
<1>1. Len(s) \in Nat /\ DOMAIN s = 1..Len(s)
  OBVIOUS
<1>2. DOMAIN Images(f, s) = DOMAIN s
  BY DEF Images
<1>3. Images(f, s) = [i \in 1..Len(s) |-> f[s[i]]]
  BY <1>1, Zenon DEF Images
<1> DEFINE L == Len(s)
<1> HIDE DEF L
<1>4. L \in Nat
  BY <1>1 DEF L
<1>5. Len([i \in 1..L |-> f[s[i]]]) = L
  BY <1>4
<1> QED BY <1>3, <1>5, Zenon DEF L

Distributes(f, s, t) == Images(f, s \o t) = Images(f, s) \o Images(f, t)

LEMMA ImagesConcat ==
  ASSUME NEW S, NEW V, NEW f, \A x \in S : f[x] \in V, NEW s \in Seq(S), NEW t \in Seq(S)
  PROVE  Distributes(f, s, t)
<1> DEFINE m == Len(s)
           n == Len(t)
           u == s \o t
           a == Images(f, s)
           b == Images(f, t)
           c == Images(f, u)
<1>1. /\ m \in Nat /\ n \in Nat /\ u \in Seq(S) /\ Len(u) = m + n
      /\ \A i \in 1..m : u[i] = s[i]
      /\ \A i \in 1..n : u[m + i] = t[i]
      /\ DOMAIN s = 1..m /\ DOMAIN t = 1..n /\ DOMAIN u = 1..(m + n)
  <2>1. m \in Nat /\ n \in Nat /\ u \in Seq(S) /\ Len(u) = m + n
    OBVIOUS
  <2>2. \A i \in 1..m : u[i] = s[i]
    OBVIOUS
  <2>3. \A i \in 1..n : u[m + i] = t[i]
    OBVIOUS
  <2>4. DOMAIN s = 1..m /\ DOMAIN t = 1..n /\ DOMAIN u = 1..(m + n)
    BY <2>1
  <2> QED BY <2>1, <2>2, <2>3, <2>4
<1>2. /\ a \in Seq(V) /\ Len(a) = m /\ \A i \in 1..m : a[i] = f[s[i]]
      /\ b \in Seq(V) /\ Len(b) = n /\ \A i \in 1..n : b[i] = f[t[i]]
  <2>1. a \in Seq(V) /\ Len(a) = m /\ b \in Seq(V) /\ Len(b) = n
    BY ImagesSeq, ImagesLen
  <2>2. \A i \in 1..m : a[i] = f[s[i]]
    BY <1>1 DEF Images
  <2>3. \A i \in 1..n : b[i] = f[t[i]]
    BY <1>1 DEF Images
  <2> QED BY <2>1, <2>2, <2>3
<1>3. c = [i \in 1..(m + n) |-> f[u[i]]]
  BY <1>1, Zenon DEF Images
<1> HIDE DEF m, n, u, a, b, c
<1>4. /\ a \o b \in Seq(V) /\ Len(a \o b) = m + n
      /\ \A i \in 1..(m + n) : (a \o b)[i] = IF i <= m THEN a[i] ELSE b[i - m]
  <2>1. a \in Seq(V) /\ b \in Seq(V) /\ Len(a) = m /\ Len(b) = n
    BY <1>2
  <2>2. a \o b \in Seq(V)
    BY <2>1, ConcatProperties
  <2>3. Len(a \o b) = Len(a) + Len(b)
    BY <2>1, ConcatProperties
  <2>4. \A i \in 1..(Len(a) + Len(b)) : (a \o b)[i] = IF i <= Len(a) THEN a[i] ELSE b[i - Len(a)]
    BY <2>1, ConcatProperties
  <2> QED BY <2>1, <2>2, <2>3, <2>4, Zenon
<1>5. ASSUME NEW i \in 1..(m + n) PROVE (a \o b)[i] = f[u[i]]
  <2>1. CASE i <= m
    <3>1. i \in 1..m
      BY <1>1, <2>1
    <3> QED BY <1>1, <1>2, <1>4, <2>1, <3>1
  <2>2. CASE ~(i <= m)
    <3>1. i - m \in 1..n /\ m + (i - m) = i
      BY <1>1, <2>2
    <3>2. b[i - m] = f[t[i - m]] /\ u[m + (i - m)] = t[i - m]
      BY <1>1, <1>2, <3>1
    <3> QED BY <1>4, <2>2, <3>1, <3>2
  <2> QED BY <2>1, <2>2
<1>6. a \o b = [i \in 1..(m + n) |-> (a \o b)[i]]
  <2> DEFINE d == a \o b
             e == m + n
  <2>1. d \in Seq(V) /\ Len(d) = e
    BY <1>4
  <2> HIDE DEF d, e
  <2>2. d = [i \in 1..e |-> d[i]]
    BY <2>1
  <2> QED BY <2>2 DEF d, e
<1>7. a \o b = c
  BY <1>3, <1>5, <1>6
<1> QED BY <1>7, Zenon DEF a, b, c, u, Distributes

-----------------------------------------------------------------------------
(* The size of a filter and of the operands of a chain.                    *)
Weight(ops) == Total(Images(Size, ops))

LEMMA SizeSteps ==
  \A n \in FilterTrees :
    /\ Size[n] \in Nat
    /\ n.node = "not" => Size[n] = 1 + Size[n.child]
    /\ n.node = "logic" => Size[n] = 1 + Weight(n.children)
<1> DEFINE V == Nat
           leaf == [m \in LeafNodes |-> IF m.node = "none" THEN 0 ELSE 1]
           neg == [v \in V |-> 1 + v]
           logic == [op \in {"and", "or"} |-> [s \in Long(V) |-> 1 + Total(s)]]
           node(f, m) ==
             CASE m.node = "logic" -> 1 + Total([i \in DOMAIN m.children |-> f[m.children[i]]])
               [] m.node = "not"   -> 1 + f[m.child]
               [] m.node = "none"  -> 0
               [] OTHER            -> 1
           body(f) == [m \in FilterTrees |-> node(f, m)]
<1>1. leaf \in [LeafNodes -> V]
  OBVIOUS
<1>2. neg \in [V -> V]
  OBVIOUS
<1>3. logic \in [{"and", "or"} -> [Long(V) -> V]]
  <2> DEFINE all(s) == 1 + Total(s)
  <2>1. \A s \in Long(V) : all(s) \in V
    <3> SUFFICES ASSUME NEW s \in Long(V) PROVE all(s) \in V
      OBVIOUS
    <3>1. s \in Seq(Nat)
      BY DEF Long
    <3>2. Total(s) \in Nat
      BY <3>1, TotalTyped
    <3> QED BY <3>2
  <2> HIDE DEF V, all
  <2>2. [s \in Long(V) |-> all(s)] \in [Long(V) -> V]
    BY <2>1
  <2>3. [op \in {"and", "or"} |-> [s \in Long(V) |-> all(s)]] \in [{"and", "or"} -> [Long(V) -> V]]
    BY <2>2
  <2> QED BY <2>3, Zenon DEF all
<1>4. PICK f \in [FilterTrees -> V] :
        \A m \in FilterTrees : f[m] = Combine(f, m, leaf, neg, logic)
  <2> HIDE DEF leaf, neg, logic, V
  <2> QED BY <1>1, <1>2, <1>3, TreeRecursion
<1>5. ASSUME NEW m \in FilterTrees PROVE f[m] = node(f, m)
  <2>1. CASE m \in LeafNodes
    <3>1. m.node # "not" /\ m.node # "logic"
      BY <2>1, LeafShape
    <3>2. Combine(f, m, leaf, neg, logic) = leaf[m]
      BY <3>1, Zenon DEF Combine
    <3>3. leaf[m] = IF m.node = "none" THEN 0 ELSE 1
      BY <2>1
    <3> QED BY <1>4, <3>1, <3>2, <3>3
  <2>2. CASE m.node = "not" /\ m.child \in FilterTrees
    <3>1. Combine(f, m, leaf, neg, logic) = neg[f[m.child]]
      BY <2>2, Zenon DEF Combine
    <3>2. neg[f[m.child]] = 1 + f[m.child]
      BY <1>4, <2>2
    <3> QED BY <1>4, <2>2, <3>1, <3>2
  <2>3. CASE m.node = "logic" /\ m.op \in {"and", "or"} /\ m.children \in Long(FilterTrees)
    <3> DEFINE s == [i \in DOMAIN m.children |-> f[m.children[i]]]
    <3>1. m.node # "not"
      BY <2>3
    <3>2. Combine(f, m, leaf, neg, logic) = logic[m.op][s]
      BY <2>3, <3>1, Zenon DEF Combine
    <3>3. s \in Long(V)
      <4>1. m.children \in Seq(FilterTrees) /\ Len(m.children) > 1
        BY <2>3 DEF Long
      <4>2. \A x \in FilterTrees : f[x] \in V
        BY <1>4
      <4> HIDE DEF V
      <4>3. s \in Seq(V) /\ Len(s) = Len(m.children)
        BY <4>1, <4>2, ImagesTyped
      <4> QED BY <4>1, <4>3 DEF Long
    <3>6. node(f, m) = 1 + Total(s)
      BY <2>3
    <3> HIDE DEF s, V
    <3>5. logic[m.op][s] = 1 + Total(s)
      BY <2>3, <3>3
    <3> HIDE DEF logic, node
    <3> QED BY <1>4, <3>2, <3>5, <3>6
  <2> QED BY <2>1, <2>2, <2>3, FilterShape
<1>6. f = body(f)
  <2> HIDE DEF V, node
  <2> QED BY <1>4, <1>5
<1> DEFINE g == CHOOSE h : h = body(h)
<1>7. g = body(g)
  <2> HIDE DEF body
  <2> QED BY <1>6, Zenon
<1>8. Size = g
  BY Zenon DEF Size
<1> HIDE DEF g
<1>9. \A m \in FilterTrees : Size[m] = node(Size, m)
  <2> HIDE DEF body
  <2>1. Size = body(Size)
    BY <1>7, <1>8, Zenon
  <2> USE DEF body
  <2> HIDE DEF node
  <2> QED BY <2>1, Zenon
<1>10. \A m \in LeafNodes : Size[m] \in Nat
  <2> SUFFICES ASSUME NEW m \in LeafNodes PROVE Size[m] \in Nat
    OBVIOUS
  <2>1. m \in FilterTrees /\ m.node # "not" /\ m.node # "logic"
    BY LeavesAreTrees, LeafShape
  <2>2. node(Size, m) \in {0, 1}
    BY <2>1
  <2> HIDE DEF node
  <2> QED BY <1>9, <2>1, <2>2
<1>11. \A m \in FilterTrees : m.node = "not" => Size[m] = 1 + Size[m.child]
  BY <1>9
<1>12. \A m \in FilterTrees : m.node = "logic" => Size[m] = 1 + Weight(m.children)
  <2> SUFFICES ASSUME NEW m \in FilterTrees, m.node = "logic"
               PROVE  Size[m] = 1 + Weight(m.children)
    OBVIOUS
  <2>1. node(Size, m) = 1 + Total([i \in DOMAIN m.children |-> Size[m.children[i]]])
    BY Zenon
  <2>2. Total([i \in DOMAIN m.children |-> Size[m.children[i]]]) = Weight(m.children)
    BY Zenon DEF Weight, Images
  <2> HIDE DEF node
  <2> QED BY <1>9, <2>1, <2>2, Zenon
<1> DEFINE P == {m \in FilterTrees : Size[m] \in Nat}
<1>13. LeafNodes \subseteq P
  BY <1>10, LeavesAreTrees
<1>14. ASSUME NEW m \in FilterTrees, m.node = "not", m.child \in P PROVE m \in P
  BY <1>11, <1>14
<1>15. ASSUME NEW m \in FilterTrees, m.node = "logic", m.children \in Long(FilterTrees \cap P)
       PROVE  m \in P
  <2> DEFINE Q == FilterTrees \cap P
             c == m.children
  <2>1. \A x \in Q : Size[x] \in Nat
    OBVIOUS
  <2> HIDE DEF Q, c
  <2>2. c \in Seq(Q)
    BY <1>15, Zenon DEF Long, Q, c
  <2>3. Images(Size, c) \in Seq(Nat)
    BY <2>1, <2>2, ImagesSeq
  <2>4. Weight(c) \in Nat
    BY <2>3, TotalTyped, Zenon DEF Weight
  <2>5. Size[m] = 1 + Weight(c)
    BY <1>12, <1>15, Zenon DEF c
  <2>6. Size[m] \in Nat
    BY <2>4, <2>5
  <2> QED BY <2>6
<1>16. FilterTrees \subseteq P
  <2> HIDE DEF P
  <2> QED BY <1>13, <1>14, <1>15, TreeInduction
<1> QED BY <1>11, <1>12, <1>16

LEMMA Weights ==
  /\ \A n \in FilterTrees : Weight(<<n>>) = Size[n]
  /\ \A ops \in Seq(FilterTrees) : Weight(ops) \in Nat
  /\ \A s, t \in Seq(FilterTrees) : t # <<>> => Weight(s \o t) = Weight(s) + Weight(t)
<1>1. \A n \in FilterTrees : Size[n] \in Nat
  BY SizeSteps
<1>2. ASSUME NEW n \in FilterTrees PROVE Weight(<<n>>) = Size[n]
  <2>1. Images(Size, <<n>>) = <<Size[n]>>
    BY ImagesOne, Zenon
  <2>2. Total(<<Size[n]>>) = Size[n]
    BY <1>1, TotalOne
  <2> QED BY <2>1, <2>2, Zenon DEF Weight
<1>3. ASSUME NEW ops \in Seq(FilterTrees)
      PROVE  /\ Images(Size, ops) \in Seq(Nat) /\ Len(Images(Size, ops)) = Len(ops)
             /\ Weight(ops) \in Nat
  <2>1. Images(Size, ops) \in Seq(Nat) /\ Len(Images(Size, ops)) = Len(ops)
    BY <1>1, ImagesSeq, ImagesLen
  <2> QED BY <2>1, TotalTyped, Zenon DEF Weight
<1>4. ASSUME NEW s \in Seq(FilterTrees), NEW t \in Seq(FilterTrees), t # <<>>
      PROVE  Weight(s \o t) = Weight(s) + Weight(t)
  <2> DEFINE a == Images(Size, s)
             b == Images(Size, t)
  <2>1. a \in Seq(Nat) /\ b \in Seq(Nat) /\ Len(b) = Len(t)
    BY <1>3
  <2>2. Images(Size, s \o t) = a \o b
    <3>1. Distributes(Size, s, t)
      BY <1>1, ImagesConcat
    <3> QED BY <3>1, Zenon DEF Distributes
  <2>3. Len(t) # 0
    BY <1>4
  <2> HIDE DEF a, b
  <2>4. b # <<>>
    BY <2>1, <2>3
  <2>5. Total(a \o b) = Total(a) + Total(b)
    BY <2>1, <2>4, TotalConcat
  <2> QED BY <2>2, <2>5, Zenon DEF a, b, Weight
<1> QED BY <1>2, <1>3, <1>4

-----------------------------------------------------------------------------
(* The text of the operands of a chain.                                    *)
Spelled(op, ops) == Conjoined(op, Texts(Render, ops, Binds(op)))

LEMMA BindsTyped == \A op : Binds(op) \in 0..3
BY DEF Binds

RenderAt(outer) == [n \in FilterTrees |-> Render[n][outer]]

LEMMA TextsImages ==
  ASSUME NEW ops \in Seq(FilterTrees), NEW outer \in 0..3
  PROVE  Texts(Render, ops, outer) = Images(RenderAt(outer), ops)
<1>1. \A i \in DOMAIN ops : ops[i] \in FilterTrees
  OBVIOUS
<1>2. \A i \in DOMAIN ops : Render[ops[i]][outer] = RenderAt(outer)[ops[i]]
  BY <1>1 DEF RenderAt
<1>3. [i \in DOMAIN ops |-> Render[ops[i]][outer]] = [i \in DOMAIN ops |-> RenderAt(outer)[ops[i]]]
  BY <1>2
<1> QED BY <1>3, Zenon DEF Texts, Images

LEMMA RenderAtTyped ==
  ASSUME NEW outer \in 0..3
  PROVE  \A n \in FilterTrees : RenderAt(outer)[n] \in Seq(Tokens) /\ RenderAt(outer)[n] = Render[n][outer]
<1>1. \A n \in FilterTrees : Render[n][outer] \in Seq(Tokens)
  BY RenderSteps
<1> QED BY <1>1 DEF RenderAt

LEMMA SpelledImages ==
  ASSUME NEW op \in {"and", "or"}, NEW ops \in Seq(FilterTrees)
  PROVE  /\ Spelled(op, ops) = Conjoined(op, Images(RenderAt(Binds(op)), ops))
         /\ Images(RenderAt(Binds(op)), ops) \in Seq(Seq(Tokens))
         /\ ops # <<>> => Images(RenderAt(Binds(op)), ops) # <<>>
<1> DEFINE b == Binds(op)
           h == RenderAt(b)
           X == Seq(Tokens)
<1>1. b \in 0..3
  BY BindsTyped
<1> HIDE DEF b
<1>2. \A n \in FilterTrees : h[n] \in X
  BY <1>1, RenderAtTyped
<1>3. Texts(Render, ops, b) = Images(h, ops)
  BY <1>1, TextsImages
<1> HIDE DEF h, X
<1>4. Images(h, ops) \in Seq(X)
  BY <1>2, ImagesSeq
<1>5. Len(Images(h, ops)) = Len(ops)
  BY ImagesLen
<1>6. ops # <<>> => Images(h, ops) # <<>>
  <2> DEFINE im == Images(h, ops)
  <2> HIDE DEF im
  <2>1. im \in Seq(X) /\ Len(im) = Len(ops)
    BY <1>4, <1>5 DEF im
  <2>2. ops # <<>> => im # <<>>
    BY <2>1
  <2> QED BY <2>2 DEF im
<1>7. Spelled(op, ops) = Conjoined(op, Images(h, ops))
  BY <1>3, Zenon DEF Spelled, b
<1> QED BY <1>4, <1>6, <1>7, Zenon DEF b, h, X

LEMMA SpelledTyped ==
  ASSUME NEW op \in {"and", "or"}, NEW ops \in Seq(FilterTrees), ops # <<>>
  PROVE  Spelled(op, ops) \in Seq(Tokens)
<1> DEFINE im == Images(RenderAt(Binds(op)), ops)
<1>1. Spelled(op, ops) = Conjoined(op, im) /\ im \in Seq(Seq(Tokens)) /\ im # <<>>
  BY SpelledImages
<1> HIDE DEF im
<1>2. Conjoined(op, im) \in Seq(Tokens)
  BY <1>1, ConjoinedTyped
<1> QED BY <1>1, <1>2, Zenon

LEMMA SpelledOne ==
  ASSUME NEW op \in {"and", "or"}, NEW n \in FilterTrees
  PROVE  Spelled(op, <<n>>) = Render[n][Binds(op)]
<1> DEFINE h == RenderAt(Binds(op))
<1>1. <<n>> \in Seq(FilterTrees)
  OBVIOUS
<1>2. Images(h, <<n>>) = <<h[n]>>
  BY ImagesOne, Zenon
<1>3. h[n] \in Seq(Tokens) /\ h[n] = Render[n][Binds(op)]
  BY BindsTyped, RenderAtTyped
<1>4. Spelled(op, <<n>>) = Conjoined(op, Images(h, <<n>>))
  BY <1>1, SpelledImages
<1> HIDE DEF h
<1>5. Conjoined(op, <<h[n]>>) = h[n]
  BY <1>3, ConjoinedOne
<1> QED BY <1>2, <1>3, <1>4, <1>5, Zenon

SpellsJoin(op, s, t) == Spelled(op, s \o t) = Spaced(op, Spelled(op, s), Spelled(op, t))

LEMMA SpelledConcat ==
  ASSUME NEW op \in {"and", "or"}, NEW s \in Seq(FilterTrees), s # <<>>,
         NEW t \in Seq(FilterTrees), t # <<>>
  PROVE  SpellsJoin(op, s, t)
<1> DEFINE h == RenderAt(Binds(op))
           a == Images(h, s)
           b == Images(h, t)
<1>1. \A n \in FilterTrees : h[n] \in Seq(Tokens)
  BY BindsTyped, RenderAtTyped
<1>2. s \o t \in Seq(FilterTrees)
  OBVIOUS
<1>3. /\ Spelled(op, s) = Conjoined(op, a) /\ a \in Seq(Seq(Tokens)) /\ a # <<>>
      /\ Spelled(op, t) = Conjoined(op, b) /\ b \in Seq(Seq(Tokens)) /\ b # <<>>
      /\ Spelled(op, s \o t) = Conjoined(op, Images(h, s \o t))
  BY <1>2, SpelledImages
<1> HIDE DEF h
<1>4. Distributes(h, s, t)
  BY <1>1, ImagesConcat
<1>5. Images(h, s \o t) = a \o b
  BY <1>4, Zenon DEF Distributes
<1> HIDE DEF a, b
<1>6. Conjoined(op, a \o b) = Spaced(op, Conjoined(op, a), Conjoined(op, b))
  BY <1>3, ConjoinedConcat
<1> QED BY <1>3, <1>5, <1>6, Zenon DEF SpellsJoin

LEMMA LogicText ==
  ASSUME NEW n \in FilterTrees, n.node = "logic", NEW outer \in 0..3
  PROVE  Render[n][outer] = IF outer > Binds(n.op) THEN Parenthesised(Spelled(n.op, n.children))
                            ELSE Spelled(n.op, n.children)
<1>1. Render[n][outer] = TextOf(Render, n, outer)
  BY RenderSteps
<1>2. TextOf(Render, n, outer) = RenderLogic(n.op, Texts(Render, n.children, Binds(n.op)), outer)
  BY TextOfLogic, Zenon
<1> QED BY <1>1, <1>2, Zenon DEF RenderLogic, Spelled, Binds

LEMMA NotText ==
  ASSUME NEW n \in FilterTrees, n.node = "not", NEW outer \in 0..3
  PROVE  Render[n][outer] = <<Word("not")>> \o Render[n.child][3]
<1>1. Render[n][outer] = TextOf(Render, n, outer)
  BY RenderSteps
<1> QED BY <1>1, TextOfNot, Zenon

LEMMA LeafRendered ==
  ASSUME NEW n \in LeafNodes, NEW outer \in 0..3
  PROVE  Render[n][outer] = LeafText(n)
<1>1. Render[n][outer] = TextOf(Render, n, outer)
  BY LeavesAreTrees, RenderSteps
<1> QED BY <1>1, TextOfLeaf, Zenon

-----------------------------------------------------------------------------
(* The value of a filter.                                                  *)
Vals(ops, r, odd) == {Evaluate(ops[i], r, odd) : i \in DOMAIN ops}

LEMMA EvaluateRules ==
  ASSUME NEW n \in FilterTrees, NEW r, NEW odd \in BOOLEAN
  PROVE  /\ Evaluate(n, r, odd) \in Truths
         /\ n.node = "not" => Evaluate(n, r, odd) = Negation(Evaluate(n.child, r, ~odd))
         /\ n.node = "logic" => Evaluate(n, r, odd) = Joint(n.op, Vals(n.children, r, odd))
<1>1. PICK g : /\ \A m \in FilterTrees, o \in BOOLEAN : g[m][o] = ValueOf(g, m, r, o)
               /\ \A m, o : Evaluate(m, r, o) = g[m][o]
  BY EvaluateSteps
<1>2. Evaluate(n, r, odd) = ValueOf(g, n, r, odd)
  BY <1>1
<1>3. ValueOf(g, n, r, odd) \in Truths
  BY ValueOfTyped
<1>4. n.node = "not" => Evaluate(n, r, odd) = Negation(Evaluate(n.child, r, ~odd))
  <2>1. n.node = "not" => ValueOf(g, n, r, odd) = Negation(g[n.child][~odd])
    BY ValueOfNot, Zenon
  <2>2. Evaluate(n.child, r, ~odd) = g[n.child][~odd]
    BY <1>1, Zenon
  <2> QED BY <1>2, <2>1, <2>2, Zenon
<1>5. n.node = "logic" => Evaluate(n, r, odd) = Joint(n.op, Vals(n.children, r, odd))
  <2>1. n.node = "logic" => ValueOf(g, n, r, odd) = Joint(n.op, Below(g, n, odd))
    BY ValueOfLogic, Zenon
  <2>2. Below(g, n, odd) = Vals(n.children, r, odd)
    BY <1>1 DEF Below, Vals
  <2> QED BY <1>2, <2>1, <2>2, Zenon
<1> QED BY <1>2, <1>3, <1>4, <1>5, Zenon

LEMMA JointRules ==
  /\ \A op : \A v \in Truths : Joint(op, {v}) = v
  /\ \A op : \A A \in SUBSET Truths, B \in SUBSET Truths :
       Joint(op, A \cup B) = Joint(op, {Joint(op, A), Joint(op, B)})
BY DEF Joint, Conjunction, Disjunction, Truths

LEMMA ValsRules ==
  ASSUME NEW r, NEW odd \in BOOLEAN
  PROVE  /\ \A n : Vals(<<n>>, r, odd) = {Evaluate(n, r, odd)}
         /\ \A ops \in Seq(FilterTrees) : Vals(ops, r, odd) \in SUBSET Truths
         /\ \A s, t \in Seq(FilterTrees) : Vals(s \o t, r, odd) = Vals(s, r, odd) \cup Vals(t, r, odd)
<1>1. \A n : Vals(<<n>>, r, odd) = {Evaluate(n, r, odd)}
  BY DEF Vals
<1>2. \A n \in FilterTrees : Evaluate(n, r, odd) \in Truths
  BY EvaluateRules
<1>3. ASSUME NEW ops \in Seq(FilterTrees) PROVE Vals(ops, r, odd) \in SUBSET Truths
  BY <1>2 DEF Vals
<1>4. ASSUME NEW s \in Seq(FilterTrees), NEW t \in Seq(FilterTrees)
      PROVE  Vals(s \o t, r, odd) = Vals(s, r, odd) \cup Vals(t, r, odd)
  <2> DEFINE m == Len(s)
             k == Len(t)
             u == s \o t
  <2>1. /\ m \in Nat /\ k \in Nat /\ Len(u) = m + k /\ u \in Seq(FilterTrees)
        /\ \A i \in 1..m : u[i] = s[i]
        /\ \A i \in 1..k : u[m + i] = t[i]
    OBVIOUS
  <2>2. DOMAIN s = 1..m /\ DOMAIN t = 1..k /\ DOMAIN u = 1..(m + k)
    BY <2>1
  <2> HIDE DEF m, k, u
  <2>3. \A i \in 1..(m + k) : i \in 1..m \/ (i - m \in 1..k /\ m + (i - m) = i)
    BY <2>1
  <2>4. \A i \in 1..m : i \in 1..(m + k)
    BY <2>1
  <2>5. \A i \in 1..k : m + i \in 1..(m + k)
    BY <2>1
  <2>6. Vals(u, r, odd) \subseteq Vals(s, r, odd) \cup Vals(t, r, odd)
    <3>1. ASSUME NEW i \in 1..(m + k)
          PROVE  Evaluate(u[i], r, odd) \in Vals(s, r, odd) \cup Vals(t, r, odd)
      <4>1. CASE i \in 1..m
        <5>1. u[i] = s[i]
          BY <2>1, <4>1
        <5>2. Evaluate(s[i], r, odd) \in Vals(s, r, odd)
          BY <2>2, <4>1 DEF Vals
        <5> QED BY <5>1, <5>2
      <4>2. CASE i - m \in 1..k /\ m + (i - m) = i
        <5>1. u[i] = t[i - m]
          BY <2>1, <4>2
        <5>2. Evaluate(t[i - m], r, odd) \in Vals(t, r, odd)
          BY <2>2, <4>2 DEF Vals
        <5> QED BY <5>1, <5>2
      <4> QED BY <2>3, <4>1, <4>2
    <3> QED BY <2>2, <3>1 DEF Vals
  <2>7. Vals(s, r, odd) \subseteq Vals(u, r, odd)
    BY <2>1, <2>2, <2>4 DEF Vals
  <2>8. Vals(t, r, odd) \subseteq Vals(u, r, odd)
    BY <2>1, <2>2, <2>5 DEF Vals
  <2> QED BY <2>6, <2>7, <2>8 DEF u
<1> QED BY <1>1, <1>3, <1>4

-----------------------------------------------------------------------------
(* What is read from a place that holds a given text.                      *)
Readable(text) == text \in Seq(Tokens) /\ Len(text) <= MaxFilterLength

Holds(text, i, s) ==
  /\ Readable(text)
  /\ i \in 1..(Len(text) + 1) /\ i + Len(s) <= Len(text) + 1
  /\ \A k \in 1..Len(s) : text[i + k - 1] = s[k]

LEMMA HoldsConcat ==
  ASSUME NEW s \in Seq(Tokens), NEW t \in Seq(Tokens), NEW text, NEW i, Holds(text, i, s \o t)
  PROVE  /\ Len(s \o t) = Len(s) + Len(t)
         /\ Holds(text, i, s) /\ Holds(text, i + Len(s), t)
<1> DEFINE m == Len(s)
           n == Len(t)
           L == Len(text)
           u == s \o t
<1>1. /\ m \in Nat /\ n \in Nat /\ Len(u) = m + n
      /\ \A k \in 1..m : u[k] = s[k]
      /\ \A k \in 1..n : u[m + k] = t[k]
  OBVIOUS
<1>2. /\ Readable(text) /\ L \in Nat
      /\ i \in 1..(L + 1) /\ i + Len(u) <= L + 1
      /\ \A k \in 1..Len(u) : text[i + k - 1] = u[k]
  BY DEF Holds, Readable
<1> HIDE DEF m, n, L, u
<1>3. \A k \in 1..m : text[i + k - 1] = s[k]
  <2>1. \A k \in 1..m : k \in 1..Len(u)
    BY <1>1
  <2> QED BY <1>1, <1>2, <2>1
<1>4. \A k \in 1..n : text[(i + m) + k - 1] = t[k]
  <2>1. \A k \in 1..n : m + k \in 1..Len(u) /\ i + (m + k) - 1 = (i + m) + k - 1
    BY <1>1, <1>2
  <2> QED BY <1>1, <1>2, <2>1
<1>5. i + m <= L + 1 /\ i + m \in 1..(L + 1) /\ (i + m) + n <= L + 1
  BY <1>1, <1>2
<1>6. Holds(text, i, s)
  BY <1>2, <1>3, <1>5 DEF Holds, m, L
<1>7. Holds(text, i + m, t)
  BY <1>2, <1>4, <1>5 DEF Holds, n, L
<1> QED BY <1>1, <1>6, <1>7 DEF m, n, u

LEMMA HoldsOne ==
  ASSUME NEW x \in Tokens, NEW text, NEW i, Holds(text, i, <<x>>)
  PROVE  At(text, i) = x /\ i \in 1..Len(text) /\ Len(<<x>>) = 1
<1> DEFINE L == Len(text)
<1>1. L \in Nat /\ i \in 1..(L + 1) /\ i + 1 <= L + 1 /\ 1 \in 1..Len(<<x>>)
  BY DEF Holds, Readable
<1>2. text[i + 1 - 1] = x
  BY <1>1 DEF Holds
<1> HIDE DEF L
<1>3. i \in 1..L /\ i + 1 - 1 = i /\ ~(i > L)
  BY <1>1
<1>4. text[i] = x
  BY <1>2, <1>3
<1> QED BY <1>3, <1>4 DEF At, L

LEMMA HoldsSpaced ==
  ASSUME NEW op \in {"and", "or"}, NEW s \in Seq(Tokens), NEW t \in Seq(Tokens),
         NEW text, NEW i, Holds(text, i, Spaced(op, s, t))
  PROVE  /\ Holds(text, i, s) /\ At(text, i + Len(s)) = Word(op)
         /\ Holds(text, i + Len(s) + 1, t)
         /\ i + Len(Spaced(op, s, t)) = i + Len(s) + 1 + Len(t)
<1> DEFINE w == <<Word(op)>>
           a == s \o w
<1>1. "and" \in Words /\ "or" \in Words
  BY WordsAssumption, Zenon
<1>2. Word(op) \in Tokens
  BY <1>1, WordTyped
<1>3. w \in Seq(Tokens) /\ a \in Seq(Tokens) /\ Len(w) = 1
  BY <1>2
<1>4. Spaced(op, s, t) = a \o t
  <2> HIDE DEF w
  <2> QED BY Zenon DEF Spaced, w
<1> HIDE DEF a
<1>5. Len(a \o t) = Len(a) + Len(t) /\ Holds(text, i, a) /\ Holds(text, i + Len(a), t)
  <2>1. Holds(text, i, a \o t)
    BY <1>4, Zenon
  <2> QED BY <1>3, <2>1, HoldsConcat
<1> HIDE DEF w
<1>6. Len(a) = Len(s) + Len(w) /\ Holds(text, i, s) /\ Holds(text, i + Len(s), w)
  <2>1. Holds(text, i, s \o w)
    BY <1>5, Zenon DEF a
  <2>2. Len(s \o w) = Len(s) + Len(w) /\ Holds(text, i, s) /\ Holds(text, i + Len(s), w)
    BY <1>3, <2>1, HoldsConcat
  <2> QED BY <2>2, Zenon DEF a
<1>7. At(text, i + Len(s)) = Word(op)
  <2>1. Holds(text, i + Len(s), <<Word(op)>>)
    BY <1>6, Zenon DEF w
  <2> QED BY <1>2, <2>1, HoldsOne
<1>8. i \in Nat /\ Len(s) \in Nat /\ Len(t) \in Nat
  <2>1. Len(text) \in Nat
    BY <1>6 DEF Holds, Readable
  <2> QED BY <1>6, <2>1 DEF Holds
<1> DEFINE ls == Len(s)
           lt == Len(t)
           la == Len(a)
<1> HIDE DEF ls, lt, la
<1>9. la = ls + 1 /\ Len(Spaced(op, s, t)) = la + lt
  BY <1>3, <1>4, <1>5, <1>6 DEF ls, lt, la
<1>10. i \in Nat /\ ls \in Nat /\ lt \in Nat
  BY <1>8 DEF ls, lt
<1>11. i + la = i + ls + 1
  BY <1>9, <1>10
<1>12. Holds(text, i + Len(s) + 1, t)
  BY <1>5, <1>11, Zenon DEF ls, la
<1>13. i + (la + lt) = i + ls + 1 + lt
  BY <1>9, <1>10
<1> QED BY <1>6, <1>7, <1>9, <1>12, <1>13, Zenon DEF ls, lt

LEMMA HoldsParenthesised ==
  ASSUME NEW s \in Seq(Tokens), NEW text, NEW i, Holds(text, i, Parenthesised(s))
  PROVE  /\ At(text, i) = Open /\ i \in 1..Len(text)
         /\ Holds(text, i + 1, s)
         /\ At(text, i + 1 + Len(s)) = Close
         /\ i + Len(Parenthesised(s)) = i + 1 + Len(s) + 1
<1> DEFINE o == <<Open>>
           c == <<Close>>
           b == s \o c
<1>1. Open \in Tokens /\ Close \in Tokens
  BY SignsTyped
<1>2. o \in Seq(Tokens) /\ c \in Seq(Tokens) /\ b \in Seq(Tokens) /\ Len(o) = 1 /\ Len(c) = 1
  BY <1>1
<1>3. Parenthesised(s) = o \o b
  <2> HIDE DEF o, c
  <2>1. o \o (s \o c) = (o \o s) \o c
    BY <1>2, ConcatAssociative
  <2> QED BY <2>1, Zenon DEF Parenthesised, o, c
<1> HIDE DEF b
<1>4. Len(o \o b) = Len(o) + Len(b) /\ Holds(text, i, o) /\ Holds(text, i + Len(o), b)
  <2>1. Holds(text, i, o \o b)
    BY <1>3, Zenon
  <2> HIDE DEF o
  <2> QED BY <1>2, <2>1, HoldsConcat
<1>5. Holds(text, i + 1, b)
  BY <1>2, <1>4, Zenon
<1> HIDE DEF c
<1>6. Len(b) = Len(s) + Len(c) /\ Holds(text, i + 1, s) /\ Holds(text, i + 1 + Len(s), c)
  <2>1. Holds(text, i + 1, s \o c)
    BY <1>5, Zenon DEF b
  <2>2. Len(s \o c) = Len(s) + Len(c) /\ Holds(text, i + 1, s) /\ Holds(text, i + 1 + Len(s), c)
    BY <1>2, <2>1, HoldsConcat
  <2> QED BY <2>2, Zenon DEF b
<1>7. At(text, i) = Open /\ i \in 1..Len(text)
  BY <1>1, <1>4, HoldsOne
<1>8. At(text, i + 1 + Len(s)) = Close
  <2>1. Holds(text, i + 1 + Len(s), <<Close>>)
    BY <1>6, Zenon DEF c
  <2> QED BY <1>1, <2>1, HoldsOne
<1>9. i \in Nat /\ Len(s) \in Nat
  BY <1>7
<1>10. Len(Parenthesised(s)) = 1 + (Len(s) + 1)
  BY <1>2, <1>3, <1>4, <1>6, Zenon
<1> DEFINE ls == Len(s)
<1> HIDE DEF ls
<1>11. i + (1 + (ls + 1)) = i + 1 + ls + 1
  BY <1>9 DEF ls
<1> QED BY <1>6, <1>7, <1>8, <1>10, <1>11, Zenon DEF ls
-----------------------------------------------------------------------------
(* Phrases: texts read as one operand, or as operands of a chain.          *)
One(s, n) ==
  \A text, i : Holds(text, i, s) => Parse(text)[<<"not", i>>] = Parsed(<<n>>, i + Len(s))

Ends(op, text, i, j, ops) ==
  At(text, j) \notin {Word("and"), Word(op)} => Parse(text)[<<op, i>>] = Parsed(ops, j)

Continues(op, text, i, j, ops) ==
  At(text, j) = Word(op) =>
    \A more \in Seq(FilterTrees) : \A e :
      more # <<>> /\ Parse(text)[<<op, j + 1>>] = Parsed(more, e) =>
        Parse(text)[<<op, i>>] = Parsed(ops \o more, e)

Chain(op, s, ops) ==
  \A text, i : Holds(text, i, s) =>
    Ends(op, text, i, i + Len(s), ops) /\ Continues(op, text, i, i + Len(s), ops)

Comb(op, ops) == IF Len(ops) = 1 THEN ops[1] ELSE Logic(op, ops)

LEMMA ParseAt ==
  ASSUME NEW text, Readable(text), NEW i \in 1..(Len(text) + 1)
  PROVE  LET parse == Parse(text) IN
         /\ parse[<<"or", i>>] = ParseChain("or", text, Combined("and", parse[<<"and", i>>]), parse)
         /\ parse[<<"and", i>>] = ParseChain("and", text, parse[<<"not", i>>], parse)
         /\ parse[<<"not", i>>] = ParseNot(text, i, parse)
<1> DEFINE p == Parse(text)
<1>1. ParsesFrom(p, text, 1)
  BY ParseSteps DEF Readable
<1> HIDE DEF p
<1>2. \A goal \in Goals : p[<<goal, i>>] = ParseOf(goal, text, i, p)
  BY <1>1 DEF ParsesFrom
<1>3. /\ p[<<"or", i>>] = ParseOf("or", text, i, p)
      /\ p[<<"and", i>>] = ParseOf("and", text, i, p)
      /\ p[<<"not", i>>] = ParseOf("not", text, i, p)
  BY <1>2 DEF Goals
<1>4. ParseOf("or", text, i, p) = ParseChain("or", text, Combined("and", p[<<"and", i>>]), p)
  BY DEF ParseOf
<1>5. ParseOf("and", text, i, p) = ParseChain("and", text, p[<<"not", i>>], p)
  BY DEF ParseOf
<1>6. ParseOf("not", text, i, p) = ParseNot(text, i, p)
  BY DEF ParseOf
<1> QED BY <1>3, <1>4, <1>5, <1>6, Zenon DEF p

LEMMA ChainStops ==
  ASSUME NEW op, NEW text, NEW j, NEW n, NEW parse, At(text, j) # Word(op)
  PROVE  ParseChain(op, text, Parsed(<<n>>, j), parse) = Parsed(<<n>>, j)
BY DEF ParseChain, Parsed

Led(v, ops, more, e) == v = Parsed(ops \o more, e)

LEMMA ChainGoesOn ==
  ASSUME NEW op, NEW text, NEW j, NEW n, NEW parse, At(text, j) = Word(op), NEW more, NEW e,
         parse[<<op, j + 1>>] = Parsed(more, e)
  PROVE  Led(ParseChain(op, text, Parsed(<<n>>, j), parse), <<n>>, more, e)
<1> DEFINE first == Parsed(<<n>>, j)
<1>1. first.error = "none" /\ first.at = j /\ first.nodes = <<n>>
  BY DEF Parsed
<1> HIDE DEF first
<1>2. ParseChain(op, text, first, parse) = [parse[<<op, j + 1>>] EXCEPT !.nodes = first.nodes \o @]
  BY <1>1 DEF ParseChain
<1> DEFINE rest == parse[<<op, j + 1>>]
<1>3. rest.nodes = more /\ \A s : [rest EXCEPT !.nodes = s] = Parsed(s, e)
  <2> DEFINE v == Parsed(more, e)
  <2>1. v.nodes = more /\ \A s : [v EXCEPT !.nodes = s] = Parsed(s, e)
    BY DEF Parsed
  <2> HIDE DEF v
  <2>2. rest = v
    BY DEF v
  <2> HIDE DEF rest
  <2> QED BY <2>1, <2>2
<1> DEFINE all == first.nodes \o more
<1>4. ParseChain(op, text, first, parse) = [rest EXCEPT !.nodes = first.nodes \o rest.nodes]
  BY <1>2, Zenon
<1> HIDE DEF rest
<1>5. first.nodes \o rest.nodes = all
  BY <1>3, Zenon
<1> HIDE DEF all
<1>6. ParseChain(op, text, first, parse) = Parsed(all, e)
  BY <1>3, <1>4, <1>5, Zenon
<1> QED BY <1>1, <1>6, Zenon DEF first, all, Led

LEMMA CombinedParsed ==
  ASSUME NEW op, NEW ops \in Seq(FilterTrees), ops # <<>>, NEW j
  PROVE  Combined(op, Parsed(ops, j)) = Parsed(<<Comb(op, ops)>>, j)
<1>1. CASE Len(ops) = 1
  <2>1. ops = <<ops[1]>>
    BY <1>1
  <2>2. Combined(op, Parsed(ops, j)) = Parsed(ops, j)
    BY <1>1 DEF Combined, Parsed
  <2>3. Comb(op, ops) = ops[1]
    BY <1>1 DEF Comb
  <2> QED BY <2>1, <2>2, <2>3
<1>2. CASE Len(ops) # 1
  <2>1. Comb(op, ops) = Logic(op, ops)
    BY <1>2 DEF Comb
  <2>2. Combined(op, Parsed(ops, j)) = Parsed(<<Logic(op, ops)>>, j)
    BY <1>2 DEF Combined, Parsed
  <2> QED BY <2>1, <2>2
<1> QED BY <1>1, <1>2

LEMMA WordsDiffer ==
  /\ Word("or") # Word("and") /\ \A w : Word(w).kind = "ident" /\ Word(w).text = w
  /\ Open.kind = "lparen" /\ Close.kind = "rparen" /\ Eof.kind = "eof" /\ Comma.kind = "comma"
<1>1. \A w : Word(w).kind = "ident" /\ Word(w).text = w
  BY DEF Word
<1>2. Word("or") # Word("and")
  BY <1>1
<1>3. Open.kind = "lparen" /\ Close.kind = "rparen" /\ Eof.kind = "eof" /\ Comma.kind = "comma"
  BY Zenon DEF Open, Close, Eof, Comma
<1> QED BY <1>1, <1>2, <1>3

LEMMA HoldsAt ==
  ASSUME NEW text, NEW i, NEW s, Holds(text, i, s)
  PROVE  Readable(text) /\ i \in 1..(Len(text) + 1)
BY DEF Holds

LEMMA OneChain ==
  ASSUME NEW s, NEW n, One(s, n)
  PROVE  Chain("and", s, <<n>>)
<1> SUFFICES ASSUME NEW text, NEW i, Holds(text, i, s)
             PROVE  /\ Ends("and", text, i, i + Len(s), <<n>>)
                    /\ Continues("and", text, i, i + Len(s), <<n>>)
  BY DEF Chain
<1> DEFINE parse == Parse(text)
           j == i + Len(s)
<1>1. parse[<<"not", i>>] = Parsed(<<n>>, j)
  BY DEF One
<1>2. parse[<<"and", i>>] = ParseChain("and", text, parse[<<"not", i>>], parse)
  BY HoldsAt, ParseAt, Zenon
<1> HIDE DEF parse, j
<1>3. At(text, j) # Word("and") => parse[<<"and", i>>] = Parsed(<<n>>, j)
  BY <1>1, <1>2, ChainStops, Zenon
<1>4. ASSUME At(text, j) = Word("and"), NEW more, NEW e, parse[<<"and", j + 1>>] = Parsed(more, e)
      PROVE  parse[<<"and", i>>] = Parsed(<<n>> \o more, e)
  <2>1. Led(ParseChain("and", text, Parsed(<<n>>, j), parse), <<n>>, more, e)
    BY <1>4, ChainGoesOn
  <2> QED BY <1>1, <1>2, <2>1, Zenon DEF Led
<1> QED BY <1>3, <1>4, Zenon DEF Ends, Continues, parse, j

LEMMA ChainOfChain ==
  ASSUME NEW s, NEW ops \in Seq(FilterTrees), ops # <<>>, Chain("and", s, ops)
  PROVE  Chain("or", s, <<Comb("and", ops)>>)
<1> DEFINE n == Comb("and", ops)
<1> SUFFICES ASSUME NEW text, NEW i, Holds(text, i, s)
             PROVE  /\ Ends("or", text, i, i + Len(s), <<n>>)
                    /\ Continues("or", text, i, i + Len(s), <<n>>)
  BY DEF Chain
<1> DEFINE parse == Parse(text)
           j == i + Len(s)
<1>1. Ends("and", text, i, j, ops)
  BY DEF Chain
<1>2. parse[<<"or", i>>] = ParseChain("or", text, Combined("and", parse[<<"and", i>>]), parse)
  BY HoldsAt, ParseAt, Zenon
<1>3. Combined("and", Parsed(ops, j)) = Parsed(<<n>>, j)
  BY CombinedParsed
<1> HIDE DEF j, n
<1>4. At(text, j) # Word("and") => parse[<<"and", i>>] = Parsed(ops, j)
  BY <1>1 DEF Ends
<1> HIDE DEF parse
<1>5. At(text, j) # Word("and") => parse[<<"or", i>>] = ParseChain("or", text, Parsed(<<n>>, j), parse)
  BY <1>2, <1>3, <1>4, Zenon
<1>6. At(text, j) # Word("and") /\ At(text, j) # Word("or") => parse[<<"or", i>>] = Parsed(<<n>>, j)
  BY <1>5, ChainStops, Zenon
<1>7. ASSUME At(text, j) = Word("or"), NEW more, NEW e, parse[<<"or", j + 1>>] = Parsed(more, e)
      PROVE  parse[<<"or", i>>] = Parsed(<<n>> \o more, e)
  <2>1. At(text, j) # Word("and")
    BY <1>7, WordsDiffer
  <2>2. Led(ParseChain("or", text, Parsed(<<n>>, j), parse), <<n>>, more, e)
    BY <1>7, ChainGoesOn
  <2> QED BY <1>5, <2>1, <2>2, Zenon DEF Led
<1> QED BY <1>6, <1>7, Zenon DEF Ends, Continues, parse, j

Associates(a, b, c) == a \o (b \o c) = (a \o b) \o c

LEMMA Associate ==
  ASSUME NEW S, NEW a \in Seq(S), NEW b \in Seq(S), NEW c \in Seq(S)
  PROVE  Associates(a, b, c)
BY ConcatAssociative DEF Associates

LEMMA ChainsJoin ==
  ASSUME NEW op \in {"and", "or"}, NEW s \in Seq(Tokens), NEW t \in Seq(Tokens),
         NEW a \in Seq(FilterTrees), a # <<>>, NEW b \in Seq(FilterTrees), b # <<>>,
         Chain(op, s, a), Chain(op, t, b)
  PROVE  Chain(op, Spaced(op, s, t), a \o b)
<1> DEFINE st == Spaced(op, s, t)
<1> SUFFICES ASSUME NEW text, NEW i, Holds(text, i, st)
             PROVE  /\ Ends(op, text, i, i + Len(st), a \o b)
                    /\ Continues(op, text, i, i + Len(st), a \o b)
  BY DEF Chain
<1> DEFINE parse == Parse(text)
           j1 == i + Len(s)
           j == i + Len(st)
<1>1. Holds(text, i, s) /\ At(text, j1) = Word(op) /\ Holds(text, j1 + 1, t) /\ j = j1 + 1 + Len(t)
  BY HoldsSpaced
<1>2. Continues(op, text, i, j1, a)
  BY <1>1 DEF Chain
<1>3. Ends(op, text, j1 + 1, j, b) /\ Continues(op, text, j1 + 1, j, b)
  <2> HIDE DEF j, j1
  <2>1. Ends(op, text, j1 + 1, j1 + 1 + Len(t), b) /\ Continues(op, text, j1 + 1, j1 + 1 + Len(t), b)
    BY <1>1, Zenon DEF Chain
  <2> QED BY <1>1, <2>1, Zenon
<1> HIDE DEF parse, j, j1, st
<1>4. ASSUME NEW more \in Seq(FilterTrees), more # <<>>, NEW e,
             parse[<<op, j1 + 1>>] = Parsed(more, e)
      PROVE  parse[<<op, i>>] = Parsed(a \o more, e)
  BY <1>1, <1>2, <1>4, Zenon DEF Continues, parse
<1>5. At(text, j) \notin {Word("and"), Word(op)} => parse[<<op, i>>] = Parsed(a \o b, j)
  <2>1. At(text, j) \notin {Word("and"), Word(op)} => parse[<<op, j1 + 1>>] = Parsed(b, j)
    BY <1>3, Zenon DEF Ends, parse
  <2> QED BY <1>4, <2>1, Zenon
<1>6. ASSUME At(text, j) = Word(op), NEW more \in Seq(FilterTrees), more # <<>>, NEW e,
             parse[<<op, j + 1>>] = Parsed(more, e)
      PROVE  parse[<<op, i>>] = Parsed((a \o b) \o more, e)
  <2>1. parse[<<op, j1 + 1>>] = Parsed(b \o more, e)
    BY <1>3, <1>6, Zenon DEF Continues, parse
  <2>2. b \o more \in Seq(FilterTrees) /\ b \o more # <<>>
    BY <1>6
  <2>3. parse[<<op, i>>] = Parsed(a \o (b \o more), e)
    BY <1>4, <2>1, <2>2, Zenon
  <2>4. Associates(a, b, more)
    BY <1>6, Associate
  <2> QED BY <2>3, <2>4, Zenon DEF Associates
<1> QED BY <1>5, <1>6, Zenon DEF Ends, Continues, parse, j

LEMMA ChainEnclosed ==
  ASSUME NEW s \in Seq(Tokens), NEW ops \in Seq(FilterTrees), ops # <<>>, Chain("or", s, ops)
  PROVE  One(Parenthesised(s), Comb("or", ops))
<1> DEFINE n == Comb("or", ops)
<1> SUFFICES ASSUME NEW text, NEW i, Holds(text, i, Parenthesised(s))
             PROVE  Parse(text)[<<"not", i>>] = Parsed(<<n>>, i + Len(Parenthesised(s)))
  BY DEF One
<1> DEFINE parse == Parse(text)
           j == i + 1 + Len(s)
<1>1. /\ At(text, i) = Open /\ Holds(text, i + 1, s) /\ At(text, j) = Close
      /\ i + Len(Parenthesised(s)) = j + 1
  BY HoldsParenthesised
<1>2. parse[<<"not", i>>] = ParseNot(text, i, parse)
  BY HoldsAt, ParseAt, Zenon
<1>3. Ends("or", text, i + 1, j, ops)
  BY <1>1 DEF Chain
<1>4. Combined("or", Parsed(ops, j)) = Parsed(<<n>>, j)
  BY CombinedParsed
<1> HIDE DEF j, n
<1>5. At(text, j) \notin {Word("and"), Word("or")} /\ At(text, j).kind = "rparen"
  BY <1>1, WordsDiffer
<1>6. parse[<<"or", i + 1>>] = Parsed(ops, j)
  BY <1>3, <1>5, Zenon DEF Ends
<1> HIDE DEF parse
<1>7. ParseNot(text, i, parse) = Enclosed(text, Combined("or", parse[<<"or", i + 1>>]))
  <2>1. At(text, i).kind = "lparen" /\ At(text, i) # Word("not")
    BY <1>1, WordsDiffer
  <2> QED BY <2>1 DEF ParseNot, ParsePrimary
<1>8. Enclosed(text, Parsed(<<n>>, j)) = Parsed(<<n>>, j + 1)
  BY <1>5 DEF Enclosed, Parsed
<1> QED BY <1>1, <1>2, <1>4, <1>6, <1>7, <1>8, Zenon DEF parse

LEMMA OneNegated ==
  ASSUME NEW s \in Seq(Tokens), NEW n, One(s, n)
  PROVE  One(<<Word("not")>> \o s, Not(n))
<1> DEFINE w == <<Word("not")>>
<1>0. "not" \in Words
  BY WordsAssumption, Zenon
<1>1. Word("not") \in Tokens
  BY <1>0, WordTyped
<1>2. w \in Seq(Tokens) /\ Len(w) = 1
  BY <1>1
<1> SUFFICES ASSUME NEW text, NEW i, Holds(text, i, w \o s)
             PROVE  Parse(text)[<<"not", i>>] = Parsed(<<Not(n)>>, i + Len(w \o s))
  BY DEF One
<1> DEFINE parse == Parse(text)
<1>3. Len(w \o s) = Len(w) + Len(s) /\ Holds(text, i, w) /\ Holds(text, i + Len(w), s)
  <2> HIDE DEF w
  <2> QED BY <1>2, HoldsConcat
<1>4. At(text, i) = Word("not") /\ i \in 1..Len(text)
  BY <1>1, <1>3, HoldsOne
<1> HIDE DEF w
<1>5. Holds(text, i + 1, s)
  BY <1>2, <1>3, Zenon
<1>6. parse[<<"not", i + 1>>] = Parsed(<<n>>, i + 1 + Len(s))
  BY <1>5, Zenon DEF One
<1>7. parse[<<"not", i>>] = ParseNot(text, i, parse)
  BY HoldsAt, ParseAt, Zenon
<1>8. i + Len(w \o s) = i + 1 + Len(s)
  <2> DEFINE ls == Len(s)
  <2>1. Len(w \o s) = 1 + ls /\ ls \in Nat /\ i \in Nat
    BY <1>2, <1>3, <1>4
  <2> HIDE DEF ls
  <2>2. i + (1 + ls) = i + 1 + ls
    BY <2>1
  <2> QED BY <2>1, <2>2, Zenon DEF ls
<1> HIDE DEF parse
<1>9. ParseNot(text, i, parse) = Negated(Parsed(<<n>>, i + 1 + Len(s)))
  BY <1>4, <1>6, Zenon DEF ParseNot
<1>10. \A j : Negated(Parsed(<<n>>, j)) = Parsed(<<Not(n)>>, j)
  BY DEF Negated, Parsed
<1> QED BY <1>7, <1>8, <1>9, <1>10, Zenon DEF parse

-----------------------------------------------------------------------------
(* The text of a comparison or of a function call.                         *)
LEMMA SignKinds ==
  \A v : /\ Num(v).kind = "number" /\ Num(v).value = v
         /\ Str(v).kind = "string" /\ Str(v).value = v
         /\ Bool(v).kind = "ident" /\ Bool(v).value = v /\ Bool(v).text \in {"true", "false"}
<1>1. \A v : Num(v).kind = "number" /\ Num(v).value = v
  BY Zenon DEF Num
<1>2. \A v : Str(v).kind = "string" /\ Str(v).value = v
  BY Zenon DEF Str
<1>3. \A v : Bool(v).kind = "ident" /\ Bool(v).value = v /\ Bool(v).text \in {"true", "false"}
  BY DEF Bool
<1> QED BY <1>1, <1>2, <1>3

LEMMA LiteralReads ==
  ASSUME NEW f \in FieldNames, NEW v \in Int \cup {Null}, NEW text, NEW i,
         At(text, i) = LiteralToken(f, v)
  PROVE  /\ LiteralFault(f, text, i) = "none"
         /\ LiteralValue(At(text, i)) = v
         /\ v # Null => ~IsNull(At(text, i)) /\ At(text, i).value = v
<1> DEFINE token == At(text, i)
<1>1. CASE v = Null
  <2>1. token = Word("null")
    BY <1>1 DEF LiteralToken
  <2> HIDE DEF token
  <2>2. token.kind = "ident" /\ token.text = "null"
    BY <2>1, WordsDiffer
  <2>3. IsNull(token)
    BY <2>2 DEF IsNull
  <2>4. LiteralFault(f, text, i) = "none"
    BY <2>2, <2>3, Zenon DEF LiteralFault, token
  <2> QED BY <1>1, <2>3, <2>4 DEF LiteralValue, token
<1>2. CASE v # Null
  <2>1. Kind[f] \in {"string", "integer", "decimal", "boolean", "datetime", "uuid"}
    BY QueryAssumption
  <2>2. /\ Kind[f] \in {"integer", "decimal"} => token = Num(v)
        /\ Kind[f] = "boolean" => token = Bool(v)
        /\ Kind[f] \notin {"integer", "decimal", "boolean"} => token = Str(v)
    BY <1>2 DEF LiteralToken
  <2> HIDE DEF token
  <2>3. /\ token.value = v /\ token.kind \in {"string", "number", "ident"}
        /\ token.kind = "ident" => token.text \in {"true", "false"}
        /\ Kind[f] \in {"integer", "decimal"} => token.kind = "number"
        /\ Kind[f] = "boolean" => token.kind = "ident" /\ token.text \in {"true", "false"}
        /\ Kind[f] \notin {"integer", "decimal", "boolean"} => token.kind = "string"
    BY <2>2, SignKinds
  <2>4. ~IsNull(token)
    BY <2>3 DEF IsNull
  <2>5. Converts(Kind[f], token)
    BY <2>1, <2>3 DEF Converts
  <2>6. LiteralFault(f, text, i) = "none"
    BY <2>3, <2>5 DEF LiteralFault, token
  <2> QED BY <2>3, <2>4, <2>6 DEF LiteralValue, token
<1> QED BY <1>1, <1>2

LEMMA HoldsEach ==
  ASSUME NEW s \in Seq(Tokens), NEW text, NEW i, Holds(text, i, s), NEW k \in 1..Len(s)
  PROVE  At(text, i + k - 1) = s[k]
<1> DEFINE L == Len(text)
           n == Len(s)
<1>1. L \in Nat /\ i \in 1..(L + 1) /\ i + n <= L + 1 /\ n \in Nat
  BY DEF Holds, Readable
<1>2. text[i + k - 1] = s[k]
  BY DEF Holds
<1>3. k \in 1..n
  OBVIOUS
<1> HIDE DEF L, n
<1>4. ~(i + k - 1 > L)
  BY <1>1, <1>3
<1> QED BY <1>2, <1>4 DEF At, L

Acceptable(n) ==
  /\ n \in LeafNodes
  /\ \/ n.node = "compare" /\ ComparisonFault(n.op, n.field, n.value) = "none"
     \/ n.node = "function" /\ Kind[n.field] = "string"

LEMMA ComparisonOne ==
  ASSUME NEW n \in LeafNodes, n.node = "compare", ComparisonFault(n.op, n.field, n.value) = "none"
  PROVE  One(LeafText(n), n)
<1> DEFINE f == n.field
           op == n.op
           v == n.value
           s == <<Word(f), Word(op), LiteralToken(f, v)>>
<1>1. op \in Comparisons /\ f \in FieldNames /\ v \in Int \cup {Null}
  BY LeafShape
<1>2. n = Compare(op, f, v)
  BY DEF LeafNodes, Compare, NoNode
<1>3. LeafText(n) = s
  BY DEF LeafText
<1>4. Comparisons \subseteq Words /\ FieldNames \subseteq Words /\ "not" \notin FieldNames
  BY WordsAssumption, QueryAssumption, Zenon
<1>5. Word(f) \in Tokens /\ Word(op) \in Tokens /\ LiteralToken(f, v) \in Tokens
  BY <1>1, <1>4, WordTyped, LiteralTyped
<1> HIDE DEF f, op, v
<1>6. s \in Seq(Tokens) /\ Len(s) = 3 /\ s[1] = Word(f) /\ s[2] = Word(op) /\ s[3] = LiteralToken(f, v)
  BY <1>5
<1> SUFFICES ASSUME NEW text, NEW i, Holds(text, i, s)
             PROVE  Parse(text)[<<"not", i>>] = Parsed(<<n>>, i + Len(s))
  BY <1>3 DEF One
<1> DEFINE parse == Parse(text)
<1> HIDE DEF s
<1>7. i \in Nat
  BY DEF Holds, Readable
<1>8. At(text, i) = Word(f) /\ At(text, i + 1) = Word(op) /\ At(text, i + 2) = LiteralToken(f, v)
  <2>1. 1 \in 1..Len(s) /\ 2 \in 1..Len(s) /\ 3 \in 1..Len(s)
    BY <1>6
  <2>2. i + 1 - 1 = i /\ i + 2 - 1 = i + 1 /\ i + 3 - 1 = i + 2
    BY <1>7
  <2>3. At(text, i + 1 - 1) = s[1] /\ At(text, i + 2 - 1) = s[2] /\ At(text, i + 3 - 1) = s[3]
    BY <1>6, <2>1, HoldsEach
  <2> QED BY <1>6, <2>2, <2>3
<1>9. parse[<<"not", i>>] = ParseNot(text, i, parse)
  BY HoldsAt, ParseAt, Zenon
<1> HIDE DEF parse
<1>10. /\ At(text, i).kind = "ident" /\ At(text, i).text = f /\ At(text, i) # Word("not")
       /\ At(text, i + 1).kind = "ident" /\ At(text, i + 1).text = op
  <2>1. f # "not"
    BY <1>1, <1>4
  <2> QED BY <1>8, <2>1, WordsDiffer
<1>11. ParseNot(text, i, parse) = ParseComparison(text, i)
  BY <1>10 DEF ParseNot, ParsePrimary
<1>12. LiteralFault(f, text, i + 2) = "none" /\ LiteralValue(At(text, i + 2)) = v
  BY <1>1, <1>8, LiteralReads
<1>13. ComparisonFault(op, f, v) = "none"
  BY DEF op, f, v
<1>14. ParseComparison(text, i) = Parsed(<<Compare(op, f, v)>>, i + 3)
  BY <1>1, <1>10, <1>12, <1>13 DEF ParseComparison
<1> QED BY <1>2, <1>6, <1>9, <1>11, <1>14, Zenon DEF parse

LEMMA FunctionOne ==
  ASSUME NEW n \in LeafNodes, n.node = "function", Kind[n.field] = "string"
  PROVE  One(LeafText(n), n)
<1> DEFINE f == n.field
           op == n.op
           v == n.value
           s == <<Word(op), Open, Word(f), Comma, LiteralToken(f, v), Close>>
<1>1. op \in Functions3 /\ f \in FieldNames /\ v \in Int /\ v # Null
  BY LeafShape, QueryAssumption
<1>2. n = Function(op, f, v)
  BY DEF LeafNodes, Function, NoNode
<1>3. LeafText(n) = s
  BY DEF LeafText
<1>4. Functions3 \subseteq Words /\ FieldNames \subseteq Words
  BY WordsAssumption, QueryAssumption, Zenon
<1>5. /\ Word(f) \in Tokens /\ Word(op) \in Tokens /\ LiteralToken(f, v) \in Tokens
      /\ Open \in Tokens /\ Comma \in Tokens /\ Close \in Tokens
  BY <1>1, <1>4, WordTyped, LiteralTyped, SignsTyped
<1> HIDE DEF f, op, v
<1>6. /\ s \in Seq(Tokens) /\ Len(s) = 6 /\ s[1] = Word(op) /\ s[2] = Open /\ s[3] = Word(f)
      /\ s[4] = Comma /\ s[5] = LiteralToken(f, v) /\ s[6] = Close
  BY <1>5
<1> SUFFICES ASSUME NEW text, NEW i, Holds(text, i, s)
             PROVE  Parse(text)[<<"not", i>>] = Parsed(<<n>>, i + Len(s))
  BY <1>3 DEF One
<1> DEFINE parse == Parse(text)
<1> HIDE DEF s
<1>7. i \in Nat
  BY DEF Holds, Readable
<1>8. /\ At(text, i) = Word(op) /\ At(text, i + 1) = Open /\ At(text, i + 2) = Word(f)
      /\ At(text, i + 3) = Comma /\ At(text, i + 4) = LiteralToken(f, v) /\ At(text, i + 5) = Close
  <2>1. /\ 1 \in 1..Len(s) /\ 2 \in 1..Len(s) /\ 3 \in 1..Len(s)
        /\ 4 \in 1..Len(s) /\ 5 \in 1..Len(s) /\ 6 \in 1..Len(s)
    BY <1>6
  <2>2. /\ i + 1 - 1 = i /\ i + 2 - 1 = i + 1 /\ i + 3 - 1 = i + 2
        /\ i + 4 - 1 = i + 3 /\ i + 5 - 1 = i + 4 /\ i + 6 - 1 = i + 5
    BY <1>7
  <2>3. /\ At(text, i + 1 - 1) = s[1] /\ At(text, i + 2 - 1) = s[2] /\ At(text, i + 3 - 1) = s[3]
        /\ At(text, i + 4 - 1) = s[4] /\ At(text, i + 5 - 1) = s[5] /\ At(text, i + 6 - 1) = s[6]
    <3>1. s \in Seq(Tokens) /\ Holds(text, i, s)
      BY <1>6
    <3>2. \A k \in 1..Len(s) : At(text, i + k - 1) = s[k]
      <4> SUFFICES ASSUME NEW k \in 1..Len(s) PROVE At(text, i + k - 1) = s[k]
        OBVIOUS
      <4> QED BY <3>1, HoldsEach
    <3> QED BY <2>1, <3>2
  <2> QED BY <1>6, <2>2, <2>3
<1>9. parse[<<"not", i>>] = ParseNot(text, i, parse)
  BY HoldsAt, ParseAt, Zenon
<1> HIDE DEF parse
<1>10. /\ At(text, i).kind = "ident" /\ At(text, i).text = op /\ At(text, i) # Word("not")
       /\ At(text, i + 1).kind = "lparen"
       /\ At(text, i + 2).kind = "ident" /\ At(text, i + 2).text = f
       /\ At(text, i + 3).kind = "comma" /\ At(text, i + 5).kind = "rparen"
  <2>1. op # "not"
    BY <1>1 DEF Functions3
  <2> QED BY <1>8, <2>1, WordsDiffer
<1>11. ParseNot(text, i, parse) = ParseFunction(text, i)
  BY <1>10 DEF ParseNot, ParsePrimary
<1>12. /\ LiteralFault(f, text, i + 4) = "none" /\ ~IsNull(At(text, i + 4))
       /\ At(text, i + 4).value = v
  BY <1>1, <1>8, LiteralReads
<1>13. Kind[f] = "string"
  BY DEF f
<1>14. ParseFunction(text, i) = Parsed(<<Function(op, f, v)>>, i + 6)
  BY <1>1, <1>10, <1>12, <1>13 DEF ParseFunction
<1> QED BY <1>2, <1>6, <1>9, <1>11, <1>14, Zenon DEF parse

LEMMA LeafOne ==
  ASSUME NEW n, Acceptable(n)
  PROVE  One(LeafText(n), n)
BY ComparisonOne, FunctionOne DEF Acceptable

-----------------------------------------------------------------------------
(* The tree that is read from the text of another one.                     *)
LEMMA LogicTrees ==
  ASSUME NEW op \in {"and", "or"}, NEW ops, NEW d \in 0..MaxFilterLength
  PROVE  Logic(op, ops) \in Trees[d] <=> d # 0 /\ ops \in Seq(Trees[d - 1]) /\ Len(ops) > 1
<1> DEFINE n == Logic(op, ops)
<1>1. n.node = "logic" /\ n.op = op /\ n.children = ops
  BY DEF Logic
<1>2. ASSUME n \in Trees[d] PROVE d # 0 /\ ops \in Seq(Trees[d - 1]) /\ Len(ops) > 1
  <2>1. n \notin LeafNodes
    <3> HIDE DEF n
    <3> QED BY <1>1, LeafShape
  <2> HIDE DEF n
  <2>2. d \in 1..MaxFilterLength /\ ops \in Seq(Trees[d - 1]) /\ Len(ops) > 1
    BY <1>1, <1>2, <2>1, TreeShape
  <2> QED BY <2>2
<1>3. ASSUME d # 0, ops \in Seq(Trees[d - 1]), Len(ops) > 1 PROVE n \in Trees[d]
  <2>1. d \in 1..MaxFilterLength
    BY <1>3
  <2>2. Trees[d] = Grown(Trees[d - 1])
    BY <2>1, TreesGrow
  <2> DEFINE below == Trees[d - 1]
  <2>3. ops \in {s \in Seq(below) : Len(s) > 1}
    BY <1>3
  <2> HIDE DEF below
  <2>4. n \in Grown(below)
    BY <2>3 DEF Grown, Logic
  <2> QED BY <2>2, <2>4, Zenon DEF below
<1> QED BY <1>2, <1>3

LEMMA NotTrees ==
  ASSUME NEW n, NEW d \in 0..MaxFilterLength
  PROVE  Not(n) \in Trees[d] <=> d # 0 /\ n \in Trees[d - 1]
<1> DEFINE m == Not(n)
<1>1. m.node = "not" /\ m.child = n
  BY DEF Not
<1>2. ASSUME m \in Trees[d] PROVE d # 0 /\ n \in Trees[d - 1]
  <2>1. m \notin LeafNodes
    <3> HIDE DEF m
    <3> QED BY <1>1, LeafShape
  <2> HIDE DEF m
  <2>2. d \in 1..MaxFilterLength /\ n \in Trees[d - 1]
    BY <1>1, <1>2, <2>1, TreeShape
  <2> QED BY <2>2
<1>3. ASSUME d # 0, n \in Trees[d - 1] PROVE m \in Trees[d]
  <2>1. d \in 1..MaxFilterLength
    BY <1>3
  <2>2. Trees[d] = Grown(Trees[d - 1])
    BY <2>1, TreesGrow
  <2>3. m \in Grown(Trees[d - 1])
    BY <1>3 DEF Grown, Not
  <2> QED BY <2>2, <2>3
<1> QED BY <1>2, <1>3

LEMMA DepthsWiden ==
  ASSUME NEW d \in 1..MaxFilterLength
  PROVE  Trees[d - 1] \subseteq Trees[d] /\ d \in 0..MaxFilterLength /\ d - 1 \in 0..MaxFilterLength
<1>1. MaxFilterLength \in Nat
  BY QueryAssumption
<1>2. d \in 0..MaxFilterLength /\ d - 1 \in 0..d /\ d - 1 \in 0..MaxFilterLength
  BY <1>1
<1> QED BY <1>2, TreesWiden

LEMMA DepthsLimited ==
  ASSUME NEW d \in 0..MaxFilterLength
  PROVE  Trees[d] \subseteq FilterTrees
<1>1. MaxFilterLength \in 0..MaxFilterLength
  BY QueryAssumption
<1> QED BY <1>1, TreesWiden DEF FilterTrees

SeqWithin(ops, d) == ops \in Seq(Trees[d])

LEMMA CombRules ==
  ASSUME NEW op \in {"and", "or"}, NEW ops \in Seq(FilterTrees), ops # <<>>,
         Comb(op, ops) \in FilterTrees
  PROVE  /\ Render[Comb(op, ops)][Binds(op)] = Spelled(op, ops)
         /\ \A r : \A odd \in BOOLEAN : Evaluate(Comb(op, ops), r, odd) = Joint(op, Vals(ops, r, odd))
         /\ Weight(ops) <= Size[Comb(op, ops)]
         /\ \A d \in 0..MaxFilterLength : Comb(op, ops) \in Trees[d] => SeqWithin(ops, d)
<1> DEFINE m == Comb(op, ops)
<1>1. CASE Len(ops) = 1
  <2>1. m = ops[1] /\ ops = <<ops[1]>>
    BY <1>1 DEF Comb
  <2>2. ops = <<m>>
    BY <2>1
  <2> HIDE DEF m
  <2>3. m \in FilterTrees
    BY DEF m
  <2>4. Spelled(op, <<m>>) = Render[m][Binds(op)]
    BY <2>3, SpelledOne
  <2>5. ASSUME NEW r, NEW odd \in BOOLEAN PROVE Evaluate(m, r, odd) = Joint(op, Vals(ops, r, odd))
    <3>1. Vals(<<m>>, r, odd) = {Evaluate(m, r, odd)}
      BY ValsRules
    <3>2. Evaluate(m, r, odd) \in Truths
      BY <2>3, EvaluateRules
    <3>3. Joint(op, {Evaluate(m, r, odd)}) = Evaluate(m, r, odd)
      BY <3>2, JointRules
    <3> QED BY <2>2, <3>1, <3>3, Zenon
  <2>6. Weight(<<m>>) = Size[m] /\ Size[m] \in Nat
    BY <2>3, Weights, SizeSteps
  <2>7. Weight(ops) <= Size[m]
    <3>1. Weight(ops) = Size[m]
      BY <2>2, <2>6, Zenon
    <3> QED BY <2>6, <3>1
  <2>8. \A S : m \in S => <<m>> \in Seq(S)
    OBVIOUS
  <2>9. \A d \in 0..MaxFilterLength : m \in Trees[d] => SeqWithin(ops, d)
    BY <2>2, <2>8, Zenon DEF SeqWithin
  <2>10. Spelled(op, ops) = Render[m][Binds(op)]
    BY <2>2, <2>4, Zenon
  <2> QED BY <2>5, <2>7, <2>9, <2>10 DEF m
<1>2. CASE Len(ops) # 1
  <2>1. m = Logic(op, ops) /\ m \in FilterTrees
    BY <1>2 DEF Comb
  <2>2. m.node = "logic" /\ m.op = op /\ m.children = ops
    BY <2>1 DEF Logic
  <2> HIDE DEF m
  <2>3. Render[m][Binds(op)] = Spelled(op, ops)
    <3> DEFINE b == Binds(op)
    <3>1. b \in 0..3 /\ ~(b > b)
      BY DEF Binds
    <3> HIDE DEF b
    <3>2. Render[m][b] = IF b > Binds(m.op) THEN Parenthesised(Spelled(m.op, m.children))
                         ELSE Spelled(m.op, m.children)
      BY <2>1, <2>2, <3>1, LogicText, Zenon
    <3>3. Binds(m.op) = b
      BY <2>2, Zenon DEF b
    <3> QED BY <2>2, <3>1, <3>2, <3>3, Zenon DEF b
  <2>4. \A r : \A odd \in BOOLEAN : Evaluate(m, r, odd) = Joint(op, Vals(ops, r, odd))
    BY <2>1, <2>2, EvaluateRules, Zenon
  <2>5. Weight(ops) <= Size[m]
    <3>1. Size[m] = 1 + Weight(ops)
      BY <2>1, <2>2, SizeSteps, Zenon
    <3>2. Weight(ops) \in Nat
      BY Weights
    <3> QED BY <3>1, <3>2
  <2>6. ASSUME NEW d \in 0..MaxFilterLength, m \in Trees[d] PROVE SeqWithin(ops, d)
    <3>1. d # 0 /\ ops \in Seq(Trees[d - 1])
      BY <2>1, <2>6, LogicTrees
    <3>2. d \in 1..MaxFilterLength
      BY <3>1
    <3>3. Trees[d - 1] \subseteq Trees[d]
      BY <3>2, DepthsWiden
    <3> QED BY <3>1, <3>3, SeqMonotonic DEF SeqWithin
  <2> QED BY <2>3, <2>4, <2>5, <2>6 DEF m
<1> QED BY <1>1, <1>2

\* The tree m differs from n in the nesting of "and" in "and" and of "or" in "or".
Same(n, m) ==
  /\ m \in FilterTrees
  /\ \A d \in 0..MaxFilterLength : n \in Trees[d] => m \in Trees[d]
  /\ \A outer \in 0..3 : Render[m][outer] = Render[n][outer]
  /\ Size[m] <= Size[n]
  /\ \A r : \A odd \in BOOLEAN : Evaluate(m, r, odd) = Evaluate(n, r, odd)

Operands(op, s, ops, m) ==
  /\ ops \in Seq(FilterTrees) /\ ops # <<>>
  /\ m = Comb(op, ops)
  /\ Chain(op, s, ops)

Normal(n, m) ==
  /\ Same(n, m)
  /\ One(Render[n][3], m)
  /\ \E ops : Operands("and", Render[n][2], ops, m)
  /\ \E ops : Operands("or", Render[n][1], ops, m)

Settled == {n \in FilterTrees : \E m : Normal(n, m)}

LEMMA CombOne ==
  ASSUME NEW op, NEW m \in FilterTrees
  PROVE  Comb(op, <<m>>) = m /\ <<m>> \in Seq(FilterTrees) /\ <<m>> # <<>>
BY DEF Comb

LEMMA OperandOne ==
  ASSUME NEW s, NEW m \in FilterTrees, One(s, m)
  PROVE  Operands("and", s, <<m>>, m) /\ Operands("or", s, <<m>>, m)
<1>1. /\ Comb("and", <<m>>) = m /\ Comb("or", <<m>>) = m
      /\ <<m>> \in Seq(FilterTrees) /\ <<m>> # <<>>
  BY CombOne
<1>2. Chain("and", s, <<m>>)
  BY OneChain
<1>3. Chain("or", s, <<Comb("and", <<m>>)>>)
  BY <1>1, <1>2, ChainOfChain
<1>4. Chain("or", s, <<m>>)
  BY <1>1, <1>3, Zenon
<1> QED BY <1>1, <1>2, <1>4, Zenon DEF Operands

LEMMA OperandsMore ==
  ASSUME NEW s, NEW ops, NEW m \in FilterTrees, Operands("and", s, ops, m)
  PROVE  Operands("or", s, <<m>>, m)
<1>1. Comb("or", <<m>>) = m /\ <<m>> \in Seq(FilterTrees) /\ <<m>> # <<>>
  BY CombOne
<1>2. ops \in Seq(FilterTrees) /\ ops # <<>> /\ m = Comb("and", ops) /\ Chain("and", s, ops)
  BY Zenon DEF Operands
<1>3. Chain("or", s, <<Comb("and", ops)>>)
  BY <1>2, ChainOfChain
<1> QED BY <1>1, <1>2, <1>3, Zenon DEF Operands

LEMMA SameSelf ==
  ASSUME NEW n \in FilterTrees
  PROVE  Same(n, n)
<1>1. Size[n] \in Nat
  BY SizeSteps
<1>2. Size[n] <= Size[n]
  BY <1>1
<1> QED BY <1>2, Zenon DEF Same

LEMMA LeafSettled ==
  ASSUME NEW n, Acceptable(n)
  PROVE  n \in Settled
<1>1. n \in LeafNodes /\ n \in FilterTrees
  BY LeavesAreTrees DEF Acceptable
<1>2. Render[n][1] = LeafText(n) /\ Render[n][2] = LeafText(n) /\ Render[n][3] = LeafText(n)
  BY <1>1, LeafRendered
<1>3. One(LeafText(n), n)
  BY LeafOne
<1>4. Operands("and", LeafText(n), <<n>>, n) /\ Operands("or", LeafText(n), <<n>>, n)
  BY <1>1, <1>3, OperandOne
<1>5. Same(n, n)
  BY <1>1, SameSelf
<1>6. Normal(n, n)
  BY <1>2, <1>3, <1>4, <1>5, Zenon DEF Normal
<1> QED BY <1>1, <1>6 DEF Settled

LEMMA NotSettled ==
  ASSUME NEW c \in Settled, Not(c) \in FilterTrees
  PROVE  Not(c) \in Settled
<1>1. c \in FilterTrees
  BY DEF Settled
<1>2. PICK m : Normal(c, m)
  BY DEF Settled
<1> DEFINE n == Not(c)
           k == Not(m)
<1>3. n.node = "not" /\ n.child = c /\ k.node = "not" /\ k.child = m
  BY DEF Not
<1>4. Same(c, m) /\ One(Render[c][3], m)
  BY <1>2, Zenon DEF Normal
<1>5. \A d \in 0..MaxFilterLength : n \in Trees[d] => k \in Trees[d]
  <2> SUFFICES ASSUME NEW d \in 0..MaxFilterLength, n \in Trees[d] PROVE k \in Trees[d]
    OBVIOUS
  <2>1. d # 0 /\ c \in Trees[d - 1]
    BY NotTrees
  <2>2. d - 1 \in 0..MaxFilterLength
    <3>1. d \in 1..MaxFilterLength
      BY <2>1
    <3> QED BY <3>1, DepthsWiden
  <2>3. m \in Trees[d - 1]
    BY <1>4, <2>1, <2>2, Zenon DEF Same
  <2> QED BY <2>1, <2>3, NotTrees
<1>6. k \in FilterTrees
  <2>1. MaxFilterLength \in 0..MaxFilterLength
    BY QueryAssumption
  <2> HIDE DEF n, k
  <2>2. n \in Trees[MaxFilterLength]
    BY DEF FilterTrees, n
  <2> QED BY <1>5, <2>1, <2>2, Zenon DEF FilterTrees
<1>7. n \in FilterTrees
  OBVIOUS
<1> HIDE DEF n, k
<1>8. \A outer \in 0..3 : Render[n][outer] = <<Word("not")>> \o Render[c][3]
  BY <1>3, <1>7, NotText, Zenon
<1>9. \A outer \in 0..3 : Render[k][outer] = <<Word("not")>> \o Render[m][3]
  BY <1>3, <1>6, NotText, Zenon
<1>10. Render[m][3] = Render[c][3]
  BY <1>4 DEF Same
<1>11. \A outer \in 0..3 : Render[k][outer] = Render[n][outer]
  BY <1>8, <1>9, <1>10, Zenon
<1>12. Size[k] <= Size[n]
  <2>1. m \in FilterTrees /\ Size[m] <= Size[c]
    BY <1>4 DEF Same
  <2>2. Size[k] = 1 + Size[m] /\ Size[n] = 1 + Size[c] /\ Size[m] \in Nat /\ Size[c] \in Nat
    BY <1>1, <1>3, <1>6, <1>7, <2>1, SizeSteps
  <2> QED BY <2>1, <2>2
<1>13. \A r : \A odd \in BOOLEAN : Evaluate(k, r, odd) = Evaluate(n, r, odd)
  <2> SUFFICES ASSUME NEW r, NEW odd \in BOOLEAN PROVE Evaluate(k, r, odd) = Evaluate(n, r, odd)
    OBVIOUS
  <2>1. Evaluate(k, r, odd) = Negation(Evaluate(m, r, ~odd))
    BY <1>3, <1>6, EvaluateRules, Zenon
  <2>2. Evaluate(n, r, odd) = Negation(Evaluate(c, r, ~odd))
    BY <1>3, <1>7, EvaluateRules, Zenon
  <2>3. (~odd) \in BOOLEAN
    BY Zenon
  <2>4. Evaluate(m, r, ~odd) = Evaluate(c, r, ~odd)
    BY <1>4, <2>3 DEF Same
  <2> QED BY <2>1, <2>2, <2>4, Zenon
<1>14. Same(n, k)
  BY <1>5, <1>6, <1>11, <1>12, <1>13, Zenon DEF Same
<1>15. Render[c][3] \in Seq(Tokens)
  BY <1>1, RenderSteps
<1>16. One(<<Word("not")>> \o Render[c][3], k)
  BY <1>4, <1>15, OneNegated DEF k
<1>17. /\ Render[n][1] = <<Word("not")>> \o Render[c][3]
       /\ Render[n][2] = <<Word("not")>> \o Render[c][3]
       /\ Render[n][3] = <<Word("not")>> \o Render[c][3]
  <2>1. 1 \in 0..3 /\ 2 \in 0..3 /\ 3 \in 0..3
    OBVIOUS
  <2> QED BY <1>8, <2>1, Zenon
<1>18. /\ Operands("and", <<Word("not")>> \o Render[c][3], <<k>>, k)
       /\ Operands("or", <<Word("not")>> \o Render[c][3], <<k>>, k)
  BY <1>6, <1>16, OperandOne
<1>19. Normal(n, k)
  BY <1>14, <1>16, <1>17, <1>18, Zenon DEF Normal
<1> QED BY <1>7, <1>19 DEF Settled, n

-----------------------------------------------------------------------------
(* The operands that are read from the text of a chain of settled trees.   *)
SameValues(op, s, flat) ==
  \A r : \A odd \in BOOLEAN : Joint(op, Vals(flat, r, odd)) = Joint(op, Vals(s, r, odd))

Flattened(op, s, flat) ==
  /\ flat \in Seq(FilterTrees) /\ Len(flat) >= Len(s)
  /\ Chain(op, Spelled(op, s), flat)
  /\ Spelled(op, flat) = Spelled(op, s)
  /\ Weight(flat) <= Weight(s)
  /\ SameValues(op, s, flat)
  /\ \A d \in 0..MaxFilterLength : SeqWithin(s, d) => SeqWithin(flat, d)

LEMMA LongerNotEmpty ==
  ASSUME NEW S, NEW s \in Seq(S), s # <<>>, NEW t \in Seq(S), Len(t) >= Len(s)
  PROVE  t # <<>> /\ Len(s) \in Nat \ {0} /\ Len(t) \in Nat \ {0}
OBVIOUS

LEMMA FlattenOne ==
  ASSUME NEW op \in {"and", "or"}, NEW x \in Settled
  PROVE  \E flat : Flattened(op, <<x>>, flat)
<1>1. x \in FilterTrees /\ <<x>> \in Seq(FilterTrees)
  BY DEF Settled
<1>2. PICK m : Normal(x, m)
  BY DEF Settled
<1>3. Same(x, m)
  BY <1>2, Zenon DEF Normal
<1> DEFINE b == Binds(op)
<1>4. PICK ops : Operands(op, Render[x][b], ops, m)
  <2>1. CASE op = "and"
    <3>1. b = 2
      BY <2>1 DEF Binds
    <3> HIDE DEF b
    <3> QED BY <1>2, <2>1, <3>1, Zenon DEF Normal
  <2>2. CASE op = "or"
    <3>1. b = 1
      BY <2>2 DEF Binds
    <3> HIDE DEF b
    <3> QED BY <1>2, <2>2, <3>1, Zenon DEF Normal
  <2> QED BY <2>1, <2>2
<1>5. ops \in Seq(FilterTrees) /\ ops # <<>> /\ m = Comb(op, ops) /\ Chain(op, Render[x][b], ops)
  BY <1>4, Zenon DEF Operands
<1>6. /\ m \in FilterTrees
      /\ \A d \in 0..MaxFilterLength : x \in Trees[d] => m \in Trees[d]
      /\ Render[m][b] = Render[x][b]
      /\ Size[m] <= Size[x]
      /\ \A r : \A odd \in BOOLEAN : Evaluate(m, r, odd) = Evaluate(x, r, odd)
  <2>1. b \in 0..3
    BY BindsTyped
  <2> QED BY <1>3, <2>1, Zenon DEF Same
<1>7. /\ Render[m][b] = Spelled(op, ops)
      /\ \A r : \A odd \in BOOLEAN : Evaluate(m, r, odd) = Joint(op, Vals(ops, r, odd))
      /\ Weight(ops) <= Size[m]
      /\ \A d \in 0..MaxFilterLength : m \in Trees[d] => SeqWithin(ops, d)
  BY <1>5, <1>6, CombRules, Zenon
<1>8. Spelled(op, <<x>>) = Render[x][b]
  BY <1>1, SpelledOne
<1> HIDE DEF b
<1>9. Len(ops) >= Len(<<x>>)
  <2>1. Len(<<x>>) = 1
    OBVIOUS
  <2> QED BY <1>5, <2>1
<1>10. Weight(ops) <= Weight(<<x>>)
  <2>1. Weight(<<x>>) = Size[x] /\ Weight(ops) \in Nat
    BY <1>1, <1>5, Weights
  <2>2. Size[m] \in Nat /\ Size[x] \in Nat
    BY <1>1, <1>6, SizeSteps
  <2> QED BY <1>6, <1>7, <2>1, <2>2
<1>11. SameValues(op, <<x>>, ops)
  <2> SUFFICES ASSUME NEW r, NEW odd \in BOOLEAN
               PROVE  Joint(op, Vals(ops, r, odd)) = Joint(op, Vals(<<x>>, r, odd))
    BY DEF SameValues
  <2>1. Vals(<<x>>, r, odd) = {Evaluate(x, r, odd)}
    BY ValsRules
  <2>2. Evaluate(x, r, odd) \in Truths
    BY <1>1, EvaluateRules
  <2>3. Joint(op, {Evaluate(x, r, odd)}) = Evaluate(x, r, odd)
    BY <2>2, JointRules, Zenon
  <2> QED BY <1>6, <1>7, <2>1, <2>3, Zenon
<1>12. ASSUME NEW d \in 0..MaxFilterLength, SeqWithin(<<x>>, d) PROVE SeqWithin(ops, d)
  <2>1. \A S : <<x>> \in Seq(S) => x \in S
    OBVIOUS
  <2>2. x \in Trees[d]
    BY <1>12, <2>1, Zenon DEF SeqWithin
  <2> QED BY <1>6, <1>7, <2>2, Zenon
<1>13. Spelled(op, ops) = Spelled(op, <<x>>) /\ Chain(op, Spelled(op, <<x>>), ops)
  BY <1>5, <1>6, <1>7, <1>8, Zenon
<1>14. Flattened(op, <<x>>, ops)
  BY <1>5, <1>9, <1>10, <1>11, <1>12, <1>13, Zenon DEF Flattened
<1> QED BY <1>14

LEMMA FlattenJoin ==
  ASSUME NEW op \in {"and", "or"},
         NEW s \in Seq(FilterTrees), s # <<>>, NEW t \in Seq(FilterTrees), t # <<>>,
         NEW a, Flattened(op, s, a), NEW b, Flattened(op, t, b)
  PROVE  Flattened(op, s \o t, a \o b)
<1>1. /\ a \in Seq(FilterTrees) /\ Len(a) >= Len(s)
      /\ b \in Seq(FilterTrees) /\ Len(b) >= Len(t)
  BY Zenon DEF Flattened
<1>2. a # <<>> /\ b # <<>>
  BY <1>1, LongerNotEmpty
<1>3. Spelled(op, s) \in Seq(Tokens) /\ Spelled(op, t) \in Seq(Tokens)
  BY SpelledTyped
<1>4. SpellsJoin(op, s, t) /\ SpellsJoin(op, a, b)
  BY <1>1, <1>2, SpelledConcat
<1>5. /\ Spelled(op, s \o t) = Spaced(op, Spelled(op, s), Spelled(op, t))
      /\ Spelled(op, a \o b) = Spaced(op, Spelled(op, a), Spelled(op, b))
  BY <1>4, Zenon DEF SpellsJoin
<1>6. Spelled(op, a \o b) = Spelled(op, s \o t)
  <2>1. Spelled(op, a) = Spelled(op, s) /\ Spelled(op, b) = Spelled(op, t)
    BY Zenon DEF Flattened
  <2> QED BY <1>5, <2>1, Zenon
<1>7. Chain(op, Spelled(op, s \o t), a \o b)
  <2>1. Chain(op, Spelled(op, s), a) /\ Chain(op, Spelled(op, t), b)
    BY Zenon DEF Flattened
  <2> DEFINE p == Spelled(op, s)
             q == Spelled(op, t)
  <2> HIDE DEF p, q
  <2>2. p \in Seq(Tokens) /\ q \in Seq(Tokens) /\ Chain(op, p, a) /\ Chain(op, q, b)
    BY <1>3, <2>1 DEF p, q
  <2>3. Chain(op, Spaced(op, p, q), a \o b)
    BY <1>1, <1>2, <2>2, ChainsJoin
  <2> QED BY <1>5, <2>3, Zenon DEF p, q
<1>8. a \o b \in Seq(FilterTrees) /\ Len(a \o b) >= Len(s \o t)
  <2>1. Len(a \o b) = Len(a) + Len(b) /\ Len(s \o t) = Len(s) + Len(t) /\ a \o b \in Seq(FilterTrees)
    BY <1>1
  <2>2. Len(a) \in Nat /\ Len(b) \in Nat /\ Len(s) \in Nat /\ Len(t) \in Nat
    BY <1>1
  <2> DEFINE la == Len(a)
             lb == Len(b)
             ls == Len(s)
             lt == Len(t)
  <2> HIDE DEF la, lb, ls, lt
  <2>3. la \in Nat /\ lb \in Nat /\ ls \in Nat /\ lt \in Nat /\ la >= ls /\ lb >= lt
    BY <1>1, <2>2 DEF la, lb, ls, lt
  <2>4. la + lb >= ls + lt
    BY <2>3
  <2> QED BY <2>1, <2>4, Zenon DEF la, lb, ls, lt
<1>9. Weight(a \o b) <= Weight(s \o t)
  <2>1. Weight(a \o b) = Weight(a) + Weight(b) /\ Weight(s \o t) = Weight(s) + Weight(t)
    BY <1>1, <1>2, Weights
  <2>2. Weight(a) \in Nat /\ Weight(b) \in Nat /\ Weight(s) \in Nat /\ Weight(t) \in Nat
    BY <1>1, Weights
  <2>3. Weight(a) <= Weight(s) /\ Weight(b) <= Weight(t)
    BY Zenon DEF Flattened
  <2> QED BY <2>1, <2>2, <2>3
<1>10. SameValues(op, s \o t, a \o b)
  <2> SUFFICES ASSUME NEW r, NEW odd \in BOOLEAN
               PROVE  Joint(op, Vals(a \o b, r, odd)) = Joint(op, Vals(s \o t, r, odd))
    BY DEF SameValues
  <2>1. /\ Vals(a \o b, r, odd) = Vals(a, r, odd) \cup Vals(b, r, odd)
        /\ Vals(s \o t, r, odd) = Vals(s, r, odd) \cup Vals(t, r, odd)
        /\ Vals(a, r, odd) \in SUBSET Truths /\ Vals(b, r, odd) \in SUBSET Truths
        /\ Vals(s, r, odd) \in SUBSET Truths /\ Vals(t, r, odd) \in SUBSET Truths
    <3>1. \A u, v \in Seq(FilterTrees) : Vals(u \o v, r, odd) = Vals(u, r, odd) \cup Vals(v, r, odd)
      BY ValsRules, Zenon
    <3>2. \A u \in Seq(FilterTrees) : Vals(u, r, odd) \in SUBSET Truths
      BY ValsRules, Zenon
    <3>3. a \in Seq(FilterTrees) /\ b \in Seq(FilterTrees)
      BY <1>1, Zenon
    <3>4. Vals(a \o b, r, odd) = Vals(a, r, odd) \cup Vals(b, r, odd)
      BY <3>1, <3>3, Zenon
    <3>5. Vals(s \o t, r, odd) = Vals(s, r, odd) \cup Vals(t, r, odd)
      BY <3>1, Zenon
    <3> QED BY <3>2, <3>3, <3>4, <3>5, Zenon
  <2>2. /\ Joint(op, Vals(a, r, odd)) = Joint(op, Vals(s, r, odd))
        /\ Joint(op, Vals(b, r, odd)) = Joint(op, Vals(t, r, odd))
    <3>1. SameValues(op, s, a) /\ SameValues(op, t, b)
      BY Zenon DEF Flattened
    <3> QED BY <3>1, Zenon DEF SameValues
  <2>3. \A A \in SUBSET Truths, B \in SUBSET Truths :
          Joint(op, A \cup B) = Joint(op, {Joint(op, A), Joint(op, B)})
    BY JointRules, Zenon
  <2>4. /\ Joint(op, Vals(a, r, odd) \cup Vals(b, r, odd))
             = Joint(op, {Joint(op, Vals(a, r, odd)), Joint(op, Vals(b, r, odd))})
        /\ Joint(op, Vals(s, r, odd) \cup Vals(t, r, odd))
             = Joint(op, {Joint(op, Vals(s, r, odd)), Joint(op, Vals(t, r, odd))})
    BY <2>1, <2>3, Zenon
  <2> QED BY <2>1, <2>2, <2>4, Zenon
<1>11. ASSUME NEW d \in 0..MaxFilterLength, SeqWithin(s \o t, d) PROVE SeqWithin(a \o b, d)
  <2> DEFINE T == Trees[d]
  <2>1. s \o t \in Seq(T)
    BY <1>11 DEF SeqWithin
  <2> HIDE DEF T
  <2>2. s \in Seq(T) /\ t \in Seq(T)
    <3> DEFINE u == s \o t
               m == Len(s)
               k == Len(t)
    <3>1. /\ m \in Nat /\ k \in Nat /\ Len(u) = m + k
          /\ \A i \in 1..m : u[i] = s[i]
          /\ \A i \in 1..k : u[m + i] = t[i]
      OBVIOUS
    <3> HIDE DEF u
    <3>2. u \in Seq(T)
      BY <2>1 DEF u
    <3>3. \A i \in 1..(m + k) : u[i] \in T
      BY <3>1, <3>2
    <3> HIDE DEF m, k
    <3>4. \A i \in 1..m : s[i] \in T
      <4>1. \A i \in 1..m : i \in 1..(m + k)
        BY <3>1
      <4> QED BY <3>1, <3>3, <4>1
    <3>5. \A i \in 1..k : t[i] \in T
      <4>1. \A i \in 1..k : m + i \in 1..(m + k)
        BY <3>1
      <4> QED BY <3>1, <3>3, <4>1
    <3> QED BY <3>4, <3>5 DEF m, k
  <2>3. SeqWithin(s, d) /\ SeqWithin(t, d)
    BY <2>2 DEF SeqWithin, T
  <2>4. SeqWithin(a, d) /\ SeqWithin(b, d)
    BY <2>3, Zenon DEF Flattened
  <2>5. a \in Seq(T) /\ b \in Seq(T)
    BY <2>4 DEF SeqWithin, T
  <2>6. a \o b \in Seq(T)
    BY <2>5
  <2> QED BY <2>6 DEF SeqWithin, T
<1> QED BY <1>6, <1>7, <1>8, <1>9, <1>10, <1>11, Zenon DEF Flattened

LEMMA Flatten ==
  ASSUME NEW op \in {"and", "or"}, NEW s \in Seq(Settled), s # <<>>
  PROVE  \E flat : Flattened(op, s, flat)
<1> DEFINE P == {u \in Seq(Settled) : \E flat : Flattened(op, u, flat)}
<1>1. ASSUME NEW x \in Settled PROVE <<x>> \in P
  <2>1. <<x>> \in Seq(Settled)
    OBVIOUS
  <2> QED BY <2>1, FlattenOne
<1>2. ASSUME NEW u \in Seq(Settled) \cap P, NEW x \in Settled, u # <<>> PROVE Append(u, x) \in P
  <2>1. PICK a : Flattened(op, u, a)
    BY <1>2
  <2>2. PICK b : Flattened(op, <<x>>, b)
    BY FlattenOne
  <2>3. Settled \subseteq FilterTrees
    BY DEF Settled
  <2> HIDE DEF P
  <2>4. u \in Seq(Settled) /\ <<x>> \in Seq(Settled) /\ <<x>> # <<>>
    BY <1>2
  <2>5. Append(u, x) = u \o <<x>> /\ Append(u, x) \in Seq(Settled)
    BY <2>4
  <2>6. u \in Seq(FilterTrees) /\ <<x>> \in Seq(FilterTrees)
    BY <2>3, <2>4, SeqMonotonic
  <2>7. Flattened(op, u \o <<x>>, a \o b)
    BY <1>2, <2>1, <2>2, <2>4, <2>6, FlattenJoin
  <2>8. Flattened(op, Append(u, x), a \o b)
    BY <2>5, <2>7, Zenon
  <2> QED BY <2>5, <2>8 DEF P
<1>3. s \in P
  <2> HIDE DEF P
  <2> QED BY <1>1, <1>2, ByAppending
<1> QED BY <1>3

LEMMA LogicSettled ==
  ASSUME NEW op \in {"and", "or"}, NEW s \in Seq(Settled), Len(s) > 1,
         Logic(op, s) \in FilterTrees
  PROVE  Logic(op, s) \in Settled
<1> DEFINE n == Logic(op, s)
<1>0. s # <<>> /\ Len(s) \in Nat
  OBVIOUS
<1>1. PICK flat : Flattened(op, s, flat)
  BY <1>0, Flatten
<1> DEFINE m == Logic(op, flat)
<1>2. /\ n.node = "logic" /\ n.op = op /\ n.children = s
      /\ m.node = "logic" /\ m.op = op /\ m.children = flat
  BY DEF Logic
<1>3. flat \in Seq(FilterTrees) /\ Len(flat) > 1 /\ flat # <<>>
  <2>1. flat \in Seq(FilterTrees) /\ Len(flat) >= Len(s)
    BY <1>1, Zenon DEF Flattened
  <2>2. Len(flat) \in Nat
    BY <2>1
  <2>3. Len(flat) > 1
    BY <1>0, <2>1, <2>2
  <2> QED BY <2>1, <2>3
<1>4. \A d \in 0..MaxFilterLength : n \in Trees[d] => m \in Trees[d]
  <2> SUFFICES ASSUME NEW d \in 0..MaxFilterLength, n \in Trees[d] PROVE m \in Trees[d]
    OBVIOUS
  <2>1. d # 0 /\ s \in Seq(Trees[d - 1])
    BY LogicTrees
  <2>2. d - 1 \in 0..MaxFilterLength
    <3>1. d \in 1..MaxFilterLength
      BY <2>1
    <3> QED BY <3>1, DepthsWiden
  <2>3. SeqWithin(flat, d - 1)
    <3>1. SeqWithin(s, d - 1)
      BY <2>1 DEF SeqWithin
    <3> QED BY <1>1, <2>2, <3>1, Zenon DEF Flattened
  <2>4. flat \in Seq(Trees[d - 1])
    BY <2>3, Zenon DEF SeqWithin
  <2> QED BY <1>3, <2>1, <2>4, LogicTrees
<1>5. n \in FilterTrees
  OBVIOUS
<1>6. m \in FilterTrees
  <2>1. MaxFilterLength \in 0..MaxFilterLength
    BY QueryAssumption
  <2> HIDE DEF n, m
  <2> QED BY <1>4, <1>5, <2>1, Zenon DEF FilterTrees
<1> HIDE DEF n, m
<1> DEFINE p == Spelled(op, s)
<1>7. Spelled(op, flat) = p /\ Chain(op, p, flat)
  BY <1>1, Zenon DEF Flattened
<1>8. p \in Seq(Tokens)
  <2>1. s \in Seq(FilterTrees)
    <3>1. Settled \subseteq FilterTrees
      BY DEF Settled
    <3> QED BY <3>1, SeqMonotonic
  <2> QED BY <1>0, <2>1, SpelledTyped
<1> HIDE DEF p
<1>9. \A outer \in 0..3 : Render[n][outer] = IF outer > Binds(op) THEN Parenthesised(p) ELSE p
  BY <1>2, <1>5, LogicText, Zenon DEF p
<1>10. \A outer \in 0..3 : Render[m][outer] = IF outer > Binds(op) THEN Parenthesised(p) ELSE p
  BY <1>2, <1>6, <1>7, LogicText, Zenon
<1>11. \A outer \in 0..3 : Render[m][outer] = Render[n][outer]
  BY <1>9, <1>10, Zenon
<1>12. Size[m] <= Size[n]
  <2>1. Size[m] = 1 + Weight(flat) /\ Size[n] = 1 + Weight(s)
    BY <1>2, <1>5, <1>6, SizeSteps, Zenon
  <2>2. Weight(flat) <= Weight(s)
    BY <1>1, Zenon DEF Flattened
  <2>3. s \in Seq(FilterTrees)
    <3>1. Settled \subseteq FilterTrees
      BY DEF Settled
    <3> QED BY <3>1, SeqMonotonic
  <2>4. Weight(flat) \in Nat /\ Weight(s) \in Nat
    BY <1>3, <2>3, Weights
  <2> QED BY <2>1, <2>2, <2>4
<1>13. \A r : \A odd \in BOOLEAN : Evaluate(m, r, odd) = Evaluate(n, r, odd)
  <2> SUFFICES ASSUME NEW r, NEW odd \in BOOLEAN PROVE Evaluate(m, r, odd) = Evaluate(n, r, odd)
    OBVIOUS
  <2>1. Evaluate(m, r, odd) = Joint(op, Vals(flat, r, odd))
    BY <1>2, <1>6, EvaluateRules, Zenon
  <2>2. Evaluate(n, r, odd) = Joint(op, Vals(s, r, odd))
    BY <1>2, <1>5, EvaluateRules, Zenon
  <2>3. SameValues(op, s, flat)
    BY <1>1, Zenon DEF Flattened
  <2> QED BY <2>1, <2>2, <2>3, Zenon DEF SameValues
<1>14. Same(n, m)
  BY <1>4, <1>6, <1>11, <1>12, <1>13, Zenon DEF Same
<1>15. m = Comb(op, flat)
  <2>1. Len(flat) # 1
    <3> DEFINE k == Len(flat)
    <3>1. k > 1
      BY <1>3 DEF k
    <3> HIDE DEF k
    <3>2. k # 1
      BY <3>1
    <3> QED BY <3>2, Zenon DEF k
  <2> QED BY <2>1, Zenon DEF Comb, m
<1>16. Operands(op, p, flat, m)
  BY <1>3, <1>7, <1>15, Zenon DEF Operands
<1>17. CASE op = "and"
  <2>1. Binds(op) = 2
    BY <1>17 DEF Binds
  <2>2. Render[n][1] = p /\ Render[n][2] = p /\ Render[n][3] = Parenthesised(p)
    BY <1>9, <2>1
  <2>3. Operands("or", p, <<m>>, m)
    BY <1>6, <1>16, <1>17, OperandsMore
  <2>4. One(Parenthesised(p), m)
    <3>1. <<m>> \in Seq(FilterTrees) /\ <<m>> # <<>> /\ m = Comb("or", <<m>>) /\ Chain("or", p, <<m>>)
      BY <2>3, Zenon DEF Operands
    <3>2. One(Parenthesised(p), Comb("or", <<m>>))
      BY <1>8, <3>1, ChainEnclosed
    <3> QED BY <3>1, <3>2, Zenon
  <2>5. Normal(n, m)
    BY <1>14, <1>16, <1>17, <2>2, <2>3, <2>4, Zenon DEF Normal
  <2> QED BY <1>5, <2>5 DEF Settled, n
<1>18. CASE op = "or"
  <2>1. Binds(op) = 1
    BY <1>18 DEF Binds
  <2>2. Render[n][1] = p /\ Render[n][2] = Parenthesised(p) /\ Render[n][3] = Parenthesised(p)
    BY <1>9, <2>1
  <2>3. One(Parenthesised(p), m)
    <3>1. Chain("or", p, flat)
      BY <1>7, <1>18, Zenon
    <3>2. One(Parenthesised(p), Comb("or", flat))
      BY <1>3, <1>8, <3>1, ChainEnclosed
    <3> QED BY <1>15, <1>18, <3>2, Zenon
  <2>4. Operands("and", Parenthesised(p), <<m>>, m)
    BY <1>6, <2>3, OperandOne
  <2>5. Normal(n, m)
    BY <1>14, <1>16, <1>18, <2>2, <2>3, <2>4, Zenon DEF Normal
  <2> QED BY <1>5, <2>5 DEF Settled, n
<1> QED BY <1>17, <1>18 DEF n

LEMMA CombSettled ==
  ASSUME NEW op \in {"and", "or"}, NEW s \in Seq(Settled), s # <<>>, Comb(op, s) \in FilterTrees
  PROVE  Comb(op, s) \in Settled
<1>1. CASE Len(s) = 1
  BY <1>1 DEF Comb
<1>2. CASE Len(s) # 1
  <2>1. Comb(op, s) = Logic(op, s)
    BY <1>2 DEF Comb
  <2>2. Len(s) > 1
    <3>1. Len(s) \in Nat /\ Len(s) # 0
      OBVIOUS
    <3> DEFINE k == Len(s)
    <3> HIDE DEF k
    <3>2. k > 1
      BY <1>2, <3>1 DEF k
    <3> QED BY <3>2 DEF k
  <2> QED BY <2>1, <2>2, LogicSettled
<1> QED BY <1>1, <1>2

-----------------------------------------------------------------------------
(* The text of a tree is no longer than the text it was read from.         *)

\* How long the text of n is where an operator of precedence outer stands around it.
Width(n, outer) == Len(Render[n][outer])

LEMMA LengthsAdd ==
  /\ \A s, t \in Seq(Tokens) : Len(s) \in Nat /\ Len(s \o t) = Len(s) + Len(t)
  /\ \A s \in Seq(Tokens) : Len(Parenthesised(s)) = Len(s) + 2
  /\ \A op \in {"and", "or"} : \A s, t \in Seq(Tokens) :
       Len(Spaced(op, s, t)) = Len(s) + 1 + Len(t)
  /\ \A w \in Words : \A s \in Seq(Tokens) : Len(<<Word(w)>> \o s) = 1 + Len(s)
<1>1. ASSUME NEW s \in Seq(Tokens), NEW t \in Seq(Tokens)
      PROVE  s \o t \in Seq(Tokens) /\ Len(s) \in Nat /\ Len(s \o t) = Len(s) + Len(t)
  BY ConcatProperties
<1>2. \A x \in Tokens : <<x>> \in Seq(Tokens) /\ Len(<<x>>) = 1
  <2> SUFFICES ASSUME NEW x \in Tokens PROVE <<x>> \in Seq(Tokens) /\ Len(<<x>>) = 1
    OBVIOUS
  <2> QED OBVIOUS
<1>3. ASSUME NEW s \in Seq(Tokens) PROVE Len(Parenthesised(s)) = Len(s) + 2
  <2>1. <<Open>> \in Seq(Tokens) /\ <<Close>> \in Seq(Tokens) /\ Len(<<Open>>) = 1 /\ Len(<<Close>>) = 1
    BY <1>2, SignsTyped
  <2>2. <<Open>> \o s \in Seq(Tokens) /\ Len(<<Open>> \o s) = Len(<<Open>>) + Len(s)
    BY <1>1, <2>1
  <2>3. Len((<<Open>> \o s) \o <<Close>>) = Len(<<Open>> \o s) + Len(<<Close>>)
    BY <1>1, <2>1, <2>2
  <2> DEFINE k == Len(s)
             k1 == Len(<<Open>>)
             k2 == Len(<<Close>>)
             k3 == Len(<<Open>> \o s)
             k4 == Len((<<Open>> \o s) \o <<Close>>)
  <2>4. k \in Nat /\ k1 = 1 /\ k2 = 1 /\ k3 = k1 + k /\ k4 = k3 + k2
    BY <2>1, <2>2, <2>3
  <2> HIDE DEF k, k1, k2, k3, k4
  <2>5. k4 = k + 2
    BY <2>4
  <2> QED BY <2>5, Zenon DEF Parenthesised, k, k4
<1>4. ASSUME NEW w \in Words, NEW s \in Seq(Tokens)
      PROVE  <<Word(w)>> \o s \in Seq(Tokens) /\ Len(<<Word(w)>> \o s) = 1 + Len(s)
  <2>1. <<Word(w)>> \in Seq(Tokens) /\ Len(<<Word(w)>>) = 1
    BY <1>2, WordTyped
  <2>2. Len(<<Word(w)>> \o s) = Len(<<Word(w)>>) + Len(s) /\ <<Word(w)>> \o s \in Seq(Tokens)
    BY <1>1, <2>1
  <2> QED BY <2>1, <2>2, Zenon
<1>5. ASSUME NEW op \in {"and", "or"}, NEW s \in Seq(Tokens), NEW t \in Seq(Tokens)
      PROVE  Len(Spaced(op, s, t)) = Len(s) + 1 + Len(t)
  <2>1. op \in Words
    BY WordsAssumption, Zenon
  <2>2. <<Word(op)>> \in Seq(Tokens) /\ Len(<<Word(op)>>) = 1
    BY <1>2, <2>1, WordTyped
  <2>3. s \o <<Word(op)>> \in Seq(Tokens) /\ Len(s \o <<Word(op)>>) = Len(s) + Len(<<Word(op)>>)
    BY <1>1, <2>2
  <2>4. Len((s \o <<Word(op)>>) \o t) = Len(s \o <<Word(op)>>) + Len(t)
    BY <1>1, <2>3
  <2> QED BY <2>2, <2>3, <2>4, Zenon DEF Spaced
<1>6. \A s, t \in Seq(Tokens) : Len(s) \in Nat /\ Len(s \o t) = Len(s) + Len(t)
  BY <1>1, Zenon
<1>7. \A s \in Seq(Tokens) : Len(Parenthesised(s)) = Len(s) + 2
  BY <1>3, Zenon
<1>8. \A op \in {"and", "or"} : \A s, t \in Seq(Tokens) :
        Len(Spaced(op, s, t)) = Len(s) + 1 + Len(t)
  BY <1>5, Zenon
<1>9. \A w \in Words : \A s \in Seq(Tokens) : Len(<<Word(w)>> \o s) = 1 + Len(s)
  BY <1>4, Zenon
<1> QED BY <1>6, <1>7, <1>8, <1>9, Zenon

LEMMA WidthTyped == \A n \in FilterTrees, outer \in 0..3 : Width(n, outer) \in Nat
<1> SUFFICES ASSUME NEW n \in FilterTrees, NEW outer \in 0..3 PROVE Width(n, outer) \in Nat
  OBVIOUS
<1>1. Render[n][outer] \in Seq(Tokens)
  BY RenderSteps
<1> DEFINE t == Render[n][outer]
<1> HIDE DEF t
<1>2. Len(t) \in Nat
  BY <1>1 DEF t
<1> QED BY <1>2 DEF Width, t

\* Parentheses are what an operator around a tree adds to its text.
LEMMA Widths ==
  ASSUME NEW n \in FilterTrees
  PROVE  /\ Render[n][0] = Render[n][1]
         /\ Width(n, 1) <= Width(n, 2) /\ Width(n, 2) <= Width(n, 3)
         /\ Width(n, 3) <= Width(n, 1) + 2
<1>0. 0 \in 0..3 /\ 1 \in 0..3 /\ 2 \in 0..3 /\ 3 \in 0..3
  OBVIOUS
<1>1. Width(n, 1) \in Nat /\ Width(n, 2) \in Nat /\ Width(n, 3) \in Nat
  BY <1>0, WidthTyped
<1>2. ASSUME \A outer \in 0..3 : Render[n][outer] = Render[n][1]
      PROVE  /\ Render[n][0] = Render[n][1]
             /\ Width(n, 1) <= Width(n, 2) /\ Width(n, 2) <= Width(n, 3)
             /\ Width(n, 3) <= Width(n, 1) + 2
  <2>1. Render[n][0] = Render[n][1] /\ Width(n, 2) = Width(n, 1) /\ Width(n, 3) = Width(n, 1)
    BY <1>0, <1>2, Zenon DEF Width
  <2> QED BY <1>1, <2>1
<1>3. CASE n \in LeafNodes
  <2>1. \A outer \in 0..3 : Render[n][outer] = Render[n][1]
    BY <1>0, <1>3, LeafRendered, Zenon
  <2> QED BY <1>2, <2>1
<1>4. CASE n.node = "not"
  <2>1. \A outer \in 0..3 : Render[n][outer] = Render[n][1]
    BY <1>0, <1>4, NotText, Zenon
  <2> QED BY <1>2, <2>1
<1>5. CASE n.node = "logic"
  <2> DEFINE p == Spelled(n.op, n.children)
             b == Binds(n.op)
  <2>1. \A outer \in 0..3 : Render[n][outer] = IF outer > b THEN Parenthesised(p) ELSE p
    BY <1>5, LogicText, Zenon
  <2>2. b \in {1, 2}
    BY DEF Binds
  <2>3. p \in Seq(Tokens)
    <3>1. n.op \in {"and", "or"} /\ n.children \in Long(FilterTrees)
      BY <1>5, LogicShape
    <3>2. n.children \in Seq(FilterTrees) /\ n.children # <<>>
      BY <3>1 DEF Long
    <3> QED BY <3>1, <3>2, SpelledTyped
  <2> HIDE DEF p, b
  <2>4. Len(Parenthesised(p)) = Len(p) + 2 /\ Len(p) \in Nat
    BY <2>3, LengthsAdd
  <2>5. Render[n][0] = p /\ Render[n][1] = p
    BY <1>0, <2>1, <2>2
  <2>6. Render[n][3] = Parenthesised(p)
    BY <1>0, <2>1, <2>2
  <2>7. Render[n][2] = p \/ Render[n][2] = Parenthesised(p)
    BY <1>0, <2>1, Zenon
  <2> DEFINE k == Len(p)
             l == Len(Parenthesised(p))
  <2>8. Width(n, 1) = k /\ Width(n, 3) = l /\ Width(n, 2) \in {k, l}
    BY <2>5, <2>6, <2>7, Zenon DEF Width
  <2>9. k \in Nat /\ l = k + 2
    BY <2>4
  <2> HIDE DEF k, l
  <2>10. Width(n, 1) <= Width(n, 2) /\ Width(n, 2) <= Width(n, 3) /\ Width(n, 3) <= Width(n, 1) + 2
    BY <2>8, <2>9
  <2> QED BY <2>5, <2>10
<1> QED BY <1>3, <1>4, <1>5, FilterShape

\* What joined operands are as one node is no longer than they are.
LEMMA CombWidth ==
  ASSUME NEW op \in {"and", "or"}, NEW ops \in Seq(FilterTrees), ops # <<>>,
         Comb(op, ops) \in FilterTrees
  PROVE  Width(Comb(op, ops), 1) <= Len(Spelled(op, ops))
<1> DEFINE m == Comb(op, ops)
<1>1. Render[m][Binds(op)] = Spelled(op, ops)
  BY CombRules
<1>2. Width(m, Binds(op)) = Len(Spelled(op, ops))
  BY <1>1 DEF Width
<1>3. Width(m, 1) \in Nat /\ Width(m, 2) \in Nat
  <2>1. 1 \in 0..3 /\ 2 \in 0..3
    OBVIOUS
  <2> HIDE DEF m
  <2> QED BY <2>1, WidthTyped DEF m
<1>4. Width(m, 1) <= Width(m, 2)
  BY Widths
<1>5. Binds(op) \in {1, 2}
  BY DEF Binds
<1> HIDE DEF m
<1>6. Width(m, 1) <= Width(m, Binds(op))
  BY <1>3, <1>4, <1>5
<1> QED BY <1>2, <1>6 DEF m

-----------------------------------------------------------------------------
(* What the parser returns: trees whose texts are read again, and which    *)
(* fit into the part of the text that they were read from.                 *)

FitsOne(v, i, outer) ==
  v.error = "none" => \E n \in Settled : v.nodes = <<n>> /\ i + Width(n, outer) <= v.at

FitsChain(op, v, i) ==
  v.error = "none" => /\ v.nodes \in Seq(Settled) /\ v.nodes # <<>>
                      /\ i + Len(Spelled(op, v.nodes)) <= v.at

LEMMA SettledTrees == Settled \subseteq FilterTrees /\ Seq(Settled) \subseteq Seq(FilterTrees)
<1>1. Settled \subseteq FilterTrees
  BY DEF Settled
<1> QED BY <1>1, SeqMonotonic

\* A leaf that the parser returns is rendered in as many tokens as it was read from.
LEMMA LeafWidth ==
  ASSUME NEW n \in LeafNodes, NEW outer \in 0..3
  PROVE  /\ n.node = "compare" => Width(n, outer) = 3
         /\ n.node = "function" => Width(n, outer) = 6
<1>1. Render[n][outer] = LeafText(n)
  BY LeafRendered
<1>2. ASSUME n.node = "compare" PROVE Len(LeafText(n)) = 3
  BY <1>2, Zenon DEF LeafText
<1>3. ASSUME n.node = "function" PROVE Len(LeafText(n)) = 6
  BY <1>3, Zenon DEF LeafText
<1> QED BY <1>1, <1>2, <1>3, Zenon DEF Width

LEMMA LeafFits ==
  ASSUME NEW n, Acceptable(n), NEW i \in Nat, NEW a \in Nat,
         n.node = "compare" => a = i + 3, n.node = "function" => a = i + 6
  PROVE  FitsOne(Parsed(<<n>>, a), i, 3)
<1>1. n \in LeafNodes /\ n.node \in {"compare", "function"}
  BY DEF Acceptable
<1>2. 3 \in 0..3
  OBVIOUS
<1>3. Width(n, 3) = a - i
  BY <1>1, <1>2, LeafWidth
<1>4. i + Width(n, 3) <= a
  BY <1>3
<1>5. n \in Settled
  BY LeafSettled
<1>6. Parsed(<<n>>, a).nodes = <<n>> /\ Parsed(<<n>>, a).at = a
  BY Zenon DEF Parsed
<1> QED BY <1>4, <1>5, <1>6, Zenon DEF FitsOne

LEMMA FaultFits ==
  ASSUME NEW v, v.error # "none", NEW i
  PROVE  /\ \A outer : FitsOne(v, i, outer)
         /\ \A op : FitsChain(op, v, i)
BY Zenon DEF FitsOne, FitsChain

LEMMA FunctionFits ==
  ASSUME NEW text \in Seq(Tokens), NEW i \in Nat \ {0}
  PROVE  FitsOne(ParseFunction(text, i), i, 3)
<1> DEFINE f == At(text, i + 2).text
           v == ParseFunction(text, i)
           node == Function(At(text, i).text, f, At(text, i + 4).value)
<1>1. \/ v.error # "none"
      \/ /\ v = Parsed(<<node>>, i + 6)
         /\ At(text, i).text \in Functions3 /\ f \in FieldNames /\ Kind[f] = "string"
         /\ LiteralFault(f, text, i + 4) = "none"
  BY Outcomes DEF ParseFunction
<1>2. CASE v.error # "none"
  <2> HIDE DEF v
  <2> QED BY <1>2, FaultFits DEF v
<1>3. CASE /\ v = Parsed(<<node>>, i + 6)
           /\ At(text, i).text \in Functions3 /\ f \in FieldNames /\ Kind[f] = "string"
           /\ LiteralFault(f, text, i + 4) = "none"
  <2>1. At(text, i + 4).kind # "eof"
    BY <1>3 DEF LiteralFault
  <2>2. At(text, i + 4) \in Tokens
    BY <2>1, TokenAt
  <2>3. At(text, i + 4).value \in Int
    BY <2>2 DEF Tokens
  <2>4. node \in LeafNodes
    BY <1>3, <2>3 DEF LeafNodes, Function
  <2>5. node.node = "function" /\ node.field = f
    BY DEF Function
  <2> HIDE DEF node, f, v
  <2>6. Acceptable(node)
    BY <1>3, <2>4, <2>5 DEF Acceptable
  <2>7. i + 6 \in Nat /\ i \in Nat
    OBVIOUS
  <2>8. node.node # "compare"
    BY <2>5
  <2>9. FitsOne(Parsed(<<node>>, i + 6), i, 3)
    BY <2>5, <2>6, <2>7, <2>8, LeafFits
  <2> QED BY <1>3, <2>9, Zenon DEF v
<1> QED BY <1>1, <1>2, <1>3

LEMMA ComparisonFits ==
  ASSUME NEW text \in Seq(Tokens), NEW i \in Nat \ {0}
  PROVE  FitsOne(ParseComparison(text, i), i, 3)
<1> DEFINE f == At(text, i).text
           op == At(text, i + 1).text
           value == LiteralValue(At(text, i + 2))
           v == ParseComparison(text, i)
           node == Compare(op, f, value)
<1>1. \/ v.error # "none"
      \/ /\ v = Parsed(<<node>>, i + 3)
         /\ f \in FieldNames /\ op \in Comparisons
         /\ LiteralFault(f, text, i + 2) = "none"
         /\ ComparisonFault(op, f, value) = "none"
  BY Outcomes DEF ParseComparison
<1>2. CASE v.error # "none"
  <2> HIDE DEF v
  <2> QED BY <1>2, FaultFits DEF v
<1>3. CASE /\ v = Parsed(<<node>>, i + 3)
           /\ f \in FieldNames /\ op \in Comparisons
           /\ LiteralFault(f, text, i + 2) = "none"
           /\ ComparisonFault(op, f, value) = "none"
  <2>1. At(text, i + 2).kind # "eof"
    BY <1>3 DEF LiteralFault
  <2>2. At(text, i + 2) \in Tokens
    BY <2>1, TokenAt
  <2>3. value \in Int \cup {Null}
    BY <2>2 DEF Tokens, LiteralValue
  <2>4. node \in LeafNodes
    BY <1>3, <2>3 DEF LeafNodes, Compare
  <2>5. node.node = "compare" /\ node.op = op /\ node.field = f /\ node.value = value
    BY DEF Compare
  <2> HIDE DEF node, f, v, op, value
  <2>6. Acceptable(node)
    BY <1>3, <2>4, <2>5 DEF Acceptable
  <2>7. i + 3 \in Nat /\ i \in Nat
    OBVIOUS
  <2>8. node.node # "function"
    BY <2>5
  <2>9. FitsOne(Parsed(<<node>>, i + 3), i, 3)
    BY <2>5, <2>6, <2>7, <2>8, LeafFits
  <2> QED BY <1>3, <2>9, Zenon DEF v
<1> QED BY <1>1, <1>2, <1>3

LEMMA CombinedFits ==
  ASSUME NEW L \in 0..MaxFilterLength, NEW i \in 1..(L + 1), NEW op \in {"and", "or"},
         NEW v, Reached(v, i, L), FitsChain(op, v, i)
  PROVE  FitsOne(Combined(op, v), i, 1)
<1>1. CASE v.error # "none"
  <2>1. Combined(op, v) = v
    BY <1>1, Zenon DEF Combined
  <2> QED BY <1>1, <2>1, FaultFits
<1>2. CASE v.error = "none"
  <2> DEFINE s == v.nodes
             a == v.at
             m == Comb(op, s)
  <2>1. s \in Seq(Settled) /\ s # <<>> /\ i + Len(Spelled(op, s)) <= a /\ a \in (i + 1)..(L + 1)
    BY <1>2, Zenon DEF FitsChain, Reached
  <2>2. PICK e, ns, b : v = [error |-> e, nodes |-> ns, at |-> b]
    BY DEF Reached, Outcome
  <2>3. v = Parsed(s, a)
    BY <1>2, <2>2 DEF Parsed
  <2>4. s \in Seq(FilterTrees)
    BY <2>1, SettledTrees
  <2>5. Combined(op, v) = Parsed(<<m>>, a)
    <3> HIDE DEF s, a
    <3> QED BY <2>1, <2>3, <2>4, CombinedParsed
  <2> HIDE DEF s, m, a
  <2>6. m \in FilterTrees
    <3>1. Single(Parsed(<<m>>, a), i, L)
      BY <2>5, CombinedRead
    <3>2. Parsed(<<m>>, a).error = "none" /\ Parsed(<<m>>, a).nodes = <<m>> /\ Parsed(<<m>>, a).at = a
      BY Zenon DEF Parsed
    <3>3. <<m>> \in Seq(Trees[a - i - 1])
      <4>1. Len(<<m>>) = 1
        OBVIOUS
      <4> QED BY <3>1, <3>2, <4>1, Zenon DEF Single, Reached
    <3>4. \A S : <<m>> \in Seq(S) => m \in S
      OBVIOUS
    <3>5. a - i - 1 \in 0..MaxFilterLength
      BY <2>1, QueryAssumption
    <3>6. m \in Trees[a - i - 1]
      BY <3>3, <3>4, Zenon
    <3> QED BY <3>5, <3>6, DepthsLimited
  <2>7. m \in Settled
    BY <2>1, <2>6, CombSettled DEF m
  <2>8. Width(m, 1) <= Len(Spelled(op, s))
    BY <2>1, <2>4, <2>6, CombWidth DEF m
  <2>9. Width(m, 1) \in Nat /\ Len(Spelled(op, s)) \in Nat
    <3>1. Spelled(op, s) \in Seq(Tokens)
      BY <2>1, <2>4, SpelledTyped
    <3>2. 1 \in 0..3
      OBVIOUS
    <3> QED BY <2>6, <3>1, <3>2, LengthsAdd, WidthTyped
  <2>10. i + Width(m, 1) <= a
    <3> DEFINE k == Len(Spelled(op, s))
    <3>1. k \in Nat /\ Width(m, 1) <= k /\ i + k <= a
      BY <2>1, <2>8, <2>9
    <3> HIDE DEF k
    <3> QED BY <2>1, <2>9, <3>1
  <2>11. Parsed(<<m>>, a).nodes = <<m>> /\ Parsed(<<m>>, a).at = a
    BY Zenon DEF Parsed
  <2>12. FitsOne(Parsed(<<m>>, a), i, 1)
    BY <2>7, <2>10, <2>11, Zenon DEF FitsOne
  <2> QED BY <2>5, <2>12, Zenon
<1> QED BY <1>1, <1>2

LEMMA EnclosedFits ==
  ASSUME NEW text \in Seq(Tokens), NEW i \in Nat \ {0}, NEW v, Single(v, i + 1, Len(text)),
         FitsOne(v, i + 1, 1)
  PROVE  FitsOne(Enclosed(text, v), i, 3)
<1>1. CASE v.error # "none"
  <2>1. Enclosed(text, v) = v
    BY <1>1, Zenon DEF Enclosed
  <2> QED BY <1>1, <2>1, FaultFits
<1>2. CASE v.error = "none" /\ At(text, v.at).kind # "rparen"
  <2>1. Enclosed(text, v) = Fault("unexpected_token", v.at)
    BY <1>2, Zenon DEF Enclosed
  <2>2. Fault("unexpected_token", v.at).error # "none"
    BY DEF Fault
  <2> QED BY <2>1, <2>2, FaultFits, Zenon
<1>3. CASE v.error = "none" /\ At(text, v.at).kind = "rparen"
  <2> DEFINE a == v.at
             w == Enclosed(text, v)
  <2>1. a \in (i + 1 + 1)..(Len(text) + 1)
    BY <1>3, Zenon DEF Single, Reached
  <2>3. a \in Int
    BY <2>1
  <2>2. PICK n \in Settled : v.nodes = <<n>> /\ i + 1 + Width(n, 1) <= a
    BY <1>3, Zenon DEF FitsOne
  <2>6. PICK e, ns, b : v = [error |-> e, nodes |-> ns, at |-> b]
    BY DEF Single, Reached, Outcome
  <2>7. w = [error |-> "none", nodes |-> v.nodes, at |-> a + 1]
    <3>1. [v EXCEPT !.at = @ + 1] = [error |-> e, nodes |-> ns, at |-> b + 1]
      BY <2>6
    <3>2. Enclosed(text, v) = [v EXCEPT !.at = @ + 1]
      BY <1>3 DEF Enclosed
    <3>3. e = "none" /\ ns = v.nodes /\ b = v.at
      BY <1>3, <2>6
    <3> QED BY <3>1, <3>2, <3>3
  <2>8. w.nodes = <<n>> /\ w.at = a + 1
    BY <2>2, <2>7
  <2>9. Width(n, 3) <= Width(n, 1) + 2 /\ Width(n, 1) \in Nat /\ Width(n, 3) \in Nat
    <3>1. n \in FilterTrees /\ 1 \in 0..3 /\ 3 \in 0..3
      BY SettledTrees
    <3> QED BY <3>1, Widths, WidthTyped
  <2> HIDE DEF a, w
  <2>10. i + Width(n, 3) <= a + 1
    <3> DEFINE k == Width(n, 1)
               l == Width(n, 3)
    <3>1. k \in Nat /\ l \in Nat /\ l <= k + 2 /\ i + 1 + k <= a
      BY <2>2, <2>9
    <3> HIDE DEF k, l
    <3>2. i + l <= a + 1
      BY <2>3, <3>1
    <3> QED BY <3>2 DEF l
  <2>11. FitsOne(w, i, 3)
    BY <2>8, <2>10, Zenon DEF FitsOne
  <2> QED BY <2>11 DEF w
<1> QED BY <1>1, <1>2, <1>3

LEMMA NegatedFits ==
  ASSUME NEW L \in 0..MaxFilterLength, NEW i \in 1..L, NEW v, Single(v, i + 1, L),
         FitsOne(v, i + 1, 3)
  PROVE  FitsOne(Negated(v), i, 3)
<1>1. CASE v.error # "none"
  <2>1. Negated(v) = v
    BY <1>1, Zenon DEF Negated
  <2> QED BY <1>1, <2>1, FaultFits
<1>2. CASE v.error = "none"
  <2> DEFINE a == v.at
  <2>1. a \in (i + 1 + 1)..(L + 1)
    BY <1>2, Zenon DEF Single, Reached
  <2>2. PICK n \in Settled : v.nodes = <<n>> /\ i + 1 + Width(n, 3) <= a
    BY <1>2, Zenon DEF FitsOne
  <2>3. Negated(v) = Parsed(<<Not(n)>>, a)
    <3>1. v.nodes[1] = n
      BY <2>2
    <3> QED BY <1>2, <3>1, Zenon DEF Negated
  <2> DEFINE m == Not(n)
  <2>4. m \in FilterTrees
    <3> HIDE DEF m, a
    <3>1. Single(Parsed(<<m>>, a), i, L)
      BY <2>3, NegatedRead DEF m
    <3>2. Parsed(<<m>>, a).error = "none" /\ Parsed(<<m>>, a).nodes = <<m>> /\ Parsed(<<m>>, a).at = a
      BY Zenon DEF Parsed
    <3>3. <<m>> \in Seq(Trees[a - i - 1])
      <4>1. Len(<<m>>) = 1
        OBVIOUS
      <4> QED BY <3>1, <3>2, <4>1, Zenon DEF Single, Reached
    <3>4. \A S : <<m>> \in Seq(S) => m \in S
      OBVIOUS
    <3>5. a - i - 1 \in 0..MaxFilterLength
      BY <2>1, QueryAssumption
    <3>6. m \in Trees[a - i - 1]
      BY <3>3, <3>4, Zenon
    <3> QED BY <3>5, <3>6, DepthsLimited
  <2>5. m.node = "not" /\ m.child = n
    BY DEF Not
  <2>6. m \in Settled
    <3> HIDE DEF m
    <3> QED BY <2>4, NotSettled DEF m
  <2> HIDE DEF m, a
  <2>7. Width(m, 3) = 1 + Width(n, 3) /\ Width(n, 3) \in Nat
    <3>1. n \in FilterTrees /\ 3 \in 0..3
      BY SettledTrees
    <3>2. Render[m][3] = <<Word("not")>> \o Render[n][3]
      BY <2>4, <2>5, <3>1, NotText, Zenon
    <3>3. Render[n][3] \in Seq(Tokens)
      BY <3>1, RenderSteps
    <3>4. "not" \in Words
      BY WordsAssumption, Zenon
    <3>5. Len(<<Word("not")>> \o Render[n][3]) = 1 + Len(Render[n][3])
      BY <3>3, <3>4, LengthsAdd, Zenon
    <3>6. Width(m, 3) = 1 + Width(n, 3)
      BY <3>2, <3>5, Zenon DEF Width
    <3> QED BY <3>1, <3>6, WidthTyped
  <2>8. i + Width(m, 3) <= a
    BY <2>1, <2>2, <2>7
  <2>9. Parsed(<<m>>, a).nodes = <<m>> /\ Parsed(<<m>>, a).at = a
    BY Zenon DEF Parsed
  <2>10. FitsOne(Parsed(<<m>>, a), i, 3)
    BY <2>6, <2>8, <2>9, Zenon DEF FitsOne
  <2> QED BY <2>3, <2>10, Zenon DEF m
<1> QED BY <1>1, <1>2

LEMMA ChainFits ==
  ASSUME NEW text \in Seq(Tokens), Len(text) <= MaxFilterLength, NEW i \in 1..(Len(text) + 1),
         NEW p, NEW op \in {"and", "or"},
         NEW first, Single(first, i, Len(text)), FitsOne(first, i, Binds(op)),
         \A j \in (i + 1)..(Len(text) + 1) :
           Reached(p[<<op, j>>], j, Len(text)) /\ FitsChain(op, p[<<op, j>>], j)
  PROVE  FitsChain(op, ParseChain(op, text, first, p), i)
<1> DEFINE L == Len(text)
           a == first.at
           rest == p[<<op, a + 1>>]
           v == ParseChain(op, text, first, p)
<1>0. L \in 0..MaxFilterLength /\ i \in Nat \ {0} /\ L \in Nat /\ MaxFilterLength \in Nat
  BY QueryAssumption
<1>1. CASE first.error # "none"
  <2>1. v = first
    BY <1>1, Zenon DEF ParseChain
  <2> HIDE DEF v
  <2>2. FitsChain(op, v, i)
    BY <1>1, <2>1, FaultFits
  <2> QED BY <2>2 DEF v
<1>2. CASE first.error = "none"
  <2>1. a \in (i + 1)..(L + 1)
    BY <1>2, Zenon DEF Single, Reached
  <2>2. PICK n \in Settled : first.nodes = <<n>> /\ i + Width(n, Binds(op)) <= a
    BY <1>2, Zenon DEF FitsOne
  <2>3. n \in FilterTrees
    BY SettledTrees
  <2>4. Spelled(op, <<n>>) = Render[n][Binds(op)] /\ Spelled(op, <<n>>) \in Seq(Tokens)
    <3>1. <<n>> \in Seq(FilterTrees) /\ <<n>> # <<>>
      BY <2>3
    <3> QED BY <2>3, <3>1, SpelledOne, SpelledTyped
  <2>5. Len(Spelled(op, <<n>>)) = Width(n, Binds(op))
    BY <2>4, Zenon DEF Width
  <2>6. <<n>> \in Seq(Settled) /\ <<n>> # <<>>
    OBVIOUS
  <2>7. CASE At(text, a) # Word(op)
    <3>1. v = first
      BY <2>7, Zenon DEF ParseChain
    <3>2. FitsChain(op, first, i)
      BY <2>2, <2>5, <2>6, Zenon DEF FitsChain
    <3> QED BY <3>1, <3>2, Zenon
  <2>8. CASE At(text, a) = Word(op)
    <3>1. a \in Nat \ {0}
      <4> HIDE DEF a, L
      <4> QED BY <1>0, <2>1
    <3>2. a + 1 \in (i + 1)..(L + 1)
      <4>1. a \in 1..Len(text)
        BY <2>8, <3>1, WordAt
      <4> HIDE DEF a
      <4> QED BY <1>0, <2>1, <4>1
    <3>3. Reached(rest, a + 1, L) /\ FitsChain(op, rest, a + 1)
      <4> HIDE DEF a
      <4> QED BY <3>2
    <3>4. v = [rest EXCEPT !.nodes = first.nodes \o @]
      BY <1>2, <2>8, Zenon DEF ParseChain
    <3> HIDE DEF rest, v
    <3>5. PICK e, ns, b : rest = [error |-> e, nodes |-> ns, at |-> b]
      BY <3>3 DEF Reached, Outcome
    <3>6. v = [error |-> rest.error, nodes |-> first.nodes \o rest.nodes, at |-> rest.at]
      BY <3>4, <3>5
    <3>7. v.error = rest.error /\ v.nodes = <<n>> \o rest.nodes /\ v.at = rest.at
      BY <2>2, <3>6
    <3>8. CASE rest.error # "none"
      <4>1. v.error # "none"
        BY <3>7, <3>8
      <4>2. FitsChain(op, v, i)
        BY <4>1, FaultFits
      <4> QED BY <4>2 DEF v
    <3>9. CASE rest.error = "none"
      <4> DEFINE s == rest.nodes
                 c == rest.at
                 x == <<n>>
      <4>1. s \in Seq(Settled) /\ s # <<>> /\ a + 1 + Len(Spelled(op, s)) <= c
        BY <3>3, <3>9, Zenon DEF FitsChain
      <4>2. c \in (a + 1 + 1)..(L + 1)
        BY <3>3, <3>9, Zenon DEF Reached
      <4>3. x \in Seq(Settled) /\ x # <<>>
        BY <2>6
      <4> HIDE DEF s, c, x, a
      <4>4. x \o s \in Seq(Settled) /\ x \o s # <<>>
        BY <4>1, <4>3
      <4>5. Spelled(op, x \o s) = Spaced(op, Spelled(op, x), Spelled(op, s))
        <5>1. SpellsJoin(op, x, s)
          BY <4>1, <4>3, SettledTrees, SpelledConcat
        <5> QED BY <5>1, Zenon DEF SpellsJoin
      <4>6. Spelled(op, x) \in Seq(Tokens) /\ Spelled(op, s) \in Seq(Tokens)
        BY <4>1, <4>3, SettledTrees, SpelledTyped
      <4>7. Len(Spelled(op, x \o s)) = Len(Spelled(op, x)) + 1 + Len(Spelled(op, s))
        <5>1. Len(Spaced(op, Spelled(op, x), Spelled(op, s)))
                = Len(Spelled(op, x)) + 1 + Len(Spelled(op, s))
          BY <4>6, LengthsAdd
        <5> QED BY <4>5, <5>1, Zenon
      <4>8. i + Len(Spelled(op, x \o s)) <= c
        <5> DEFINE k == Len(Spelled(op, x))
                   l == Len(Spelled(op, s))
                   m == Len(Spelled(op, x \o s))
        <5>1. k \in Nat /\ l \in Nat /\ m = k + 1 + l
          BY <4>6, <4>7, LengthsAdd, Zenon
        <5>2. i + k <= a
          BY <2>2, <2>5, Zenon DEF x
        <5>3. a + 1 + l <= c
          BY <4>1
        <5>4. a \in Int /\ c \in Int
          BY <2>1, <4>2
        <5> HIDE DEF k, l, m
        <5>5. i + m <= c
          BY <5>1, <5>2, <5>3, <5>4
        <5> QED BY <5>5 DEF m
      <4>9. v.nodes = x \o s /\ v.at = c
        BY <3>7, Zenon DEF x, s, c
      <4>10. FitsChain(op, v, i)
        BY <4>4, <4>8, <4>9, Zenon DEF FitsChain
      <4> QED BY <4>10 DEF v
    <3> QED BY <3>8, <3>9
  <2> QED BY <2>7, <2>8
<1> QED BY <1>1, <1>2

FitsHere(p, j) ==
  /\ FitsChain("or", p[<<"or", j>>], j)
  /\ FitsChain("and", p[<<"and", j>>], j)
  /\ FitsOne(p[<<"not", j>>], j, 3)

FitsAfter(p, i, L) == \A j \in (i + 1)..(L + 1) : FitsHere(p, j)

LEMMA NotFits ==
  ASSUME NEW text \in Seq(Tokens), Len(text) <= MaxFilterLength, NEW i \in 1..(Len(text) + 1),
         NEW p, ReadAfter(p, i, Len(text)), FitsAfter(p, i, Len(text))
  PROVE  FitsOne(ParseNot(text, i, p), i, 3)
<1> DEFINE L == Len(text)
<1>0. L \in 0..MaxFilterLength /\ i \in Nat \ {0} /\ L \in Nat
  BY QueryAssumption
<1>1. CASE At(text, i) = Word("not")
  <2>1. i \in 1..L
    BY <1>0, <1>1, WordAt
  <2>2. i + 1 \in (i + 1)..(L + 1)
    BY <1>0, <2>1
  <2>3. Single(p[<<"not", i + 1>>], i + 1, L) /\ FitsOne(p[<<"not", i + 1>>], i + 1, 3)
    BY <2>2, Zenon DEF ReadAfter, FitsAfter, FitsHere
  <2>4. ParseNot(text, i, p) = Negated(p[<<"not", i + 1>>])
    BY <1>1 DEF ParseNot
  <2> HIDE DEF L
  <2> QED BY <1>0, <2>1, <2>3, <2>4, NegatedFits DEF L
<1>2. CASE At(text, i) # Word("not") /\ At(text, i).kind = "lparen"
  <2>1. i \in 1..L
    BY <1>0, <1>2, TokenAt
  <2>2. i + 1 \in (i + 1)..(L + 1) /\ i + 1 \in 1..(L + 1)
    BY <1>0, <2>1
  <2> DEFINE v == p[<<"or", i + 1>>]
  <2>3. Reached(v, i + 1, L) /\ FitsChain("or", v, i + 1)
    BY <2>2, Zenon DEF ReadAfter, FitsAfter, FitsHere
  <2>4. Single(Combined("or", v), i + 1, L) /\ FitsOne(Combined("or", v), i + 1, 1)
    <3> HIDE DEF L, v
    <3> QED BY <1>0, <2>2, <2>3, CombinedRead, CombinedFits
  <2>5. ParseNot(text, i, p) = Enclosed(text, Combined("or", v))
    BY <1>2 DEF ParseNot, ParsePrimary
  <2> HIDE DEF v
  <2> QED BY <1>0, <2>4, <2>5, EnclosedFits
<1>3. CASE At(text, i) # Word("not") /\ At(text, i).kind # "lparen"
  <2>1. \/ ParseNot(text, i, p) = Fault("unexpected_token", i)
        \/ ParseNot(text, i, p) = ParseFunction(text, i)
        \/ ParseNot(text, i, p) = ParseComparison(text, i)
    BY <1>3 DEF ParseNot, ParsePrimary
  <2>2. FitsOne(Fault("unexpected_token", i), i, 3)
    <3>1. Fault("unexpected_token", i).error # "none"
      BY DEF Fault
    <3> QED BY <3>1, FaultFits, Zenon
  <2> QED BY <1>0, <2>1, <2>2, FunctionFits, ComparisonFits
<1> QED BY <1>1, <1>2, <1>3

\* What fits where an operator binds tightly fits where it binds loosely.
LEMMA FitsLooser ==
  ASSUME NEW i \in Nat, NEW v, v.error = "none" => v.at \in Int, FitsOne(v, i, 3)
  PROVE  FitsOne(v, i, 2)
<1> SUFFICES ASSUME v.error = "none"
             PROVE  \E n \in Settled : v.nodes = <<n>> /\ i + Width(n, 2) <= v.at
  BY Zenon DEF FitsOne
<1>1. PICK n \in Settled : v.nodes = <<n>> /\ i + Width(n, 3) <= v.at
  BY Zenon DEF FitsOne
<1>2. Width(n, 2) <= Width(n, 3) /\ Width(n, 2) \in Nat /\ Width(n, 3) \in Nat
  <2>1. n \in FilterTrees /\ 2 \in 0..3 /\ 3 \in 0..3
    BY SettledTrees
  <2> QED BY <2>1, Widths, WidthTyped
<1>3. i + Width(n, 2) <= v.at
  BY <1>1, <1>2
<1> QED BY <1>1, <1>3

LEMMA HereFits ==
  ASSUME NEW text \in Seq(Tokens), Len(text) <= MaxFilterLength, NEW i \in 1..(Len(text) + 1),
         NEW p, ReadAfter(p, i, Len(text)), ReadHere(p, i, Len(text)), FitsAfter(p, i, Len(text)),
         \A goal \in Goals : p[<<goal, i>>] = ParseOf(goal, text, i, p)
  PROVE  FitsHere(p, i)
<1> DEFINE L == Len(text)
<1>0. L \in 0..MaxFilterLength /\ i \in Nat
  BY QueryAssumption
<1>1. p[<<"not", i>>] = ParseNot(text, i, p)
  BY DEF ParseOf, Goals
<1>2. p[<<"and", i>>] = ParseChain("and", text, p[<<"not", i>>], p)
  BY DEF ParseOf, Goals
<1>3. p[<<"or", i>>] = ParseChain("or", text, Combined("and", p[<<"and", i>>]), p)
  BY DEF ParseOf, Goals
<1>4. FitsOne(p[<<"not", i>>], i, 3)
  BY <1>1, NotFits
<1>5. \A j \in (i + 1)..(L + 1) :
        /\ Reached(p[<<"or", j>>], j, L) /\ FitsChain("or", p[<<"or", j>>], j)
        /\ Reached(p[<<"and", j>>], j, L) /\ FitsChain("and", p[<<"and", j>>], j)
  BY Zenon DEF ReadAfter, FitsAfter, FitsHere
<1>6. FitsChain("and", p[<<"and", i>>], i)
  <2> DEFINE first == p[<<"not", i>>]
  <2>1. Single(first, i, L)
    BY Zenon DEF ReadHere
  <2>2. first.error = "none" => first.at \in Int
    <3>1. first.error = "none" => first.at \in (i + 1)..(L + 1)
      BY <2>1, Zenon DEF Single, Reached
    <3> QED BY <3>1
  <2>3. FitsOne(first, i, 2)
    <3> HIDE DEF first
    <3> QED BY <1>0, <1>4, <2>2, FitsLooser DEF first
  <2>4. Binds("and") = 2
    BY DEF Binds
  <2> HIDE DEF first
  <2>5. FitsChain("and", ParseChain("and", text, first, p), i)
    BY <1>5, <2>1, <2>3, <2>4, ChainFits
  <2> QED BY <1>2, <2>5 DEF first
<1>7. FitsOne(Combined("and", p[<<"and", i>>]), i, 1)
  <2>1. Reached(p[<<"and", i>>], i, L)
    BY Zenon DEF ReadHere
  <2> HIDE DEF L
  <2>2. i \in 1..(L + 1)
    BY DEF L
  <2> QED BY <1>0, <1>6, <2>1, <2>2, CombinedFits
<1>8. FitsChain("or", p[<<"or", i>>], i)
  <2> DEFINE first == Combined("and", p[<<"and", i>>])
  <2>1. Single(first, i, L)
    BY Zenon DEF ReadHere
  <2>4. Binds("or") = 1
    BY DEF Binds
  <2>3. FitsOne(first, i, Binds("or"))
    BY <1>7, <2>4
  <2> HIDE DEF first
  <2>5. FitsChain("or", ParseChain("or", text, first, p), i)
    BY <1>5, <2>1, <2>3, ChainFits
  <2> QED BY <1>3, <2>5 DEF first
<1> QED BY <1>4, <1>6, <1>8 DEF FitsHere

LEMMA AllFits ==
  ASSUME NEW text \in Seq(Tokens), Len(text) <= MaxFilterLength
  PROVE  \A i \in 1..(Len(text) + 1) : FitsHere(Parse(text), i)
<1> DEFINE L == Len(text)
           p == Parse(text)
           S == {i \in 1..(L + 1) : FitsAfter(p, i, L) /\ FitsHere(p, i)}
<1>0. L \in Nat /\ 1 \in 1..(L + 1)
  OBVIOUS
<1>1. ParsesFrom(p, text, 1)
  BY ParseSteps
<1>2. \A i \in 1..(L + 1) : ReadAfter(p, i, L) /\ ReadHere(p, i, L)
  <2> HIDE DEF p
  <2> QED BY <1>0, <1>1, AllRead
<1> HIDE DEF p
<1>3. ASSUME NEW i \in 1..(L + 1), FitsAfter(p, i, L) PROVE FitsHere(p, i)
  <2>1. \A goal \in Goals : p[<<goal, i>>] = ParseOf(goal, text, i, p)
    BY <1>1, Zenon DEF ParsesFrom
  <2> QED BY <1>2, <1>3, <2>1, HereFits
<1>4. L + 1 \in S
  <2>1. FitsAfter(p, L + 1, L)
    <3>1. (L + 1 + 1)..(L + 1) = {}
      BY <1>0
    <3> QED BY <3>1 DEF FitsAfter
  <2>2. L + 1 \in 1..(L + 1)
    BY <1>0
  <2> QED BY <1>3, <2>1, <2>2
<1>5. ASSUME NEW i \in 1..L, i + 1 \in S PROVE i \in S
  <2>1. i \in 1..(L + 1)
    BY <1>0
  <2>2. FitsAfter(p, i, L)
    <3>1. \A j \in (i + 1)..(L + 1) : j = i + 1 \/ j \in (i + 1 + 1)..(L + 1)
      BY <1>0
    <3>2. FitsAfter(p, i + 1, L) /\ FitsHere(p, i + 1)
      BY <1>5, Zenon
    <3> QED BY <3>1, <3>2, Zenon DEF FitsAfter
  <2> QED BY <1>3, <2>1, <2>2
<1>6. \A i \in 1..(L + 1) : i \in S
  <2> HIDE DEF S, L
  <2> QED BY <1>0, <1>4, <1>5, DownTo
<1> QED BY <1>6, Zenon DEF p

\* A filter that is accepted, unless it is empty, is a tree whose text is read again.
LEMMA AcceptedFits ==
  ASSUME NEW text \in Seq(Tokens), text # <<>>, ParseFilter(text).error = "none"
  PROVE  \E n \in Settled : /\ ParseFilter(text).nodes = <<n>>
                            /\ Width(n, 1) <= MaxFilterLength
                            /\ Size[n] <= MaxFilterNodes
<1> DEFINE L == Len(text)
           v == Parse(text)[<<"or", 1>>]
           w == Combined("or", v)
<1>1. L <= MaxFilterLength /\ ParseFilter(text) = Complete(text, w)
  <2> HIDE DEF w
  <2>1. ~ (L > MaxFilterLength) /\ ParseFilter(text) = Complete(text, w)
    BY DEF ParseFilter, Fault, w
  <2>2. L \in Nat
    OBVIOUS
  <2> QED BY <2>1, <2>2, QueryAssumption
<1>2. L \in 0..MaxFilterLength /\ L \in Nat /\ 1 \in 1..(L + 1)
  BY <1>1, QueryAssumption
<1>3. ParseFilter(text) = Complete(text, w)
  BY <1>1
<1>4. Reached(v, 1, L) /\ Single(w, 1, L)
  BY <1>1, WholeRead
<1>5. FitsChain("or", v, 1)
  BY <1>1, <1>2, AllFits DEF FitsHere
<1> HIDE DEF v
<1>6. FitsOne(w, 1, 1)
  <2> HIDE DEF L
  <2> QED BY <1>2, <1>4, <1>5, CombinedFits
<1> HIDE DEF w
<1>7. /\ w.error = "none" /\ ParseFilter(text) = w
      /\ ~(Size[w.nodes[1]] > MaxFilterNodes)
  BY <1>3 DEF Complete, Fault
<1>8. w.at \in (1 + 1)..(L + 1)
  BY <1>4, <1>7, Zenon DEF Single, Reached
<1>9. PICK n \in Settled : w.nodes = <<n>> /\ 1 + Width(n, 1) <= w.at
  BY <1>6, <1>7, Zenon DEF FitsOne
<1>10. n \in FilterTrees
  BY SettledTrees
<1>11. Width(n, 1) <= MaxFilterLength
  <2>1. Width(n, 1) \in Nat
    <3>1. 1 \in 0..3
      OBVIOUS
    <3> QED BY <1>10, <3>1, WidthTyped
  <2> DEFINE a == w.at
  <2> HIDE DEF a, L
  <2>2. a \in (1 + 1)..(L + 1) /\ 1 + Width(n, 1) <= a
    BY <1>8, <1>9 DEF a
  <2> QED BY <1>2, <2>1, <2>2, QueryAssumption
<1>12. Size[n] <= MaxFilterNodes
  <2>1. w.nodes[1] = n
    BY <1>9
  <2>2. ~(Size[n] > MaxFilterNodes)
    BY <1>7, <2>1
  <2>3. Size[n] \in Nat
    BY <1>10, SizeSteps
  <2> QED BY <2>2, <2>3, QueryAssumption
<1> QED BY <1>7, <1>9, <1>11, <1>12

-----------------------------------------------------------------------------
(* The canonical text of a query is read again.                            *)

LEMMA HoldsItself ==
  ASSUME NEW c \in Seq(Tokens), Len(c) <= MaxFilterLength
  PROVE  Holds(c, 1, c) /\ At(c, 1 + Len(c)) = Eof
<1> DEFINE L == Len(c)
<1>1. L \in Nat
  OBVIOUS
<1>2. 1 \in 1..(L + 1) /\ 1 + L <= L + 1 /\ 1 + L > L /\ \A k \in 1..L : 1 + k - 1 = k
  <2> HIDE DEF L
  <2> QED BY <1>1
<1>3. \A k \in 1..L : c[1 + k - 1] = c[k]
  <2> HIDE DEF L
  <2> QED BY <1>2
<1>4. Holds(c, 1, c)
  BY <1>2, <1>3, Zenon DEF Holds, Readable
<1>5. At(c, 1 + L) = Eof
  BY <1>2, Zenon DEF At
<1> QED BY <1>4, <1>5

LEMMA ParsedFields ==
  \A nodes, at : /\ Parsed(nodes, at).error = "none"
                 /\ Parsed(nodes, at).nodes = nodes /\ Parsed(nodes, at).at = at
BY Zenon DEF Parsed

LEMMA TextRead ==
  ASSUME NEW n \in Settled, Width(n, 1) <= MaxFilterLength, Size[n] <= MaxFilterNodes
  PROVE  \E m, at : Same(n, m) /\ ParseFilter(Render[n][1]) = Parsed(<<m>>, at)
<1> DEFINE c == Render[n][1]
           L == Len(c)
<1>1. n \in FilterTrees /\ 1 \in 0..3
  BY SettledTrees
<1>2. c \in Seq(Tokens) /\ L <= MaxFilterLength /\ L \in Nat
  <2>1. c \in Seq(Tokens)
    BY <1>1, RenderSteps
  <2>2. L <= MaxFilterLength
    BY Zenon DEF Width
  <2> HIDE DEF c
  <2> QED BY <2>1, <2>2
<1>3. PICK m : Normal(n, m)
  BY DEF Settled
<1>4. PICK ops : Operands("or", c, ops, m)
  BY <1>3, Zenon DEF Normal
<1>5. Same(n, m)
  BY <1>3, Zenon DEF Normal
<1> HIDE DEF c
<1>6. ops \in Seq(FilterTrees) /\ ops # <<>> /\ m = Comb("or", ops) /\ Chain("or", c, ops)
  BY <1>4, Zenon DEF Operands
<1>7. Holds(c, 1, c) /\ At(c, 1 + L) = Eof
  BY <1>2, HoldsItself
<1> DEFINE v == Parse(c)[<<"or", 1>>]
           a == 1 + L
<1>8. v = Parsed(ops, a)
  <2>1. Ends("or", c, 1, a, ops)
    BY <1>6, <1>7, Zenon DEF Chain
  <2>2. Eof.kind # Word("and").kind /\ Eof.kind # Word("or").kind
    BY WordsDiffer
  <2>3. Eof \notin {Word("and"), Word("or")}
    BY <2>2, Zenon
  <2> QED BY <1>7, <2>1, <2>3, Zenon DEF Ends
<1>9. c # <<>>
  <2>1. Reached(v, 1, L)
    BY <1>2, WholeRead
  <2>2. v.error = "none" /\ v.at = a
    <3>1. Parsed(ops, a).error = "none" /\ Parsed(ops, a).at = a
      BY ParsedFields
    <3> HIDE DEF v, a
    <3> QED BY <1>8, <3>1
  <2>3. a \in (1 + 1)..(L + 1)
    BY <2>1, <2>2, Zenon DEF Reached
  <2>4. L # 0
    <3> HIDE DEF L
    <3> QED BY <2>3, <1>2 DEF a
  <2>5. Len(<<>>) = 0
    OBVIOUS
  <2> QED BY <2>4, <2>5, Zenon
<1>10. Combined("or", v) = Parsed(<<m>>, a)
  <2> HIDE DEF v, a
  <2> QED BY <1>6, <1>8, CombinedParsed
<1>11. Complete(c, Parsed(<<m>>, a)) = Parsed(<<m>>, a)
  <2> DEFINE w == Parsed(<<m>>, a)
  <2>1. w.error = "none" /\ w.at = a /\ w.nodes = <<m>>
    BY Zenon DEF Parsed
  <2>2. w.nodes[1] = m
    BY <2>1
  <2>3. ~(Size[m] > MaxFilterNodes)
    <3>1. m \in FilterTrees /\ Size[m] <= Size[n]
      BY <1>5, Zenon DEF Same
    <3>2. Size[m] \in Nat /\ Size[n] \in Nat
      BY <1>1, <3>1, SizeSteps
    <3> QED BY <3>1, <3>2, QueryAssumption
  <2>4. At(c, w.at) = Eof
    BY <1>7, <2>1, Zenon
  <2> HIDE DEF w
  <2>5. Complete(c, w) = w
    BY <2>1, <2>2, <2>3, <2>4, Zenon DEF Complete
  <2> QED BY <2>5, Zenon DEF w
<1>12. ParseFilter(c) = Parsed(<<m>>, a)
  <2>1. ~(L > MaxFilterLength)
    BY <1>2, QueryAssumption
  <2>2. ParseFilter(c) = Complete(c, Combined("or", v))
    BY <1>9, <2>1, Zenon DEF ParseFilter
  <2> QED BY <1>10, <1>11, <2>2, Zenon
<1> QED BY <1>5, <1>12, Zenon DEF c

\* The filter m is accepted and renders and selects as n does.
Echoes(n, m) ==
  LET text == Render[n][0] IN
  /\ text \in Seq(Tokens)
  /\ ParseFilter(text).error = "none" /\ ParseFilter(text).nodes[1] = m
  /\ Render[m][0] = text
  /\ m \in Trees[MaxFilterLength - 1]
  /\ \A r : \A odd \in BOOLEAN : Evaluate(m, r, odd) = Evaluate(n, r, odd)

LEMMA FilterEchoes ==
  ASSUME NEW text \in Seq(Tokens), ParseFilter(text).error = "none",
         NEW n, n = ParseFilter(text).nodes[1]
  PROVE  \E m : Echoes(n, m)
<1>0. 0 \in 0..3 /\ 1 \in 0..3 /\ MaxFilterLength - 1 \in 0..MaxFilterLength
  BY QueryAssumption
<1>1. n \in Trees[MaxFilterLength - 1]
  BY FilterRead
<1>2. n \in FilterTrees
  BY <1>0, <1>1, DepthsLimited
<1>3. Render[n][0] \in Seq(Tokens)
  BY <1>0, <1>2, RenderSteps
<1>4. CASE text = <<>>
  <2>1. n = NoNode
    <3>1. ParseFilter(text) = Parsed(<<NoNode>>, 1)
      BY <1>4, Zenon DEF ParseFilter
    <3>2. ParseFilter(text).nodes = <<NoNode>>
      BY <3>1, ParsedFields, Zenon
    <3>3. <<NoNode>>[1] = NoNode
      OBVIOUS
    <3> QED BY <3>2, <3>3, Zenon
  <2>2. n \in LeafNodes /\ n.node = "none"
    BY <2>1 DEF LeafNodes, NoNode
  <2>3. Render[n][0] = <<>>
    <3>1. Render[n][0] = LeafText(n)
      BY <1>0, <2>2, LeafRendered
    <3> QED BY <2>2, <3>1, Zenon DEF LeafText
  <2>4. Render[n][0] = text
    BY <1>4, <2>3, Zenon
  <2>5. Echoes(n, n)
    BY <1>1, <2>4, Zenon DEF Echoes
  <2> QED BY <2>5
<1>5. CASE text # <<>>
  <2>1. PICK k \in Settled : /\ ParseFilter(text).nodes = <<k>>
                             /\ Width(k, 1) <= MaxFilterLength
                             /\ Size[k] <= MaxFilterNodes
    BY <1>5, AcceptedFits
  <2>2. n = k
    BY <2>1
  <2>3. PICK m, at : Same(n, m) /\ ParseFilter(Render[n][1]) = Parsed(<<m>>, at)
    BY <2>1, <2>2, TextRead
  <2>4. Render[n][0] = Render[n][1]
    BY <1>2, Widths
  <2>5. ParseFilter(Render[n][0]) = Parsed(<<m>>, at)
    BY <2>3, <2>4, Zenon
  <2>6. Parsed(<<m>>, at).error = "none" /\ Parsed(<<m>>, at).nodes = <<m>>
    BY Zenon DEF Parsed
  <2>7. <<m>>[1] = m
    OBVIOUS
  <2>8. Render[m][0] = Render[n][0]
    BY <1>0, <2>3, Zenon DEF Same
  <2>9. m \in Trees[MaxFilterLength - 1]
    BY <1>0, <1>1, <2>3, Zenon DEF Same
  <2>10. \A r : \A odd \in BOOLEAN : Evaluate(m, r, odd) = Evaluate(n, r, odd)
    BY <2>3, Zenon DEF Same
  <2>11. ParseFilter(Render[n][0]).error = "none" /\ ParseFilter(Render[n][0]).nodes[1] = m
    BY <2>5, <2>6, <2>7, Zenon
  <2>12. Echoes(n, m)
    BY <1>3, <2>8, <2>9, <2>10, <2>11, Zenon DEF Echoes
  <2> QED BY <2>12
<1> QED BY <1>4, <1>5

LEMMA EchoMatches ==
  ASSUME NEW n \in Trees[MaxFilterLength - 1], NEW m, Echoes(n, m), NEW r
  PROVE  /\ Matches(m, r) <=> Matches(n, r)
         /\ Matches(Not(m), r) <=> Matches(Not(n), r)
<1>1. m \in Trees[MaxFilterLength - 1]
  BY Zenon DEF Echoes
<1>2. Evaluate(m, r, FALSE) = Evaluate(n, r, FALSE) /\ Evaluate(m, r, TRUE) = Evaluate(n, r, TRUE)
  BY Zenon DEF Echoes
<1>3. Evaluate(Not(m), r, FALSE) = Negation(Evaluate(m, r, TRUE))
  BY <1>1, NotValue
<1>4. Evaluate(Not(n), r, FALSE) = Negation(Evaluate(n, r, TRUE))
  BY NotValue
<1> QED BY <1>2, <1>3, <1>4, Zenon DEF Matches

-----------------------------------------------------------------------------
(* The other options of a canonical text.                                  *)

\* An order of different fields is an order option that means itself.
LEMMA OrderKept ==
  ASSUME NEW order \in Orders(FieldNames), order # <<>>, Different(order),
         Len(order) <= MaxOrderFields
  PROVE  OrderFault(order) = "none" /\ OrderOf(order) = order
<1> DEFINE n == Len(order)
           last == IF n > MaxOrderFields THEN "too_many_order_fields" ELSE "none"
           found == [i \in DOMAIN order |-> OrderItemFault(order, i)]
           codes == Append(found, last)
<1>1. n \in Nat /\ DOMAIN order = 1..n /\ order \in [1..n -> FieldNames \X Directions]
  BY DEF Orders
<1>2. \A i \in 1..n : /\ order[i][1] \in FieldNames /\ order[i][2] \in Directions
                      /\ Len(order[i]) = 2 /\ order[i] = <<order[i][1], order[i][2]>>
  <2> SUFFICES ASSUME NEW i \in 1..n
               PROVE  /\ order[i][1] \in FieldNames /\ order[i][2] \in Directions
                      /\ Len(order[i]) = 2 /\ order[i] = <<order[i][1], order[i][2]>>
    OBVIOUS
  <2>1. order[i] \in FieldNames \X Directions
    BY <1>1
  <2>2. PICK a \in FieldNames, b \in Directions : order[i] = <<a, b>>
    BY <2>1
  <2>3. Len(<<a, b>>) = 2 /\ <<a, b>>[1] = a /\ <<a, b>>[2] = b
    OBVIOUS
  <2> QED BY <2>2, <2>3, Zenon
<1>3. \A i \in 1..n : found[i] = "none"
  <2> SUFFICES ASSUME NEW i \in 1..n PROVE OrderItemFault(order, i) = "none"
    BY <1>1
  <2>1. ~ \E j \in 1..(i - 1) : order[j] # <<>> /\ order[j][1] = order[i][1]
    <3>1. \A j \in 1..(i - 1) : j \in 1..n /\ j # i
      BY <1>1
    <3> QED BY <3>1, Zenon DEF Different
  <2>2. Len(order[i]) \in {1, 2} /\ order[i][1] \in FieldNames /\ order[i][2] \in {"asc", "desc"}
    BY <1>2 DEF Directions
  <2> QED BY <2>1, <2>2, Zenon DEF OrderItemFault
<1>4. last = "none"
  <2>1. ~(n > MaxOrderFields)
    BY <1>1, QueryAssumption
  <2> QED BY <2>1, Zenon
<1>5. /\ DOMAIN codes = 1..(n + 1) /\ n + 1 \in Nat
      /\ \A i \in 1..(n + 1) : codes[i] = "none"
  <2>1. found \in [1..n -> {"none"}]
    BY <1>1, <1>3
  <2> HIDE DEF found, last, n
  <2>2. found \in Seq({"none"}) /\ Len(found) = n
    BY <1>1, <2>1
  <2>3. /\ DOMAIN codes = 1..(n + 1) /\ codes[n + 1] = last
        /\ \A i \in 1..n : codes[i] = found[i]
    BY <1>1, <1>4, <2>2
  <2>4. \A i \in 1..(n + 1) : i = n + 1 \/ i \in 1..n
    BY <1>1
  <2> HIDE DEF codes
  <2> QED BY <1>1, <1>3, <1>4, <2>3, <2>4
<1>6. OrderFault(order) = "none"
  <2>1. OrderFault(order) = FirstFault(codes)
    BY Zenon DEF OrderFault
  <2> HIDE DEF codes, n
  <2>2. FirstFault(codes) = "none"
    BY <1>5, NoFirstFault
  <2> QED BY <2>1, <2>2, Zenon
<1>7. OrderOf(order) = order
  <2> DEFINE f == [i \in DOMAIN order |->
                     <<order[i][1], IF Len(order[i]) = 2 THEN order[i][2] ELSE "asc">>]
  <2>1. OrderOf(order) = f
    BY Zenon DEF OrderOf
  <2>2. \A i \in DOMAIN order : <<order[i][1], IF Len(order[i]) = 2 THEN order[i][2] ELSE "asc">> = order[i]
    BY <1>1, <1>2, Zenon
  <2>3. f = [i \in DOMAIN order |-> order[i]]
    BY <2>2, Zenon
  <2>4. [i \in DOMAIN order |-> order[i]] = order
    BY <1>1
  <2> QED BY <2>1, <2>3, <2>4, Zenon
<1> QED BY <1>6, <1>7

Distinct(names) == \A i, j \in 1..Len(names) : names[i] = names[j] => i = j

\* The selected fields of an accepted query.
LEMMA SelectRead ==
  ASSUME NEW names \in Seq(Words), ToSet(names) \subseteq FieldNames
  PROVE  /\ SelectOf(names) \in Seq(FieldNames) /\ SelectOf(names) # <<>>
         /\ Distinct(SelectOf(names))
<1>1. CASE names = <<>>
  <2>1. SelectOf(names) = DefaultSelect
    BY <1>1, Zenon DEF SelectOf
  <2>2. DefaultSelect \in Seq(FieldNames) \ {<<>>}
    BY DefaultsAssumption, Zenon
  <2>3. \A i, j \in DOMAIN DefaultSelect : DefaultSelect[i] = DefaultSelect[j] => i = j
    BY DefaultsAssumption, Zenon
  <2>4. DOMAIN DefaultSelect = 1..Len(DefaultSelect)
    BY <2>2
  <2> QED BY <2>1, <2>2, <2>3, <2>4, Zenon DEF Distinct
<1>2. CASE names # <<>>
  <2> DEFINE n == Len(names)
             K == {i \in DOMAIN names : \A j \in 1..(i - 1) : names[j] # names[i]}
             t == Kept(names, K)
  <2>1. SelectOf(names) = t
    BY <1>2, Zenon DEF SelectOf
  <2>2. names \in Seq(FieldNames) /\ n \in Nat /\ n # 0 /\ DOMAIN names = 1..n
    <3>1. \A i \in 1..n : names[i] \in FieldNames
      BY DEF ToSet
    <3>2. n \in Nat /\ DOMAIN names = 1..n /\ names \in [1..n -> Words]
      OBVIOUS
    <3>3. n # 0
      BY <1>2
    <3> HIDE DEF n
    <3>4. names \in [1..n -> FieldNames]
      BY <3>1, <3>2
    <3> QED BY <3>2, <3>3, <3>4
  <2>3. 1 \in K /\ 1 \in 1..n
    <3>1. 1 \in 1..n /\ 1..(1 - 1) = {}
      <4> HIDE DEF n
      <4> QED BY <2>2
    <3> HIDE DEF n
    <3> QED BY <2>2, <3>1
  <2>4. \A i, j \in K : i < j => names[i] # names[j]
    <3> SUFFICES ASSUME NEW i \in K, NEW j \in K, i < j PROVE names[i] # names[j]
      OBVIOUS
    <3>1. i \in 1..n /\ j \in 1..n
      BY <2>2
    <3>2. i \in 1..(j - 1)
      BY <3>1
    <3> QED BY <3>2
  <2> HIDE DEF K
  <2>5. t \in Seq(FieldNames) /\ \E p : Picks(p, t, names, K, n)
    BY <2>2, KeptPicks
  <2>6. PICK p : Picks(p, t, names, K, n)
    BY <2>5
  <2> HIDE DEF t
  <2>7. /\ p \in [1..Len(t) -> K \cap (1..n)]
        /\ \A k \in 1..Len(t) : t[k] = names[p[k]]
        /\ \A j, k \in 1..Len(t) : j < k => p[j] < p[k]
        /\ \A i \in K \cap (1..n) : \E k \in 1..Len(t) : p[k] = i
    BY <2>6 DEF Picks
  <2>8. t # <<>>
    <3>1. PICK k \in 1..Len(t) : p[k] = 1
      BY <2>3, <2>7
    <3>2. Len(t) # 0
      BY <3>1
    <3>3. Len(<<>>) = 0
      OBVIOUS
    <3> QED BY <3>2, <3>3, Zenon
  <2>9. ASSUME NEW i \in 1..Len(t), NEW j \in 1..Len(t), i < j PROVE t[i] # t[j]
    <3>1. p[i] \in K /\ p[j] \in K /\ p[i] < p[j]
      BY <2>7, <2>9
    <3>2. names[p[i]] # names[p[j]]
      BY <2>4, <3>1
    <3> QED BY <2>7, <3>2, Zenon
  <2>10. Distinct(t)
    <3> SUFFICES ASSUME NEW i \in 1..Len(t), NEW j \in 1..Len(t), t[i] = t[j] PROVE i = j
      BY Zenon DEF Distinct
    <3>1. ~(i < j) /\ ~(j < i)
      BY <2>9, Zenon
    <3> QED BY <2>5, <3>1
  <2> QED BY <2>1, <2>5, <2>8, <2>10, Zenon
<1> QED BY <1>1, <1>2

\* The select option of a canonical text means the fields that it was made from.
LEMMA SelectKept ==
  ASSUME NEW names \in Seq(FieldNames), names # <<>>, Distinct(names),
         NEW option, option = IF names = DefaultSelect THEN <<>> ELSE names
  PROVE  SelectOf(option) = names /\ ToSet(option) \subseteq FieldNames
<1>1. CASE names = DefaultSelect
  <2>1. option = <<>>
    BY <1>1, Zenon
  <2>2. SelectOf(option) = names
    BY <1>1, <2>1, Zenon DEF SelectOf
  <2>3. ToSet(<<>>) = {}
    BY DEF ToSet
  <2> QED BY <2>1, <2>2, <2>3, Zenon
<1>2. CASE names # DefaultSelect
  <2> DEFINE n == Len(names)
             K == {i \in DOMAIN names : \A j \in 1..(i - 1) : names[j] # names[i]}
  <2>1. option = names
    BY <1>2, Zenon
  <2>2. SelectOf(names) = Kept(names, K)
    BY Zenon DEF SelectOf
  <2>3. n \in Nat /\ DOMAIN names = 1..n
    OBVIOUS
  <2>4. DOMAIN names \subseteq K
    <3> SUFFICES ASSUME NEW i \in 1..n, NEW j \in 1..(i - 1) PROVE names[j] # names[i]
      BY <2>3
    <3>1. j \in 1..n /\ j # i
      BY <2>3
    <3> QED BY <3>1, Zenon DEF Distinct
  <2>5. Kept(names, K) = names
    <3> HIDE DEF K
    <3> QED BY <2>4, KeptAll
  <2>6. ToSet(names) \subseteq FieldNames
    BY DEF ToSet
  <2> QED BY <2>1, <2>2, <2>5, <2>6, Zenon
<1> QED BY <1>1, <1>2

\* What an accepted query says.
Meant(q) ==
  /\ q = [filter |-> q.filter, order |-> q.order, select |-> q.select,
          top |-> q.top, skip |-> q.skip, count |-> q.count]
  /\ q.filter \in Trees[MaxFilterLength - 1]
  /\ q.order \in Orders(FieldNames) /\ q.order # <<>> /\ Different(q.order)
  /\ Len(q.order) <= MaxOrderFields
  /\ q.select \in Seq(FieldNames) /\ q.select # <<>> /\ Distinct(q.select)
  /\ q.top \in 0..MaxPageSize /\ q.skip \in Nat /\ q.count \in BOOLEAN
  /\ \E m : Echoes(q.filter, m)

LEMMA BoundedRead ==
  ASSUME NEW value \in Int \cup {Absent}, NEW bounded \in BOOLEAN,
         BoundedFault(value, bounded) = "none", value # Absent
  PROVE  value \in Nat /\ (bounded => value \in 0..MaxPageSize)
<1>1. value \in Int
  OBVIOUS
<1>2. ~(value < 0) /\ ~(bounded /\ value > MaxPageSize)
  BY Zenon DEF BoundedFault
<1>3. MaxPageSize \in Nat
  BY QueryAssumption
<1> QED BY <1>1, <1>2, <1>3

LEMMA BoundedKept ==
  ASSUME NEW value \in Nat, NEW bounded \in BOOLEAN, bounded => value \in 0..MaxPageSize
  PROVE  BoundedFault(value, bounded) = "none" /\ value # Absent
<1>1. ~(value < 0) /\ ~(bounded /\ value > MaxPageSize) /\ value \in Int
  BY QueryAssumption
<1>2. value # Absent
  BY <1>1, QueryAssumption
<1> QED BY <1>1, <1>2, Zenon DEF BoundedFault

LEMMA QueryRead ==
  ASSUME NEW o \in OptionRecords, QueryFault(o) = "none"
  PROVE  Meant(ParseQuery(o))
<1> DEFINE q == ParseQuery(o)
<1>1. /\ o.filter \in Seq(Tokens) /\ o.orderby \in Seq(Seq(Words)) /\ o.select \in Seq(Words)
      /\ o.top \in Int \cup {Absent} /\ o.skip \in Int \cup {Absent}
  BY DEF OptionRecords
<1>2. /\ ParseFilter(o.filter).error = "none" /\ OrderFault(o.orderby) = "none"
      /\ ToSet(o.select) \subseteq FieldNames
      /\ BoundedFault(o.top, TRUE) = "none" /\ BoundedFault(o.skip, FALSE) = "none"
  BY Accepted, Zenon
<1>3. /\ q.filter = ParseFilter(o.filter).nodes[1] /\ q.order = OrderOf(o.orderby)
      /\ q.select = SelectOf(o.select)
      /\ q.top = (IF o.top = Absent THEN DefaultPageSize ELSE o.top)
      /\ q.skip = (IF o.skip = Absent THEN 0 ELSE o.skip)
      /\ q.count = (o.count = "true")
      /\ q = [filter |-> q.filter, order |-> q.order, select |-> q.select,
              top |-> q.top, skip |-> q.skip, count |-> q.count]
  BY DEF ParseQuery
<1> HIDE DEF q
<1>4. q.filter \in Trees[MaxFilterLength - 1]
  BY <1>1, <1>2, <1>3, FilterRead
<1>5. \E m : Echoes(q.filter, m)
  BY <1>1, <1>2, <1>3, FilterEchoes
<1>6. /\ q.order \in Orders(FieldNames) /\ q.order # <<>> /\ Different(q.order)
      /\ Len(q.order) <= MaxOrderFields
  BY <1>1, <1>2, <1>3, OrderRead
<1>7. q.select \in Seq(FieldNames) /\ q.select # <<>> /\ Distinct(q.select)
  BY <1>1, <1>2, <1>3, SelectRead
<1>8. q.top \in 0..MaxPageSize
  <2>1. CASE o.top = Absent
    <3>1. q.top = DefaultPageSize
      BY <1>3, <2>1
    <3> QED BY <3>1, QueryAssumption
  <2>2. CASE o.top # Absent
    <3>1. q.top = o.top
      BY <1>3, <2>2
    <3> QED BY <1>1, <1>2, <2>2, <3>1, BoundedRead
  <2> QED BY <2>1, <2>2
<1>9. q.skip \in Nat
  <2>1. CASE o.skip = Absent
    BY <1>3, <2>1
  <2>2. CASE o.skip # Absent
    <3>1. q.skip = o.skip
      BY <1>3, <2>2
    <3> QED BY <1>1, <1>2, <2>2, <3>1, BoundedRead
  <2> QED BY <2>1, <2>2
<1>10. q.count \in BOOLEAN
  BY <1>3
<1>11. Meant(q)
  BY <1>3, <1>4, <1>5, <1>6, <1>7, <1>8, <1>9, <1>10, Zenon DEF Meant
<1> QED BY <1>11 DEF q

\* The canonical text of a query with filter text c and selection s.
Written(q, c, s) ==
  [filter |-> c, orderby |-> q.order, select |-> s,
   top |-> q.top, skip |-> IF q.skip = 0 THEN Absent ELSE q.skip,
   count |-> IF q.count THEN "true" ELSE "",
   unsupported |-> FALSE, repeated |-> FALSE]

LEMMA CountKept ==
  ASSUME NEW b \in BOOLEAN
  PROVE  LET count == IF b THEN "true" ELSE "" IN
         count \in {"", "true", "false"} /\ (count = "true") = b
<1>1. CASE b = TRUE
  BY <1>1, Zenon
<1>2. CASE b = FALSE
  <2>1. "" # "true"
    BY Zenon
  <2> QED BY <1>2, <2>1, Zenon
<1> QED BY <1>1, <1>2, Zenon

LEMMA MeaningKept ==
  ASSUME NEW q, Meant(q)
  PROVE  CanonicalMeansSame(q)
<1> DEFINE c == Render[q.filter][0]
           s == IF q.select = DefaultSelect THEN <<>> ELSE q.select
           t == Canonical(q)
           again == ParseQuery(t)
<1>1. PICK m : Echoes(q.filter, m)
  BY DEF Meant
<1>2. /\ ParseFilter(c).error = "none" /\ ParseFilter(c).nodes[1] = m /\ Render[m][0] = c
  BY <1>1, Zenon DEF Echoes
<1>3. SelectOf(s) = q.select /\ ToSet(s) \subseteq FieldNames
  <2>1. q.select \in Seq(FieldNames) /\ q.select # <<>> /\ Distinct(q.select)
    BY DEF Meant
  <2>2. s = IF q.select = DefaultSelect THEN <<>> ELSE q.select
    BY Zenon
  <2> HIDE DEF s
  <2> QED BY <2>1, <2>2, SelectKept
<1> HIDE DEF c
<1>4. t = Written(q, c, s)
  BY Zenon DEF Canonical, Written, c
<1> HIDE DEF s, t
<1>5. /\ t.filter = c /\ t.orderby = q.order /\ t.select = s /\ t.top = q.top
      /\ t.skip = (IF q.skip = 0 THEN Absent ELSE q.skip)
      /\ t.unsupported = FALSE /\ t.repeated = FALSE
  <2> DEFINE count == IF q.count THEN "true" ELSE ""
  <2>1. t = [filter |-> c, orderby |-> q.order, select |-> s,
             top |-> q.top, skip |-> IF q.skip = 0 THEN Absent ELSE q.skip,
             count |-> count, unsupported |-> FALSE, repeated |-> FALSE]
    BY <1>4, Zenon DEF Written
  <2> HIDE DEF count
  <2> QED BY <2>1
<1>6. t.count = IF q.count THEN "true" ELSE ""
  BY <1>4, Zenon DEF Written
<1>7. OrderFault(q.order) = "none" /\ OrderOf(q.order) = q.order
  BY OrderKept DEF Meant
<1>8. q.top \in 0..MaxPageSize /\ q.skip \in Nat /\ q.top \in Nat
  <2>1. q.top \in 0..MaxPageSize /\ q.skip \in Nat
    BY DEF Meant
  <2> QED BY <2>1, QueryAssumption
<1>9. BoundedFault(q.top, TRUE) = "none" /\ q.top # Absent
  BY <1>8, BoundedKept
<1>10. BoundedFault(q.skip, FALSE) = "none" /\ q.skip # Absent
  BY <1>8, BoundedKept
<1>11. BoundedFault(t.skip, FALSE) = "none"
  <2>1. BoundedFault(Absent, FALSE) = "none"
    BY Zenon DEF BoundedFault
  <2> QED BY <1>5, <1>10, <2>1, Zenon
<1>12. (IF t.skip = Absent THEN 0 ELSE t.skip) = q.skip
  BY <1>5, <1>10
<1>13. t.count \in {"", "true", "false"} /\ (t.count = "true") = q.count
  <2>1. q.count \in BOOLEAN
    BY DEF Meant
  <2> QED BY <1>6, <2>1, CountKept, Zenon
<1>14. QueryFault(t) = "none"
  <2>1. ~t.unsupported /\ ~t.repeated
    BY <1>5, Zenon
  <2> QED BY <1>2, <1>3, <1>5, <1>7, <1>9, <1>11, <1>13, <2>1, Accepted, Zenon
<1>15. again = [filter |-> m, order |-> q.order, select |-> q.select,
                top |-> q.top, skip |-> q.skip, count |-> q.count]
  <2>1. (IF t.top = Absent THEN DefaultPageSize ELSE t.top) = q.top
    BY <1>5, <1>9, Zenon
  <2>2. again = [filter |-> ParseFilter(t.filter).nodes[1], order |-> OrderOf(t.orderby),
                 select |-> SelectOf(t.select),
                 top |-> IF t.top = Absent THEN DefaultPageSize ELSE t.top,
                 skip |-> IF t.skip = Absent THEN 0 ELSE t.skip, count |-> t.count = "true"]
    BY Zenon DEF ParseQuery
  <2>3. ParseFilter(t.filter).nodes[1] = m /\ OrderOf(t.orderby) = q.order /\ SelectOf(t.select) = q.select
    BY <1>2, <1>3, <1>5, <1>7, Zenon
  <2> QED BY <1>12, <1>13, <2>1, <2>2, <2>3, Zenon
<1> HIDE DEF again
<1>16. /\ again.filter = m /\ again.order = q.order /\ again.select = q.select
       /\ again.top = q.top /\ again.skip = q.skip /\ again.count = q.count
  BY <1>15
<1>17. Canonical(again) = t
  <2>1. Canonical(again) = Written(again, Render[again.filter][0],
                                   IF again.select = DefaultSelect THEN <<>> ELSE again.select)
    BY Zenon DEF Canonical, Written
  <2>2. Render[again.filter][0] = c
    BY <1>2, <1>16, Zenon
  <2>3. (IF again.select = DefaultSelect THEN <<>> ELSE again.select) = s
    BY <1>16, Zenon DEF s
  <2>4. Written(again, c, s) = Written(q, c, s)
    BY <1>16, Zenon DEF Written
  <2> QED BY <1>4, <2>1, <2>2, <2>3, <2>4, Zenon
<1>18. [again EXCEPT !.filter = q.filter] = q
  <2>1. q = [filter |-> q.filter, order |-> q.order, select |-> q.select,
             top |-> q.top, skip |-> q.skip, count |-> q.count]
    BY DEF Meant
  <2> DEFINE v == [filter |-> m, order |-> q.order, select |-> q.select,
                   top |-> q.top, skip |-> q.skip, count |-> q.count]
  <2>2. \A x : [v EXCEPT !.filter = x]
                 = [filter |-> x, order |-> q.order, select |-> q.select,
                    top |-> q.top, skip |-> q.skip, count |-> q.count]
    OBVIOUS
  <2>3. again = v
    BY <1>15
  <2> HIDE DEF v
  <2>4. [v EXCEPT !.filter = q.filter] = q
    BY <2>1, <2>2, Zenon
  <2> QED BY <2>3, <2>4, Zenon
<1>19. \A r \in Results : /\ Matches(again.filter, r) <=> Matches(q.filter, r)
                          /\ Matches(Not(again.filter), r) <=> Matches(Not(q.filter), r)
  <2>1. q.filter \in Trees[MaxFilterLength - 1]
    BY DEF Meant
  <2>2. \A r : (Matches(m, r) <=> Matches(q.filter, r)) /\ (Matches(Not(m), r) <=> Matches(Not(q.filter), r))
    BY <1>1, <2>1, EchoMatches, Zenon
  <2> QED BY <1>16, <2>2, Zenon
<1>20. ReadsAs(q, again)
  BY <1>18, <1>19, Zenon DEF ReadsAs
<1>21. StaysCanonical(q, t)
  BY <1>14, <1>17, <1>20, Zenon DEF StaysCanonical, again
<1> QED BY <1>21, Zenon DEF CanonicalMeansSame, t

LEMMA DraftMeant ==
  ASSUME Typed, NEW q \in Drafts
  PROVE  Meant(q)
<1>1. QueryFault(Options(box, <<>>)) = "none"
  BY DEF Drafts
<1>2. PICK script \in Scripts : Valid(script) /\ q = ParseQuery([script EXCEPT !.filter = box])
  BY <1>1 DEF Drafts
<1> DEFINE o == [script EXCEPT !.filter = box]
<1>3. script \in OptionRecords /\ QueryFault(script) = "none"
  BY <1>2, ExplorerAssumption DEF Valid
<1>4. ParseFilter(box).error = "none" /\ box \in Seq(Tokens)
  <2>1. ParseFilter(Options(box, <<>>).filter).error = "none"
    BY <1>1, Accepted, Zenon
  <2> QED BY <2>1 DEF Options, Typed
<1>5. /\ o \in OptionRecords
      /\ o.filter = box /\ o.orderby = script.orderby /\ o.select = script.select
      /\ o.top = script.top /\ o.skip = script.skip /\ o.count = script.count
      /\ o.unsupported = script.unsupported /\ o.repeated = script.repeated
  BY <1>3, <1>4 DEF OptionRecords
<1> HIDE DEF o
<1>6. QueryFault(o) = "none"
  BY <1>3, <1>4, <1>5, Accepted, Zenon
<1>7. Meant(ParseQuery(o))
  BY <1>5, <1>6, QueryRead
<1> QED BY <1>2, <1>7, Zenon DEF o

\* A valid filter and its negation divide the results between them, and a client
\* that reads page after page gets every match once, whatever the database makes
\* of an order that leaves something open.
THEOREM DraftsSplit == Spec => []DraftsDivide
<1>1. Typed => DraftsDivide
  <2> SUFFICES ASSUME Typed, NEW q \in Drafts
               PROVE  NegationDivides(q) /\ PagesDivide(q, Results)
    BY DEF DraftsDivide
  <2>1. Meant(q)
    BY DraftMeant
  <2>2. NegationDivides(q)
    BY <2>1, NegationSplits DEF Meant
  <2>3. PagesDivide(q, Results)
    <3>1. q.top \in Nat
      BY <2>1, QueryAssumption DEF Meant
    <3> QED BY <2>1, <3>1, PagesSplit DEF Meant
  <2> QED BY <2>2, <2>3
<1> QED BY <1>1, SpecTyped, PTL

\* The canonical text of a query, which links and answers carry, is accepted
\* again, is canonical itself, and selects what the query selects, null or not:
\* the parser reads of every rendered tree one that differs from it in the
\* nesting of "and" in "and" and of "or" in "or".
THEOREM DraftsMeanSame == Spec => []DraftsKeepMeaning
<1>1. Typed => DraftsKeepMeaning
  BY DraftMeant, MeaningKept DEF DraftsKeepMeaning
<1> QED BY <1>1, SpecTyped, PTL

-----------------------------------------------------------------------------
(* There is one answer to a query, and its links are answered with it.     *)
Ahead(direction, u, v) ==
  IF u = Null \/ v = Null THEN u # Null /\ v = Null
  ELSE IF direction = "desc" THEN u > v ELSE u < v

LEMMA AheadOrders ==
  ASSUME NEW direction, NEW u \in Int \cup {Null}, NEW v \in Int \cup {Null},
         NEW w \in Int \cup {Null}
  PROVE  /\ ~Ahead(direction, u, u)
         /\ ~Ahead(direction, u, v) /\ ~Ahead(direction, v, u) => u = v
         /\ Ahead(direction, u, v) /\ Ahead(direction, v, w) => Ahead(direction, u, w)
<1>0. Null \notin Int
  BY QueryAssumption
<1>1. CASE direction = "desc"
  BY <1>0, <1>1 DEF Ahead
<1>2. CASE direction # "desc"
  BY <1>0, <1>2 DEF Ahead
<1> QED BY <1>1, <1>2

LEMMA KeyOrders ==
  ASSUME NEW key \in FieldNames \X Directions,
         NEW a \in Results, NEW b \in Results, NEW c \in Results
  PROVE  /\ ~KeyPrecedes(key, a, a)
         /\ ~KeyPrecedes(key, a, b) /\ ~KeyPrecedes(key, b, a) => Row[a][key[1]] = Row[b][key[1]]
         /\ KeyPrecedes(key, a, b) /\ KeyPrecedes(key, b, c) => KeyPrecedes(key, a, c)
<1>1. \A r \in Results : Row[r][key[1]] \in Int \cup {Null}
  BY QueryAssumption
<1>2. \A r, s : KeyPrecedes(key, r, s) <=> Ahead(key[2], Row[r][key[1]], Row[s][key[1]])
  BY Zenon DEF KeyPrecedes, Ahead
<1> DEFINE u == Row[a][key[1]]
           v == Row[b][key[1]]
           w == Row[c][key[1]]
<1>3. /\ ~Ahead(key[2], u, u)
      /\ ~Ahead(key[2], u, v) /\ ~Ahead(key[2], v, u) => u = v
      /\ Ahead(key[2], u, v) /\ Ahead(key[2], v, w) => Ahead(key[2], u, w)
  <2>1. u \in Int \cup {Null} /\ v \in Int \cup {Null} /\ w \in Int \cup {Null}
    BY <1>1, Zenon
  <2> HIDE DEF u, v, w
  <2> QED BY <2>1, AheadOrders
<1>4. ~KeyPrecedes(key, a, a)
  BY <1>2, <1>3, Zenon
<1>5. ~KeyPrecedes(key, a, b) /\ ~KeyPrecedes(key, b, a) => Row[a][key[1]] = Row[b][key[1]]
  BY <1>2, <1>3, Zenon
<1>6. KeyPrecedes(key, a, b) /\ KeyPrecedes(key, b, c) => KeyPrecedes(key, a, c)
  BY <1>2, <1>3, Zenon
<1> QED BY <1>4, <1>5, <1>6, Zenon

LEMMA KeysTyped ==
  ASSUME NEW order \in Orders(FieldNames)
  PROVE  SortKeys(order) \in Orders(FieldNames)
<1>1. CASE \E i \in DOMAIN order : order[i][1] = "id"
  BY <1>1, Zenon DEF SortKeys
<1>2. CASE ~ \E i \in DOMAIN order : order[i][1] = "id"
  <2> DEFINE key == <<"id", "asc">>
  <2>1. key \in FieldNames \X Directions
    BY QueryAssumption DEF Directions
  <2>2. SortKeys(order) = Append(order, key)
    BY <1>2, Zenon DEF SortKeys
  <2> HIDE DEF key
  <2> QED BY <2>1, <2>2 DEF Orders
<1> QED BY <1>1, <1>2

LEMMA PrecedesOrders ==
  ASSUME NEW order \in Orders(FieldNames),
         NEW a \in Results, NEW b \in Results, NEW c \in Results
  PROVE  /\ ~Precedes(order, a, a)
         /\ Precedes(order, a, b) /\ Precedes(order, b, c) => Precedes(order, a, c)
<1> DEFINE keys == SortKeys(order)
           n == Len(keys)
           Value(i, r) == Row[r][keys[i][1]]
<1>1. n \in Nat /\ DOMAIN keys = 1..n /\ \A i \in 1..n : keys[i] \in FieldNames \X Directions
  <2>1. keys \in Seq(FieldNames \X Directions)
    BY KeysTyped DEF Orders
  <2> HIDE DEF keys
  <2> QED BY <2>1
<1> HIDE DEF n
<1>2. \A i \in 1..n : \A r \in Results, s \in Results, t \in Results :
        /\ ~KeyPrecedes(keys[i], r, r)
        /\ ~KeyPrecedes(keys[i], r, s) /\ ~KeyPrecedes(keys[i], s, r) => Value(i, r) = Value(i, s)
        /\ KeyPrecedes(keys[i], r, s) /\ KeyPrecedes(keys[i], s, t) => KeyPrecedes(keys[i], r, t)
  <2> SUFFICES ASSUME NEW i \in 1..n, NEW r \in Results, NEW s \in Results, NEW t \in Results
               PROVE  /\ ~KeyPrecedes(keys[i], r, r)
                      /\ ~KeyPrecedes(keys[i], r, s) /\ ~KeyPrecedes(keys[i], s, r) => Value(i, r) = Value(i, s)
                      /\ KeyPrecedes(keys[i], r, s) /\ KeyPrecedes(keys[i], s, t) => KeyPrecedes(keys[i], r, t)
    BY Zenon
  <2>1. keys[i] \in FieldNames \X Directions
    BY <1>1
  <2> HIDE DEF keys
  <2>2. ~KeyPrecedes(keys[i], r, r)
    BY <2>1, KeyOrders, Zenon
  <2>3. ~KeyPrecedes(keys[i], r, s) /\ ~KeyPrecedes(keys[i], s, r) => Value(i, r) = Value(i, s)
    <3>1. ~KeyPrecedes(keys[i], r, s) /\ ~KeyPrecedes(keys[i], s, r)
            => Row[r][keys[i][1]] = Row[s][keys[i][1]]
      <4> DEFINE key == keys[i]
      <4>1. key \in FieldNames \X Directions
        BY <2>1
      <4> HIDE DEF key
      <4>2. ~KeyPrecedes(key, r, s) /\ ~KeyPrecedes(key, s, r) => Row[r][key[1]] = Row[s][key[1]]
        BY <4>1, KeyOrders
      <4> QED BY <4>2, Zenon DEF key
    <3> QED BY <3>1, Zenon DEF Value
  <2>4. KeyPrecedes(keys[i], r, s) /\ KeyPrecedes(keys[i], s, t) => KeyPrecedes(keys[i], r, t)
    BY <2>1, KeyOrders, Zenon
  <2> QED BY <2>2, <2>3, <2>4, Zenon
<1>3. \A i, r, s : \A t : /\ Value(i, r) = Value(i, s) => (KeyPrecedes(keys[i], t, r) <=> KeyPrecedes(keys[i], t, s))
                          /\ Value(i, r) = Value(i, s) => (KeyPrecedes(keys[i], r, t) <=> KeyPrecedes(keys[i], s, t))
  <2> SUFFICES ASSUME NEW i, NEW r, NEW s, NEW t, Value(i, r) = Value(i, s)
               PROVE  /\ KeyPrecedes(keys[i], t, r) <=> KeyPrecedes(keys[i], t, s)
                      /\ KeyPrecedes(keys[i], r, t) <=> KeyPrecedes(keys[i], s, t)
    BY Zenon
  <2>1. Row[r][keys[i][1]] = Row[s][keys[i][1]]
    BY Zenon DEF Value
  <2> HIDE DEF keys
  <2>2. \A p, q : KeyPrecedes(keys[i], p, q)
                   <=> Ahead(keys[i][2], Row[p][keys[i][1]], Row[q][keys[i][1]])
    BY Zenon DEF KeyPrecedes, Ahead
  <2> QED BY <2>1, <2>2, Zenon
<1>4. \A r, s : Precedes(order, r, s) <=>
        \E i \in 1..n : /\ KeyPrecedes(keys[i], r, s)
                        /\ \A j \in 1..(i - 1) : ~KeyPrecedes(keys[j], r, s) /\ ~KeyPrecedes(keys[j], s, r)
  BY <1>1, Zenon DEF Precedes
<1> HIDE DEF keys, Value
<1>5. ~Precedes(order, a, a)
  BY <1>2, <1>4, Zenon
<1>6. ASSUME Precedes(order, a, b), Precedes(order, b, c) PROVE Precedes(order, a, c)
  <2>1. PICK i \in 1..n : /\ KeyPrecedes(keys[i], a, b)
                          /\ \A j \in 1..(i - 1) : ~KeyPrecedes(keys[j], a, b) /\ ~KeyPrecedes(keys[j], b, a)
    BY <1>4, <1>6, Zenon
  <2>2. PICK k \in 1..n : /\ KeyPrecedes(keys[k], b, c)
                          /\ \A j \in 1..(k - 1) : ~KeyPrecedes(keys[j], b, c) /\ ~KeyPrecedes(keys[j], c, b)
    BY <1>4, <1>6, Zenon
  <2>3. ASSUME NEW j \in 1..n, j < i \/ j = i, j < k \/ j = k
        PROVE  /\ j \in 1..(i - 1) => Value(j, a) = Value(j, b)
               /\ j \in 1..(k - 1) => Value(j, b) = Value(j, c)
    BY <1>2, <2>1, <2>2, Zenon
  <2>4. ASSUME NEW m \in 1..n, m = i \/ m < i, m = k \/ m < k, m = i \/ m = k
        PROVE  /\ KeyPrecedes(keys[m], a, c)
               /\ \A j \in 1..(m - 1) : ~KeyPrecedes(keys[j], a, c) /\ ~KeyPrecedes(keys[j], c, a)
    <3>1. KeyPrecedes(keys[m], a, c)
      <4>1. CASE m = i /\ m = k
        BY <1>2, <2>1, <2>2, <4>1, Zenon
      <4>2. CASE m = i /\ m < k
        <5>1. m \in 1..(k - 1)
          BY <1>1, <4>2
        <5>2. Value(m, b) = Value(m, c)
          BY <1>2, <2>2, <5>1, Zenon
        <5> QED BY <1>3, <2>1, <4>2, <5>2, Zenon
      <4>3. CASE m < i /\ m = k
        <5>1. m \in 1..(i - 1)
          BY <1>1, <4>3
        <5>2. Value(m, a) = Value(m, b)
          BY <1>2, <2>1, <5>1, Zenon
        <5> QED BY <1>3, <2>2, <4>3, <5>2, Zenon
      <4> QED BY <2>4, <4>1, <4>2, <4>3
    <3>2. ASSUME NEW j \in 1..(m - 1)
          PROVE  ~KeyPrecedes(keys[j], a, c) /\ ~KeyPrecedes(keys[j], c, a)
      <4>1. j \in 1..n /\ j \in 1..(i - 1) /\ j \in 1..(k - 1)
        BY <1>1, <2>4
      <4>2. Value(j, a) = Value(j, b) /\ Value(j, b) = Value(j, c)
        BY <1>2, <2>1, <2>2, <4>1, Zenon
      <4>3. ~KeyPrecedes(keys[j], a, b) /\ ~KeyPrecedes(keys[j], b, a)
        BY <2>1, <4>1, Zenon
      <4> QED BY <1>3, <4>2, <4>3, Zenon
    <3> QED BY <3>1, <3>2
  <2>5. CASE i <= k
    <3>1. KeyPrecedes(keys[i], a, c)
          /\ \A j \in 1..(i - 1) : ~KeyPrecedes(keys[j], a, c) /\ ~KeyPrecedes(keys[j], c, a)
      <4>1. i = k \/ i < k
        BY <1>1, <2>5
      <4> QED BY <2>4, <4>1, Zenon
    <3> QED BY <1>4, <3>1, Zenon
  <2>6. CASE k < i
    <3>1. KeyPrecedes(keys[k], a, c)
          /\ \A j \in 1..(k - 1) : ~KeyPrecedes(keys[j], a, c) /\ ~KeyPrecedes(keys[j], c, a)
      BY <2>4, <2>6, Zenon
    <3> QED BY <1>4, <3>1, Zenon
  <2> QED BY <1>1, <2>5, <2>6
<1> QED BY <1>5, <1>6

\* What may stand last among the results R.
Hindmost(order, R, b) == b \in R /\ \A a \in R : ~Precedes(order, b, a)

LEMMA OneFewer ==
  ASSUME NEW R \in SUBSET Results, NEW x \in R, NEW n \in Nat, Cardinality(R) = n
  PROVE  R \ {x} \in SUBSET Results /\ n - 1 \in Nat /\ Cardinality(R \ {x}) = n - 1
<1>1. IsFiniteSet(R)
  BY FS_Subset, QueryAssumption
<1>2. IsFiniteSet(R \ {x}) /\ Cardinality(R \ {x}) = IF x \in R THEN Cardinality(R) - 1 ELSE Cardinality(R)
  BY <1>1, FS_RemoveElement
<1>3. Cardinality(R \ {x}) \in Nat
  BY <1>2, FS_CardinalityType
<1> QED BY <1>2, <1>3

LEMMA SomeLast ==
  ASSUME NEW order \in Orders(FieldNames)
  PROVE  \A R \in SUBSET Results : R # {} => \E b : Hindmost(order, R, b)
<1> DEFINE N == Cardinality(Results)
           S == {n \in Nat : \A R \in SUBSET Results :
                               Cardinality(R) = n /\ R # {} => \E b : Hindmost(order, R, b)}
<1>1. N \in Nat
  BY FS_CardinalityType, QueryAssumption
<1>2. 0 \in S
  <2>1. \A R \in SUBSET Results : Cardinality(R) = 0 => R = {}
    BY FS_Subset, FS_EmptySet, QueryAssumption
  <2> QED BY <2>1
<1>3. \A n \in 1..N : n - 1 \in S => n \in S
  <2> SUFFICES ASSUME NEW n \in 1..N, n - 1 \in S, NEW R \in SUBSET Results,
                      Cardinality(R) = n, R # {}
               PROVE  \E b : Hindmost(order, R, b)
    <3>1. \A n \in 1..N : n \in Nat
      BY <1>1
    <3> QED BY <3>1
  <2>1. PICK x \in R : TRUE
    OBVIOUS
  <2> DEFINE T == R \ {x}
  <2>2. T \in SUBSET Results /\ Cardinality(T) = n - 1
    <3>1. n \in Nat
      BY <1>1
    <3> QED BY <3>1, OneFewer
  <2>3. T # {} => \E b : Hindmost(order, T, b)
    <3> HIDE DEF T
    <3> QED BY <2>2
  <2>4. x \in Results /\ R \subseteq Results
    OBVIOUS
  <2>5. CASE T = {}
    <3>1. Hindmost(order, R, x)
      <4>1. \A a \in R : a = x
        BY <2>5
      <4>2. ~Precedes(order, x, x)
        BY <2>4, PrecedesOrders
      <4> QED BY <4>1, <4>2 DEF Hindmost
    <3> QED BY <3>1
  <2>6. CASE T # {}
    <3>1. PICK b : Hindmost(order, T, b)
      BY <2>3, <2>6
    <3>2. b \in R /\ b \in Results /\ \A a \in T : ~Precedes(order, b, a)
      BY <2>4, <3>1 DEF Hindmost
    <3>3. CASE Precedes(order, b, x)
      <4>1. Hindmost(order, R, x)
        <5> SUFFICES ASSUME NEW a \in R, Precedes(order, x, a) PROVE FALSE
          BY DEF Hindmost
        <5>1. a \in Results /\ a # x
          BY <2>4, PrecedesOrders
        <5>2. Precedes(order, b, a)
          BY <2>4, <3>2, <3>3, <5>1, PrecedesOrders
        <5> QED BY <3>2, <5>1, <5>2
      <4> QED BY <4>1
    <3>4. CASE ~Precedes(order, b, x)
      BY <3>2, <3>4 DEF Hindmost
    <3> QED BY <3>3, <3>4
  <2> QED BY <2>5, <2>6
<1>4. \A n \in 0..N : n \in S
  <2> HIDE DEF N, S
  <2> QED BY <1>1, <1>2, <1>3, UpToN
<1>5. \A R \in SUBSET Results : Cardinality(R) \in 0..N
  <2>1. \A R \in SUBSET Results : IsFiniteSet(R) /\ Cardinality(R) <= N
    BY FS_Subset, QueryAssumption
  <2>2. \A R \in SUBSET Results : Cardinality(R) \in Nat
    BY <2>1, FS_CardinalityType
  <2> HIDE DEF N
  <2> QED BY <1>1, <2>1, <2>2
<1>6. \A R \in SUBSET Results : Cardinality(R) \in S
  <2> HIDE DEF N, S
  <2> QED BY <1>4, <1>5
<1> QED BY <1>6

\* b at the end of s, which has n elements.
Extended(s, n, b) == [i \in 1..(n + 1) |-> IF i = n + 1 THEN b ELSE s[i]]

LEMMA ExtendsAnswer ==
  ASSUME NEW order \in Orders(FieldNames), NEW R \in SUBSET Results, NEW b, Hindmost(order, R, b),
         NEW n \in Nat, Cardinality(R) = n + 1, Cardinality(R \ {b}) = n,
         NEW s \in Sequences(order, R \ {b})
  PROVE  Extended(s, n, b) \in Sequences(order, R)
<1> DEFINE T == R \ {b}
           t == Extended(s, n, b)
<1>1. IsFiniteSet(T)
  <2>1. T \in SUBSET Results
    OBVIOUS
  <2> HIDE DEF T
  <2> QED BY <2>1, FS_Subset, QueryAssumption
<1>2. b \in R /\ (\A a \in R : ~Precedes(order, b, a))
  BY Zenon DEF Hindmost
<1>3. s \in SetToSeqs(T) /\ \A i, j \in DOMAIN s : i < j => ~Precedes(order, s[j], s[i])
  BY Zenon DEF Sequences
<1>4. s \in [1..n -> T] /\ \A i, j \in 1..n : s[i] = s[j] => i = j
  <2> HIDE DEF T
  <2>1. Cardinality(T) = n
    BY DEF T
  <2> QED BY <1>1, <1>3, <2>1, Listed
<1>5. /\ DOMAIN t = 1..(n + 1)
      /\ t[n + 1] = b
      /\ \A i \in 1..n : t[i] = s[i] /\ t[i] \in T
  <2> HIDE DEF T
  <2> QED BY <1>4 DEF Extended
<1>6. \A i \in 1..(n + 1) : i = n + 1 \/ i \in 1..n
  OBVIOUS
<1>7. t \in [1..(n + 1) -> R]
  <2>1. \A i \in 1..(n + 1) : t[i] \in R
    <3> HIDE DEF t
    <3> QED BY <1>2, <1>5, <1>6
  <2> QED BY <2>1 DEF Extended
<1> HIDE DEF t
<1>8. \A i, j \in 1..(n + 1) : i # j => t[i] # t[j]
  BY <1>4, <1>5, <1>6
<1>9. \A i, j \in 1..(n + 1) : i < j => ~Precedes(order, t[j], t[i])
  <2> SUFFICES ASSUME NEW i \in 1..(n + 1), NEW j \in 1..(n + 1), i < j
               PROVE  ~Precedes(order, t[j], t[i])
    OBVIOUS
  <2>1. i \in 1..n
    OBVIOUS
  <2>2. CASE j = n + 1
    <3>1. t[i] \in R
      BY <1>5, <2>1
    <3> QED BY <1>2, <1>5, <2>2, <3>1
  <2>3. CASE j \in 1..n
    <3>1. ~Precedes(order, s[j], s[i])
      BY <1>3, <1>4, <2>1, <2>3
    <3> QED BY <1>5, <2>1, <2>3, <3>1
  <2> QED BY <1>6, <2>2, <2>3
<1>10. t \in SetToSeqs(R)
  <2>1. Cardinality(R) = n + 1
    OBVIOUS
  <2> QED BY <1>7, <1>8, <2>1, Zenon DEF SetToSeqs
<1>11. t \in Sequences(order, R)
  BY <1>5, <1>9, <1>10, Zenon DEF Sequences
<1> QED BY <1>11 DEF t

LEMMA SomeAnswer ==
  ASSUME NEW order \in Orders(FieldNames)
  PROVE  \A R \in SUBSET Results : Sequences(order, R) # {}
<1> DEFINE N == Cardinality(Results)
           S == {n \in Nat : \A R \in SUBSET Results :
                               Cardinality(R) = n => Sequences(order, R) # {}}
<1>1. N \in Nat
  BY FS_CardinalityType, QueryAssumption
<1>2. 0 \in S
  <2> SUFFICES ASSUME NEW R \in SUBSET Results, Cardinality(R) = 0
               PROVE  Sequences(order, R) # {}
    OBVIOUS
  <2>1. <<>> \in SetToSeqs(R)
    <3>1. <<>> \in [1..0 -> R]
      OBVIOUS
    <3>2. \A i, j \in 1..0 : FALSE
      OBVIOUS
    <3>3. <<>> \in [1..Cardinality(R) -> R] /\ \A i, j \in 1..Cardinality(R) : i # j => <<>>[i] # <<>>[j]
      BY <3>1, <3>2, Zenon
    <3> QED BY <3>3, Zenon DEF SetToSeqs
  <2>2. \A i \in DOMAIN <<>> : FALSE
    OBVIOUS
  <2>3. <<>> \in Sequences(order, R)
    BY <2>1, <2>2, Zenon DEF Sequences
  <2> QED BY <2>3
<1>3. \A n \in 1..N : n - 1 \in S => n \in S
  <2> SUFFICES ASSUME NEW n \in 1..N, n - 1 \in S, NEW R \in SUBSET Results, Cardinality(R) = n
               PROVE  Sequences(order, R) # {}
    <3>1. \A k \in 1..N : k \in Nat
      BY <1>1
    <3> QED BY <3>1
  <2>1. n \in Nat /\ n # 0 /\ (n - 1) + 1 = n
    BY <1>1
  <2>2. R # {}
    BY <2>1, FS_EmptySet
  <2>3. PICK b : Hindmost(order, R, b)
    BY <2>2, SomeLast
  <2>4. b \in R
    BY <2>3 DEF Hindmost
  <2>5. R \ {b} \in SUBSET Results /\ n - 1 \in Nat /\ Cardinality(R \ {b}) = n - 1
    BY <2>1, <2>4, OneFewer
  <2>6. PICK s : s \in Sequences(order, R \ {b})
    BY <2>5
  <2> DEFINE k == n - 1
  <2>7. k \in Nat /\ Cardinality(R) = k + 1 /\ Cardinality(R \ {b}) = k
    BY <2>1, <2>5
  <2> HIDE DEF k
  <2>8. Extended(s, k, b) \in Sequences(order, R)
    BY <2>3, <2>6, <2>7, ExtendsAnswer
  <2> QED BY <2>8
<1>4. \A n \in 0..N : n \in S
  <2> HIDE DEF N, S
  <2> QED BY <1>1, <1>2, <1>3, UpToN
<1>5. \A R \in SUBSET Results : Cardinality(R) \in 0..N
  <2>1. \A R \in SUBSET Results : IsFiniteSet(R) /\ Cardinality(R) <= N
    BY FS_Subset, QueryAssumption
  <2>2. \A R \in SUBSET Results : Cardinality(R) \in Nat
    BY <2>1, FS_CardinalityType
  <2> HIDE DEF N
  <2> QED BY <1>1, <2>1, <2>2
<1>6. \A R \in SUBSET Results : Cardinality(R) \in S
  <2> HIDE DEF N, S
  <2> QED BY <1>4, <1>5
<1> QED BY <1>6

\* A query has one page of rows.
LEMMA OnePage ==
  ASSUME NEW q, Meant(q), NEW P \in SUBSET Results
  PROVE  \E rows : Pages(q, P) = {rows}
<1> DEFINE R == {r \in P : Matches(q.filter, r)}
<1>1. R \in SUBSET Results /\ q.order \in Orders(FieldNames)
  BY DEF Meant
<1>2. Answers(q, P) = Sequences(q.order, R)
  BY Zenon DEF Answers
<1> HIDE DEF R
<1>3. PICK s : s \in Sequences(q.order, R)
  BY <1>1, SomeAnswer
<1>4. \A t \in Sequences(q.order, R) : t = s
  BY <1>1, <1>3, OneAnswer
<1>5. Answers(q, P) = {s}
  BY <1>2, <1>3, <1>4
<1>6. Pages(q, P) = {PageOf(q, s)}
  BY <1>5 DEF Pages
<1> QED BY <1>6

\* A query that reads as another has the pages of the other.
LEMMA SamePages ==
  ASSUME NEW q, NEW o, ReadsAs(q, ParseQuery(o)), NEW P \in SUBSET Results
  PROVE  Pages(ParseQuery(o), P) = Pages(q, P)
<1> DEFINE again == ParseQuery(o)
<1>1. again = [filter |-> again.filter, order |-> again.order, select |-> again.select,
               top |-> again.top, skip |-> again.skip, count |-> again.count]
  BY DEF ParseQuery
<1> HIDE DEF again
<1>2. [again EXCEPT !.filter = q.filter] = q /\ \A r \in Results : Matches(again.filter, r) <=> Matches(q.filter, r)
  BY Zenon DEF ReadsAs, again
<1>3. \A x : LET v == [again EXCEPT !.filter = x] IN
               v.order = again.order /\ v.skip = again.skip /\ v.top = again.top
  BY <1>1
<1>4. q.order = again.order /\ q.skip = again.skip /\ q.top = again.top
  BY <1>2, <1>3, Zenon
<1>5. {r \in P : Matches(again.filter, r)} = {r \in P : Matches(q.filter, r)}
  BY <1>2
<1>6. Answers(again, P) = Answers(q, P)
  BY <1>4, <1>5, Zenon DEF Answers
<1>7. \A s : PageOf(again, s) = PageOf(q, s)
  BY <1>4, Zenon DEF PageOf
<1>8. Pages(again, P) = Pages(q, P)
  <2> DEFINE A == Answers(q, P)
  <2>1. Pages(again, P) = {PageOf(again, s) : s \in A} /\ Pages(q, P) = {PageOf(q, s) : s \in A}
    BY <1>6, Zenon DEF Pages
  <2> HIDE DEF A
  <2> QED BY <1>7, <2>1
<1> QED BY <1>8 DEF again

\* What the order of the table asks for.
LEMMA TableAsked ==
  ASSUME NEW keys \in Orders(TableFields)
  PROVE  TableOptions(keys) \in OptionRecords
<1>1. "" \in Words
  BY WordsAssumption, Zenon
<1>2. Directions \subseteq Words
  <2>1. "asc" \in Words /\ "desc" \in Words
    BY WordsAssumption, Zenon
  <2> QED BY <2>1, Zenon DEF Directions
<1>3. keys \in Seq(Seq(Words))
  <2>1. TableFields \subseteq Words
    BY QueryAssumption, ExplorerAssumption
  <2>2. TableFields \X Directions \subseteq Seq(Words)
    <3> SUFFICES ASSUME NEW key \in TableFields \X Directions PROVE key \in Seq(Words)
      OBVIOUS
    <3>1. key[1] \in Words /\ key[2] \in Words /\ key = <<key[1], key[2]>>
      BY <1>2, <2>1
    <3>2. \A v, w \in Words : <<v, w>> \in Seq(Words)
      OBVIOUS
    <3> QED BY <3>1, <3>2, Zenon
  <2> QED BY <2>2, SeqMonotonic, Zenon DEF Orders
<1>4. ASSUME NEW count \in Words
      PROVE  [filter |-> <<>>, orderby |-> keys, select |-> <<>>, top |-> Absent, skip |-> Absent,
              count |-> count, unsupported |-> FALSE, repeated |-> FALSE] \in OptionRecords
  <2>1. <<>> \in Seq(Tokens) /\ <<>> \in Seq(Words)
    OBVIOUS
  <2> QED BY <1>3, <2>1 DEF OptionRecords
<1>5. Options(<<>>, keys) \in OptionRecords
  BY <1>1, <1>4, Zenon DEF Options
<1>6. \A o \in OptionRecords, top \in Int : [o EXCEPT !.top = top] \in OptionRecords
  BY DEF OptionRecords
<1>7. MaxPageSize \in Int
  BY QueryAssumption
<1> QED BY <1>5, <1>6, <1>7, Zenon DEF TableOptions

LEMMA QueryAsked ==
  ASSUME NEW u \in Addresses
  PROVE  QueryOptions(u) \in OptionRecords
<1>1. CASE Valid(Script(u))
  <2>1. Script(u) \in OptionRecords
    BY <1>1 DEF Valid, Script, Addresses
  <2> QED BY <1>1, <2>1 DEF QueryOptions
<1>2. CASE ~Valid(Script(u)) /\ Script(u) # NoScript /\ Valid(u.last)
  <2>1. u.last \in OptionRecords
    BY <1>2 DEF Valid, Addresses
  <2> QED BY <1>2, <2>1 DEF QueryOptions
<1>3. CASE ~Valid(Script(u)) /\ ~(Script(u) # NoScript /\ Valid(u.last))
  <2>1. u.sort \in SortKeyLists
    BY DEF Addresses
  <2>2. TableOptions(ParseSort(u.sort)) \in OptionRecords
    BY <2>1, SortRead, TableAsked
  <2> QED BY <1>3, <2>2 DEF QueryOptions
<1> QED BY <1>1, <1>2, <1>3

LEMMA PageAnswered ==
  ASSUME NEW u \in Addresses, ~Fails(u), u.filters.noise \subseteq NoiseModels
  PROVE  SameAnswers(PageRows(u), Link(u))
<1> DEFINE q == Query(u)
           t == Canonical(q)
           f == FilterState(u.filters)
           P == Population(f)
           link == Link(u)
<1>1. Meant(q)
  <2>1. QueryFault(QueryOptions(u)) = "none"
    BY Zenon DEF Fails
  <2> QED BY <2>1, QueryAsked, QueryRead, Zenon DEF Query
<1> HIDE DEF q
<1>2. /\ QueryFault(t) = "none" /\ Canonical(ParseQuery(t)) = t
      /\ ReadsAs(q, ParseQuery(t))
  BY <1>1, MeaningKept, Zenon DEF CanonicalMeansSame, StaysCanonical
<1> HIDE DEF t
<1>3. PageFilters(u) = f
  <2>1. u.filters \in FilterRecords
    BY DEF Addresses
  <2>2. f \in FilterRecords
    BY <2>1, StateTyped
  <2>3. f.noise = u.filters.noise
    BY <2>1 DEF FilterState, FilterRecords
  <2>4. PageFilters(u) = [f EXCEPT !.noise = f.noise \cap NoiseModels]
    BY Zenon DEF PageFilters
  <2> HIDE DEF f
  <2>5. f.noise \cap NoiseModels = f.noise
    BY <2>3
  <2>6. [f EXCEPT !.noise = f.noise] = f
    BY <2>2 DEF FilterRecords
  <2> QED BY <2>4, <2>5, <2>6, Zenon
<1>4. P \in SUBSET Results
  BY DEF Population
<1> HIDE DEF f, P
<1>5. PageRows(u) = Pages(q, P)
  BY <1>3, Zenon DEF PageRows, q, P
<1>6. link = [filters |-> u.filters, direct |-> t]
  BY Zenon DEF Link, q, t
<1> HIDE DEF link
<1>7. link.filters = u.filters /\ link.direct = t /\ [link EXCEPT !.direct = t] = link
  BY <1>6
<1>8. ApiAnswers(link) = Pages(q, P)
  <2>1. ApiAnswers(link) = Pages(ParseQuery(t), P)
    BY <1>7, Zenon DEF ApiAnswers, P, f
  <2> QED BY <1>2, <1>4, <2>1, SamePages
<1>9. SelfLink(link) = link
  BY <1>2, <1>7, Zenon DEF SelfLink
<1>10. PICK rows : Pages(q, P) = {rows}
  BY <1>1, <1>4, OnePage
<1>11. Cardinality(PageRows(u) \cup ApiAnswers(link) \cup ApiAnswers(SelfLink(link))) = 1
  <2>1. PageRows(u) \cup ApiAnswers(link) \cup ApiAnswers(SelfLink(link)) = {rows}
    BY <1>5, <1>8, <1>9, <1>10
  <2>2. Cardinality({rows}) = 1
    BY FS_Singleton
  <2> QED BY <2>1, <2>2, Zenon
<1>12. QueryFault(link.direct) = "none"
  BY <1>2, <1>7, Zenon
<1> QED BY <1>11, <1>12, Zenon DEF SameAnswers, link

\* The machine-readable links of a page, and the links in what they answer,
\* return the rows of the page in its order: there is exactly one answer to a
\* query over a population, and a link is the same query over the same one, if
\* every noise model it names has a public record.
THEOREM LinksKeepAnswer == Spec => []LinksAnswerPage
<1>1. Typed => LinksAnswerPage
  BY PageAnswered, Zenon DEF Typed, LinksAnswerPage
<1> QED BY <1>1, SpecTyped, PTL
=============================================================================
