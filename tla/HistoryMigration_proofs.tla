----------------------- MODULE HistoryMigration_proofs -----------------------
(***************************************************************************)
(* Theorems about the migrations that gave the records their histories:    *)
(* which records share one, and what becomes of the recorded events.       *)
(***************************************************************************)
EXTENDS HistoryMigration, RecordLifecycle_proofs, FiniteSetTheorems,
        WellFoundedInduction

-----------------------------------------------------------------------------
(* Sets of numbers, and finite sets with a number for each member.         *)
LEMMA FirstNumbers == \A n \in Nat : IsFiniteSet(1..n) /\ Cardinality(1..n) = n
BY FS_Interval

LEMMA LeastMember ==
  ASSUME NEW S \in SUBSET Nat, S # {}
  PROVE  \E k \in S : \A l \in S : k <= l
<1> DEFINE R == {p \in Nat \X Nat : p[1] < p[2]}
<1>1. IsWellFoundedOn(R, Nat)
  BY NatLessThanWellFounded, Zenon DEF OpToRel
<1>2. PICK k \in S : \A l \in S : ~ (<<l, k>> \in R)
  <2> HIDE DEF R
  <2> QED BY <1>1, WFMin, Zenon
<1>3. ASSUME NEW l \in S PROVE k <= l
  <2>1. k \in Nat /\ l \in Nat
    OBVIOUS
  <2>2. l < k => <<l, k>> \in R
    BY <2>1
  <2>3. ~(l < k)
    <3> HIDE DEF R
    <3> QED BY <1>2, <2>2
  <2> QED BY <2>1, <2>3
<1> QED BY <1>3

LEMMA GreatestMember ==
  ASSUME NEW S, IsFiniteSet(S), S # {}, NEW g \in [S -> Nat]
  PROVE  \E s \in S : \A t \in S : g[t] <= g[s]
<1> DEFINE n == Cardinality(S)
           Upto(s) == {t \in S : g[t] <= g[s]}
           missing == {n - Cardinality(Upto(s)) : s \in S}
<1>1. n \in Nat
  BY FS_CardinalityType
<1>2. ASSUME NEW s \in S
      PROVE  IsFiniteSet(Upto(s)) /\ Cardinality(Upto(s)) \in 0..n
  <2>1. Upto(s) \in SUBSET S
    OBVIOUS
  <2>2. IsFiniteSet(Upto(s)) /\ Cardinality(Upto(s)) <= n
    <3> HIDE DEF Upto
    <3> QED BY <2>1, FS_Subset
  <2>3. Cardinality(Upto(s)) \in Nat
    <3> HIDE DEF Upto
    <3> QED BY <2>2, FS_CardinalityType
  <2> HIDE DEF Upto, n
  <2> QED BY <1>1, <2>2, <2>3
<1>3. missing \in SUBSET Nat /\ missing # {}
  <2> HIDE DEF Upto, n
  <2> QED BY <1>1, <1>2
<1>4. PICK k \in missing : \A l \in missing : k <= l
  <2> HIDE DEF missing
  <2> QED BY <1>3, LeastMember
<1>5. PICK s \in S : k = n - Cardinality(Upto(s))
  OBVIOUS
<1>6. ASSUME NEW t \in S PROVE g[t] <= g[s]
  <2>1. SUFFICES ASSUME g[s] < g[t] PROVE FALSE
    OBVIOUS
  <2>2. Upto(s) \in SUBSET Upto(t) /\ t \in Upto(t) /\ t \notin Upto(s)
    BY <2>1
  <2>3. n - Cardinality(Upto(t)) \in missing
    OBVIOUS
  <2> HIDE DEF Upto, n, missing
  <2>4. Cardinality(Upto(s)) <= Cardinality(Upto(t)) /\ Cardinality(Upto(s)) # Cardinality(Upto(t))
    BY <1>2, <2>2, FS_Subset
  <2> QED BY <1>1, <1>2, <1>4, <1>5, <2>3, <2>4
<1> QED BY <1>6

LEMMA MaxIn ==
  ASSUME NEW S \in SUBSET Nat, IsFiniteSet(S), S # {}
  PROVE  Max(S) \in S /\ \A s \in S : s <= Max(S)
<1> DEFINE g == [s \in S |-> s]
<1>1. g \in [S -> Nat]
  OBVIOUS
<1>2. PICK s \in S : \A t \in S : g[t] <= g[s]
  <2> HIDE DEF g
  <2> QED BY <1>1, GreatestMember
<1>3. \E x \in S : \A y \in S : x >= y
  BY <1>2
<1>4. Max(S) \in S /\ \A y \in S : Max(S) >= y
  BY <1>3, Zenon DEF Max
<1> QED BY <1>4

-----------------------------------------------------------------------------
(* What is done step by step for the numbers up to N.                      *)
LEMMA UpToN ==
  ASSUME NEW N \in Nat, NEW S, 0 \in S, \A n \in 1..N : n - 1 \in S => n \in S
  PROVE  \A n \in 0..N : n \in S
<1> DEFINE bad == {n \in 0..N : n \notin S}
<1>1. SUFFICES ASSUME bad # {} PROVE FALSE
  OBVIOUS
<1>2. bad \in SUBSET Nat
  OBVIOUS
<1>3. PICK n \in bad : \A m \in bad : n <= m
  <2> HIDE DEF bad
  <2> QED BY <1>1, <1>2, LeastMember
<1>4. n \in 0..N /\ n \notin S /\ n # 0
  OBVIOUS
<1>5. n \in 1..N /\ n - 1 \in 0..N
  BY <1>4
<1>6. n - 1 \notin bad
  <2> HIDE DEF bad
  <2> QED BY <1>3, <1>5
<1> QED BY <1>4, <1>5, <1>6

Iterates(f, X, N, base, step) ==
  /\ f \in [0..N -> X]
  /\ f[0] = base
  /\ \A n \in 1..N : f[n] = step[<<n, f[n - 1]>>]

LEMMA Iterated ==
  ASSUME NEW X, NEW N \in Nat, NEW base \in X, NEW step \in [(1..N) \X X -> X]
  PROVE  \E f : Iterates(f, X, N, base, step)
<1> DEFINE Steps(k, f) == f[0] = base /\ \A n \in 1..k : f[n] = step[<<n, f[n - 1]>>]
           S == {k \in 0..N : \E f \in [0..k -> X] : Steps(k, f)}
<1>1. 0 \in S
  <2> DEFINE f == [n \in 0..0 |-> base]
  <2>1. 0 \in 0..0 /\ \A n \in 1..0 : FALSE
    OBVIOUS
  <2>2. f \in [0..0 -> X] /\ f[0] = base
    BY <2>1
  <2> HIDE DEF f
  <2> QED BY <2>1, <2>2
<1>2. ASSUME NEW k \in 1..N, k - 1 \in S PROVE k \in S
  <2>1. PICK f \in [0..(k - 1) -> X] : Steps(k - 1, f)
    BY <1>2
  <2>2. /\ k \in Nat /\ k # 0 /\ \A n \in 1..k : n - 1 \in 0..(k - 1)
        /\ \A n \in 1..k : n = k \/ n \in 1..(k - 1)
        /\ \A n \in 0..k : n = k \/ n \in 0..(k - 1)
    OBVIOUS
  <2> DEFINE g == [n \in 0..k |-> IF n = k THEN step[<<k, f[k - 1]>>] ELSE f[n]]
  <2>3. f[k - 1] \in X /\ step[<<k, f[k - 1]>>] \in X
    BY <2>2
  <2>4. g \in [0..k -> X]
    BY <2>2, <2>3
  <2>5. \A n \in 0..(k - 1) : g[n] = f[n]
    OBVIOUS
  <2>6. g[k] = step[<<k, f[k - 1]>>]
    OBVIOUS
  <2> HIDE DEF g
  <2>7. g[0] = base
    BY <2>1, <2>2, <2>5
  <2>8. ASSUME NEW n \in 1..k PROVE g[n] = step[<<n, g[n - 1]>>]
    <3>1. n - 1 \in 0..(k - 1) /\ g[n - 1] = f[n - 1]
      BY <2>2, <2>5
    <3>2. CASE n = k
      BY <2>6, <3>1, <3>2
    <3>3. CASE n \in 1..(k - 1)
      <4>1. n \in 0..(k - 1)
        BY <3>3
      <4> QED BY <2>1, <2>5, <3>1, <3>3, <4>1
    <3> QED BY <2>2, <3>2, <3>3
  <2> QED BY <2>4, <2>7, <2>8
<1>3. N \in S
  <2> HIDE DEF S
  <2> QED BY <1>1, <1>2, UpToN
<1> QED BY <1>3 DEF Iterates

-----------------------------------------------------------------------------
(* The components.  A parent is a record of no larger identifier, so that  *)
(* the way up from any record ends, at its root.                           *)
Parents == {p \in [Records -> Records] : \A r \in Records : p[r] <= r}

LEMMA RecordsAreNumbers == \A r \in Records : r \in Nat /\ r > 0
<1>1. Records \subseteq Nat \ {0}
  BY MigrationAssumption
<1> QED BY <1>1

LEMMA GreatestRecord ==
  ASSUME NEW q \in Records
  PROVE  /\ Max(Records) \in Records /\ Max(Records) \in Nat
         /\ \A r \in Records : r <= Max(Records)
<1>1. Records \in SUBSET Nat /\ IsFiniteSet(Records) /\ Records # {}
  BY MigrationAssumption
<1>2. Max(Records) \in Records /\ \A r \in Records : r <= Max(Records)
  BY <1>1, MaxIn, Zenon
<1> QED BY <1>2, RecordsAreNumbers

\* The roots of the records up to the n-th number.
Climbs(parent, n, f) ==
  /\ f \in [{r \in Records : r <= n} -> Records]
  /\ \A q \in {r \in Records : r <= n} :
       f[q] = IF parent[q] = q THEN q ELSE f[parent[q]]

(* The climb is defined: the records up to the n-th number have roots.     *)
LEMMA RootsExist ==
  ASSUME NEW parent \in Parents, NEW n \in Nat
  PROVE  \E f : Climbs(parent, n, f)
<1> DEFINE without == {k \in Nat : ~ \E f : Climbs(parent, k, f)}
           Upto(k) == {r \in Records : r <= k}
<1>1. SUFFICES ASSUME without # {} PROVE FALSE
  OBVIOUS
<1>2. without \in SUBSET Nat
  OBVIOUS
<1>3. \A k \in Nat : k \in without <=> ~ \E f : Climbs(parent, k, f)
  OBVIOUS
<1> HIDE DEF without
<1>4. PICK k \in without : \A l \in without : k <= l
  BY <1>1, <1>2, LeastMember
<1>5. k \in Nat
  BY <1>2
<1>6. CASE k = 0
  <2>1. Upto(0) = {}
    BY RecordsAreNumbers
  <2>2. Climbs(parent, 0, [q \in {} |-> q])
    BY <2>1 DEF Climbs
  <2> QED BY <1>3, <1>6, <2>2
<1>7. CASE k # 0
  <2>1. k - 1 \in Nat /\ k - 1 \notin without
    BY <1>4, <1>5, <1>7
  <2>2. PICK f : Climbs(parent, k - 1, f)
    BY <1>3, <2>1
  <2> DEFINE g == [q \in Upto(k) |-> IF parent[q] = q THEN q ELSE f[parent[q]]]
  <2>3. ASSUME NEW q \in Upto(k), parent[q] # q
        PROVE  parent[q] \in Upto(k - 1) /\ parent[q] \in Upto(k)
    BY <1>5, <2>1, <2>3, RecordsAreNumbers DEF Parents
  <2>4. f \in [Upto(k - 1) -> Records]
        /\ \A q \in Upto(k - 1) : f[q] = IF parent[q] = q THEN q ELSE f[parent[q]]
    BY <2>2 DEF Climbs
  <2>5. \A q \in Upto(k) : q \in Records
    OBVIOUS
  <2> HIDE DEF Upto
  <2>6. g \in [Upto(k) -> Records]
    BY <2>3, <2>4, <2>5
  <2>7. \A q \in Upto(k) : g[q] = IF parent[q] = q THEN q ELSE g[parent[q]]
    BY <2>3, <2>4
  <2>8. Climbs(parent, k, g)
    <3> HIDE DEF g
    <3> QED BY <2>6, <2>7 DEF Climbs, Upto
  <2> QED BY <1>3, <1>5, <2>8
<1> QED BY <1>6, <1>7

(* So every record has the root of its parent.                             *)
LEMMA RootOfParent ==
  ASSUME NEW parent \in Parents
  PROVE  \A r \in Records :
           FindRoot(parent, r) = IF parent[r] = r THEN r ELSE FindRoot(parent, parent[r])
<1> SUFFICES ASSUME Records # {}
             PROVE  \A r \in Records : FindRoot(parent, r) =
                      IF parent[r] = r THEN r ELSE FindRoot(parent, parent[r])
  BY Zenon
<1> DEFINE Equation(f) == f = [q \in Records |-> IF parent[q] = q THEN q ELSE f[parent[q]]]
           root == CHOOSE f : Equation(f)
<1>1. Max(Records) \in Nat /\ {q \in Records : q <= Max(Records)} = Records
  BY GreatestRecord
<1>2. PICK f : Climbs(parent, Max(Records), f)
  BY <1>1, RootsExist
<1>3. /\ f \in [Records -> Records]
      /\ \A q \in Records : f[q] = IF parent[q] = q THEN q ELSE f[parent[q]]
  BY <1>1, <1>2 DEF Climbs
<1>4. Equation(f)
  BY <1>3, Zenon
<1>5. Equation(root)
  BY <1>4, Zenon
<1>6. \A x : FindRoot(parent, x) = root[x]
  BY Zenon DEF FindRoot
<1>7. \A r \in Records : root[r] = IF parent[r] = r THEN r ELSE root[parent[r]]
  <2> HIDE DEF root
  <2> QED BY <1>5, Zenon
<1> HIDE DEF root
<1> QED BY <1>6, <1>7, Zenon

(* The way up ends, at a record of the same part.                          *)
LEMMA RootReached ==
  ASSUME NEW parent \in Parents, NEW S \in SUBSET Records,
         \A r \in Records : r \in S <=> parent[r] \in S
  PROVE  \A r \in Records : LET root == FindRoot(parent, r) IN
           /\ root \in Records /\ parent[root] = root /\ root <= r
           /\ r \in S <=> root \in S
<1> DEFINE Good(r) == LET root == FindRoot(parent, r) IN
             /\ root \in Records /\ parent[root] = root /\ root <= r
             /\ r \in S <=> root \in S
           bad == {r \in Records : ~Good(r)}
<1>1. SUFFICES ASSUME bad # {} PROVE FALSE
  BY Zenon
<1> HIDE DEF Good
<1>2. bad \subseteq Records
  BY Zenon
<1>3. \A r \in Records : r \in bad <=> ~Good(r)
  BY Zenon
<1> HIDE DEF bad
<1>4. bad \in SUBSET Nat
  BY <1>2, RecordsAreNumbers, Zenon
<1> USE DEF Good
<1>5. PICK r \in bad : \A q \in bad : r <= q
  BY <1>1, <1>4, LeastMember
<1>6. r \in Records /\ r \in Nat /\ ~Good(r)
  BY <1>2, <1>3, <1>5, RecordsAreNumbers
<1>7. FindRoot(parent, r) = IF parent[r] = r THEN r ELSE FindRoot(parent, parent[r])
  BY <1>6, RootOfParent
<1>8. parent[r] \in Records /\ parent[r] \in Nat /\ parent[r] <= r
  BY <1>6, RecordsAreNumbers DEF Parents
<1>9. CASE parent[r] = r
  <2>1. FindRoot(parent, r) = r
    BY <1>7, <1>9
  <2> QED BY <1>6, <1>9, <2>1
<1>10. CASE parent[r] # r
  <2>1. FindRoot(parent, r) = FindRoot(parent, parent[r])
    BY <1>7, <1>10
  <2>2. parent[r] < r
    BY <1>6, <1>8, <1>10
  <2>3. parent[r] \notin bad
    BY <1>5, <1>6, <1>8, <2>2
  <2>4. Good(parent[r])
    BY <1>3, <1>8, <2>3
  <2>5. r \in S <=> parent[r] \in S
    BY <1>6
  <2>6. FindRoot(parent, r) \in Nat
    BY <2>1, <2>4, RecordsAreNumbers
  <2>7. FindRoot(parent, r) <= r
    BY <1>6, <1>8, <2>1, <2>2, <2>4, <2>6
  <2> QED BY <1>6, <2>1, <2>4, <2>5, <2>7
<1> QED BY <1>9, <1>10

LEMMA RootsAreRoots ==
  ASSUME NEW parent \in Parents, NEW r \in Records
  PROVE  /\ FindRoot(parent, r) \in Records
         /\ parent[FindRoot(parent, r)] = FindRoot(parent, r)
         /\ FindRoot(parent, r) <= r
<1>1. \A q \in Records : q \in Records <=> parent[q] \in Records
  BY DEF Parents
<1> QED BY <1>1, RootReached, Zenon

(* To join two parts is to give the one with the larger root the other's.  *)
LEMMA UnionRoots ==
  ASSUME NEW parent \in Parents, NEW left \in Records, NEW right \in Records
  PROVE  LET a == FindRoot(parent, left)
             b == FindRoot(parent, right)
         IN  /\ Union(parent, left, right) \in Parents
             /\ \A r \in Records : FindRoot(Union(parent, left, right), r) =
                  IF FindRoot(parent, r) \in {a, b} THEN Smaller(a, b) ELSE FindRoot(parent, r)
<1> DEFINE a == FindRoot(parent, left)
           b == FindRoot(parent, right)
           new == Union(parent, left, right)
           low == Smaller(a, b)
           high == Larger(a, b)
           Joined(r) == IF FindRoot(parent, r) \in {a, b} THEN low ELSE FindRoot(parent, r)
           bad == {r \in Records : FindRoot(new, r) # Joined(r)}
<1>1. /\ a \in Records /\ b \in Records /\ parent[a] = a /\ parent[b] = b
      /\ a \in Nat /\ b \in Nat
  BY RootsAreRoots, RecordsAreNumbers
<1>2. CASE a = b
  <2>1. new = parent
    BY <1>2 DEF Union
  <2>2. low = a
    BY <1>2 DEF Smaller
  <2> QED BY <1>2, <2>1, <2>2
<1>3. CASE a # b
  <2>1. /\ low < high /\ {low, high} = {a, b} /\ low \in Records /\ high \in Records
        /\ parent[low] = low /\ parent[high] = high
    BY <1>1, <1>3 DEF Smaller, Larger
  <2>2. new = [parent EXCEPT ![high] = low]
    BY <1>3 DEF Union
  <2> HIDE DEF low, high, new, a, b
  <2>3. parent \in [Records -> Records] /\ \A r \in Records : parent[r] <= r
    BY DEF Parents
  <2>4. new \in [Records -> Records]
    BY <2>1, <2>2, <2>3
  <2>5. new[high] = low /\ \A r \in Records : r # high => new[r] = parent[r]
    BY <2>1, <2>2, <2>3
  <2>6. ASSUME NEW r \in Records PROVE new[r] <= r
    <3>1. CASE r = high
      <4>1. low \in Nat /\ high \in Nat
        BY <2>1, RecordsAreNumbers
      <4> QED BY <2>1, <2>5, <3>1, <4>1
    <3>2. CASE r # high
      BY <2>3, <2>5, <3>2
    <3> QED BY <3>1, <3>2
  <2>7. new \in Parents
    BY <2>4, <2>6 DEF Parents
  <2>8. ASSUME bad # {} PROVE FALSE
    <3>1. bad \in SUBSET Nat
      BY RecordsAreNumbers
    <3>2. bad \subseteq Records /\ \A r \in Records : r \in bad <=> FindRoot(new, r) # Joined(r)
      OBVIOUS
    <3> HIDE DEF bad
    <3>3. PICK r \in bad : \A q \in bad : r <= q
      BY <2>8, <3>1, LeastMember
    <3>4. r \in Records /\ r \in Nat /\ FindRoot(new, r) # Joined(r)
      BY <3>2, <3>3, RecordsAreNumbers
    <3>5. FindRoot(new, r) = IF new[r] = r THEN r ELSE FindRoot(new, new[r])
      BY <2>7, <3>4, RootOfParent
    <3>6. FindRoot(parent, r) = IF parent[r] = r THEN r ELSE FindRoot(parent, parent[r])
      BY <3>4, RootOfParent
    <3>7. CASE r = high
      <4>1. new[low] = low /\ FindRoot(new, low) = low
        BY <2>1, <2>5, <2>7, RootOfParent, RecordsAreNumbers
      <4>2. FindRoot(new, r) = low
        BY <2>1, <2>5, <3>5, <3>7, <4>1
      <4>3. FindRoot(parent, r) = high
        BY <2>1, <3>6, <3>7
      <4> QED BY <2>1, <3>4, <4>2, <4>3
    <3>8. CASE r # high
      <4>1. new[r] = parent[r]
        BY <2>5, <3>4, <3>8
      <4>2. CASE parent[r] = r
        <5>1. FindRoot(new, r) = r /\ FindRoot(parent, r) = r
          BY <3>5, <3>6, <4>1, <4>2
        <5>2. Joined(r) = r
          BY <2>1, <3>8, <5>1
        <5> QED BY <3>4, <5>1, <5>2
      <4>3. CASE parent[r] # r
        <5>1. FindRoot(new, r) = FindRoot(new, parent[r]) /\ Joined(r) = Joined(parent[r])
          BY <3>5, <3>6, <4>1, <4>3
        <5>2. parent[r] \in Records /\ parent[r] \in Nat /\ parent[r] <= r
          BY <2>3, <3>4, RecordsAreNumbers
        <5>3. parent[r] \notin bad
          BY <3>3, <3>4, <4>3, <5>2
        <5> QED BY <3>2, <3>4, <5>1, <5>2, <5>3
      <4> QED BY <4>2, <4>3
    <3> QED BY <3>7, <3>8
  <2>9. \A r \in Records : FindRoot(new, r) = Joined(r)
    BY <2>8
  <2> QED BY <2>7, <2>9 DEF a, b, new, low
<1> QED BY <1>2, <1>3

LEMMA IdentityParents == [r \in Records |-> r] \in Parents
<1>1. ASSUME NEW r \in Records PROVE r <= r
  <2>1. r \in Nat
    BY RecordsAreNumbers
  <2> QED BY <2>1
<1> DEFINE p == [q \in Records |-> q]
<1>2. p \in [Records -> Records] /\ \A r \in Records : p[r] = r
  OBVIOUS
<1> HIDE DEF p
<1>3. \A r \in Records : p[r] <= r
  BY <1>1, <1>2, Zenon
<1>4. p \in Parents
  BY <1>2, <1>3, Zenon DEF Parents
<1> QED BY <1>4 DEF p

(* One row more.                                                           *)
Link(n, parent) ==
  IF n \in Range(created) /\ fields[n].lineage \in Range(created)
  THEN Union(parent, n, fields[n].lineage) ELSE parent

LEMMA LinkedRows ==
  ASSUME Range(created) \subseteq Records, Records # {}
  PROVE  /\ Max(Records) \in Nat
         /\ \A n \in 0..Max(Records) : Linked[n] \in Parents
         /\ Linked[0] = [r \in Records |-> r]
         /\ \A n \in 1..Max(Records) : Linked[n] = Link(n, Linked[n - 1])
<1> DEFINE N == Max(Records)
           base == [r \in Records |-> r]
           step == [p \in (1..N) \X Parents |-> Link(p[1], p[2])]
           Equation(f) == f = [n \in 0..N |->
             IF n = 0 THEN [r \in Records |-> r]
             ELSE IF n \in Range(created) /\ fields[n].lineage \in Range(created)
                  THEN Union(f[n - 1], n, fields[n].lineage) ELSE f[n - 1]]
<1>1. N \in Nat
  BY GreatestRecord
<1> HIDE DEF N
<1>2. base \in Parents
  BY IdentityParents, Zenon
<1>3. ASSUME NEW n \in 1..N, NEW p \in Parents PROVE Link(n, p) \in Parents
  <2>1. CASE n \in Range(created) /\ fields[n].lineage \in Range(created)
    <3>1. n \in Records /\ fields[n].lineage \in Records
      BY <2>1
    <3> QED BY <2>1, <3>1, UnionRoots DEF Link
  <2>2. CASE ~(n \in Range(created) /\ fields[n].lineage \in Range(created))
    BY <2>2 DEF Link
  <2> QED BY <2>1, <2>2
<1>4. step \in [(1..N) \X Parents -> Parents]
  BY <1>3
<1>5. \A n \in 1..N, p \in Parents : step[<<n, p>>] = Link(n, p)
  OBVIOUS
<1> HIDE DEF step, base
<1>6. PICK f : Iterates(f, Parents, N, base, step)
  BY <1>1, <1>2, <1>4, Iterated, Zenon
<1>7. \A n \in 0..N : n = 0 \/ (n \in 1..N /\ n - 1 \in 0..N)
  BY <1>1
<1>8. \A n \in 1..N : n # 0 /\ n \in 0..N /\ n - 1 \in 0..N
  BY <1>1
<1>9. \A n \in 1..N : f[n] = Link(n, f[n - 1])
  BY <1>5, <1>6, <1>8 DEF Iterates
<1>10. Equation(f)
  <2>1. f = [n \in 0..N |-> f[n]]
    BY <1>6, Zenon DEF Iterates
  <2>2. \A n \in 0..N : f[n] =
          IF n = 0 THEN base
          ELSE IF n \in Range(created) /\ fields[n].lineage \in Range(created)
               THEN Union(f[n - 1], n, fields[n].lineage) ELSE f[n - 1]
    BY <1>6, <1>7, <1>8, <1>9, Zenon DEF Link, Iterates
  <2> QED BY <2>1, <2>2, Zenon DEF base
<1>11. Equation(Linked)
  BY <1>10, Zenon DEF Linked, N
<1>12. \A n \in 0..N : Linked[n] = IF n = 0 THEN base ELSE Link(n, Linked[n - 1])
  BY <1>11, Zenon DEF base, Link
<1>13. Linked[0] = base /\ \A n \in 1..N : Linked[n] = Link(n, Linked[n - 1])
  <2>1. 0 \in 0..N
    BY <1>1
  <2> QED BY <1>8, <1>12, <2>1
<1>14. \A n \in 0..N : Linked[n] \in Parents
  <2> DEFINE S == {n \in 0..N : Linked[n] \in Parents}
  <2>1. 0 \in S
    BY <1>1, <1>2, <1>13
  <2>2. \A n \in 1..N : n - 1 \in S => n \in S
    BY <1>3, <1>8, <1>13
  <2>3. \A n \in 0..N : n \in S
    <3> HIDE DEF S
    <3> QED BY <1>1, <2>1, <2>2, UpToN
  <2> QED BY <2>3
<1> QED BY <1>1, <1>13, <1>14 DEF N, base

(* A set of records that contains a record exactly when it contains what    *)
(* the record revises.                                                      *)
LineageClosed(S) ==
  \A r \in Records : fields[r].lineage # None => (r \in S <=> fields[r].lineage \in S)

\* A set that no pointer to a parent leaves or enters.
ParentClosed(parent, S) == \A r \in Records : r \in S <=> parent[r] \in S

LEMMA UnionCloses ==
  ASSUME NEW parent \in Parents, NEW left \in Records, NEW right \in Records,
         NEW S \in SUBSET Records, ParentClosed(parent, S), left \in S <=> right \in S
  PROVE  ParentClosed(Union(parent, left, right), S)
<1> DEFINE a == FindRoot(parent, left)
           b == FindRoot(parent, right)
           new == Union(parent, left, right)
<1>1. a \in Records /\ b \in Records
  BY RootsAreRoots
<1>2. (left \in S <=> a \in S) /\ (right \in S <=> b \in S)
  BY RootReached, Zenon DEF ParentClosed
<1>3. new = parent \/ new = [parent EXCEPT ![a] = b] \/ new = [parent EXCEPT ![b] = a]
  BY Zenon DEF Union, Larger, Smaller
<1> HIDE DEF a, b, new
<1>4. parent \in [Records -> Records]
  BY Zenon DEF Parents
<1>5. ASSUME NEW r \in Records PROVE r \in S <=> new[r] \in S
  <2>1. r \in S <=> parent[r] \in S
    BY Zenon DEF ParentClosed
  <2>2. new[r] = parent[r] \/ (r = a /\ new[r] = b) \/ (r = b /\ new[r] = a)
    BY <1>1, <1>3, <1>4
  <2> QED BY <1>2, <2>1, <2>2, Zenon
<1> QED BY <1>5, Zenon DEF ParentClosed, new

(* After any number of rows such a set is closed under parents as well.     *)
LEMMA LinkedCloses ==
  ASSUME Range(created) \subseteq Records, Records # {},
         NEW S \in SUBSET Records, LineageClosed(S)
  PROVE  ParentClosed(Linked[Max(Records)], S)
<1> DEFINE N == Max(Records)
           done == {n \in 0..N : ParentClosed(Linked[n], S)}
<1>1. /\ N \in Nat
      /\ \A n \in 0..N : Linked[n] \in Parents
      /\ Linked[0] = [r \in Records |-> r]
      /\ \A n \in 1..N : Linked[n] = Link(n, Linked[n - 1])
  BY LinkedRows, Zenon
<1> HIDE DEF N
<1>2. 0 \in done
  <2>1. ParentClosed([r \in Records |-> r], S)
    BY DEF ParentClosed
  <2>2. 0 \in 0..N
    BY <1>1
  <2> QED BY <1>1, <2>1, <2>2
<1>3. ASSUME NEW n \in 1..N, n - 1 \in done PROVE n \in done
  <2>1. n \in 0..N /\ n - 1 \in 0..N
    BY <1>1
  <2>2. Linked[n - 1] \in Parents /\ ParentClosed(Linked[n - 1], S)
    BY <1>1, <1>3, <2>1
  <2>3. ParentClosed(Link(n, Linked[n - 1]), S)
    <3>1. CASE n \in Range(created) /\ fields[n].lineage \in Range(created)
      <4>1. n \in Records /\ fields[n].lineage \in Records /\ fields[n].lineage # None
        BY <3>1, LifecycleAssumption DEF None
      <4>2. n \in S <=> fields[n].lineage \in S
        BY <4>1 DEF LineageClosed
      <4> QED BY <2>2, <3>1, <4>1, <4>2, UnionCloses, Zenon DEF Link
    <3>2. CASE ~(n \in Range(created) /\ fields[n].lineage \in Range(created))
      BY <2>2, <3>2, Zenon DEF Link
    <3> QED BY <3>1, <3>2
  <2> QED BY <1>1, <2>1, <2>3
<1>4. \A n \in 0..N : n \in done
  <2> HIDE DEF done
  <2> QED BY <1>1, <1>2, <1>3, UpToN
<1>5. N \in 0..N
  BY <1>1
<1> QED BY <1>4, <1>5 DEF N

(* And the rows that were read have the root of what they revise.           *)
LEMMA LinkedJoins ==
  ASSUME Range(created) \subseteq Records, NEW r \in Range(created),
         fields[r].lineage \in Range(created)
  PROVE  LET last == Linked[Max(Records)]
         IN  FindRoot(last, r) = FindRoot(last, fields[r].lineage)
<1> DEFINE N == Max(Records)
           Joined(n, k) == FindRoot(Linked[n], k) = FindRoot(Linked[n], fields[k].lineage)
           Read(k) == k \in Range(created) /\ fields[k].lineage \in Range(created)
           done == {n \in 0..N : \A k \in 1..n : Read(k) => Joined(n, k)}
<1>1. /\ N \in Nat
      /\ \A n \in 0..N : Linked[n] \in Parents
      /\ Linked[0] = [q \in Records |-> q]
      /\ \A n \in 1..N : Linked[n] = Link(n, Linked[n - 1])
  BY LinkedRows, Zenon
<1>2. r \in 1..N
  BY GreatestRecord, RecordsAreNumbers
<1> HIDE DEF N
<1>3. 0 \in done
  <2>1. \A k \in 1..0 : FALSE
    OBVIOUS
  <2>2. 0 \in 0..N
    BY <1>1
  <2> HIDE DEF Read, Joined
  <2> QED BY <2>1, <2>2
<1>4. ASSUME NEW n \in 1..N, n - 1 \in done PROVE n \in done
  <2> DEFINE p == Linked[n - 1]
  <2>1. n \in 0..N /\ n - 1 \in 0..N /\ \A k \in 1..n : k = n \/ k \in 1..(n - 1)
    BY <1>1
  <2>2. p \in Parents /\ Linked[n] = Link(n, p)
    BY <1>1, <2>1
  <2> HIDE DEF p
  <2>3. \A k \in 1..(n - 1) : Read(k) => FindRoot(p, k) = FindRoot(p, fields[k].lineage)
    <3> HIDE DEF Read
    <3> QED BY <1>4 DEF p
  <2>4. CASE Read(n)
    <3> DEFINE a == FindRoot(p, n)
               b == FindRoot(p, fields[n].lineage)
    <3>1. n \in Records /\ fields[n].lineage \in Records
      BY <2>4
    <3>2. Linked[n] = Union(p, n, fields[n].lineage)
      BY <2>2, <2>4 DEF Link
    <3> DEFINE new == Union(p, n, fields[n].lineage)
    <3>7. \A q \in Records : FindRoot(new, q) =
            IF FindRoot(p, q) \in {a, b} THEN Smaller(a, b) ELSE FindRoot(p, q)
      BY <2>2, <3>1, UnionRoots, Zenon
    <3>8. FindRoot(p, n) = a /\ FindRoot(p, fields[n].lineage) = b
      OBVIOUS
    <3>9. a \in {a, b} /\ b \in {a, b}
      OBVIOUS
    <3> HIDE DEF new, a, b
    <3>3. \A q \in Records : FindRoot(Linked[n], q) =
            IF FindRoot(p, q) \in {a, b} THEN Smaller(a, b) ELSE FindRoot(p, q)
      BY <3>2, <3>7, Zenon DEF new
    <3>4. ASSUME NEW k \in 1..n, Read(k) PROVE Joined(n, k)
      <4>1. k \in Records /\ fields[k].lineage \in Records
        BY <3>4
      <4>2. CASE k = n
        <5>1. /\ FindRoot(Linked[n], n) = Smaller(a, b)
              /\ FindRoot(Linked[n], fields[n].lineage) = Smaller(a, b)
          BY <3>1, <3>3, <3>8, <3>9, Zenon
        <5> QED BY <4>2, <5>1, Zenon
      <4>3. CASE k \in 1..(n - 1)
        <5>1. FindRoot(p, k) = FindRoot(p, fields[k].lineage)
          BY <2>3, <3>4, <4>3, Zenon
        <5> QED BY <3>3, <4>1, <5>1, Zenon
      <4> QED BY <2>1, <4>2, <4>3
    <3> HIDE DEF Read, Joined
    <3> QED BY <2>1, <3>4
  <2>5. CASE ~Read(n)
    <3>1. Linked[n] = p
      BY <2>2, <2>5, Zenon DEF Link
    <3>2. ASSUME NEW k \in 1..n, Read(k) PROVE Joined(n, k)
      <4>1. k \in 1..(n - 1)
        BY <2>1, <2>5, <3>2
      <4> QED BY <2>3, <3>1, <3>2, <4>1, Zenon
    <3> HIDE DEF Read, Joined
    <3> QED BY <2>1, <3>2
  <2> QED BY <2>4, <2>5
<1>5. \A n \in 0..N : n \in done
  <2> HIDE DEF done
  <2> QED BY <1>1, <1>3, <1>4, UpToN
<1>6. N \in 0..N
  BY <1>1
<1>7. Read(r) => Joined(N, r)
  <2> HIDE DEF Read, Joined
  <2> QED BY <1>2, <1>5, <1>6
<1> QED BY <1>7 DEF N

(* Two records have one root exactly when no closed set parts them.         *)
LEMMA RootsAreLineages ==
  ASSUME Range(created) \subseteq Records,
         \A r \in Records : fields[r].lineage # None =>
           r \in Range(created) /\ fields[r].lineage \in Range(created),
         NEW q \in Records, NEW r \in Records
  PROVE  LET last == Linked[Max(Records)]
         IN  FindRoot(last, q) = FindRoot(last, r)
               <=> \A S \in SUBSET Records : LineageClosed(S) /\ q \in S => r \in S
<1> DEFINE last == Linked[Max(Records)]
<1>1. last \in Parents
  <2>1. Max(Records) \in 0..Max(Records)
    BY GreatestRecord
  <2> QED BY <2>1, LinkedRows, Zenon
<1>2. ASSUME NEW S \in SUBSET Records, LineageClosed(S), q \in S,
             FindRoot(last, q) = FindRoot(last, r)
      PROVE  r \in S
  <2>1. ParentClosed(last, S)
    BY <1>2, LinkedCloses, Zenon
  <2> HIDE DEF last
  <2>2. (q \in S <=> FindRoot(last, q) \in S) /\ (r \in S <=> FindRoot(last, r) \in S)
    BY <1>1, <2>1, RootReached, Zenon DEF ParentClosed
  <2> QED BY <1>2, <2>2
<1>3. ASSUME \A S \in SUBSET Records : LineageClosed(S) /\ q \in S => r \in S
      PROVE  FindRoot(last, q) = FindRoot(last, r)
  <2> DEFINE S == {x \in Records : FindRoot(last, x) = FindRoot(last, q)}
  <2>1. ASSUME NEW x \in Records, fields[x].lineage # None
        PROVE  x \in S <=> fields[x].lineage \in S
    <3>1. x \in Range(created) /\ fields[x].lineage \in Range(created)
      BY <2>1
    <3>2. FindRoot(last, x) = FindRoot(last, fields[x].lineage)
      BY <3>1, LinkedJoins, Zenon
    <3> HIDE DEF last
    <3> QED BY <3>1, <3>2
  <2> HIDE DEF last
  <2>2. LineageClosed(S)
    <3> HIDE DEF S
    <3> QED BY <2>1, Zenon DEF LineageClosed
  <2>3. S \in SUBSET Records /\ q \in S
    OBVIOUS
  <2>4. r \in S
    <3> HIDE DEF S
    <3> QED BY <1>3, <2>2, <2>3, Zenon
  <2> QED BY <2>4
<1> HIDE DEF last
<1> QED BY <1>2, <1>3, Zenon DEF last

-----------------------------------------------------------------------------
(* What is migrated: the registry is that of the lifecycle, and the records *)
(* it holds are those that were created.                                    *)
RegistryInv ==
  /\ Inv
  /\ created \in Seq(Records)
  /\ \A r \in Records : r \in Range(created) <=> state[r] # "absent"

MigrationInv ==
  /\ RegistryInv
  /\ OneHistoryPerLineage

LEMMA RangeAppend ==
  ASSUME NEW T, NEW s \in Seq(T), NEW x \in T
  PROVE  /\ Append(s, x) \in Seq(T)
         /\ \A y \in T : y \in Range(Append(s, x)) <=> y \in Range(s) \/ y = x
<1>1. /\ Append(s, x) \in Seq(T)
      /\ DOMAIN Append(s, x) = 1..(Len(s) + 1)
      /\ DOMAIN s = 1..Len(s) /\ Len(s) \in Nat
      /\ \A i \in 1..Len(s) : Append(s, x)[i] = s[i]
      /\ Append(s, x)[Len(s) + 1] = x
  OBVIOUS
<1>2. ASSUME NEW y \in T, y \in Range(Append(s, x)) PROVE y \in Range(s) \/ y = x
  <2>1. PICK i \in 1..(Len(s) + 1) : y = Append(s, x)[i]
    BY <1>1, <1>2 DEF Range
  <2>2. i \in 1..Len(s) \/ i = Len(s) + 1
    BY <1>1
  <2> QED BY <1>1, <2>1, <2>2 DEF Range
<1>3. ASSUME NEW y \in T, y \in Range(s) PROVE y \in Range(Append(s, x))
  <2>1. PICK i \in 1..Len(s) : y = s[i]
    BY <1>1, <1>3 DEF Range
  <2>2. i \in 1..(Len(s) + 1)
    BY <1>1
  <2> QED BY <1>1, <2>1, <2>2, Zenon DEF Range
<1>4. x \in Range(Append(s, x))
  <2>1. Len(s) + 1 \in 1..(Len(s) + 1)
    BY <1>1
  <2> QED BY <1>1, <2>1, Zenon DEF Range
<1> QED BY <1>1, <1>2, <1>3, <1>4

LEMMA CreatedInRecords ==
  ASSUME RegistryInv
  PROVE  /\ Range(created) \subseteq Records
         /\ \A r \in Records : fields[r].lineage # None =>
              r \in Range(created) /\ fields[r].lineage \in Range(created)
<1>1. Range(created) \subseteq Records
  BY DEF RegistryInv, Range
<1>2. ASSUME NEW r \in Records, fields[r].lineage # None
      PROVE  r \in Range(created) /\ fields[r].lineage \in Range(created)
  <2>1. state[r] # "absent" /\ state[fields[r].lineage] \in Public
    BY <1>2 DEF RegistryInv, Inv, TypeOK, LineageIsPublic, None
  <2>2. fields[r].lineage \in Records
    BY <1>2, LifecycleAssumption DEF RegistryInv, Inv, TypeOK, None
  <2> QED BY <2>1, <2>2 DEF RegistryInv, Public
<1> QED BY <1>1, <1>2

LEMMA LegacyStepKeeps ==
  ASSUME MigrationInv, NEW r \in Records, LegacyStep(r)
  PROVE  MigrationInv'
<1>1. phase' = "legacy"
  BY DEF LegacyStep
<1>2. Inv'
  <2>1. Next
    BY DEF LegacyStep, Next
  <2> QED BY <2>1, NextInv DEF MigrationInv, RegistryInv
<1>3. OneHistoryPerLineage'
  BY <1>1, Zenon DEF OneHistoryPerLineage
<1>4. \A q \in Records : state'[q] = "absent" <=> state[q] = "absent" /\ (q = r => state'[r] = "absent")
  BY DEF LegacyStep, Publish, Withdraw, Revise, Enter, Replace, MigrationInv, RegistryInv, Inv, TypeOK
<1>5. state[r] = "absent" => state'[r] # "absent"
  BY DEF LegacyStep, Publish, Withdraw, Revise, Enter, Replace, EntryState, MigrationInv, RegistryInv, Inv, TypeOK
<1>6. created' = IF state[r] = "absent" THEN Append(created, r) ELSE created
  BY DEF LegacyStep
<1>7. created \in Seq(Records) /\ \A q \in Records : q \in Range(created) <=> state[q] # "absent"
  BY DEF MigrationInv, RegistryInv
<1>8. created' \in Seq(Records) /\ \A q \in Records : q \in Range(created') <=> state'[q] # "absent"
  <2>1. CASE state[r] = "absent"
    <3>1. created' = Append(created, r)
      BY <1>6, <2>1
    <3>2. /\ Append(created, r) \in Seq(Records)
          /\ \A q \in Records : q \in Range(Append(created, r)) <=> q \in Range(created) \/ q = r
      BY <1>7, RangeAppend, Zenon
    <3> QED BY <1>4, <1>5, <1>7, <2>1, <3>1, <3>2, Zenon
  <2>2. CASE state[r] # "absent"
    BY <1>4, <1>5, <1>6, <1>7, <2>2, Zenon
  <2> QED BY <2>1, <2>2
<1> QED BY <1>2, <1>3, <1>8, Zenon DEF MigrationInv, RegistryInv

LEMMA BackfillKeeps ==
  ASSUME MigrationInv, Backfill
  PROVE  MigrationInv'
<1>1. UNCHANGED <<state, fields, created>> /\ history' = Components
  BY DEF Backfill
<1>2. RegistryInv'
  BY <1>1 DEF MigrationInv, RegistryInv, Inv, TypeOK, LineageIsPublic, LineageWellFounded,
     OneSuccessor, ReapprovalFollowsWithdrawal
<1>3. ASSUME NEW q \in Range(created), NEW r \in Range(created)
      PROVE  history'[q] = history'[r]
               <=> \A S \in SUBSET Records : LineageClosed(S) /\ q \in S => r \in S
  <2>1. /\ Range(created) \subseteq Records
        /\ \A x \in Records : fields[x].lineage # None =>
             x \in Range(created) /\ fields[x].lineage \in Range(created)
    BY CreatedInRecords, Zenon DEF MigrationInv
  <2>2. q \in Records /\ r \in Records
    BY <2>1
  <2> DEFINE last == Linked[Max(Records)]
  <2>3. FindRoot(last, q) = FindRoot(last, r)
          <=> \A S \in SUBSET Records : LineageClosed(S) /\ q \in S => r \in S
    BY <2>1, <2>2, RootsAreLineages, Zenon
  <2>4. Components[q] = FindRoot(last, q) /\ Components[r] = FindRoot(last, r)
    BY <2>2, Zenon DEF Components
  <2> HIDE DEF last
  <2> QED BY <1>1, <2>3, <2>4, Zenon
<1>4. OneHistoryPerLineage'
  <2>1. \A S : LineageClosed(S)' <=> LineageClosed(S)
    BY <1>1, Zenon DEF LineageClosed
  <2>2. ASSUME NEW q \in Range(created)', NEW r \in Range(created)'
        PROVE  history'[q] = history'[r]
                 <=> \A S \in SUBSET Records : LineageClosed(S)' /\ q \in S => r \in S
    <3>1. q \in Range(created) /\ r \in Range(created)
      BY <1>1, Zenon
    <3> QED BY <1>3, <2>1, <3>1, Zenon
  <2>3. OneHistoryPerLineage' <=>
          (phase' # "legacy" =>
            \A q, r \in Range(created)' :
              history'[q] = history'[r]
                <=> \A S \in SUBSET Records : LineageClosed(S)' /\ q \in S => r \in S)
    BY Zenon DEF OneHistoryPerLineage, LineageClosed
  <2> QED BY <2>2, <2>3, Zenon
<1> QED BY <1>2, <1>4, Zenon DEF MigrationInv

LEMMA MigrationKept == MigrationSpec => []MigrationInv
<1>1. MigrationInit => MigrationInv
  <2> SUFFICES ASSUME MigrationInit PROVE MigrationInv
    OBVIOUS
  <2>1. Inv
    BY InitInv DEF MigrationInit
  <2>2. created = <<>> /\ Range(created) = {} /\ created \in Seq(Records)
    <3>1. created = <<>>
      BY DEF MigrationInit
    <3>2. Range(<<>>) = {} /\ <<>> \in Seq(Records)
      BY DEF Range
    <3> QED BY <3>1, <3>2, Zenon
  <2>3. \A r \in Records : state[r] = "absent"
    BY Zenon DEF MigrationInit, Init
  <2>4. OneHistoryPerLineage
    BY Zenon DEF MigrationInit, OneHistoryPerLineage
  <2> QED BY <2>1, <2>2, <2>3, <2>4 DEF MigrationInv, RegistryInv
<1>2. MigrationInv /\ [MigrationNext]_migrationVars => MigrationInv'
  <2> SUFFICES ASSUME MigrationInv, [MigrationNext]_migrationVars PROVE MigrationInv'
    OBVIOUS
  <2>1. ASSUME UNCHANGED <<state, fields, created, history>>, phase # "legacy" \/ phase' = phase
        PROVE  MigrationInv'
    <3>1. RegistryInv'
      BY <2>1 DEF MigrationInv, RegistryInv, Inv, TypeOK, LineageIsPublic, LineageWellFounded,
         OneSuccessor, ReapprovalFollowsWithdrawal
    <3>2. OneHistoryPerLineage'
      BY <2>1, Zenon DEF MigrationInv, OneHistoryPerLineage
    <3> QED BY <3>1, <3>2, Zenon DEF MigrationInv
  <2>2. CASE Backfill
    BY <2>2, BackfillKeeps
  <2>3. CASE Repair
    BY <2>1, <2>3 DEF Repair
  <2>4. ASSUME NEW r \in Records, LegacyStep(r) PROVE MigrationInv'
    BY <2>4, LegacyStepKeeps
  <2>5. CASE UNCHANGED migrationVars
    BY <2>1, <2>5 DEF migrationVars
  <2> QED BY <2>2, <2>3, <2>4, <2>5 DEF MigrationNext
<1> QED BY <1>1, <1>2, PTL DEF MigrationSpec

(* 0006 gives two records one history exactly when a chain of predecessors  *)
(* and successors joins them, whatever the number of records, branches and  *)
(* revisions: the union by smaller roots of _components builds the connected*)
(* parts of the predecessor relation, in the order the rows are read.       *)
THEOREM HistoriesAreLineages == MigrationSpec => []OneHistoryPerLineage
<1>1. MigrationInv => OneHistoryPerLineage
  BY Zenon DEF MigrationInv
<1> QED BY <1>1, MigrationKept, PTL

-----------------------------------------------------------------------------
(* A finite set that is strictly and totally ordered by R has a member with *)
(* each number of members before it.                                        *)
LEMMA Ranked ==
  ASSUME NEW S, IsFiniteSet(S), NEW R,
         \A s \in S : <<s, s>> \notin R,
         \A s, t \in S : s = t \/ <<s, t>> \in R \/ <<t, s>> \in R,
         \A s, t, u \in S : <<s, t>> \in R /\ <<t, u>> \in R => <<s, u>> \in R
  PROVE  /\ Cardinality(S) \in Nat
         /\ \A k \in 1..Cardinality(S) : \E s \in S : Cardinality({t \in S : <<t, s>> \in R}) = k - 1
<1> DEFINE n == Cardinality(S)
           Below(s) == {t \in S : <<t, s>> \in R}
           rank == [s \in S |-> Cardinality(Below(s)) + 1]
<1>1. n \in Nat /\ IsFiniteSet(1..n) /\ Cardinality(1..n) = n
  BY FS_CardinalityType, FirstNumbers
<1>2. ASSUME NEW s \in S
      PROVE  /\ IsFiniteSet(Below(s)) /\ Cardinality(Below(s)) \in Nat
             /\ Cardinality(Below(s)) + 1 \in 1..n
  <2>1. Below(s) \in SUBSET S /\ s \in S /\ s \notin Below(s)
    OBVIOUS
  <2>2. /\ IsFiniteSet(Below(s)) /\ Cardinality(Below(s)) <= n
        /\ Cardinality(Below(s)) = n => Below(s) = S
    <3> HIDE DEF Below
    <3> QED BY <2>1, FS_Subset
  <2>3. Cardinality(Below(s)) \in Nat
    <3> HIDE DEF Below
    <3> QED BY <2>2, FS_CardinalityType
  <2>4. Cardinality(Below(s)) # n
    <3> HIDE DEF Below, n
    <3> QED BY <2>1, <2>2, Zenon
  <2> HIDE DEF Below, n
  <2> QED BY <1>1, <2>2, <2>3, <2>4
<1>3. ASSUME NEW s \in S, NEW t \in S, <<s, t>> \in R
      PROVE  Cardinality(Below(s)) # Cardinality(Below(t))
  <2>1. Below(s) \in SUBSET Below(t) /\ s \in Below(t) /\ s \notin Below(s)
    BY <1>3, Zenon
  <2>2. IsFiniteSet(Below(t))
    BY <1>2
  <2> HIDE DEF Below
  <2>3. Cardinality(Below(s)) = Cardinality(Below(t)) => Below(s) = Below(t)
    BY <2>1, <2>2, FS_Subset
  <2> QED BY <2>1, <2>3, Zenon
<1>4. rank \in Injection(S, 1..n)
  <2> HIDE DEF Below
  <2>1. rank \in [S -> 1..n]
    BY <1>2
  <2>2. ASSUME NEW s \in S, NEW t \in S, rank[s] = rank[t] PROVE s = t
    <3>1. Cardinality(Below(s)) + 1 = Cardinality(Below(t)) + 1
      BY <2>2
    <3>2. Cardinality(Below(s)) = Cardinality(Below(t))
      BY <1>2, <3>1
    <3> QED BY <1>3, <3>2, Zenon
  <2> HIDE DEF rank
  <2> QED BY <2>1, <2>2 DEF Injection, IsInjective
<1>5. ASSUME NEW k \in 1..n PROVE \E s \in S : Cardinality(Below(s)) = k - 1
  <2>1. rank \in Surjection(S, 1..n)
    <3> HIDE DEF rank
    <3> QED BY <1>1, <1>4, FS_Injection DEF n
  <2>2. PICK s \in S : rank[s] = k
    <3> HIDE DEF rank
    <3> QED BY <2>1 DEF Surjection
  <2>3. Cardinality(Below(s)) + 1 = k
    <3> HIDE DEF Below
    <3> QED BY <2>2 DEF rank
  <2> HIDE DEF Below
  <2> QED BY <1>1, <1>2, <2>3
<1> QED BY <1>1, <1>5

-----------------------------------------------------------------------------
(* The table of events.                                                     *)
Actors ==
  [type : {None, "account", "system"},
   account : {None, "person", "system account"} \cup {Submitter[r] : r \in Records},
   system : {None, "submission_policy", "migration_backfill"}]

Row ==
  [subject : Records,
   action : {"submitted", "resubmitted", "edited", "approved", "published", "withdrawn",
             "revision_created"},
   actor : Actors,
   history : Nat \cup {None},
   sequence : Nat,
   inferred : BOOLEAN,
   projected : {None, "absent", "pending_review", "pending_reapproval"} \cup Public,
   predecessor : Records \cup {None},
   snapshot : {None} \cup {KindOf[r] : r \in Records},
   unavailable : BOOLEAN,
   cause : Nat]

\* Every row is in the history of its record, and has a number of its own there.
Sound(table, grouped) ==
  /\ table \in Seq(Row)
  /\ \A i \in DOMAIN table :
       table[i].subject \in Range(created) /\ table[i].history = grouped[table[i].subject]
  /\ \A i, j \in DOMAIN table :
       table[i].history = table[j].history /\ table[i].sequence = table[j].sequence => i = j

\* The i-th row is a publication behind the approval of its record that it names.
CausedBy(table, i) ==
  /\ table[i].action = "published"
  /\ table[i].cause \in DOMAIN table
  /\ table[table[i].cause].action = "approved"
  /\ table[table[i].cause].subject = table[i].subject
  /\ table[table[i].cause].sequence < table[i].sequence

CausesFirst(table) == \A i \in DOMAIN table : table[i].cause # 0 => CausedBy(table, i)

TableInv ==
  /\ events \in Seq(Row)
  /\ \A i \in DOMAIN events : events[i].subject \in Range(created)
  /\ phase = "legacy" => \A i \in DOMAIN events : events[i].cause = 0
  /\ phase # "legacy" =>
       /\ \A r \in Range(created) : history[r] \in Nat
       /\ Sound(events, history)
       /\ CausesFirst(events)
  /\ phase = "repaired" =>
       \A i \in DOMAIN events : events[i].action = "published" => events[i].cause # 0

\* A table that extends another one and leaves what was in it in its order.
Keeps(table, new) ==
  /\ DOMAIN table \subseteq DOMAIN new
  /\ \A i \in DOMAIN table :
       /\ new[i].subject = table[i].subject
       /\ new[i].action = table[i].action
       /\ new[i].history = table[i].history
  /\ \A i, j \in DOMAIN table :
       (/\ table[i].history = table[j].history
        /\ table[i].sequence < table[j].sequence
        /\ "approved" \notin {table[i].action, table[j].action})
         => new[i].sequence < new[j].sequence

\* The columns that say where an event stands.
SameColumns(e, f) ==
  e.subject = f.subject /\ e.action = f.action /\ e.history = f.history /\ e.sequence = f.sequence

(* Causes stay first in a longer table whose new rows are caused.            *)
LEMMA CausesExtended ==
  ASSUME NEW table, NEW new, CausesFirst(table), DOMAIN table \subseteq DOMAIN new,
         \A i \in DOMAIN table :
           SameColumns(new[i], table[i]) /\ new[i].cause = table[i].cause,
         \A i \in DOMAIN new : i \notin DOMAIN table /\ new[i].cause # 0 => CausedBy(new, i)
  PROVE  CausesFirst(new)
<1> SUFFICES ASSUME NEW i \in DOMAIN new, new[i].cause # 0 PROVE CausedBy(new, i)
  BY Zenon DEF CausesFirst
<1>1. CASE i \in DOMAIN table
  <2>1. CausedBy(table, i) /\ new[i].cause = table[i].cause
    BY <1>1, Zenon DEF CausesFirst
  <2>2. table[i].cause \in DOMAIN table
    BY <2>1, Zenon DEF CausedBy
  <2>3. /\ SameColumns(new[i], table[i])
        /\ SameColumns(new[table[i].cause], table[table[i].cause])
    BY <1>1, <2>2, Zenon
  <2> QED BY <2>1, <2>2, <2>3 DEF CausedBy, SameColumns
<1> QED BY <1>1, Zenon

(* One column of a row is written.                                          *)
WithNumber(e, n) == [e EXCEPT !.sequence = n]

LEMMA RowNumbered ==
  ASSUME NEW e \in Row, NEW n \in Nat
  PROVE  /\ WithNumber(e, n) \in Row /\ WithNumber(e, n).sequence = n
         /\ WithNumber(e, n).subject = e.subject /\ WithNumber(e, n).action = e.action
         /\ WithNumber(e, n).history = e.history /\ WithNumber(e, n).cause = e.cause
BY Zenon DEF Row, WithNumber

WithCause(e, n) == [e EXCEPT !.cause = n]

LEMMA RowCaused ==
  ASSUME NEW e \in Row, NEW n \in Nat
  PROVE  /\ WithCause(e, n) \in Row /\ WithCause(e, n).sequence = e.sequence
         /\ WithCause(e, n).subject = e.subject /\ WithCause(e, n).action = e.action
         /\ WithCause(e, n).history = e.history /\ WithCause(e, n).cause = n
BY Zenon DEF Row, WithCause

AsInferred(e) == [e EXCEPT !.inferred = TRUE]

LEMMA RowInferred ==
  ASSUME NEW e \in Row
  PROVE  /\ AsInferred(e) \in Row /\ AsInferred(e).sequence = e.sequence
         /\ AsInferred(e).subject = e.subject /\ AsInferred(e).action = e.action
         /\ AsInferred(e).history = e.history /\ AsInferred(e).cause = e.cause
BY Zenon DEF Row, AsInferred

\* The columns that say what happened.  A snapshot, once unavailable, stays so.
SameContent(e, f) ==
  /\ e.subject = f.subject /\ e.action = f.action /\ e.actor = f.actor
  /\ e.projected = f.projected /\ e.predecessor = f.predecessor /\ e.snapshot = f.snapshot
  /\ f.unavailable => e.unavailable

LEMMA ContentKept ==
  ASSUME NEW e \in Row, NEW n
  PROVE  /\ SameContent(e, e)
         /\ SameContent(WithNumber(e, n), e)
         /\ SameContent(WithCause(e, n), e)
         /\ SameContent(AsInferred(e), e)
<1>1. SameContent(e, e)
  BY Zenon DEF SameContent
<1>2. SameContent(WithNumber(e, n), e)
  BY Zenon DEF SameContent, WithNumber, Row
<1>3. SameContent(WithCause(e, n), e)
  BY Zenon DEF SameContent, WithCause, Row
<1>4. SameContent(AsInferred(e), e)
  BY Zenon DEF SameContent, AsInferred, Row
<1> QED BY <1>1, <1>2, <1>3, <1>4

\* A table that says of every event what another one says, and adds nothing
\* but approvals.
Retells(table, new) ==
  /\ DOMAIN table \subseteq DOMAIN new
  /\ \A i \in DOMAIN table : SameContent(new[i], table[i])
  /\ \A i \in DOMAIN new : i \notin DOMAIN table =>
       new[i].action = "approved" /\ new[i].actor = System("migration_backfill")

LEMMA RetellsTransitive ==
  ASSUME NEW s, NEW t, NEW u, Retells(s, t), Retells(t, u)
  PROVE  Retells(s, u)
<1>1. DOMAIN s \subseteq DOMAIN t /\ DOMAIN t \subseteq DOMAIN u
  BY Zenon DEF Retells
<1>2. ASSUME NEW i \in DOMAIN s PROVE SameContent(u[i], s[i])
  <2>1. SameContent(u[i], t[i]) /\ SameContent(t[i], s[i])
    BY <1>1, Zenon DEF Retells
  <2> QED BY <2>1, Zenon DEF SameContent
<1>3. ASSUME NEW i \in DOMAIN u, i \notin DOMAIN s
      PROVE  u[i].action = "approved" /\ u[i].actor = System("migration_backfill")
  <2>1. CASE i \in DOMAIN t
    <3>1. t[i].action = "approved" /\ t[i].actor = System("migration_backfill")
      BY <1>3, <2>1, Zenon DEF Retells
    <3>2. SameContent(u[i], t[i])
      BY <2>1, Zenon DEF Retells
    <3> QED BY <3>1, <3>2, Zenon DEF SameContent
  <2>2. CASE i \notin DOMAIN t
    BY <1>3, <2>2, Zenon DEF Retells
  <2> QED BY <2>1, <2>2
<1> QED BY <1>1, <1>2, <1>3, Zenon DEF Retells

LEMMA LastSequenceBounds ==
  ASSUME NEW table \in Seq(Row), NEW h
  PROVE  /\ LastSequence(table, h) \in Nat
         /\ \A i \in DOMAIN table :
              table[i].history = h => table[i].sequence <= LastSequence(table, h)
         /\ LastSequence(table, h) = 0
              \/ \E i \in DOMAIN table :
                   table[i].history = h /\ table[i].sequence = LastSequence(table, h)
<1> DEFINE own == {i \in DOMAIN table : table[i].history = h}
           used == {table[i].sequence : i \in own}
           S == {0} \cup used
<1>1. \A i \in DOMAIN table : table[i] \in Row
  OBVIOUS
<1>2. \A e \in Row : e.sequence \in Nat
  BY Zenon DEF Row
<1>3. IsFiniteSet(own)
  <2>1. DOMAIN table = 1..Len(table) /\ Len(table) \in Nat
    OBVIOUS
  <2>2. IsFiniteSet(1..Len(table))
    BY <2>1, FirstNumbers
  <2>3. own \in SUBSET (1..Len(table))
    BY <2>1
  <2> HIDE DEF own
  <2> QED BY <2>2, <2>3, FS_Subset
<1>4. IsFiniteSet(used)
  <2> DEFINE f == [i \in own |-> table[i].sequence]
  <2>1. f \in Surjection(own, used)
    <3>1. f \in [own -> used]
      <4> HIDE DEF own
      <4> QED BY Zenon
    <3>2. \A s \in used : \E i \in own : f[i] = s
      <4> HIDE DEF own
      <4> QED BY Zenon
    <3> HIDE DEF f, used
    <3> QED BY <3>1, <3>2, Zenon DEF Surjection
  <2> HIDE DEF f, used, own
  <2> QED BY <1>3, <2>1, FS_Surjection, Zenon
<1>5. S \in SUBSET Nat
  BY <1>1, <1>2
<1>6. IsFiniteSet(S) /\ S # {}
  <2> HIDE DEF used
  <2> QED BY <1>4, FS_Singleton, FS_Union
<1>7. Max(S) \in S /\ \A s \in S : s <= Max(S)
  <2> HIDE DEF S
  <2> QED BY <1>5, <1>6, MaxIn
<1>8. LastSequence(table, h) = Max(S)
  BY Zenon DEF LastSequence
<1>9. ASSUME NEW i \in DOMAIN table, table[i].history = h PROVE table[i].sequence \in S
  BY <1>9
<1>10. \A s \in S :
         s = 0 \/ \E i \in DOMAIN table : table[i].history = h /\ table[i].sequence = s
  OBVIOUS
<1> HIDE DEF S
<1>11. LastSequence(table, h) = 0
         \/ \E i \in DOMAIN table :
              table[i].history = h /\ table[i].sequence = LastSequence(table, h)
  BY <1>7, <1>8, <1>10, Zenon
<1> QED BY <1>5, <1>7, <1>8, <1>9, <1>11

LEMMA Concatenation ==
  ASSUME NEW T, NEW s \in Seq(T), NEW t \in Seq(T)
  PROVE  /\ s \o t \in Seq(T) /\ DOMAIN (s \o t) = 1..(Len(s) + Len(t))
         /\ \A i \in 1..Len(s) : (s \o t)[i] = s[i]
         /\ \A i \in 1..Len(t) : (s \o t)[Len(s) + i] = t[i]
OBVIOUS

(* What is appended to the end of history h.                                *)
Appendable(new, h, grouped) ==
  /\ new \in Seq(Row)
  /\ \A i \in DOMAIN new :
       /\ new[i].subject \in Range(created)
       /\ new[i].history = h /\ grouped[new[i].subject] = h

Appended(table, new, h, longer) ==
  /\ DOMAIN table \subseteq DOMAIN longer
  /\ DOMAIN longer = 1..(Len(table) + Len(new))
  /\ \A i \in DOMAIN table : longer[i] = table[i]
  /\ \A j \in 1..Len(new) :
       /\ Len(table) + j \in DOMAIN longer
       /\ longer[Len(table) + j].subject = new[j].subject
       /\ longer[Len(table) + j].action = new[j].action
       /\ longer[Len(table) + j].history = h
       /\ longer[Len(table) + j].cause = new[j].cause
       /\ longer[Len(table) + j].sequence = LastSequence(table, h) + j
       /\ longer[Len(table) + j] = WithNumber(new[j], LastSequence(table, h) + j)

LEMMA AppendAllKeeps ==
  ASSUME NEW grouped, NEW table, Sound(table, grouped),
         NEW h, NEW new, Appendable(new, h, grouped)
  PROVE  /\ Sound(AppendAll(table, h, new), grouped)
         /\ Appended(table, new, h, AppendAll(table, h, new))
<1> DEFINE last == LastSequence(table, h)
           added == [i \in 1..Len(new) |-> [new[i] EXCEPT !.sequence = last + i]]
           longer == table \o added
           m == Len(table)
           n == Len(new)
<1>1. table \in Seq(Row) /\ DOMAIN table = 1..m /\ m \in Nat
  BY DEF Sound
<1>15. /\ \A i \in 1..m :
           table[i].subject \in Range(created) /\ table[i].history = grouped[table[i].subject]
      /\ \A i, j \in 1..m :
           table[i].history = table[j].history /\ table[i].sequence = table[j].sequence => i = j
  <2> HIDE DEF m
  <2>1. \A i : i \in 1..m => i \in DOMAIN table
    BY <1>1, Zenon
  <2> QED BY <2>1, Zenon DEF Sound
<1>2. DOMAIN new = 1..n /\ n \in Nat /\ \A i \in 1..n : new[i] \in Row
  <2>1. new \in Seq(Row)
    BY Zenon DEF Appendable
  <2> QED BY <2>1
<1>16. \A i \in 1..n : /\ new[i].subject \in Range(created)
                      /\ new[i].history = h /\ grouped[new[i].subject] = h
  <2> HIDE DEF n
  <2>1. \A i : i \in 1..n => i \in DOMAIN new
    BY <1>2, Zenon
  <2> QED BY <2>1, Zenon DEF Appendable
<1>3. last \in Nat /\ \A i \in 1..m : table[i].history = h => table[i].sequence <= last
  <2> HIDE DEF last
  <2> QED BY <1>1, LastSequenceBounds DEF last
<1>4. \A e \in Row : e.sequence \in Nat
  BY Zenon DEF Row
<1> HIDE DEF last
<1>5. ASSUME NEW i \in 1..n
      PROVE  /\ added[i] \in Row /\ added[i].sequence = last + i
             /\ added[i].subject = new[i].subject /\ added[i].action = new[i].action
             /\ added[i].history = h /\ added[i].cause = new[i].cause
  <2>1. new[i] \in Row /\ last + i \in Nat
    BY <1>2, <1>3
  <2>2. added[i] = WithNumber(new[i], last + i)
    BY Zenon DEF WithNumber
  <2> HIDE DEF added, n
  <2>3. /\ added[i] \in Row /\ added[i].sequence = last + i
        /\ added[i].subject = new[i].subject /\ added[i].action = new[i].action
        /\ added[i].history = new[i].history /\ added[i].cause = new[i].cause
    <3> DEFINE d == WithNumber(new[i], last + i)
    <3>1. /\ d \in Row /\ d.sequence = last + i
          /\ d.subject = new[i].subject /\ d.action = new[i].action /\ d.history = new[i].history
          /\ d.cause = new[i].cause
      BY <2>1, RowNumbered, Zenon
    <3>2. added[i] = d
      BY <2>2
    <3> HIDE DEF d
    <3> QED BY <3>1, <3>2
  <2> QED BY <1>16, <2>3, Zenon
<1>6. added \in Seq(Row) /\ DOMAIN added = 1..n /\ Len(added) = n
  <2>1. added \in [1..n -> Row]
    <3>1. \A i \in 1..n : added[i] \in Row
      BY <1>5, Zenon
    <3>2. added = [i \in 1..n |-> added[i]]
      BY Zenon
    <3> HIDE DEF added
    <3> QED BY <3>1, <3>2, Zenon
  <2> HIDE DEF added
  <2> QED BY <1>2, <2>1
<1>7. \A i \in 1..n : added[i] = [new[i] EXCEPT !.sequence = last + i]
  BY Zenon
<1> HIDE DEF added
<1>8. /\ longer \in Seq(Row) /\ DOMAIN longer = 1..(m + n)
      /\ \A i \in 1..m : longer[i] = table[i]
      /\ \A i \in 1..n : longer[m + i] = added[i]
  <2>1. Len(added) = n
    BY <1>6
  <2>2. /\ longer \in Seq(Row) /\ DOMAIN longer = 1..(m + Len(added))
        /\ \A i \in 1..m : longer[i] = table[i]
        /\ \A i \in 1..Len(added) : longer[m + i] = added[i]
    <3>1. table \in Seq(Row) /\ added \in Seq(Row)
      BY <1>1, <1>6
    <3> HIDE DEF added
    <3> QED BY <3>1, Concatenation
  <2> HIDE DEF longer, m, n
  <2> QED BY <2>1, <2>2, Zenon
<1>9. /\ \A i \in 1..(m + n) : i \in 1..m \/ \E j \in 1..n : i = m + j
      /\ \A i \in 1..m : i \in 1..(m + n)
      /\ \A j \in 1..n : m + j \in 1..(m + n)
  <2>1. ASSUME NEW i \in 1..(m + n), i \notin 1..m PROVE \E j \in 1..n : i = m + j
    <3>1. i - m \in 1..n /\ i = m + (i - m)
      BY <1>1, <1>2, <2>1
    <3> QED BY <3>1
  <2> QED BY <1>1, <1>2, <2>1
<1> HIDE DEF longer, m, n
<1>10. ASSUME NEW i \in DOMAIN longer
       PROVE  longer[i].subject \in Range(created) /\ longer[i].history = grouped[longer[i].subject]
  <2>1. CASE i \in 1..m
    BY <1>15, <1>8, <2>1, Zenon
  <2>2. ASSUME NEW j \in 1..n, i = m + j
        PROVE longer[i].subject \in Range(created) /\ longer[i].history = grouped[longer[i].subject]
    <3>1. longer[i] = added[j]
      BY <1>8, <2>2, Zenon
    <3>2. added[j].subject = new[j].subject /\ added[j].history = h
      BY <1>5
    <3>3. new[j].subject \in Range(created) /\ grouped[new[j].subject] = h
      BY <1>16
    <3> HIDE DEF n
    <3> QED BY <3>1, <3>2, <3>3, Zenon
  <2> QED BY <1>8, <1>9, <2>1, <2>2, Zenon
<1>11. ASSUME NEW i \in DOMAIN longer, NEW j \in DOMAIN longer,
              longer[i].history = longer[j].history, longer[i].sequence = longer[j].sequence
       PROVE  i = j
  <2>1. CASE i \in 1..m /\ j \in 1..m
    BY <1>15, <1>8, <1>11, <2>1, Zenon
  <2>2. ASSUME NEW a \in 1..m, NEW b \in 1..n,
               longer[a].history = longer[m + b].history,
               longer[a].sequence = longer[m + b].sequence
        PROVE  FALSE
    <3>1. table[a].history = h /\ table[a].sequence = last + b
      BY <1>5, <1>8, <2>2, Zenon
    <3>2. table[a].sequence <= last
      BY <1>3, <3>1, Zenon
    <3> HIDE DEF last
    <3> QED BY <1>2, <1>3, <3>1, <3>2
  <2>3. ASSUME NEW a \in 1..n, NEW b \in 1..n, i = m + a, j = m + b PROVE i = j
    <3>1. last + a = last + b
      BY <1>5, <1>8, <1>11, <2>3, Zenon
    <3>2. a = b
      BY <1>2, <1>3, <3>1
    <3> QED BY <2>3, <3>2
  <2>4. ASSUME NEW b \in 1..n, i \in 1..m, j = m + b PROVE FALSE
    BY <1>11, <2>2, <2>4, Zenon
  <2>5. ASSUME NEW b \in 1..n, j \in 1..m, i = m + b PROVE FALSE
    BY <1>11, <2>2, <2>5, Zenon
  <2>6. /\ i \in 1..m \/ \E a \in 1..n : i = m + a
        /\ j \in 1..m \/ \E b \in 1..n : j = m + b
    BY <1>8, <1>9, Zenon
  <2> QED BY <2>1, <2>3, <2>4, <2>5, <2>6, Zenon
<1>12. Sound(longer, grouped)
  BY <1>8, <1>10, <1>11, Zenon DEF Sound
<1>13. longer = AppendAll(table, h, new)
  BY Zenon DEF AppendAll, longer, added, last, n
<1>14. \A j \in 1..n : /\ m + j \in DOMAIN longer
                        /\ longer[m + j].subject = new[j].subject
                        /\ longer[m + j].action = new[j].action
                        /\ longer[m + j].history = h
                        /\ longer[m + j].cause = new[j].cause
                        /\ longer[m + j].sequence = last + j
                        /\ longer[m + j] = WithNumber(new[j], last + j)
  <2> SUFFICES ASSUME NEW j \in 1..n
               PROVE  /\ m + j \in DOMAIN longer
                      /\ longer[m + j].subject = new[j].subject
                      /\ longer[m + j].action = new[j].action
                      /\ longer[m + j].history = h
                      /\ longer[m + j].cause = new[j].cause
                      /\ longer[m + j].sequence = last + j
                      /\ longer[m + j] = WithNumber(new[j], last + j)
    BY Zenon
  <2>1. m + j \in DOMAIN longer /\ longer[m + j] = added[j]
    BY <1>8, <1>9, Zenon
  <2>2. /\ added[j].subject = new[j].subject /\ added[j].action = new[j].action
        /\ added[j].history = h /\ added[j].cause = new[j].cause
        /\ added[j].sequence = last + j
    BY <1>5
  <2>3. added[j] = WithNumber(new[j], last + j)
    BY <1>7, Zenon DEF WithNumber
  <2> QED BY <2>1, <2>2, <2>3
<1>17. Appended(table, new, h, longer)
  BY <1>1, <1>8, <1>9, <1>14, Zenon DEF Appended, m, n, last
<1> QED BY <1>12, <1>13, <1>17, Zenon

\* The numbers of a history have no gap: each one is the first or has the one
\* before it.
ChainedAt(table, i) ==
  /\ table[i].sequence > 0
  /\ \/ table[i].sequence = 1
     \/ \E j \in DOMAIN table : /\ table[j].history = table[i].history
                               /\ table[j].sequence = table[i].sequence - 1

Chained(table) == \A i \in DOMAIN table : ChainedAt(table, i)

LEMMA AppendAllChained ==
  ASSUME NEW grouped, NEW table, Sound(table, grouped), Chained(table),
         NEW h, NEW new, Appendable(new, h, grouped)
  PROVE  Chained(AppendAll(table, h, new))
<1> DEFINE longer == AppendAll(table, h, new)
           last == LastSequence(table, h)
           m == Len(table)
           n == Len(new)
<1>1. table \in Seq(Row) /\ DOMAIN table = 1..m /\ m \in Nat
  BY DEF Sound
<1>2. new \in Seq(Row) /\ n \in Nat
  <2>1. new \in Seq(Row)
    BY Zenon DEF Appendable
  <2> QED BY <2>1
<1>3. /\ last \in Nat
      /\ last = 0 \/ \E i \in DOMAIN table : table[i].history = h /\ table[i].sequence = last
  BY <1>1, LastSequenceBounds, Zenon
<1>4. Appended(table, new, h, longer)
  BY AppendAllKeeps, Zenon
<1> HIDE DEF longer, last, m, n
<1>5. /\ DOMAIN table \subseteq DOMAIN longer /\ DOMAIN longer = 1..(m + n)
      /\ \A i \in DOMAIN table : longer[i] = table[i]
      /\ \A j \in 1..n : /\ m + j \in DOMAIN longer
                         /\ longer[m + j].history = h
                         /\ longer[m + j].sequence = last + j
  BY <1>4, Zenon DEF Appended, m, n, last
<1>6. ASSUME NEW i \in DOMAIN table PROVE ChainedAt(longer, i)
  <2>1. ChainedAt(table, i) /\ longer[i] = table[i]
    BY <1>5, Zenon DEF Chained
  <2>2. CASE table[i].sequence = 1
    BY <2>1, <2>2 DEF ChainedAt
  <2>3. CASE table[i].sequence # 1
    <3>1. PICK j \in DOMAIN table : /\ table[j].history = table[i].history
                                   /\ table[j].sequence = table[i].sequence - 1
      BY <2>1, <2>3, Zenon DEF ChainedAt
    <3>2. j \in DOMAIN longer /\ longer[j] = table[j]
      BY <1>5
    <3> QED BY <2>1, <3>1, <3>2, Zenon DEF ChainedAt
  <2> QED BY <2>2, <2>3
<1>7. ASSUME NEW j \in 1..n PROVE ChainedAt(longer, m + j)
  <2>1. longer[m + j].history = h /\ longer[m + j].sequence = last + j /\ last + j > 0
    BY <1>2, <1>3, <1>5
  <2>2. CASE j = 1 /\ last = 0
    BY <2>1, <2>2 DEF ChainedAt
  <2>3. CASE j = 1 /\ last # 0
    <3>1. PICK i \in DOMAIN table : table[i].history = h /\ table[i].sequence = last
      BY <1>3, <2>3
    <3>2. /\ i \in DOMAIN longer /\ longer[i].history = longer[m + j].history
          /\ longer[i].sequence = longer[m + j].sequence - 1
      BY <1>3, <1>5, <2>1, <2>3, <3>1
    <3> QED BY <2>1, <3>2 DEF ChainedAt
  <2>4. CASE j # 1
    <3>1. j - 1 \in 1..n
      BY <1>2, <2>4
    <3>2. /\ m + (j - 1) \in DOMAIN longer /\ longer[m + (j - 1)].history = h
          /\ longer[m + (j - 1)].sequence = last + (j - 1)
      BY <1>5, <3>1
    <3>3. last + (j - 1) = (last + j) - 1
      BY <1>2, <1>3
    <3> QED BY <2>1, <3>2, <3>3 DEF ChainedAt
  <2> QED BY <2>2, <2>3, <2>4
<1>8. \A i \in DOMAIN longer : i \in DOMAIN table \/ \E j \in 1..n : i = m + j
  <2>1. ASSUME NEW i \in 1..(m + n), i \notin 1..m PROVE \E j \in 1..n : i = m + j
    <3>1. i - m \in 1..n /\ i = m + (i - m)
      BY <1>1, <1>2, <2>1
    <3> QED BY <3>1
  <2> QED BY <1>1, <1>5, <2>1
<1> QED BY <1>6, <1>7, <1>8, Zenon DEF Chained, longer

(* The rows of 0006, and their numbers in the order they occurred.          *)
Grouped(e, h, n, unavailable, actor) ==
  [e EXCEPT !.history = h, !.sequence = n, !.inferred = TRUE,
            !.unavailable = unavailable, !.actor = actor]

LEMMA RowGrouped ==
  ASSUME NEW e \in Row, NEW h \in Nat, NEW n \in Nat, NEW u \in BOOLEAN, NEW a \in Actors
  PROVE  /\ Grouped(e, h, n, u, a) \in Row
         /\ Grouped(e, h, n, u, a).subject = e.subject
         /\ Grouped(e, h, n, u, a).action = e.action
         /\ Grouped(e, h, n, u, a).history = h
         /\ Grouped(e, h, n, u, a).sequence = n
BY Zenon DEF Row, Grouped

LEMMA GroupedCause ==
  \A e, h, n, u, a : e \in Row => Grouped(e, h, n, u, a).cause = e.cause
BY Zenon DEF Row, Grouped

LEMMA ActorNamed ==
  ASSUME NEW e \in Row
  PROVE  (IF e.actor.account = "system account"
          THEN System("submission_policy") ELSE Account(e.actor.account)) \in Actors
<1>1. e.actor \in Actors
  BY Zenon DEF Row
<1>2. e.actor.account \in {None, "person", "system account"} \cup {Submitter[r] : r \in Records}
  BY <1>1, Zenon DEF Actors
<1>3. System("submission_policy") \in Actors
  BY Zenon DEF Actors, System
<1>4. Account(e.actor.account) \in Actors
  BY <1>2, Zenon DEF Actors, Account
<1> QED BY <1>3, <1>4, Zenon

LEMMA NumberedInOrder ==
  ASSUME events \in Seq(Row), NEW grouped,
         \A i \in DOMAIN events :
           events[i].subject \in Range(created) /\ grouped[events[i].subject] \in Nat
  PROVE  LET table == Numbered(grouped) IN
         /\ Sound(table, grouped)
         /\ DOMAIN table = DOMAIN events
         /\ \A i \in DOMAIN events :
              /\ table[i].subject = events[i].subject /\ table[i].action = events[i].action
              /\ table[i].cause = events[i].cause
         /\ \A i, j \in DOMAIN events :
              table[i].history = table[j].history /\ i < j
                => table[i].sequence < table[j].sequence
         /\ Chained(table)
<1> DEFINE N == Len(events)
           H(i) == grouped[events[i].subject]
           Before(i) == {j \in 1..i : grouped[events[j].subject] = H(i)}
           u(i) == events[i].action \in {"submitted", "edited", "resubmitted"}
           a(i) == IF events[i].actor.account = "system account"
                   THEN System("submission_policy") ELSE Account(events[i].actor.account)
           table == Numbered(grouped)
<1>1. N \in Nat /\ DOMAIN events = 1..N /\ \A i \in 1..N : events[i] \in Row
  OBVIOUS
<1> HIDE DEF N
<1>2. \A i \in 1..N : events[i].subject \in Range(created) /\ H(i) \in Nat
  <2>1. \A i : i \in 1..N => i \in DOMAIN events
    BY <1>1, Zenon
  <2> QED BY <2>1, Zenon
<1>3. ASSUME NEW i \in 1..N
      PROVE  IsFiniteSet(Before(i)) /\ Cardinality(Before(i)) \in Nat
  <2>1. Before(i) \in SUBSET (1..i) /\ i \in Nat
    BY <1>1
  <2>2. IsFiniteSet(1..i)
    BY <2>1, FirstNumbers
  <2> HIDE DEF Before
  <2> QED BY <2>1, <2>2, FS_Subset, FS_CardinalityType
<1>4. ASSUME NEW i \in 1..N
      PROVE  table[i] = Grouped(events[i], H(i), Cardinality(Before(i)), u(i), a(i))
  <2>1. 1..Len(events) = 1..N
    BY DEF N
  <2> QED BY <2>1, Zenon DEF Numbered, Grouped
<1> HIDE DEF a, u, Before, H, table
<1>5. ASSUME NEW i \in 1..N
      PROVE  /\ table[i] \in Row
             /\ table[i].subject = events[i].subject
             /\ table[i].action = events[i].action
             /\ table[i].history = H(i)
             /\ table[i].sequence = Cardinality(Before(i))
             /\ table[i].cause = events[i].cause
  <2> DEFINE row == Grouped(events[i], H(i), Cardinality(Before(i)), u(i), a(i))
  <2>1. u(i) \in BOOLEAN
    BY DEF u
  <2>2. a(i) \in Actors
    BY <1>1, ActorNamed, Zenon DEF a
  <2>3. /\ row \in Row /\ row.subject = events[i].subject /\ row.action = events[i].action
        /\ row.history = H(i) /\ row.sequence = Cardinality(Before(i))
        /\ row.cause = events[i].cause
    <3>1. events[i] \in Row /\ H(i) \in Nat /\ Cardinality(Before(i)) \in Nat
      BY <1>1, <1>2, <1>3
    <3> DEFINE e == events[i]
               h == H(i)
               c == Cardinality(Before(i))
               b == u(i)
               who == a(i)
    <3>2. e \in Row /\ h \in Nat /\ c \in Nat /\ b \in BOOLEAN /\ who \in Actors
      BY <2>1, <2>2, <3>1
    <3> HIDE DEF e, h, c, b, who
    <3>3. /\ Grouped(e, h, c, b, who) \in Row
          /\ Grouped(e, h, c, b, who).subject = e.subject
          /\ Grouped(e, h, c, b, who).action = e.action
          /\ Grouped(e, h, c, b, who).history = h
          /\ Grouped(e, h, c, b, who).sequence = c
      BY <3>2, RowGrouped
    <3>4. Grouped(e, h, c, b, who).cause = e.cause
      BY <3>2, GroupedCause
    <3> QED BY <3>3, <3>4 DEF e, h, c, b, who
  <2> HIDE DEF row
  <2> QED BY <1>4, <2>3 DEF row
<1>6. ASSUME NEW i \in 1..N, NEW j \in 1..N, i < j, H(i) = H(j)
      PROVE  Cardinality(Before(i)) < Cardinality(Before(j))
  <2>1. j \in Before(j) /\ j \notin Before(i)
    BY <1>1, <1>6 DEF Before, H
  <2>2. ASSUME NEW k \in Before(i) PROVE k \in Before(j)
    <3>1. k \in 1..i /\ grouped[events[k].subject] = H(i)
      BY <2>2, Zenon DEF Before
    <3>2. k \in 1..j
      BY <1>1, <1>6, <3>1
    <3> QED BY <1>6, <3>1, <3>2, Zenon DEF Before
  <2>3. /\ Cardinality(Before(i)) <= Cardinality(Before(j))
        /\ Cardinality(Before(i)) # Cardinality(Before(j))
    BY <1>3, <2>1, <2>2, FS_Subset
  <2> QED BY <1>3, <2>3
<1>7. table \in Seq(Row) /\ DOMAIN table = 1..N
  <2>1. table = [i \in 1..N |-> table[i]]
    BY Zenon DEF table, Numbered, N
  <2>2. table \in [1..N -> Row]
    BY <1>5, <2>1, Zenon
  <2> QED BY <1>1, <2>2
<1>8. ASSUME NEW i \in 1..N, NEW j \in 1..N,
             table[i].history = table[j].history, table[i].sequence = table[j].sequence
      PROVE  i = j
  <2>1. H(i) = H(j) /\ Cardinality(Before(i)) = Cardinality(Before(j))
    BY <1>5, <1>8, Zenon
  <2>2. ~(Cardinality(Before(i)) < Cardinality(Before(j)))
        /\ ~(Cardinality(Before(j)) < Cardinality(Before(i)))
    BY <1>3, <2>1
  <2>3. ~(i < j) /\ ~(j < i)
    BY <1>6, <2>1, <2>2
  <2> QED BY <1>1, <2>3
<1>9. Sound(table, grouped)
  <2>1. \A i \in 1..N : table[i].subject \in Range(created)
                        /\ table[i].history = grouped[table[i].subject]
    <3>1. \A i \in 1..N : H(i) = grouped[events[i].subject]
      BY DEF H
    <3>2. \A i \in 1..N : events[i].subject \in Range(created)
      BY <1>2
    <3>3. \A i \in 1..N : table[i].subject = events[i].subject /\ table[i].history = H(i)
      BY <1>5
    <3> QED BY <3>1, <3>2, <3>3, Zenon
  <2>2. \A i : i \in DOMAIN table <=> i \in 1..N
    BY <1>7, Zenon
  <2> QED BY <1>7, <1>8, <2>1, <2>2, Zenon DEF Sound
<1>10. ASSUME NEW i \in 1..N, NEW j \in 1..N, table[i].history = table[j].history, i < j
       PROVE  table[i].sequence < table[j].sequence
  <2>1. H(i) = H(j)
    BY <1>5, <1>10, Zenon
  <2>2. Cardinality(Before(i)) < Cardinality(Before(j))
    BY <1>6, <1>10, <2>1, Zenon
  <2> QED BY <1>5, <2>2
<1>11. \A i : i \in DOMAIN events <=> i \in 1..N
  BY <1>1, Zenon
<1>12. ASSUME NEW i \in 1..N PROVE ChainedAt(table, i)
  <2> DEFINE others == Before(i) \ {i}
             c == Cardinality(Before(i))
  <2>1. IsFiniteSet(Before(i)) /\ i \in Before(i) /\ c \in Nat
    <3>1. i \in 1..i
      BY <1>1
    <3> QED BY <1>3, <3>1, Zenon DEF Before, H
  <2>2. IsFiniteSet(others) /\ Cardinality(others) = c - 1
    BY <2>1, FS_RemoveElement
  <2>3. c # 0 /\ (c - 1 = 0 <=> others = {})
    <3>1. Before(i) # {}
      BY <2>1
    <3> HIDE DEF others
    <3> QED BY <2>1, <2>2, <3>1, FS_EmptySet
  <2>4. table[i].sequence = c /\ table[i].history = H(i)
    BY <1>5
  <2> HIDE DEF c
  <2>5. CASE others = {}
    BY <2>1, <2>3, <2>4, <2>5 DEF ChainedAt
  <2>6. CASE others # {}
    <3>1. \A k \in Before(i) : k \in 1..i /\ H(k) = H(i)
      BY Zenon DEF Before, H
    <3>2. others \in SUBSET Nat
      BY <3>1
    <3> DEFINE j == Max(others)
    <3>3. j \in others /\ \A k \in others : k <= j
      <4> HIDE DEF others
      <4> QED BY <2>2, <2>6, <3>2, MaxIn
    <3> HIDE DEF j
    <3>4. j \in 1..i /\ j # i /\ j \in 1..N /\ j < i /\ H(j) = H(i)
      BY <1>1, <3>1, <3>3
    <3>5. ASSUME NEW k \in Before(j) PROVE k \in others
      <4>1. k \in 1..j /\ grouped[events[k].subject] = H(j)
        BY Zenon DEF Before
      <4>2. k \in 1..i /\ k # i
        BY <1>1, <3>4, <4>1
      <4> QED BY <3>4, <4>1, <4>2, Zenon DEF Before
    <3>6. ASSUME NEW k \in others PROVE k \in Before(j)
      <4>1. k \in 1..i /\ k <= j /\ grouped[events[k].subject] = H(i)
        BY <3>1, <3>3 DEF H
      <4>2. k \in 1..j
        BY <1>1, <3>4, <4>1
      <4> QED BY <3>4, <4>1, <4>2, Zenon DEF Before
    <3>7. Before(j) = others
      <4> HIDE DEF others
      <4> QED BY <3>5, <3>6
    <3>8. table[j].history = H(i) /\ table[j].sequence = c - 1 /\ j \in DOMAIN table
      BY <1>5, <1>7, <2>2, <3>4, <3>7
    <3> QED BY <2>1, <2>3, <2>4, <3>8 DEF ChainedAt
  <2> QED BY <2>5, <2>6
<1>13. Chained(table)
  BY <1>7, <1>12, Zenon DEF Chained
<1> QED BY <1>1, <1>5, <1>7, <1>9, <1>10, <1>11, <1>13, Zenon DEF table

(* The events that 0006 infers for a record are its own, in its history.    *)
OwnRows(r, h) == {e \in Row : e.subject = r /\ e.history = h}

Names == {None, "person", "system account"} \cup {Submitter[r] : r \in Records}

LEMMA LegacyRow ==
  ASSUME NEW r \in Records, NEW who \in Names,
         NEW action \in {"submitted", "resubmitted", "edited", "approved", "published", "withdrawn",
                        "revision_created"}
  PROVE  Legacy(r, action, who) \in Row
<1> DEFINE actor == [Account(who) EXCEPT !.type = None]
<1>1. Account(who) \in Actors
  BY Zenon DEF Actors, Account, Names
<1>2. actor \in Actors
  BY <1>1, Zenon DEF Actors
<1> HIDE DEF actor
<1> DEFINE e == [subject |-> r, action |-> action, actor |-> actor, history |-> None, sequence |-> 0,
                 inferred |-> FALSE, projected |-> None, predecessor |-> None, snapshot |-> None,
                 unavailable |-> FALSE, cause |-> 0]
<1>3. Legacy(r, action, who) = e
  BY Zenon DEF Legacy, actor
<1>4. /\ 0 \in Nat /\ None \in Nat \cup {None}
      /\ None \in {None, "absent", "pending_review", "pending_reapproval"} \cup Public
      /\ None \in Records \cup {None} /\ None \in {None} \cup {KindOf[q] : q \in Records}
      /\ FALSE \in BOOLEAN
  OBVIOUS
<1>5. e \in Row
  BY <1>2, <1>4, Zenon DEF Row
<1> HIDE DEF e
<1> QED BY <1>3, <1>5, Zenon

LEMMA LegacyColumns ==
  \A r, action, who :
    /\ Legacy(r, action, who).subject = r
    /\ Legacy(r, action, who).action = action
    /\ Legacy(r, action, who).cause = 0
BY Zenon DEF Legacy

LEMMA InferredContent ==
  \A r, action, actor, h :
    /\ Inferred(r, action, actor, h).subject = r
    /\ Inferred(r, action, actor, h).action = action
    /\ Inferred(r, action, actor, h).actor = actor
    /\ Inferred(r, action, actor, h).projected = None
    /\ Inferred(r, action, actor, h).predecessor = None
    /\ Inferred(r, action, actor, h).snapshot = None
<1> SUFFICES ASSUME NEW r, NEW action, NEW actor, NEW h
             PROVE  LET e == Inferred(r, action, actor, h) IN
                    /\ e.subject = r /\ e.action = action /\ e.actor = actor
                    /\ e.projected = None /\ e.predecessor = None /\ e.snapshot = None
  OBVIOUS
<1> DEFINE who == [Account(None) EXCEPT !.type = None]
           d == [subject |-> r, action |-> action, actor |-> who, history |-> None, sequence |-> 0,
                 inferred |-> FALSE, projected |-> None, predecessor |-> None, snapshot |-> None,
                 unavailable |-> FALSE, cause |-> 0]
           e == [d EXCEPT !.history = h, !.inferred = TRUE, !.actor = actor]
<1>1. Inferred(r, action, actor, h) = e
  BY Zenon DEF Legacy, Inferred
<1> HIDE DEF who
<1>2. /\ e.subject = r /\ e.action = action /\ e.actor = actor
      /\ e.projected = None /\ e.predecessor = None /\ e.snapshot = None
  OBVIOUS
<1> HIDE DEF e
<1> QED BY <1>1, <1>2

LEMMA InferredOwn ==
  ASSUME NEW r \in Records, NEW h \in Nat, NEW actor \in Actors,
         NEW action \in {"submitted", "approved", "published", "withdrawn", "revision_created"}
  PROVE  /\ Inferred(r, action, actor, h) \in OwnRows(r, h)
         /\ Inferred(r, action, actor, h).action = action
         /\ Inferred(r, action, actor, h).cause = 0
<1> DEFINE e == Legacy(r, action, None)
<1>1. e \in Row /\ e.subject = r /\ e.action = action /\ e.cause = 0
  <2>1. None \in Names
    BY Zenon DEF Names
  <2>2. action \in {"submitted", "resubmitted", "edited", "approved", "published", "withdrawn",
                   "revision_created"}
    OBVIOUS
  <2>3. e \in Row
    BY <2>1, <2>2, LegacyRow, Zenon
  <2> HIDE DEF e
  <2>4. e.subject = r /\ e.action = action /\ e.cause = 0
    BY LegacyColumns DEF e
  <2> QED BY <2>3, <2>4
<1>2. Inferred(r, action, actor, h) = [e EXCEPT !.history = h, !.inferred = TRUE, !.actor = actor]
  BY Zenon DEF Inferred
<1> HIDE DEF e
<1> DEFINE f == [e EXCEPT !.history = h, !.inferred = TRUE, !.actor = actor]
<1>3. /\ f \in Row /\ f.history = h /\ f.subject = e.subject
      /\ f.action = e.action /\ f.cause = e.cause
  <2>1. h \in Nat \cup {None} /\ TRUE \in BOOLEAN
    OBVIOUS
  <2> QED BY <1>1, <2>1, Zenon DEF Row
<1>4. Inferred(r, action, actor, h) = f
  BY <1>2
<1> HIDE DEF f
<1> QED BY <1>1, <1>3, <1>4, Zenon DEF OwnRows

LEMMA OwnWritten ==
  ASSUME RegistryInv, NEW r \in Records, NEW h, NEW e \in OwnRows(r, h)
  PROVE  /\ [e EXCEPT !.projected = state[r], !.snapshot = KindOf[r]] \in OwnRows(r, h)
         /\ \A q \in Records : [e EXCEPT !.predecessor = q] \in OwnRows(r, h)
         /\ \A n \in Nat : [e EXCEPT !.cause = n] \in OwnRows(r, h)
<1>1. state[r] \in {None, "absent", "pending_review", "pending_reapproval"} \cup Public
  BY DEF RegistryInv, Inv, TypeOK
<1>2. [e EXCEPT !.projected = state[r], !.snapshot = KindOf[r]] \in OwnRows(r, h)
  BY <1>1, Zenon DEF OwnRows, Row
<1>3. \A q \in Records : [e EXCEPT !.predecessor = q] \in OwnRows(r, h)
  BY Zenon DEF OwnRows, Row
<1>4. \A n \in Nat : [e EXCEPT !.cause = n] \in OwnRows(r, h)
  BY Zenon DEF OwnRows, Row
<1> QED BY <1>2, <1>3, <1>4

LEMMA ShortSequences ==
  ASSUME NEW T, NEW x \in T, NEW y \in T
  PROVE  <<>> \in Seq(T) /\ <<x>> \in Seq(T) /\ <<x, y>> \in Seq(T)
OBVIOUS

(* A row that names a cause follows it.                                     *)
Paired(s) ==
  \A i \in DOMAIN s : s[i].cause # 0 =>
    /\ s[i].action = "published"
    /\ i - 1 \in DOMAIN s
    /\ s[i - 1].action = "approved"

LEMMA PairedConcatenation ==
  ASSUME NEW T, NEW s \in Seq(T), NEW t \in Seq(T), Paired(s), Paired(t)
  PROVE  Paired(s \o t)
<1> DEFINE m == Len(s)
           n == Len(t)
           both == s \o t
<1>1. /\ m \in Nat /\ n \in Nat
      /\ DOMAIN s = 1..m /\ DOMAIN t = 1..n /\ DOMAIN both = 1..(m + n)
      /\ \A i \in 1..m : both[i] = s[i]
      /\ \A i \in 1..n : both[m + i] = t[i]
  <2>1. m \in Nat /\ n \in Nat /\ DOMAIN s = 1..m /\ DOMAIN t = 1..n
    OBVIOUS
  <2> QED BY <2>1, Concatenation
<1> HIDE DEF both, m, n
<1> SUFFICES ASSUME NEW i \in DOMAIN both, both[i].cause # 0
             PROVE  /\ both[i].action = "published"
                    /\ i - 1 \in DOMAIN both
                    /\ both[i - 1].action = "approved"
  BY Zenon DEF Paired, both
<1>2. CASE i \in 1..m
  <2>1. both[i] = s[i]
    BY <1>1, <1>2
  <2>2. s[i].action = "published" /\ i - 1 \in DOMAIN s /\ s[i - 1].action = "approved"
    BY <1>1, <1>2, <2>1, Zenon DEF Paired
  <2>3. i - 1 \in 1..m /\ i - 1 \in DOMAIN both /\ both[i - 1] = s[i - 1]
    BY <1>1, <2>2
  <2> QED BY <2>1, <2>2, <2>3
<1>3. CASE i \notin 1..m
  <2> DEFINE j == i - m
  <2>1. j \in 1..n /\ i = m + j
    BY <1>1, <1>3
  <2> HIDE DEF j
  <2>2. both[i] = t[j]
    BY <1>1, <2>1
  <2>3. t[j].action = "published" /\ j - 1 \in DOMAIN t /\ t[j - 1].action = "approved"
    BY <1>1, <2>1, <2>2, Zenon DEF Paired
  <2>4. j - 1 \in 1..n /\ i - 1 = m + (j - 1) /\ i - 1 \in DOMAIN both
    BY <1>1, <2>1, <2>3
  <2>5. both[i - 1] = t[j - 1]
    BY <1>1, <2>4
  <2> QED BY <2>2, <2>3, <2>4, <2>5
<1> QED BY <1>2, <1>3

LEMMA PairedShort ==
  ASSUME NEW x, NEW y
  PROVE  /\ Paired(<<>>)
         /\ x.cause = 0 => Paired(<<x>>)
         /\ x.cause = 0 /\ x.action = "approved" /\ y.action = "published" => Paired(<<x, y>>)
BY DEF Paired

-----------------------------------------------------------------------------
(* What the rows of a record say of it.                                     *)
LEMMA NullStates ==
  /\ None # "published" /\ None # "withdrawn"
  /\ None # "pending_review" /\ None # "pending_reapproval"
BY NullAssumption, Zenon DEF None, Public

LEMMA NullNames ==
  /\ None # "person" /\ None # "system account"
  /\ None # "submission_policy" /\ None # "migration_backfill"
BY NullAssumption, Zenon DEF None, Public

LEMMA ActorsValid ==
  /\ \A e : e.actor = System("migration_backfill") => ActorValid(e)
  /\ \A e : e.actor = System("submission_policy") => ActorValid(e)
  /\ \A e, who : who # None /\ e.actor = Account(who) => ActorValid(e)
<1>1. \A a : /\ System(a).type = "system" /\ System(a).account = None /\ System(a).system = a
            /\ Account(a).type = "account" /\ Account(a).account = a /\ Account(a).system = None
  BY DEF System, Account
<1>2. ASSUME NEW e, NEW what, what # None, e.actor = System(what) PROVE ActorValid(e)
  <2> DEFINE a == System(what)
  <2>1. a.type = "system" /\ a.account = None /\ a.system = what /\ e.actor = a
    BY <1>1, <1>2, Zenon
  <2> HIDE DEF a
  <2> QED BY <1>2, <2>1 DEF ActorValid
<1>3. ASSUME NEW e, NEW who, who # None, e.actor = Account(who) PROVE ActorValid(e)
  <2> DEFINE a == Account(who)
  <2>1. a.type = "account" /\ a.account = who /\ a.system = None /\ e.actor = a
    BY <1>1, <1>3, Zenon
  <2> HIDE DEF a
  <2> QED BY <1>3, <2>1 DEF ActorValid
<1> QED BY <1>2, <1>3, NullNames, Zenon

Own(table, r) == {i \in DOMAIN table : table[i].subject = r}

Have(table, r) == {table[i].action : i \in Own(table, r)}

\* What the validator reads of a row on its own.
Reads(e) ==
  /\ ActorValid(e)
  /\ e.action = "revision_created" => e.predecessor = fields[e.subject].lineage
  /\ e.action \in Entered \cup {"edited"} /\ e.snapshot # None => e.snapshot = KindOf[e.subject]

LEMMA ContentRead ==
  ASSUME NEW e, NEW f, SameContent(e, f), Reads(f)
  PROVE  Reads(e)
<1>1. ActorValid(f) => ActorValid(e)
  BY Zenon DEF SameContent, ActorValid
<1> QED BY <1>1, Zenon DEF SameContent, Reads

\* An action that a record in state s may have been recorded with.
Fits(action, s) ==
  /\ action = "submitted" => s # "pending_reapproval"
  /\ action = "resubmitted" => s # "pending_review"
  /\ action = "published" => s \in Public
  /\ action = "withdrawn" => s = "withdrawn"

\* Action b may be recorded of a record after action a.
MayFollow(a, b) ==
  /\ a = "published" => b \notin Entered \cup {"edited"}
  /\ a = "withdrawn" => b \notin Entered \cup {"edited", "published"}

\* Nothing was inferred of record r yet.
Pristine(table, r) ==
  /\ \A i \in Own(table, r) :
       /\ table[i].action # "revision_created" /\ table[i].projected = None
       /\ table[i].actor # System("migration_backfill")
       /\ table[i].action = "withdrawn" => table[i].actor.type = "account"
       /\ Fits(table[i].action, state[r])
  /\ \A i, j \in Own(table, r) :
       table[i].sequence < table[j].sequence => MayFollow(table[i].action, table[j].action)

\* The events that the replay takes a state from, and the state.
Shows(e) == e.action \in Entered \cup {"published", "withdrawn"}
Shown(e) ==
  IF e.action \notin Entered THEN e.action
  ELSE IF e.projected # None THEN e.projected
  ELSE IF e.action = "resubmitted" THEN "pending_reapproval" ELSE "pending_review"

\* WithdrawnUnannounced, of any table.
Unannounced(table, r) ==
  /\ \E i \in Own(table, r) : table[i].action = "withdrawn" /\ table[i].actor.type = "account"
  /\ \E i \in Own(table, r) : /\ table[i].action = "published"
                              /\ table[i].actor = System("migration_backfill")

Complete(r, have) ==
  /\ fields[r].lineage = None \/ "revision_created" \in have
  /\ "submitted" \in have \/ "resubmitted" \in have
  /\ state[r] \in Public => "published" \in have
  /\ state[r] = "withdrawn" => "withdrawn" \in have

EditedFirst(table, r) ==
  \A i, j \in Own(table, r) :
    table[i].action = "published" /\ table[j].action = "edited"
      => table[j].sequence < table[i].sequence

\* The i-th row is the last one of r that the replay takes a state from.
LastShown(table, r, i) ==
  /\ i \in Own(table, r)
  /\ Shows(table[i])
  /\ \A j \in Own(table, r) : j # i /\ Shows(table[j]) => table[j].sequence < table[i].sequence

\* The state that the events of r replay to.
Outcome(table, r) == IF Unannounced(table, r) THEN "published" ELSE state[r]

Concluded(table, r) ==
  \E i \in Own(table, r) : LastShown(table, r, i) /\ Shown(table[i]) = Outcome(table, r)

\* All that r went through is told, in an order that ends at its state.
Finished(table, r) ==
  /\ Complete(r, Have(table, r))
  /\ EditedFirst(table, r)
  /\ Concluded(table, r)
  /\ Unannounced(table, r) => state[r] = "withdrawn"

LEMMA OwnSame ==
  ASSUME NEW t, NEW u, NEW r, Own(u, r) = Own(t, r), \A i \in Own(t, r) : u[i] = t[i]
  PROVE  /\ Pristine(t, r) => Pristine(u, r)
         /\ Finished(t, r) => Finished(u, r)
<1>1. Have(u, r) = Have(t, r)
  BY Zenon DEF Have
<1>2. Unannounced(u, r) <=> Unannounced(t, r)
  BY DEF Unannounced
<1>3. EditedFirst(t, r) => EditedFirst(u, r)
  BY DEF EditedFirst
<1>4. Concluded(t, r) => Concluded(u, r)
  BY <1>2 DEF Concluded, LastShown, Outcome
<1>5. Pristine(t, r) => Pristine(u, r)
  BY DEF Pristine
<1> QED BY <1>1, <1>2, <1>3, <1>4, <1>5, Zenon DEF Finished

LEMMA MissingOwn ==
  ASSUME RegistryInv, NEW table, NEW r \in Records, NEW h \in Nat
  PROVE  /\ MissingEvents(table, r, h) \in Seq(OwnRows(r, h))
         /\ Paired(MissingEvents(table, r, h))
<1> DEFINE have == {e.action : e \in {x \in Range(table) : x.subject = r}}
           submitter == IF Submitter[r] = None THEN System("migration_backfill")
                        ELSE Account(Submitter[r])
           backfill == System("migration_backfill")
           lineage == fields[r].lineage
           revision == Inferred(r, "revision_created", submitter, h)
           submission == Inferred(r, "submitted", submitter, h)
           approval == Inferred(r, "approved", backfill, h)
           publication == Inferred(r, "published", backfill, h)
           withdrawal == Inferred(r, "withdrawn", backfill, h)
           linked == IF lineage = None \/ "revision_created" \in have THEN <<>>
                     ELSE <<[revision EXCEPT !.predecessor = lineage]>>
           entered == IF have \cap Entered # {} THEN <<>>
                      ELSE <<[submission EXCEPT !.projected = state[r], !.snapshot = KindOf[r]]>>
           shown == IF state[r] \notin Public \/ "published" \in have THEN <<>>
                    ELSE <<approval, [publication EXCEPT !.cause = 1]>>
           left == IF state[r] # "withdrawn" \/ "withdrawn" \in have THEN <<>>
                   ELSE <<withdrawal>>
           T == OwnRows(r, h)
<1>1. submitter \in Actors /\ backfill \in Actors
  BY Zenon DEF Actors, System, Account
<1>2. revision \in T /\ submission \in T /\ approval \in T /\ publication \in T /\ withdrawal \in T
  <2> HIDE DEF submitter, backfill
  <2> QED BY <1>1, InferredOwn, Zenon
<1>12. /\ revision.cause = 0 /\ submission.cause = 0 /\ withdrawal.cause = 0
       /\ approval.cause = 0 /\ approval.action = "approved" /\ publication.action = "published"
  <2> HIDE DEF submitter, backfill
  <2> QED BY <1>1, InferredOwn
<1>3. lineage = None \/ lineage \in Records
  BY LifecycleAssumption DEF RegistryInv, Inv, TypeOK, None
<1> HIDE DEF revision, submission, approval, publication, withdrawal, T, lineage, have
<1>13. /\ revision \in Row /\ submission \in Row /\ publication \in Row
  BY <1>2, Zenon DEF T, OwnRows
<1>4. linked \in Seq(T) /\ Paired(linked)
  <2>1. CASE lineage = None \/ "revision_created" \in have
    <3>1. linked = <<>>
      BY <2>1
    <3> QED BY <1>2, <3>1, ShortSequences, PairedShort, Zenon
  <2>2. CASE ~(lineage = None \/ "revision_created" \in have)
    <3>1. [revision EXCEPT !.predecessor = lineage] \in T
      BY <1>2, <1>3, <2>2, OwnWritten, Zenon DEF T
    <3>2. [revision EXCEPT !.predecessor = lineage].cause = revision.cause
      BY <1>13, Zenon DEF Row
    <3> DEFINE e == [revision EXCEPT !.predecessor = lineage]
    <3>3. linked = <<e>> /\ e \in T /\ e.cause = 0
      BY <1>12, <2>2, <3>1, <3>2
    <3> HIDE DEF e, linked
    <3> QED BY <3>3, ShortSequences, PairedShort, Zenon
  <2> QED BY <2>1, <2>2
<1>5. entered \in Seq(T) /\ Paired(entered)
  <2>1. [submission EXCEPT !.projected = state[r], !.snapshot = KindOf[r]] \in T
    BY <1>2, OwnWritten, Zenon DEF T
  <2>2. [submission EXCEPT !.projected = state[r], !.snapshot = KindOf[r]].cause = submission.cause
    BY <1>13, Zenon DEF Row
  <2> DEFINE e == [submission EXCEPT !.projected = state[r], !.snapshot = KindOf[r]]
  <2>3. (entered = <<>> \/ entered = <<e>>) /\ e \in T /\ e.cause = 0
    BY <1>12, <2>1, <2>2
  <2> HIDE DEF e, entered
  <2> QED BY <2>3, ShortSequences, PairedShort, Zenon
<1>6. shown \in Seq(T) /\ Paired(shown)
  <2>1. 1 \in Nat
    OBVIOUS
  <2>2. [publication EXCEPT !.cause = 1] \in T
    BY <1>2, <2>1, OwnWritten, Zenon DEF T
  <2>3. [publication EXCEPT !.cause = 1].action = publication.action
    BY <1>13, Zenon DEF Row
  <2> DEFINE e == [publication EXCEPT !.cause = 1]
  <2>4. (shown = <<>> \/ shown = <<approval, e>>) /\ e \in T /\ e.action = "published"
    BY <1>12, <2>2, <2>3
  <2> HIDE DEF e, shown
  <2> QED BY <1>2, <1>12, <2>4, ShortSequences, PairedShort, Zenon
<1>7. left \in Seq(T) /\ Paired(left)
  <2>1. left = <<>> \/ left = <<withdrawal>>
    OBVIOUS
  <2> HIDE DEF left
  <2> QED BY <1>2, <1>12, <2>1, ShortSequences, PairedShort, Zenon
<1>8. MissingEvents(table, r, h) = ((linked \o entered) \o shown) \o left
  BY Zenon DEF MissingEvents, revision, submission, approval, publication, withdrawal, lineage, have
<1> HIDE DEF linked, entered, shown, left
<1>9. linked \o entered \in Seq(T) /\ Paired(linked \o entered)
  BY <1>4, <1>5, Concatenation, PairedConcatenation, Zenon
<1>10. /\ (linked \o entered) \o shown \in Seq(T)
       /\ Paired((linked \o entered) \o shown)
  BY <1>6, <1>9, Concatenation, PairedConcatenation, Zenon
<1>11. /\ ((linked \o entered) \o shown) \o left \in Seq(T)
       /\ Paired(((linked \o entered) \o shown) \o left)
  BY <1>7, <1>10, Concatenation, PairedConcatenation, Zenon
<1> QED BY <1>8, <1>11, Zenon DEF T

(* What 0006 infers of a record, in its order.                              *)
WithPredecessor(e, q) == [e EXCEPT !.predecessor = q]
WithEntry(e, s, kind) == [e EXCEPT !.projected = s, !.snapshot = kind]

LEMMA RowLinked ==
  ASSUME NEW e \in Row, NEW q
  PROVE  /\ WithPredecessor(e, q).subject = e.subject /\ WithPredecessor(e, q).action = e.action
         /\ WithPredecessor(e, q).actor = e.actor /\ WithPredecessor(e, q).predecessor = q
BY Zenon DEF Row, WithPredecessor

LEMMA RowEntered ==
  ASSUME NEW e \in Row, NEW s, NEW kind
  PROVE  /\ WithEntry(e, s, kind).subject = e.subject /\ WithEntry(e, s, kind).action = e.action
         /\ WithEntry(e, s, kind).actor = e.actor /\ WithEntry(e, s, kind).projected = s
         /\ WithEntry(e, s, kind).snapshot = kind
BY Zenon DEF Row, WithEntry

MissingRow(e, r, have) ==
  /\ e.subject = r /\ ActorValid(e)
  /\ e.action \in {"revision_created", "submitted", "approved", "published", "withdrawn"}
  /\ e.action = "revision_created" =>
       /\ e.predecessor = fields[r].lineage /\ fields[r].lineage # None
       /\ "revision_created" \notin have
  /\ e.action = "submitted" =>
       /\ e.projected = state[r] /\ e.snapshot = KindOf[r]
       /\ "submitted" \notin have /\ "resubmitted" \notin have
  /\ e.action \in {"approved", "published"} => state[r] \in Public /\ "published" \notin have
  /\ e.action = "withdrawn" => state[r] = "withdrawn" /\ "withdrawn" \notin have
  /\ e.action \in {"published", "withdrawn"} => e.actor = System("migration_backfill")

Place(action) ==
  CASE action = "revision_created" -> 0
    [] action = "submitted"        -> 1
    [] action = "approved"         -> 2
    [] action = "published"        -> 3
    [] OTHER                       -> 4

Told(s, r, have, lo, hi) ==
  /\ \A i \in DOMAIN s : MissingRow(s[i], r, have) /\ Place(s[i].action) \in lo..hi
  /\ \A i, j \in DOMAIN s : i < j => Place(s[i].action) < Place(s[j].action)

Made(s) == {s[i].action : i \in DOMAIN s}

LEMMA ToldConcatenation ==
  ASSUME NEW T, NEW s \in Seq(T), NEW t \in Seq(T), NEW r, NEW have,
         NEW lo \in Nat, NEW mid \in Nat, NEW next \in Nat, NEW hi \in Nat,
         lo <= mid, mid < next, next <= hi,
         Told(s, r, have, lo, mid), Told(t, r, have, next, hi)
  PROVE  Told(s \o t, r, have, lo, hi) /\ Made(s \o t) = Made(s) \cup Made(t)
<1> DEFINE m == Len(s)
           n == Len(t)
           both == s \o t
<1>1. /\ m \in Nat /\ n \in Nat
      /\ DOMAIN s = 1..m /\ DOMAIN t = 1..n /\ DOMAIN both = 1..(m + n)
      /\ \A i \in 1..m : both[i] = s[i]
      /\ \A i \in 1..n : both[m + i] = t[i]
  <2>1. m \in Nat /\ n \in Nat /\ DOMAIN s = 1..m /\ DOMAIN t = 1..n
    OBVIOUS
  <2> QED BY <2>1, Concatenation
<1> HIDE DEF both, m, n
<1>2. ASSUME NEW i \in DOMAIN both
      PROVE  \/ i \in 1..m /\ both[i] = s[i]
             \/ i \notin 1..m /\ i - m \in 1..n /\ both[i] = t[i - m]
  <2>1. CASE i \in 1..m
    BY <1>1, <2>1
  <2>2. CASE i \notin 1..m
    <3> DEFINE j == i - m
    <3>1. j \in 1..n /\ i = m + j
      BY <1>1, <2>2
    <3> HIDE DEF j
    <3>2. both[i] = t[j]
      BY <1>1, <3>1
    <3> QED BY <2>2, <3>1, <3>2 DEF j
  <2> QED BY <2>1, <2>2
<1>3. ASSUME NEW i \in 1..m
      PROVE  MissingRow(s[i], r, have) /\ Place(s[i].action) \in lo..mid
  BY <1>1, Zenon DEF Told
<1>4. ASSUME NEW i \in 1..n
      PROVE  MissingRow(t[i], r, have) /\ Place(t[i].action) \in next..hi
  BY <1>1, Zenon DEF Told
<1>5. ASSUME NEW i \in DOMAIN both
      PROVE  MissingRow(both[i], r, have) /\ Place(both[i].action) \in lo..hi
  <2>1. CASE i \in 1..m
    <3>1. both[i] = s[i] /\ MissingRow(s[i], r, have) /\ Place(s[i].action) \in lo..mid
      BY <1>1, <1>3, <2>1
    <3>2. Place(s[i].action) \in lo..hi
      BY <3>1
    <3> QED BY <3>1, <3>2, Zenon
  <2>2. CASE i \notin 1..m
    <3>1. i - m \in 1..n /\ both[i] = t[i - m]
      BY <1>2, <2>2
    <3>2. MissingRow(t[i - m], r, have) /\ Place(t[i - m].action) \in next..hi
      BY <1>4, <3>1
    <3>3. Place(t[i - m].action) \in lo..hi
      BY <3>2
    <3> QED BY <3>1, <3>2, <3>3, Zenon
  <2> QED BY <2>1, <2>2
<1>6. ASSUME NEW i \in DOMAIN both, NEW j \in DOMAIN both, i < j
      PROVE  Place(both[i].action) < Place(both[j].action)
  <2>1. i \in Nat /\ j \in Nat
    BY <1>1
  <2>2. CASE j \in 1..m
    <3>1. i \in 1..m
      BY <1>1, <1>6, <2>1, <2>2
    <3>2. Place(s[i].action) < Place(s[j].action)
      BY <1>1, <1>6, <2>2, <3>1, Zenon DEF Told
    <3> QED BY <1>1, <2>2, <3>1, <3>2
  <2>3. CASE i \in 1..m /\ j \notin 1..m
    <3>1. Place(s[i].action) \in lo..mid /\ both[i] = s[i]
      BY <1>1, <1>3, <2>3
    <3>2. j - m \in 1..n /\ both[j] = t[j - m]
      BY <1>2, <2>3
    <3>3. Place(t[j - m].action) \in next..hi
      BY <1>4, <3>2
    <3> QED BY <3>1, <3>2, <3>3
  <2>4. CASE i \notin 1..m /\ j \notin 1..m
    <3>1. /\ i - m \in 1..n /\ both[i] = t[i - m]
          /\ j - m \in 1..n /\ both[j] = t[j - m]
      BY <1>2, <2>4
    <3>2. i - m < j - m
      BY <1>1, <1>6, <2>1
    <3>3. Place(t[i - m].action) < Place(t[j - m].action)
      BY <1>1, <3>1, <3>2, Zenon DEF Told
    <3> QED BY <3>1, <3>3
  <2> QED BY <2>2, <2>3, <2>4
<1>7. Told(both, r, have, lo, hi)
  BY <1>5, <1>6, Zenon DEF Told
<1>8. ASSUME NEW a \in Made(both) PROVE a \in Made(s) \cup Made(t)
  <2>1. PICK i \in DOMAIN both : a = both[i].action
    BY Zenon DEF Made
  <2>2. (i \in DOMAIN s /\ a = s[i].action) \/ (i - m \in DOMAIN t /\ a = t[i - m].action)
    BY <1>1, <1>2, <2>1
  <2> QED BY <2>2, Zenon DEF Made
<1>9. ASSUME NEW a \in Made(s) \cup Made(t) PROVE a \in Made(both)
  <2>1. CASE a \in Made(s)
    <3>1. PICK i \in DOMAIN s : a = s[i].action
      BY <2>1, Zenon DEF Made
    <3>2. i \in DOMAIN both /\ a = both[i].action
      BY <1>1, <3>1
    <3> QED BY <3>2, Zenon DEF Made
  <2>2. CASE a \in Made(t)
    <3>1. PICK i \in DOMAIN t : a = t[i].action
      BY <2>2, Zenon DEF Made
    <3>2. m + i \in DOMAIN both /\ a = both[m + i].action
      BY <1>1, <3>1
    <3> QED BY <3>2, Zenon DEF Made
  <2> QED BY <2>1, <2>2
<1>10. Made(both) = Made(s) \cup Made(t)
  BY <1>8, <1>9
<1> QED BY <1>7, <1>10 DEF both

LEMMA ToldShort ==
  ASSUME NEW x, NEW y, NEW r, NEW have, NEW lo \in Nat, NEW hi \in Nat
  PROVE  /\ Told(<<>>, r, have, lo, hi)
         /\ MissingRow(x, r, have) /\ Place(x.action) \in lo..hi
              => Told(<<x>>, r, have, lo, hi) /\ x.action \in Made(<<x>>)
         /\ (/\ MissingRow(x, r, have) /\ MissingRow(y, r, have) /\ Place(x.action) < Place(y.action)
             /\ Place(x.action) \in lo..hi /\ Place(y.action) \in lo..hi)
              => Told(<<x, y>>, r, have, lo, hi) /\ y.action \in Made(<<x, y>>)
<1>1. Told(<<>>, r, have, lo, hi)
  BY DEF Told
<1>2. ASSUME MissingRow(x, r, have), Place(x.action) \in lo..hi
      PROVE  Told(<<x>>, r, have, lo, hi) /\ x.action \in Made(<<x>>)
  <2>1. DOMAIN <<x>> = {1} /\ <<x>>[1] = x
    OBVIOUS
  <2> DEFINE s == <<x>>
  <2> HIDE DEF s
  <2>2. DOMAIN s = {1} /\ s[1] = x
    BY <2>1 DEF s
  <2>3. x.action \in Made(s)
    BY <2>2, Zenon DEF Made
  <2>4. Told(s, r, have, lo, hi)
    BY <1>2, <2>2 DEF Told
  <2> QED BY <2>3, <2>4 DEF s
<1>3. ASSUME MissingRow(x, r, have), MissingRow(y, r, have), Place(x.action) < Place(y.action),
             Place(x.action) \in lo..hi, Place(y.action) \in lo..hi
      PROVE  Told(<<x, y>>, r, have, lo, hi) /\ y.action \in Made(<<x, y>>)
  <2>1. DOMAIN <<x, y>> = {1, 2} /\ <<x, y>>[1] = x /\ <<x, y>>[2] = y
    OBVIOUS
  <2> DEFINE s == <<x, y>>
  <2> HIDE DEF s
  <2>2. DOMAIN s = {1, 2} /\ s[1] = x /\ s[2] = y
    BY <2>1 DEF s
  <2>3. y.action \in Made(s)
    BY <2>2, Zenon DEF Made
  <2>4. Told(s, r, have, lo, hi)
    BY <1>3, <2>2 DEF Told
  <2> QED BY <2>3, <2>4 DEF s
<1> QED BY <1>1, <1>2, <1>3, Zenon

LEMMA MissingTold ==
  ASSUME NEW table \in Seq(Row), NEW r \in Records, NEW h \in Nat,
         RegistryInv
  PROVE  LET have == Have(table, r)
             new  == MissingEvents(table, r, h)
         IN  Told(new, r, have, 0, 4) /\ Complete(r, have \cup Made(new))
<1> DEFINE have == {e.action : e \in {x \in Range(table) : x.subject = r}}
           submitter == IF Submitter[r] = None THEN System("migration_backfill")
                        ELSE Account(Submitter[r])
           backfill == System("migration_backfill")
           lineage == fields[r].lineage
           revision == Inferred(r, "revision_created", submitter, h)
           submission == Inferred(r, "submitted", submitter, h)
           approval == Inferred(r, "approved", backfill, h)
           publication == Inferred(r, "published", backfill, h)
           withdrawal == Inferred(r, "withdrawn", backfill, h)
           linked == IF lineage = None \/ "revision_created" \in have THEN <<>>
                     ELSE <<[revision EXCEPT !.predecessor = lineage]>>
           entered == IF have \cap Entered # {} THEN <<>>
                      ELSE <<[submission EXCEPT !.projected = state[r], !.snapshot = KindOf[r]]>>
           shown == IF state[r] \notin Public \/ "published" \in have THEN <<>>
                    ELSE <<approval, [publication EXCEPT !.cause = 1]>>
           left == IF state[r] # "withdrawn" \/ "withdrawn" \in have THEN <<>>
                   ELSE <<withdrawal>>
<1>1. have = Have(table, r)
  <2>1. Range(table) = {table[i] : i \in DOMAIN table}
    BY DEF Range
  <2>2. ASSUME NEW a \in have PROVE a \in Have(table, r)
    <3>1. PICK e \in Range(table) : e.subject = r /\ a = e.action
      BY Zenon
    <3>2. PICK i \in DOMAIN table : e = table[i]
      BY <2>1, Zenon
    <3>3. i \in Own(table, r) /\ a = table[i].action
      BY <3>1, <3>2, Zenon DEF Own
    <3> QED BY <3>3, Zenon DEF Have
  <2>3. ASSUME NEW a \in Have(table, r) PROVE a \in have
    <3>1. PICK i \in Own(table, r) : a = table[i].action
      BY <2>3, Zenon DEF Have
    <3>2. table[i] \in Range(table) /\ table[i].subject = r
      BY <2>1, <3>1, Zenon DEF Own
    <3> QED BY <3>1, <3>2, Zenon
  <2> HIDE DEF have
  <2> QED BY <2>2, <2>3
<1>2. submitter \in Actors /\ backfill \in Actors
  BY Zenon DEF Actors, System, Account
<1>3. revision \in Row /\ submission \in Row /\ publication \in Row
  <2> HIDE DEF submitter, backfill
  <2>1. /\ revision \in OwnRows(r, h) /\ submission \in OwnRows(r, h)
        /\ publication \in OwnRows(r, h)
    BY <1>2, InferredOwn, Zenon
  <2> QED BY <2>1, Zenon DEF OwnRows
<1>4. /\ revision.subject = r /\ revision.action = "revision_created" /\ revision.actor = submitter
      /\ submission.subject = r /\ submission.action = "submitted" /\ submission.actor = submitter
      /\ approval.subject = r /\ approval.action = "approved" /\ approval.actor = backfill
      /\ publication.subject = r /\ publication.action = "published"
      /\ publication.actor = backfill
      /\ withdrawal.subject = r /\ withdrawal.action = "withdrawn" /\ withdrawal.actor = backfill
  <2> HIDE DEF submitter, backfill
  <2> QED BY InferredContent
<1>5. ASSUME NEW e, e.actor \in {submitter, backfill} PROVE ActorValid(e)
  <2>1. CASE e.actor = backfill
    BY <2>1, ActorsValid, Zenon
  <2>2. CASE e.actor = submitter
    <3>1. CASE Submitter[r] = None
      BY <2>2, <3>1, ActorsValid, Zenon
    <3>2. CASE Submitter[r] # None
      BY <2>2, <3>2, ActorsValid, Zenon
    <3> QED BY <3>1, <3>2
  <2> HIDE DEF submitter, backfill
  <2> QED BY <1>5, <2>1, <2>2
<1>6. "submitted" \in have \/ "resubmitted" \in have <=> have \cap Entered # {}
  <2> HIDE DEF have
  <2> QED BY DEF Entered
<1>7. /\ Place("revision_created") = 0 /\ Place("submitted") = 1 /\ Place("approved") = 2
      /\ Place("published") = 3 /\ Place("withdrawn") = 4
  BY DEF Place
<1> DEFINE first == WithPredecessor(revision, lineage)
           second == WithEntry(submission, state[r], KindOf[r])
           fourth == WithCause(publication, 1)
<1>8. /\ linked = IF lineage = None \/ "revision_created" \in have THEN <<>> ELSE <<first>>
      /\ entered = IF have \cap Entered # {} THEN <<>> ELSE <<second>>
      /\ shown = IF state[r] \notin Public \/ "published" \in have THEN <<>>
                 ELSE <<approval, fourth>>
  <2> HIDE DEF have, lineage, revision, submission, approval, publication
  <2> QED BY Zenon DEF WithPredecessor, WithEntry, WithCause
<1> HIDE DEF revision, submission, approval, publication, withdrawal
<1>9. /\ first.subject = r /\ first.action = "revision_created" /\ first.actor = submitter
      /\ first.predecessor = lineage
      /\ second.subject = r /\ second.action = "submitted" /\ second.actor = submitter
      /\ second.projected = state[r] /\ second.snapshot = KindOf[r]
      /\ fourth.subject = r /\ fourth.action = "published" /\ fourth.actor = backfill
  <2> HIDE DEF submitter, backfill, have, lineage
  <2>1. SameContent(WithCause(publication, 1), publication)
    BY <1>3, ContentKept, Zenon
  <2>2. /\ first.subject = r /\ first.action = "revision_created" /\ first.actor = submitter
        /\ first.predecessor = lineage
    BY <1>3, <1>4, RowLinked
  <2>3. /\ second.subject = r /\ second.action = "submitted" /\ second.actor = submitter
        /\ second.projected = state[r] /\ second.snapshot = KindOf[r]
    BY <1>3, <1>4, RowEntered
  <2>4. fourth.subject = r /\ fourth.action = "published" /\ fourth.actor = backfill
    BY <1>4, <2>1, Zenon DEF SameContent
  <2> QED BY <2>2, <2>3, <2>4
<1>10. /\ ActorValid(first) /\ ActorValid(second) /\ ActorValid(approval) /\ ActorValid(fourth)
       /\ ActorValid(withdrawal)
  <2> HIDE DEF submitter, backfill, first, second, fourth
  <2> QED BY <1>4, <1>5, <1>9
<1> HIDE DEF first, second, fourth, submitter, linked, entered, shown
<1>11. Told(linked, r, have, 0, 0) /\ (lineage = None \/ "revision_created" \in have \cup Made(linked))
  <2> HIDE DEF have
  <2>1. CASE lineage = None \/ "revision_created" \in have
    <3>1. linked = <<>>
      BY <1>8, <2>1
    <3> QED BY <2>1, <3>1, ToldShort
  <2>2. CASE ~(lineage = None \/ "revision_created" \in have)
    <3>1. linked = <<first>>
      BY <1>8, <2>2
    <3>2. MissingRow(first, r, have)
      BY <1>9, <1>10, <2>2 DEF MissingRow
    <3>3. Place(first.action) \in 0..0
      BY <1>7, <1>9
    <3>4. Told(<<first>>, r, have, 0, 0) /\ first.action \in Made(<<first>>)
      BY <3>2, <3>3, ToldShort
    <3> QED BY <1>9, <3>1, <3>4
  <2> QED BY <2>1, <2>2
<1>12. /\ Told(entered, r, have, 1, 1)
       /\ "submitted" \in have \cup Made(entered) \/ "resubmitted" \in have
  <2> HIDE DEF have
  <2>1. CASE have \cap Entered # {}
    <3>1. entered = <<>>
      BY <1>8, <2>1
    <3> QED BY <1>6, <2>1, <3>1, ToldShort
  <2>2. CASE have \cap Entered = {}
    <3>1. entered = <<second>>
      BY <1>8, <2>2
    <3>2. MissingRow(second, r, have)
      BY <1>6, <1>9, <1>10, <2>2 DEF MissingRow
    <3>3. Place(second.action) \in 1..1
      BY <1>7, <1>9
    <3>4. Told(<<second>>, r, have, 1, 1) /\ second.action \in Made(<<second>>)
      BY <3>2, <3>3, ToldShort
    <3> QED BY <1>9, <3>1, <3>4
  <2> QED BY <2>1, <2>2
<1>13. /\ Told(shown, r, have, 2, 3)
       /\ state[r] \in Public => "published" \in have \cup Made(shown)
  <2> HIDE DEF have
  <2>1. CASE state[r] \notin Public \/ "published" \in have
    <3>1. shown = <<>>
      BY <1>8, <2>1
    <3> QED BY <2>1, <3>1, ToldShort
  <2>2. CASE ~(state[r] \notin Public \/ "published" \in have)
    <3>1. shown = <<approval, fourth>>
      BY <1>8, <2>2
    <3>2. MissingRow(approval, r, have) /\ MissingRow(fourth, r, have)
      BY <1>4, <1>9, <1>10, <2>2 DEF MissingRow
    <3>3. /\ Place(approval.action) \in 2..3 /\ Place(fourth.action) \in 2..3
          /\ Place(approval.action) < Place(fourth.action)
      BY <1>4, <1>7, <1>9
    <3>4. /\ Told(<<approval, fourth>>, r, have, 2, 3)
          /\ fourth.action \in Made(<<approval, fourth>>)
      BY <3>2, <3>3, ToldShort
    <3> QED BY <1>9, <3>1, <3>4
  <2> QED BY <2>1, <2>2
<1>14. /\ Told(left, r, have, 4, 4)
       /\ state[r] = "withdrawn" => "withdrawn" \in have \cup Made(left)
  <2> HIDE DEF have
  <2>1. CASE state[r] # "withdrawn" \/ "withdrawn" \in have
    <3>1. left = <<>>
      BY <2>1
    <3> QED BY <2>1, <3>1, ToldShort
  <2>2. CASE ~(state[r] # "withdrawn" \/ "withdrawn" \in have)
    <3>1. left = <<withdrawal>>
      BY <2>2
    <3>2. MissingRow(withdrawal, r, have)
      BY <1>4, <1>10, <2>2 DEF MissingRow
    <3>3. Place(withdrawal.action) \in 4..4
      BY <1>4, <1>7
    <3>4. Told(<<withdrawal>>, r, have, 4, 4) /\ withdrawal.action \in Made(<<withdrawal>>)
      BY <3>2, <3>3, ToldShort
    <3> QED BY <1>4, <3>1, <3>4
  <2> QED BY <2>1, <2>2
<1> DEFINE T == {first, second, approval, fourth, withdrawal}
<1>15. linked \in Seq(T) /\ entered \in Seq(T) /\ shown \in Seq(T) /\ left \in Seq(T)
  <2> HIDE DEF have
  <2>1. /\ first \in T /\ second \in T /\ approval \in T /\ fourth \in T /\ withdrawal \in T
    OBVIOUS
  <2>2. /\ linked = <<>> \/ linked = <<first>>
        /\ entered = <<>> \/ entered = <<second>>
        /\ shown = <<>> \/ shown = <<approval, fourth>>
        /\ left = <<>> \/ left = <<withdrawal>>
    BY <1>8
  <2> HIDE DEF T, left
  <2> QED BY <2>1, <2>2, ShortSequences, Zenon
<1>16. MissingEvents(table, r, h) = ((linked \o entered) \o shown) \o left
  BY Zenon DEF MissingEvents, linked, entered, shown, revision, submission, approval, publication,
               withdrawal, submitter
<1> HIDE DEF have, T, left, lineage
<1> DEFINE two == linked \o entered
           three == two \o shown
           four == three \o left
<1>17. /\ two \in Seq(T) /\ Told(two, r, have, 0, 1)
       /\ Made(two) = Made(linked) \cup Made(entered)
  BY <1>11, <1>12, <1>15, ToldConcatenation, Concatenation
<1> HIDE DEF two
<1>18. /\ three \in Seq(T) /\ Told(three, r, have, 0, 3)
       /\ Made(three) = Made(two) \cup Made(shown)
  BY <1>13, <1>15, <1>17, ToldConcatenation, Concatenation
<1> HIDE DEF three
<1>19. Told(four, r, have, 0, 4) /\ Made(four) = Made(three) \cup Made(left)
  BY <1>14, <1>15, <1>18, ToldConcatenation
<1> HIDE DEF four
<1>20. Complete(r, have \cup Made(four))
  BY <1>11, <1>12, <1>13, <1>14, <1>17, <1>18, <1>19 DEF Complete, lineage
<1>21. MissingEvents(table, r, h) = four
  BY <1>16 DEF two, three, four
<1> QED BY <1>1, <1>19, <1>20, <1>21

\* A longer table whose new rows say, in their order, what new says.
Completes(table, new, h, longer) ==
  /\ DOMAIN table \subseteq DOMAIN longer
  /\ \A i \in DOMAIN table : longer[i] = table[i]
  /\ \A i \in DOMAIN longer : i \notin DOMAIN table =>
       \E j \in DOMAIN new : i = Len(table) + j
  /\ \A j \in DOMAIN new :
       /\ Len(table) + j \in DOMAIN longer /\ Len(table) + j \notin DOMAIN table
       /\ SameContent(longer[Len(table) + j], new[j])
       /\ longer[Len(table) + j].history = h
       /\ longer[Len(table) + j].sequence = LastSequence(table, h) + j

LEMMA InferMissingKeeps ==
  ASSUME RegistryInv, NEW grouped, NEW table, Sound(table, grouped), CausesFirst(table),
         NEW r \in Range(created), r \in Records, grouped[r] \in Nat
  PROVE  LET longer == InferMissing(grouped, table, r) IN
         /\ Sound(longer, grouped) /\ CausesFirst(longer)
         /\ Completes(table, MissingEvents(table, r, grouped[r]), grouped[r], longer)
         /\ Chained(table) => Chained(longer)
<1> DEFINE h == grouped[r]
           new == MissingEvents(table, r, h)
           T == OwnRows(r, h)
           caused == [i \in 1..Len(new) |-> IF new[i].cause = 0 THEN new[i]
                                            ELSE [new[i] EXCEPT !.cause = Len(table) + i - 1]]
<1>1. new \in Seq(T) /\ Paired(new)
  <2>1. r \in Records
    OBVIOUS
  <2> QED BY <2>1, MissingOwn, Zenon
<1> HIDE DEF new
<1>2. Len(new) \in Nat /\ Len(table) \in Nat /\ \A i \in 1..Len(new) : new[i] \in T
  <2>1. table \in Seq(Row)
    BY DEF Sound
  <2> HIDE DEF T
  <2> QED BY <1>1, <2>1
<1>3. \A i \in 1..Len(new) : caused[i] \in T
  <2> SUFFICES ASSUME NEW i \in 1..Len(new) PROVE caused[i] \in T
    BY Zenon
  <2>1. Len(table) + i - 1 \in Nat
    BY <1>2
  <2>2. [new[i] EXCEPT !.cause = Len(table) + i - 1] \in T
    BY <1>2, <2>1, OwnWritten, Zenon
  <2> HIDE DEF T
  <2> QED BY <1>2, <2>2, Zenon
<1>10. \A i \in 1..Len(new) :
         /\ caused[i].action = new[i].action /\ SameContent(caused[i], new[i])
         /\ caused[i].cause = IF new[i].cause = 0 THEN 0 ELSE Len(table) + i - 1
  <2> SUFFICES ASSUME NEW i \in 1..Len(new)
               PROVE  /\ caused[i].action = new[i].action /\ SameContent(caused[i], new[i])
                      /\ caused[i].cause = IF new[i].cause = 0 THEN 0 ELSE Len(table) + i - 1
    BY Zenon
  <2> DEFINE e == new[i]
             n == Len(table) + i - 1
             d == WithCause(e, n)
  <2>1. e \in Row /\ n \in Nat
    BY <1>2 DEF OwnRows
  <2>2. caused[i] = IF e.cause = 0 THEN e ELSE d
    BY Zenon DEF WithCause
  <2> HIDE DEF e, n, caused
  <2>3. d.action = e.action /\ d.cause = n
    BY <2>1, RowCaused
  <2>4. SameContent(e, e) /\ SameContent(d, e)
    BY <2>1, ContentKept, Zenon
  <2> HIDE DEF d
  <2> QED BY <2>2, <2>3, <2>4 DEF e, n
<1>4. caused \in Seq(T) /\ DOMAIN caused = 1..Len(new)
  <2>1. caused = [i \in 1..Len(new) |-> caused[i]]
    BY Zenon
  <2> HIDE DEF caused, T
  <2>2. caused \in [1..Len(new) -> T]
    BY <1>3, <2>1, Zenon
  <2> QED BY <1>2, <2>2
<1> HIDE DEF caused
<1>5. \A i \in DOMAIN caused : caused[i] \in Row /\ caused[i].subject = r /\ caused[i].history = h
  BY <1>3, <1>4, Zenon DEF OwnRows
<1>6. caused \in Seq(Row)
  <2>1. T \subseteq Row
    BY Zenon DEF OwnRows
  <2> HIDE DEF T
  <2> QED BY <1>4, <2>1
<1>7. Appendable(caused, h, grouped)
  BY <1>5, <1>6, Zenon DEF Appendable
<1>8. InferMissing(grouped, table, r) = AppendAll(table, h, caused)
  BY Zenon DEF InferMissing, caused, new
<1> DEFINE longer == AppendAll(table, h, caused)
           last == LastSequence(table, h)
           m == Len(table)
           n == Len(new)
<1>9. Sound(longer, grouped) /\ Appended(table, caused, h, longer)
  BY <1>7, AppendAllKeeps, Zenon
<1>11. last \in Nat
  <2>1. table \in Seq(Row)
    BY DEF Sound
  <2> QED BY <2>1, LastSequenceBounds
<1>12. Len(caused) = n
  <2> HIDE DEF T
  <2> QED BY <1>2, <1>4
<1>13. table \in Seq(Row) /\ DOMAIN table = 1..m /\ m \in Nat
  BY DEF Sound
<1> HIDE DEF longer, last, m, n
<1>14. /\ DOMAIN table \subseteq DOMAIN longer /\ DOMAIN longer = 1..(m + n)
       /\ \A i \in DOMAIN table : longer[i] = table[i]
       /\ \A j \in 1..n : /\ m + j \in DOMAIN longer
                          /\ longer[m + j].subject = caused[j].subject
                          /\ longer[m + j].action = caused[j].action
                          /\ longer[m + j].cause = caused[j].cause
                          /\ longer[m + j].history = h
                          /\ longer[m + j].sequence = last + j
                          /\ longer[m + j] = WithNumber(caused[j], last + j)
  BY <1>9, <1>12, Zenon DEF Appended, last, m
<1>15. \A j \in 1..n : longer[m + j].subject = r
  BY <1>4, <1>5, <1>14, Zenon DEF n
<1>16. ASSUME NEW i \in DOMAIN longer, i \notin DOMAIN table, longer[i].cause # 0
       PROVE  CausedBy(longer, i)
  <2> DEFINE j == i - m
             k == j - 1
  <2>1. j \in 1..n /\ i = m + j /\ n \in Nat
    BY <1>2, <1>13, <1>14, <1>16 DEF n
  <2> HIDE DEF j
  <2>2. caused[j].cause # 0
    BY <1>14, <1>16, <2>1, Zenon
  <2>3. new[j].cause # 0 /\ caused[j].cause = m + j - 1
    BY <1>10, <2>1, <2>2 DEF n, m
  <2>4. DOMAIN new = 1..n
    <3> HIDE DEF T
    <3> QED BY <1>1 DEF n
  <2>5. new[j].action = "published" /\ k \in 1..n /\ new[k].action = "approved"
    BY <1>1, <2>1, <2>3, <2>4, Zenon DEF Paired
  <2>6. m + k = m + j - 1 /\ last + k < last + j
    BY <1>11, <1>13, <2>1
  <2> HIDE DEF k
  <2>7. longer[i].cause = m + k
    BY <1>14, <2>1, <2>3, <2>6, Zenon
  <2>8. longer[i].action = "published" /\ longer[m + k].action = "approved"
    BY <1>10, <1>14, <2>1, <2>5, Zenon DEF n
  <2>9. longer[i].sequence = last + j /\ longer[m + k].sequence = last + k
    BY <1>14, <2>1, <2>5, Zenon
  <2>10. longer[i].subject = r /\ longer[m + k].subject = r /\ m + k \in DOMAIN longer
    BY <1>14, <1>15, <2>1, <2>5, Zenon
  <2> QED BY <2>6, <2>7, <2>8, <2>9, <2>10 DEF CausedBy
<1>17. CausesFirst(longer)
  <2>1. \A i \in DOMAIN table :
          SameColumns(longer[i], table[i]) /\ longer[i].cause = table[i].cause
    BY <1>14, Zenon DEF SameColumns
  <2> QED BY <1>14, <1>16, <2>1, CausesExtended, Zenon
<1>18. Completes(table, new, h, longer)
  <2>1. DOMAIN new = 1..n
    <3> HIDE DEF T
    <3> QED BY <1>1 DEF n
  <2>2. ASSUME NEW i \in DOMAIN longer, i \notin DOMAIN table PROVE \E j \in 1..n : i = m + j
    <3>1. i - m \in 1..n /\ i = m + (i - m)
      BY <1>2, <1>13, <1>14, <2>2 DEF n
    <3> QED BY <3>1
  <2>3. ASSUME NEW j \in 1..n PROVE m + j \notin DOMAIN table
    BY <1>13
  <2>4. ASSUME NEW j \in 1..n PROVE SameContent(longer[m + j], new[j])
    <3>1. caused[j] \in Row /\ SameContent(caused[j], new[j])
      BY <1>4, <1>5, <1>10, Zenon DEF n
    <3>2. longer[m + j] = WithNumber(caused[j], last + j)
      BY <1>14, Zenon
    <3>3. SameContent(WithNumber(caused[j], last + j), caused[j])
      BY <3>1, ContentKept, Zenon
    <3>4. SameContent(longer[m + j], caused[j])
      BY <3>2, <3>3, Zenon
    <3> QED BY <3>1, <3>4, Zenon DEF SameContent
  <2> QED BY <1>14, <2>1, <2>2, <2>3, <2>4, Zenon DEF Completes, m, last
<1>19. Chained(table) => Chained(longer)
  BY <1>7, AppendAllChained, Zenon DEF longer
<1> QED BY <1>8, <1>9, <1>17, <1>18, <1>19, Zenon DEF longer, new

LEMMA GreatestRow ==
  ASSUME NEW table \in Seq(Row), NEW K, K \subseteq DOMAIN table, K # {}
  PROVE  \E i \in K : \A j \in K : table[j].sequence <= table[i].sequence
<1> DEFINE g == [i \in K |-> table[i].sequence]
<1>1. \A e \in Row : e.sequence \in Nat
  BY Zenon DEF Row
<1>2. \A i \in K : table[i].sequence \in Nat
  BY <1>1
<1>3. g \in [K -> Nat]
  BY <1>2
<1>4. IsFiniteSet(K)
  <2>1. DOMAIN table = 1..Len(table) /\ Len(table) \in Nat
    OBVIOUS
  <2>2. IsFiniteSet(1..Len(table))
    BY <2>1, FirstNumbers
  <2>3. K \in SUBSET (1..Len(table))
    BY <2>1
  <2> QED BY <2>2, <2>3, FS_Subset
<1>5. \A i \in K : g[i] = table[i].sequence
  OBVIOUS
<1>6. PICK i \in K : \A j \in K : g[j] <= g[i]
  <2> HIDE DEF g
  <2> QED BY <1>3, <1>4, GreatestMember
<1> HIDE DEF g
<1> QED BY <1>5, <1>6

\* The rows of r in the longer table: its old ones, then what was missing.
Continues(table, new, r, last, longer) ==
  /\ \A i \in Own(table, r) :
       i \in Own(longer, r) /\ longer[i] = table[i] /\ longer[i].sequence <= last
  /\ \A j \in DOMAIN new :
       /\ Len(table) + j \in Own(longer, r)
       /\ SameContent(longer[Len(table) + j], new[j])
       /\ longer[Len(table) + j].sequence = last + j
  /\ \A i \in Own(longer, r) : i \in Own(table, r) \/ \E j \in DOMAIN new : i = Len(table) + j
  /\ \A i \in Own(longer, r) : longer[i].sequence \in Nat
  /\ \A i, j \in Own(longer, r) : longer[i].sequence = longer[j].sequence => i = j

LEMMA CompletesContinues ==
  ASSUME NEW grouped, NEW table, NEW longer, Sound(table, grouped), Sound(longer, grouped),
         NEW r, NEW new, NEW have, \A j \in DOMAIN new : MissingRow(new[j], r, have),
         Completes(table, new, grouped[r], longer)
  PROVE  Continues(table, new, r, LastSequence(table, grouped[r]), longer)
<1> DEFINE m == Len(table)
           h == grouped[r]
           last == LastSequence(table, h)
<1>1. table \in Seq(Row) /\ longer \in Seq(Row)
  BY Zenon DEF Sound
<1>2. /\ DOMAIN table \subseteq DOMAIN longer
      /\ \A i \in DOMAIN table : longer[i] = table[i]
      /\ \A i \in DOMAIN longer : i \notin DOMAIN table => \E j \in DOMAIN new : i = m + j
      /\ \A j \in DOMAIN new : /\ m + j \in DOMAIN longer /\ m + j \notin DOMAIN table
                               /\ SameContent(longer[m + j], new[j])
                               /\ longer[m + j].sequence = last + j
  BY Zenon DEF Completes
<1>3. ASSUME NEW i \in Own(table, r)
      PROVE  i \in Own(longer, r) /\ longer[i] = table[i] /\ longer[i].sequence <= last
  <2>1. i \in DOMAIN table /\ table[i].subject = r /\ longer[i] = table[i] /\ i \in DOMAIN longer
    BY <1>2, Zenon DEF Own
  <2>2. table[i].history = h
    BY <2>1, Zenon DEF Sound
  <2>3. table[i].sequence <= last
    BY <1>1, <2>1, <2>2, LastSequenceBounds, Zenon
  <2>4. i \in Own(longer, r)
    BY <2>1, Zenon DEF Own
  <2> QED BY <2>1, <2>3, <2>4, Zenon
<1>4. ASSUME NEW j \in DOMAIN new PROVE m + j \in Own(longer, r)
  <2>1. longer[m + j].subject = r
    BY <1>2, Zenon DEF SameContent, MissingRow
  <2> QED BY <1>2, <2>1, Zenon DEF Own
<1>5. ASSUME NEW i \in Own(longer, r)
      PROVE  i \in Own(table, r) \/ \E j \in DOMAIN new : i = m + j
  <2>1. i \in DOMAIN longer /\ longer[i].subject = r
    BY Zenon DEF Own
  <2>2. CASE i \in DOMAIN table
    <3>1. table[i].subject = r
      BY <1>2, <2>1, <2>2, Zenon
    <3> QED BY <2>2, <3>1, Zenon DEF Own
  <2>3. CASE i \notin DOMAIN table
    BY <1>2, <2>1, <2>3, Zenon
  <2> QED BY <2>2, <2>3
<1>6. ASSUME NEW i \in Own(longer, r) PROVE longer[i].sequence \in Nat
  <2>1. i \in DOMAIN longer
    BY Zenon DEF Own
  <2>2. longer[i] \in Row
    BY <1>1, <2>1
  <2> QED BY <2>2, Zenon DEF Row
<1>7. ASSUME NEW i \in Own(longer, r), NEW j \in Own(longer, r),
             longer[i].sequence = longer[j].sequence
      PROVE  i = j
  <2>1. /\ i \in DOMAIN longer /\ longer[i].subject = r
        /\ j \in DOMAIN longer /\ longer[j].subject = r
    BY Zenon DEF Own
  <2>2. longer[i].history = h /\ longer[j].history = h
    BY <2>1, Zenon DEF Sound
  <2> QED BY <1>7, <2>1, <2>2, Zenon DEF Sound
<1> HIDE DEF m, last
<1> QED BY <1>2, <1>3, <1>4, <1>5, <1>6, <1>7, Zenon DEF Continues, m, last

LEMMA PristineFinishes ==
  ASSUME NEW table \in Seq(Row), NEW longer, NEW new \in Seq(Row), NEW r, NEW last \in Nat,
         Continues(table, new, r, last, longer), Pristine(table, r),
         Told(new, r, Have(table, r), 0, 4), Complete(r, Have(table, r) \cup Made(new)),
         state[r] \in {"pending_review", "pending_reapproval"} \cup Public
  PROVE  Finished(longer, r)
<1> DEFINE m == Len(table)
           n == Len(new)
           have == Have(table, r)
           K == Own(longer, r)
           O == Own(table, r)
<1>1. m \in Nat /\ n \in Nat /\ DOMAIN new = 1..n /\ O \subseteq DOMAIN table
  BY DEF Own
<1>2. state[r] \in {"pending_review", "pending_reapproval", "published", "withdrawn"}
      /\ state[r] # None
  BY NullStates DEF Public
<1>3. /\ \A i \in O : i \in K /\ longer[i] = table[i] /\ longer[i].sequence <= last
      /\ \A j \in 1..n : /\ m + j \in K /\ SameContent(longer[m + j], new[j])
                         /\ longer[m + j].sequence = last + j
      /\ \A i \in K : i \in O \/ \E j \in 1..n : i = m + j
      /\ \A i \in K : longer[i].sequence \in Nat
      /\ \A i, j \in K : longer[i].sequence = longer[j].sequence => i = j
  BY <1>1, Zenon DEF Continues
<1>4. /\ \A j \in 1..n : MissingRow(new[j], r, have)
      /\ \A i, j \in 1..n : i < j => Place(new[i].action) < Place(new[j].action)
  BY <1>1, Zenon DEF Told
<1>5. \A i \in O : table[i].action \in have
  BY Zenon DEF Have
<1>6. \A a \in have : \E i \in O : table[i].action = a
  BY Zenon DEF Have
<1>7. /\ \A i \in O : /\ table[i].projected = None
                      /\ table[i].actor # System("migration_backfill")
                      /\ table[i].action = "withdrawn" => table[i].actor.type = "account"
                      /\ Fits(table[i].action, state[r])
      /\ \A i, j \in O : table[i].sequence < table[j].sequence
                           => MayFollow(table[i].action, table[j].action)
  BY Zenon DEF Pristine
<1>8. System("migration_backfill").type # "account"
  BY DEF System
<1>9. Complete(r, have \cup Made(new))
  OBVIOUS
<1> HIDE DEF m, n, have, K, O
<1>10. \A j \in 1..n :
         /\ longer[m + j].action = new[j].action /\ longer[m + j].actor = new[j].actor
         /\ longer[m + j].projected = new[j].projected
  BY <1>3, Zenon DEF SameContent
<1>11. Complete(r, Have(longer, r))
  <2>1. have \cup Made(new) \subseteq Have(longer, r)
    <3>1. ASSUME NEW a \in have PROVE a \in Have(longer, r)
      <4>1. PICK i \in O : table[i].action = a
        BY <1>6
      <4>2. i \in K /\ longer[i].action = a
        BY <1>3, <4>1
      <4> QED BY <4>2, Zenon DEF Have, K
    <3>2. ASSUME NEW a \in Made(new) PROVE a \in Have(longer, r)
      <4>1. PICK j \in 1..n : new[j].action = a
        BY <1>1, Zenon DEF Made
      <4>2. m + j \in K /\ longer[m + j].action = a
        BY <1>3, <1>10, <4>1
      <4> QED BY <4>2, Zenon DEF Have, K
    <3> QED BY <3>1, <3>2
  <2> QED BY <1>9, <2>1 DEF Complete
<1>12. ASSUME Unannounced(longer, r)
       PROVE  /\ state[r] = "withdrawn"
              /\ \E j \in 1..n : new[j].action = "published"
              /\ \A j \in 1..n : new[j].action # "withdrawn"
  <2>1. PICK i \in K : longer[i].action = "withdrawn" /\ longer[i].actor.type = "account"
    BY <1>12, Zenon DEF Unannounced, K
  <2>2. PICK k \in K : /\ longer[k].action = "published"
                      /\ longer[k].actor = System("migration_backfill")
    BY <1>12, Zenon DEF Unannounced, K
  <2>3. i \in O
    <3>1. SUFFICES ASSUME NEW j \in 1..n, i = m + j PROVE FALSE
      BY <1>3
    <3>2. new[j].action = "withdrawn" /\ new[j].actor = longer[i].actor
      BY <1>10, <2>1, <3>1
    <3>3. new[j].actor = System("migration_backfill")
      BY <1>4, <3>2 DEF MissingRow
    <3> QED BY <1>8, <2>1, <3>2, <3>3
  <2>4. table[i].action = "withdrawn" /\ state[r] = "withdrawn" /\ "withdrawn" \in have
    BY <1>3, <1>5, <1>7, <2>1, <2>3 DEF Fits
  <2>5. k \notin O
    BY <1>3, <1>7, <2>2
  <2>6. \E j \in 1..n : new[j].action = "published"
    BY <1>3, <1>10, <2>2, <2>5
  <2>7. \A j \in 1..n : new[j].action # "withdrawn"
    BY <1>4, <2>4 DEF MissingRow
  <2> QED BY <2>4, <2>6, <2>7
<1>13. ASSUME NEW j \in 1..n, new[j].action = "published", state[r] = "withdrawn",
              \A k \in 1..n : new[k].action # "withdrawn"
       PROVE  Unannounced(longer, r)
  <2>1. "withdrawn" \in have
    <3>1. "withdrawn" \in have \cup Made(new)
      BY <1>9, <1>13 DEF Complete
    <3>2. "withdrawn" \notin Made(new)
      BY <1>1, <1>13, Zenon DEF Made
    <3> QED BY <3>1, <3>2
  <2>2. PICK i \in O : table[i].action = "withdrawn"
    BY <1>6, <2>1
  <2>3. i \in K /\ longer[i].action = "withdrawn" /\ longer[i].actor.type = "account"
    BY <1>3, <1>7, <2>2
  <2>4. new[j].actor = System("migration_backfill")
    BY <1>4, <1>13 DEF MissingRow
  <2>5. /\ m + j \in K /\ longer[m + j].action = "published"
        /\ longer[m + j].actor = System("migration_backfill")
    BY <1>3, <1>10, <1>13, <2>4
  <2> QED BY <2>3, <2>5, Zenon DEF Unannounced, K
<1>14. EditedFirst(longer, r)
  <2> SUFFICES ASSUME NEW i \in K, NEW k \in K,
                      longer[i].action = "published", longer[k].action = "edited"
               PROVE  longer[k].sequence < longer[i].sequence
    BY Zenon DEF EditedFirst, K
  <2>1. k \in O
    <3>1. SUFFICES ASSUME NEW j \in 1..n, k = m + j PROVE FALSE
      BY <1>3
    <3> QED BY <1>4, <1>10, <3>1 DEF MissingRow
  <2>2. CASE i \in O
    <3>1. ~(table[i].sequence < table[k].sequence)
      BY <1>3, <1>7, <2>1, <2>2 DEF MayFollow
    <3>2. longer[i].sequence # longer[k].sequence
      BY <1>3
    <3> QED BY <1>3, <2>1, <2>2, <3>1, <3>2
  <2>3. CASE i \notin O
    <3>1. PICK j \in 1..n : i = m + j
      BY <1>3, <2>3
    <3>2. longer[i].sequence = last + j /\ longer[k].sequence <= last
      BY <1>3, <2>1, <3>1
    <3> QED BY <1>1, <1>3, <3>2
  <2> QED BY <2>2, <2>3
<1>15. ASSUME \E j \in 1..n : Shows(new[j])
       PROVE  Concluded(longer, r)
  <2> DEFINE J == {j \in 1..n : Shows(new[j])}
  <2>1. PICK j \in J : \A k \in J : k <= j
    <3>1. J \in SUBSET Nat /\ J # {} /\ J \in SUBSET (1..n)
      BY <1>1, <1>15
    <3>2. IsFiniteSet(J)
      <4> HIDE DEF J
      <4>1. IsFiniteSet(1..n)
        BY <1>1, FirstNumbers
      <4> QED BY <3>1, <4>1, FS_Subset
    <3> HIDE DEF J
    <3> QED BY <3>1, <3>2, MaxIn
  <2>2. j \in 1..n /\ Shows(new[j]) /\ \A k \in 1..n : Shows(new[k]) => k <= j
    BY <2>1
  <2> HIDE DEF J
  <2>3. LastShown(longer, r, m + j)
    <3>1. m + j \in K /\ Shows(longer[m + j]) /\ longer[m + j].sequence = last + j
      BY <1>3, <1>10, <2>2 DEF Shows
    <3>2. ASSUME NEW i \in K, i # m + j, Shows(longer[i])
          PROVE  longer[i].sequence < longer[m + j].sequence
      <4>1. CASE i \in O
        BY <1>1, <1>3, <2>2, <3>1, <4>1
      <4>2. CASE i \notin O
        <5>1. PICK k \in 1..n : i = m + k
          BY <1>3, <4>2
        <5>2. Shows(new[k]) /\ longer[i].sequence = last + k
          BY <1>3, <1>10, <3>2, <5>1 DEF Shows
        <5>3. k <= j /\ k # j
          BY <2>2, <3>2, <5>1, <5>2
        <5> QED BY <1>1, <2>2, <3>1, <5>2, <5>3
      <4> QED BY <4>1, <4>2
    <3> QED BY <3>1, <3>2, Zenon DEF LastShown, K
  <2>4. Shown(longer[m + j]) = Shown(new[j])
    BY <1>10, <2>2 DEF Shown
  <2>5. ASSUME NEW k \in 1..n, Place(new[j].action) < Place(new[k].action), Shows(new[k]) PROVE FALSE
    <3>1. k <= j
      BY <2>2, <2>5
    <3>2. k # j
      BY <2>5 DEF Place
    <3>3. k < j
      BY <1>1, <2>2, <3>1, <3>2
    <3>4. Place(new[k].action) < Place(new[j].action)
      BY <1>4, <2>2, <3>3
    <3> QED BY <2>5, <3>4 DEF Place
  <2>10. SUFFICES Shown(new[j]) = Outcome(longer, r)
    <3>1. m + j \in Own(longer, r)
      BY <2>3, Zenon DEF LastShown
    <3> QED BY <2>3, <2>4, <3>1, Zenon DEF Concluded
  <2>6. CASE new[j].action = "withdrawn"
    <3>1. state[r] = "withdrawn"
      BY <1>4, <2>2, <2>6 DEF MissingRow
    <3>2. ~Unannounced(longer, r)
      BY <1>12, <2>2, <2>6
    <3>3. Shown(new[j]) = "withdrawn"
      BY <2>6 DEF Shown, Entered
    <3> QED BY <3>1, <3>2, <3>3 DEF Outcome
  <2>7. CASE new[j].action = "published"
    <3>1. Shown(new[j]) = "published"
      BY <2>7 DEF Shown, Entered
    <3>2. state[r] \in {"published", "withdrawn"}
      BY <1>4, <2>2, <2>7 DEF MissingRow, Public
    <3>3. CASE state[r] = "published"
      <4>1. ~Unannounced(longer, r)
        BY <1>12, <3>3
      <4> QED BY <3>1, <3>3, <4>1 DEF Outcome
    <3>4. CASE state[r] = "withdrawn"
      <4>1. ASSUME NEW k \in 1..n PROVE new[k].action # "withdrawn"
        <5>1. SUFFICES ASSUME new[k].action = "withdrawn" PROVE FALSE
          OBVIOUS
        <5>2. Place(new[j].action) < Place(new[k].action) /\ Shows(new[k])
          BY <2>7, <5>1 DEF Place, Shows
        <5> QED BY <2>5, <5>2
      <4>2. Unannounced(longer, r)
        BY <1>13, <2>2, <2>7, <3>4, <4>1
      <4> QED BY <3>1, <4>2 DEF Outcome
    <3> QED BY <3>2, <3>3, <3>4
  <2>8. CASE new[j].action = "submitted"
    <3>1. Shown(new[j]) = state[r]
      BY <1>2, <1>4, <2>2, <2>8 DEF Shown, Entered, MissingRow
    <3>2. ASSUME NEW k \in 1..n PROVE new[k].action # "published"
      <4>1. SUFFICES ASSUME new[k].action = "published" PROVE FALSE
        OBVIOUS
      <4>2. Place(new[j].action) < Place(new[k].action) /\ Shows(new[k])
        BY <2>8, <4>1 DEF Place, Shows
      <4> QED BY <2>5, <4>2
    <3>3. ~Unannounced(longer, r)
      BY <1>12, <3>2
    <3> QED BY <3>1, <3>3 DEF Outcome
  <2>9. new[j].action \in {"withdrawn", "published", "submitted"}
    BY <1>4, <2>2 DEF MissingRow, Shows, Entered
  <2> QED BY <2>6, <2>7, <2>8, <2>9
<1>16. ASSUME ~\E j \in 1..n : Shows(new[j])
       PROVE  Concluded(longer, r)
  <2>1. /\ "submitted" \in have \/ "resubmitted" \in have
        /\ state[r] \in Public => "published" \in have
        /\ state[r] = "withdrawn" => "withdrawn" \in have
    <3>1. "submitted" \notin Made(new) /\ "resubmitted" \notin Made(new)
          /\ "published" \notin Made(new) /\ "withdrawn" \notin Made(new)
      BY <1>1, <1>16 DEF Made, Shows, Entered
    <3> QED BY <1>9, <3>1 DEF Complete
  <2> DEFINE S == {i \in O : Shows(table[i])}
  <2>2. S # {}
    BY <1>6, <2>1 DEF Shows, Entered
  <2>3. PICK i \in S : \A k \in S : table[k].sequence <= table[i].sequence
    <3>1. S \subseteq DOMAIN table
      BY <1>1
    <3> HIDE DEF S
    <3> QED BY <2>2, <3>1, GreatestRow
  <2>4. /\ i \in O /\ Shows(table[i])
        /\ \A k \in O : Shows(table[k]) /\ k # i => table[k].sequence < table[i].sequence
    <3>1. i \in O /\ Shows(table[i])
      OBVIOUS
    <3>2. ASSUME NEW k \in O, Shows(table[k]), k # i PROVE table[k].sequence < table[i].sequence
      <4>1. table[k].sequence <= table[i].sequence
        BY <2>3, <3>2
      <4>2. table[k].sequence # table[i].sequence
        BY <1>3, <3>1, <3>2
      <4> QED BY <1>3, <3>1, <4>1, <4>2
    <3> QED BY <3>1, <3>2
  <2> HIDE DEF S
  <2>5. LastShown(longer, r, i)
    <3>1. i \in K /\ Shows(longer[i])
      BY <1>3, <2>4
    <3>2. ASSUME NEW k \in K, k # i, Shows(longer[k])
          PROVE  longer[k].sequence < longer[i].sequence
      <4>1. k \in O
        <5>1. SUFFICES ASSUME NEW j \in 1..n, k = m + j PROVE FALSE
          BY <1>3
        <5>2. Shows(new[j])
          BY <1>10, <3>2, <5>1 DEF Shows
        <5> QED BY <1>16, <5>2
      <4> QED BY <1>3, <2>4, <3>2, <4>1
    <3> QED BY <3>1, <3>2, Zenon DEF LastShown, K
  <2>6. ~Unannounced(longer, r)
    BY <1>12, <1>16 DEF Shows
  <2>7. Shown(table[i]) = state[r]
    <3>1. ASSUME NEW k \in O, table[k].action \in {"published", "withdrawn"}, k # i
          PROVE  MayFollow(table[k].action, table[i].action)
      <4>1. Shows(table[k])
        BY <3>1 DEF Shows
      <4> QED BY <1>7, <2>4, <3>1, <4>1
    <3>2. table[i].action \in {"submitted", "resubmitted", "published", "withdrawn"}
      BY <2>4 DEF Shows, Entered
    <3>3. Fits(table[i].action, state[r]) /\ table[i].projected = None
      BY <1>7, <2>4
    <3>4. CASE state[r] = "withdrawn"
      <4>1. PICK k \in O : table[k].action = "withdrawn"
        BY <1>6, <2>1, <3>4
      <4>2. table[i].action = "withdrawn"
        BY <2>4, <3>1, <3>2, <4>1 DEF MayFollow, Entered
      <4> QED BY <3>4, <4>2 DEF Shown, Entered
    <3>5. CASE state[r] = "published"
      <4>1. PICK k \in O : table[k].action = "published"
        BY <1>6, <2>1, <3>5 DEF Public
      <4>2. table[i].action # "withdrawn"
        BY <3>3, <3>5 DEF Fits
      <4>3. table[i].action = "published"
        BY <2>4, <3>1, <3>2, <4>1, <4>2 DEF MayFollow, Entered
      <4> QED BY <3>5, <4>3 DEF Shown, Entered
    <3>6. CASE state[r] = "pending_review"
      <4>1. table[i].action = "submitted"
        BY <3>2, <3>3, <3>6 DEF Fits, Public
      <4> QED BY <3>3, <3>6, <4>1 DEF Shown, Entered
    <3>7. CASE state[r] = "pending_reapproval"
      <4>1. table[i].action = "resubmitted"
        BY <3>2, <3>3, <3>7 DEF Fits, Public
      <4> QED BY <3>3, <3>7, <4>1 DEF Shown, Entered
    <3> QED BY <1>2, <3>4, <3>5, <3>6, <3>7
  <2>8. longer[i] = table[i]
    BY <1>3, <2>4
  <2>9. Shown(longer[i]) = Outcome(longer, r)
    BY <2>6, <2>7, <2>8 DEF Outcome
  <2>10. i \in Own(longer, r)
    BY <2>5, Zenon DEF LastShown
  <2> QED BY <2>5, <2>9, <2>10, Zenon DEF Concluded
<1> QED BY <1>11, <1>12, <1>14, <1>15, <1>16, Zenon DEF Finished

Readable(table) == \A i \in DOMAIN table : Reads(table[i])

LEMMA MissingReads ==
  ASSUME NEW e, NEW r, NEW have, MissingRow(e, r, have)
  PROVE  Reads(e)
<1>1. ActorValid(e) /\ e.subject = r
  BY Zenon DEF MissingRow
<1>2. e.action = "revision_created" => e.predecessor = fields[e.subject].lineage
  BY <1>1, Zenon DEF MissingRow
<1>3. e.action \in Entered \cup {"edited"} => e.snapshot = KindOf[e.subject]
  <2>1. e.action \in Entered \cup {"edited"} => e.action = "submitted"
    BY DEF MissingRow, Entered
  <2>2. e.action = "submitted" => e.snapshot = KindOf[r]
    BY Zenon DEF MissingRow
  <2> QED BY <1>1, <2>1, <2>2, Zenon
<1> QED BY <1>1, <1>2, <1>3, Zenon DEF Reads

LEMMA InferMissingFinishes ==
  ASSUME RegistryInv, NEW grouped, NEW table, Sound(table, grouped), CausesFirst(table),
         Readable(table), NEW r \in Range(created), r \in Records, grouped[r] \in Nat
  PROVE  LET longer == InferMissing(grouped, table, r) IN
         /\ Readable(longer)
         /\ Pristine(table, r) \/ Finished(table, r) => Finished(longer, r)
         /\ \A q : q # r => /\ Pristine(table, q) => Pristine(longer, q)
                            /\ Finished(table, q) => Finished(longer, q)
<1> DEFINE h == grouped[r]
           new == MissingEvents(table, r, h)
           longer == InferMissing(grouped, table, r)
           m == Len(table)
           have == Have(table, r)
           last == LastSequence(table, h)
<1>1. r \in Records /\ h \in Nat
  OBVIOUS
<1>2. table \in Seq(Row)
  BY Zenon DEF Sound
<1>3. new \in Seq(Row)
  <2>1. new \in Seq(OwnRows(r, h)) /\ OwnRows(r, h) \subseteq Row
    <3>1. new \in Seq(OwnRows(r, h))
      BY <1>1, MissingOwn, Zenon
    <3>2. OwnRows(r, h) \subseteq Row
      BY Zenon DEF OwnRows
    <3> QED BY <3>1, <3>2
  <2> HIDE DEF new
  <2> QED BY <2>1
<1>4. Told(new, r, have, 0, 4) /\ Complete(r, have \cup Made(new))
  BY <1>1, <1>2, MissingTold, Zenon
<1>5. Sound(longer, grouped) /\ Completes(table, new, h, longer)
  BY <1>1, InferMissingKeeps, Zenon
<1> HIDE DEF longer, new
<1>6. \A j \in DOMAIN new : MissingRow(new[j], r, have)
  BY <1>4, Zenon DEF Told
<1>7. Continues(table, new, r, last, longer)
  BY <1>5, <1>6, CompletesContinues, Zenon
<1>8. /\ DOMAIN table \subseteq DOMAIN longer
      /\ \A i \in DOMAIN table : longer[i] = table[i]
      /\ \A i \in DOMAIN longer : i \notin DOMAIN table => \E j \in DOMAIN new : i = m + j
      /\ \A j \in DOMAIN new : SameContent(longer[m + j], new[j])
  BY <1>5, Zenon DEF Completes
<1> HIDE DEF m, h, last, have
<1>9. Readable(longer)
  <2> SUFFICES ASSUME NEW i \in DOMAIN longer PROVE Reads(longer[i])
    BY Zenon DEF Readable
  <2>1. CASE i \in DOMAIN table
    BY <1>8, <2>1, Zenon DEF Readable
  <2>2. CASE i \notin DOMAIN table
    <3>1. PICK j \in DOMAIN new : i = m + j
      BY <1>8, <2>2
    <3>2. SameContent(longer[i], new[j]) /\ MissingRow(new[j], r, have)
      BY <1>6, <1>8, <3>1, Zenon
    <3> QED BY <3>2, MissingReads, ContentRead, Zenon
  <2> QED BY <2>1, <2>2
<1>10. ASSUME Pristine(table, r) PROVE Finished(longer, r)
  <2>1. last \in Nat
    BY <1>2, LastSequenceBounds DEF last
  <2>2. state[r] \in {"pending_review", "pending_reapproval"} \cup Public
    <3>1. state[r] # "absent"
      BY <1>1, Zenon DEF RegistryInv
    <3> QED BY <1>1, <3>1 DEF RegistryInv, Inv, TypeOK
  <2> QED BY <1>2, <1>3, <1>4, <1>7, <1>10, <2>1, <2>2, PristineFinishes, Zenon DEF have
<1>11. ASSUME Finished(table, r) PROVE Finished(longer, r)
  <2>1. Complete(r, have)
    BY <1>11, Zenon DEF Finished, have
  <2>2. ASSUME NEW j \in DOMAIN new PROVE FALSE
    <3>1. MissingRow(new[j], r, have)
      BY <1>6
    <3> QED BY <2>1, <3>1 DEF MissingRow, Complete
  <2>3. /\ \A i \in Own(table, r) : i \in Own(longer, r) /\ longer[i] = table[i]
        /\ \A i \in Own(longer, r) : i \in Own(table, r)
    BY <1>7, <2>2, Zenon DEF Continues
  <2>4. Own(longer, r) = Own(table, r)
    BY <2>3
  <2> QED BY <1>11, <2>3, <2>4, OwnSame, Zenon
<1>12. ASSUME NEW q, q # r
       PROVE  /\ Own(longer, q) = Own(table, q)
              /\ \A i \in Own(table, q) : longer[i] = table[i]
  <2>1. ASSUME NEW i \in Own(table, q) PROVE i \in Own(longer, q) /\ longer[i] = table[i]
    BY <1>8, Zenon DEF Own
  <2>2. ASSUME NEW i \in Own(longer, q) PROVE i \in Own(table, q)
    <3>1. i \in DOMAIN longer /\ longer[i].subject = q
      BY Zenon DEF Own
    <3>2. CASE i \in DOMAIN table
      BY <1>8, <3>1, <3>2, Zenon DEF Own
    <3>3. CASE i \notin DOMAIN table
      <4>1. PICK j \in DOMAIN new : i = m + j
        BY <1>8, <3>1, <3>3
      <4>2. SameContent(longer[i], new[j]) /\ MissingRow(new[j], r, have)
        BY <1>6, <1>8, <4>1, Zenon
      <4>3. longer[i].subject = r
        BY <4>2, Zenon DEF SameContent, MissingRow
      <4> QED BY <1>12, <3>1, <4>3
    <3> QED BY <3>2, <3>3
  <2> QED BY <2>1, <2>2
<1>13. ASSUME NEW q, q # r
       PROVE  /\ Pristine(table, q) => Pristine(longer, q)
              /\ Finished(table, q) => Finished(longer, q)
  BY <1>12, <1>13, OwnSame, Zenon
<1> QED BY <1>9, <1>10, <1>11, <1>13, Zenon DEF longer

(* What every step preserves holds of each iterate.                         *)
LEMMA IteratedIn ==
  ASSUME NEW X, NEW N \in Nat, NEW f, f[0] \in X,
         \A n \in 1..N : f[n - 1] \in X => f[n] \in X
  PROVE  \A n \in 0..N : f[n] \in X
<1> DEFINE S == {n \in 0..N : f[n] \in X}
<1>1. 0 \in S
  OBVIOUS
<1>2. \A n \in 1..N : n - 1 \in S => n \in S
  OBVIOUS
<1>3. \A n \in 0..N : n \in S
  <2> HIDE DEF S
  <2> QED BY <1>1, <1>2, UpToN
<1> QED BY <1>3

\* Of each record nothing was inferred yet, or all that was missing.
Telling(table) ==
  /\ Chained(table) /\ Readable(table)
  /\ \A r \in Range(created) : Pristine(table, r) \/ Finished(table, r)

\* The sound tables that begin with the rows of another one.
Longer(table, grouped) ==
  {t \in Seq(Row) : /\ Sound(t, grouped) /\ CausesFirst(t)
                    /\ DOMAIN table \subseteq DOMAIN t
                    /\ \A i \in DOMAIN table : t[i] = table[i]
                    /\ Telling(table) => Telling(t)}

LEMMA BackfilledKeeps ==
  ASSUME RegistryInv, NEW grouped, Sound(Numbered(grouped), grouped), CausesFirst(Numbered(grouped)),
         \A r \in Range(created) : grouped[r] \in Nat
  PROVE  /\ BackfilledEvents(grouped) \in Longer(Numbered(grouped), grouped)
         /\ Telling(Numbered(grouped))
              => \A r \in Range(created) : Finished(BackfilledEvents(grouped), r)
<1> DEFINE N == Len(created)
           base == Numbered(grouped)
           X == Longer(base, grouped)
           step == [p \in (1..N) \X X |-> InferMissing(grouped, p[2], created[p[1]])]
           Equation(f) == f = [n \in 0..N |->
             IF n = 0 THEN base ELSE InferMissing(grouped, f[n - 1], created[n])]
           completed == CHOOSE f : Equation(f)
<1>1. /\ N \in Nat /\ \A n \in 1..N : created[n] \in Records /\ created[n] \in Range(created)
      /\ \A r \in Range(created) : \E n \in 1..N : created[n] = r
  BY DEF RegistryInv, Range
<1> HIDE DEF N
<1>2. base \in X
  BY Zenon DEF Longer, Sound
<1>3. ASSUME NEW n \in 1..N, NEW t \in X
      PROVE  LET u == InferMissing(grouped, t, created[n]) IN
             /\ u \in X
             /\ Telling(base) => Finished(u, created[n])
             /\ Telling(base) => \A q : Finished(t, q) => Finished(u, q)
  <2>1. /\ Sound(t, grouped) /\ CausesFirst(t) /\ DOMAIN base \subseteq DOMAIN t
        /\ \A i \in DOMAIN base : t[i] = base[i]
        /\ Telling(base) => Telling(t)
    BY Zenon DEF Longer
  <2> DEFINE r == created[n]
             u == InferMissing(grouped, t, r)
  <2>2. r \in Range(created) /\ r \in Records /\ grouped[r] \in Nat
    BY <1>1
  <2> HIDE DEF r
  <2>3. /\ Sound(u, grouped) /\ CausesFirst(u)
        /\ Completes(t, MissingEvents(t, r, grouped[r]), grouped[r], u)
        /\ Chained(t) => Chained(u)
    BY <2>1, <2>2, InferMissingKeeps
  <2>4. /\ DOMAIN t \subseteq DOMAIN u
        /\ \A i \in DOMAIN t : u[i] = t[i]
    BY <2>3, Zenon DEF Completes
  <2>5. ASSUME Telling(base)
        PROVE  /\ Finished(u, r) /\ Telling(u)
               /\ \A q : Finished(t, q) => Finished(u, q)
    <3>1. /\ Chained(t) /\ Readable(t)
          /\ \A q \in Range(created) : Pristine(t, q) \/ Finished(t, q)
      BY <2>1, <2>5, Zenon DEF Telling
    <3>2. /\ Readable(u)
          /\ Pristine(t, r) \/ Finished(t, r) => Finished(u, r)
          /\ \A q : q # r => /\ Pristine(t, q) => Pristine(u, q)
                             /\ Finished(t, q) => Finished(u, q)
      BY <2>1, <2>2, <3>1, InferMissingFinishes
    <3> HIDE DEF u
    <3>3. Finished(u, r)
      BY <2>2, <3>1, <3>2, Zenon
    <3>4. \A q \in Range(created) : Pristine(u, q) \/ Finished(u, q)
      BY <3>1, <3>2, <3>3, Zenon
    <3>5. Telling(u)
      BY <2>3, <3>1, <3>2, <3>4, Zenon DEF Telling
    <3>6. \A q : Finished(t, q) => Finished(u, q)
      BY <3>2, <3>3, Zenon
    <3> QED BY <3>3, <3>5, <3>6
  <2> HIDE DEF u, base
  <2>6. u \in Seq(Row) /\ DOMAIN base \subseteq DOMAIN u /\ \A i \in DOMAIN base : u[i] = base[i]
    BY <2>1, <2>3, <2>4, Zenon DEF Sound
  <2>7. u \in X
    BY <2>3, <2>5, <2>6, Zenon DEF Longer
  <2> HIDE DEF X
  <2> QED BY <2>5, <2>7, Zenon DEF u, r
<1> HIDE DEF base, X
<1>4. step \in [(1..N) \X X -> X]
  <2>1. \A n \in 1..N, t \in X : InferMissing(grouped, t, created[n]) \in X
    BY <1>3, Zenon
  <2> QED BY <2>1
<1>5. \A n \in 1..N, t \in X : step[<<n, t>>] = InferMissing(grouped, t, created[n])
  OBVIOUS
<1> HIDE DEF step
<1>6. PICK f : Iterates(f, X, N, base, step)
  BY <1>1, <1>2, <1>4, Iterated, Zenon
<1>7. /\ \A n \in 0..N : n = 0 \/ (n \in 1..N /\ n - 1 \in 0..N)
      /\ \A n \in 1..N : n # 0 /\ n \in 0..N /\ n - 1 \in 0..N
  BY <1>1
<1>8. \A n \in 1..N : f[n] = InferMissing(grouped, f[n - 1], created[n])
  BY <1>5, <1>6, <1>7 DEF Iterates
<1>9. Equation(f)
  <2>1. f = [n \in 0..N |-> f[n]]
    BY <1>6, Zenon DEF Iterates
  <2>2. \A n \in 0..N : f[n] =
          IF n = 0 THEN base ELSE InferMissing(grouped, f[n - 1], created[n])
    BY <1>6, <1>7, <1>8, Zenon DEF Iterates
  <2> QED BY <2>1, <2>2, Zenon
<1>10. Equation(completed)
  BY <1>9, Zenon
<1>11. BackfilledEvents(grouped) = completed[N]
  BY Zenon DEF BackfilledEvents, N, base
<1> HIDE DEF completed
<1>12. \A n \in 0..N : completed[n] =
         IF n = 0 THEN base ELSE InferMissing(grouped, completed[n - 1], created[n])
  BY <1>10, Zenon
<1>13. completed[0] \in X /\ \A n \in 1..N : completed[n - 1] \in X => completed[n] \in X
  <2>1. 0 \in 0..N
    BY <1>1
  <2> QED BY <1>2, <1>3, <1>7, <1>12, <2>1, Zenon
<1>14. N \in 0..N
  BY <1>1
<1>15. completed[N] \in X
  BY <1>1, <1>13, <1>14, IteratedIn, Zenon
<1> DEFINE S == {n \in 0..N : /\ completed[n] \in X
                              /\ \A m \in 1..n : Finished(completed[n], created[m])}
<1>16. ASSUME Telling(base) PROVE N \in S
  <2>1. 0 \in S
    <3>1. 0 \in 0..N /\ \A m \in 1..0 : FALSE
      BY <1>1
    <3> QED BY <1>13, <3>1, Zenon
  <2>2. ASSUME NEW n \in 1..N, n - 1 \in S PROVE n \in S
    <3> DEFINE t == completed[n - 1]
               u == completed[n]
    <3>1. t \in X /\ \A m \in 1..(n - 1) : Finished(t, created[m])
      BY <2>2, Zenon
    <3>2. n \in 0..N /\ u = InferMissing(grouped, t, created[n])
      BY <1>7, <1>12, Zenon
    <3> HIDE DEF t, u
    <3>3. /\ u \in X /\ Finished(u, created[n])
          /\ \A q : Finished(t, q) => Finished(u, q)
      BY <1>3, <1>16, <3>1, <3>2, Zenon
    <3>4. ASSUME NEW m \in 1..n PROVE Finished(u, created[m])
      <4>1. m = n \/ m \in 1..(n - 1)
        BY <1>1
      <4>2. CASE m = n
        BY <3>3, <4>2, Zenon
      <4>3. CASE m \in 1..(n - 1)
        BY <3>1, <3>3, <4>3, Zenon
      <4> QED BY <4>1, <4>2, <4>3
    <3> QED BY <3>2, <3>3, <3>4, Zenon DEF u
  <2> HIDE DEF S
  <2> QED BY <1>1, <1>14, <2>1, <2>2, UpToN
<1>17. ASSUME Telling(base), NEW r \in Range(created) PROVE Finished(completed[N], r)
  <2>1. \A m \in 1..N : Finished(completed[N], created[m])
    BY <1>16, <1>17, Zenon
  <2>2. PICK m \in 1..N : created[m] = r
    BY <1>1, <1>17
  <2> QED BY <2>1, <2>2, Zenon
<1> QED BY <1>11, <1>15, <1>17, Zenon DEF X, base

(* The events that the old release recorded.                                *)
NamedActor(e) ==
  IF e.actor.account = "system account" THEN System("submission_policy")
  ELSE Account(e.actor.account)

LegacyEvent(e) ==
  /\ e.action # "revision_created" /\ e.projected = None /\ e.snapshot = None
  /\ e.actor.account \in {"person", "system account"}
  /\ e.action = "withdrawn" => e.actor.account = "person"

\* Events that fit the states s of the records, and may have occurred in their order.
Occurred(table, s) ==
  /\ \A i \in DOMAIN table : LegacyEvent(table[i]) /\ Fits(table[i].action, s[table[i].subject])
  /\ \A i, j \in DOMAIN table :
       i < j /\ table[i].subject = table[j].subject
         => MayFollow(table[i].action, table[j].action)

LEMMA LegacyActors ==
  ASSUME NEW e, LegacyEvent(e), NEW f, f.actor = NamedActor(e)
  PROVE  /\ ActorValid(f) /\ f.actor # System("migration_backfill")
         /\ e.action = "withdrawn" => f.actor.type = "account"
<1>1. e.actor.account = "person" \/ e.actor.account = "system account"
  BY Zenon DEF LegacyEvent
<1>2. \A a : /\ System(a).system = a /\ System(a).type = "system"
            /\ Account(a).type = "account"
  BY DEF System, Account
<1>3. CASE e.actor.account = "system account"
  <2>1. f.actor = System("submission_policy")
    BY <1>3, Zenon DEF NamedActor
  <2>2. System("submission_policy") # System("migration_backfill")
    <3>1. /\ System("submission_policy").system = "submission_policy"
          /\ System("migration_backfill").system = "migration_backfill"
      BY <1>2, Zenon
    <3>2. "submission_policy" # "migration_backfill"
      OBVIOUS
    <3> QED BY <3>1, <3>2, Zenon
  <2>3. e.action # "withdrawn"
    <3>1. "person" # "system account"
      BY Zenon
    <3> QED BY <1>3, <3>1, Zenon DEF LegacyEvent
  <2> QED BY <2>1, <2>2, <2>3, ActorsValid, Zenon
<1>4. CASE e.actor.account = "person"
  <2>1. f.actor = Account("person")
    <3>1. "person" # "system account"
      BY Zenon
    <3> QED BY <1>4, <3>1, Zenon DEF NamedActor
  <2>2. f.actor.type = "account" /\ System("migration_backfill").type = "system"
    BY <1>2, <2>1, Zenon
  <2>3. f.actor # System("migration_backfill")
    <3> DEFINE a == System("migration_backfill")
    <3>1. f.actor.type = "account" /\ a.type = "system"
      BY <2>2
    <3> HIDE DEF a
    <3>2. f.actor # a
      BY <3>1
    <3> QED BY <3>2 DEF a
  <2>4. "person" # None
    BY NullNames, Zenon
  <2>5. ActorValid(f)
    BY <2>1, <2>4, ActorsValid, Zenon
  <2> QED BY <2>2, <2>3, <2>5, Zenon
<1> QED BY <1>1, <1>3, <1>4, Zenon

LEMMA GroupedContent ==
  \A e, h, n, u, a : e \in Row =>
    /\ Grouped(e, h, n, u, a).actor = a
    /\ Grouped(e, h, n, u, a).projected = e.projected
    /\ Grouped(e, h, n, u, a).snapshot = e.snapshot
<1> SUFFICES ASSUME NEW e \in Row, NEW h, NEW n, NEW u, NEW a
             PROVE  /\ Grouped(e, h, n, u, a).actor = a
                    /\ Grouped(e, h, n, u, a).projected = e.projected
                    /\ Grouped(e, h, n, u, a).snapshot = e.snapshot
  OBVIOUS
<1>1. Grouped(e, h, n, u, a).actor = a
  BY Zenon DEF Row, Grouped
<1>2. Grouped(e, h, n, u, a).projected = e.projected
  BY Zenon DEF Row, Grouped
<1>3. Grouped(e, h, n, u, a).snapshot = e.snapshot
  BY Zenon DEF Row, Grouped
<1> QED BY <1>1, <1>2, <1>3

LEMMA NumberedTells ==
  ASSUME events \in Seq(Row), Occurred(events, state), NEW grouped,
         \A i \in DOMAIN events :
           events[i].subject \in Range(created) /\ grouped[events[i].subject] \in Nat
  PROVE  Telling(Numbered(grouped))
<1> DEFINE table == Numbered(grouped)
           N == Len(events)
<1>1. N \in Nat /\ DOMAIN events = 1..N /\ \A i \in DOMAIN events : events[i] \in Row
  OBVIOUS
<1>2. /\ Sound(table, grouped) /\ Chained(table)
      /\ DOMAIN table = DOMAIN events
      /\ \A i \in DOMAIN events :
           table[i].subject = events[i].subject /\ table[i].action = events[i].action
      /\ \A i, j \in DOMAIN events :
           table[i].history = table[j].history /\ i < j => table[i].sequence < table[j].sequence
  BY NumberedInOrder, Zenon
<1>3. ASSUME NEW i \in DOMAIN events
      PROVE  /\ table[i].actor = NamedActor(events[i])
             /\ table[i].projected = None /\ table[i].snapshot = None
  <2> DEFINE e == events[i]
             h == grouped[e.subject]
             c == Cardinality({j \in 1..i : grouped[events[j].subject] = h})
             u == e.action \in {"submitted", "edited", "resubmitted"}
  <2>1. table[i] = Grouped(e, h, c, u, NamedActor(e))
    <3>1. i \in 1..Len(events)
      BY <1>1
    <3> QED BY <3>1, Zenon DEF Numbered, Grouped, NamedActor
  <2>2. e \in Row /\ e.projected = None /\ e.snapshot = None
    BY <1>1, Zenon DEF Occurred, LegacyEvent
  <2> HIDE DEF e, h, c, u, table
  <2>3. /\ Grouped(e, h, c, u, NamedActor(e)).actor = NamedActor(e)
        /\ Grouped(e, h, c, u, NamedActor(e)).projected = e.projected
        /\ Grouped(e, h, c, u, NamedActor(e)).snapshot = e.snapshot
    BY <2>2, GroupedContent
  <2>4. /\ table[i].actor = NamedActor(e)
        /\ table[i].projected = None /\ table[i].snapshot = None
    BY <2>1, <2>2, <2>3
  <2> QED BY <2>4 DEF e
<1> HIDE DEF table, N
<1>4. ASSUME NEW i \in DOMAIN events
      PROVE  /\ ActorValid(table[i]) /\ table[i].actor # System("migration_backfill")
             /\ table[i].action = "withdrawn" => table[i].actor.type = "account"
             /\ table[i].action # "revision_created"
             /\ Fits(table[i].action, state[table[i].subject])
  <2>1. LegacyEvent(events[i]) /\ Fits(events[i].action, state[events[i].subject])
    BY Zenon DEF Occurred
  <2>2. /\ table[i].actor = NamedActor(events[i])
        /\ table[i].subject = events[i].subject /\ table[i].action = events[i].action
    BY <1>2, <1>3
  <2>3. /\ ActorValid(table[i]) /\ table[i].actor # System("migration_backfill")
        /\ events[i].action = "withdrawn" => table[i].actor.type = "account"
    BY <2>1, <2>2, LegacyActors, Zenon
  <2>4. events[i].action # "revision_created" /\ Fits(events[i].action, state[events[i].subject])
    BY <2>1, Zenon DEF LegacyEvent
  <2> QED BY <2>2, <2>3, <2>4, Zenon
<1>5. Readable(table)
  BY <1>2, <1>3, <1>4, Zenon DEF Readable, Reads
<1>6. ASSUME NEW i \in DOMAIN events, NEW j \in DOMAIN events,
             table[i].subject = table[j].subject, table[i].sequence < table[j].sequence
      PROVE  MayFollow(table[i].action, table[j].action)
  <2>1. table[i].history = table[j].history
    <3>1. i \in DOMAIN table /\ j \in DOMAIN table
      BY <1>2
    <3>2. /\ table[i].history = grouped[table[i].subject]
          /\ table[j].history = grouped[table[j].subject]
      BY <1>2, <3>1, Zenon DEF Sound
    <3> QED BY <1>6, <3>2
  <2>2. i < j
    <3>1. i \in Nat /\ j \in Nat
      BY <1>1
    <3>2. table[i].sequence \in Nat /\ table[j].sequence \in Nat
      <4>1. table \in Seq(Row)
        BY <1>2, Zenon DEF Sound
      <4>2. table[i] \in Row /\ table[j] \in Row
        BY <1>2, <4>1
      <4> QED BY <4>2, Zenon DEF Row
    <3>3. ~(j < i)
      BY <1>2, <1>6, <2>1, <3>2
    <3>4. i # j
      BY <1>6, <3>2
    <3> QED BY <3>1, <3>3, <3>4
  <2>3. MayFollow(events[i].action, events[j].action)
    BY <1>2, <1>6, <2>2, Zenon DEF Occurred
  <2> QED BY <1>2, <2>3, Zenon
<1>7. ASSUME NEW r \in Range(created) PROVE Pristine(table, r)
  <2>1. \A i \in Own(table, r) : i \in DOMAIN events /\ table[i].subject = r
    BY <1>2, Zenon DEF Own
  <2>2. ASSUME NEW i \in Own(table, r)
        PROVE  /\ table[i].action # "revision_created" /\ table[i].projected = None
               /\ table[i].actor # System("migration_backfill")
               /\ table[i].action = "withdrawn" => table[i].actor.type = "account"
               /\ Fits(table[i].action, state[r])
    BY <1>3, <1>4, <2>1, Zenon
  <2>3. ASSUME NEW i \in Own(table, r), NEW j \in Own(table, r),
               table[i].sequence < table[j].sequence
        PROVE  MayFollow(table[i].action, table[j].action)
    BY <1>6, <2>1, <2>3, Zenon
  <2> QED BY <2>2, <2>3, Zenon DEF Pristine
<1> QED BY <1>2, <1>5, <1>7, Zenon DEF Telling, table

-----------------------------------------------------------------------------
(* 0007.  The publications are listed in their order.                       *)
LEMMA RowsAreNumbered ==
  ASSUME NEW grouped, NEW table, Sound(table, grouped),
         \A r \in Range(created) : grouped[r] \in Nat
  PROVE  \A i \in DOMAIN table :
           table[i] \in Row /\ table[i].sequence \in Nat /\ table[i].history \in Nat
<1>1. \A i \in DOMAIN table : table[i] \in Row
  BY DEF Sound
<1>2. \A e \in Row : e.sequence \in Nat
  BY Zenon DEF Row
<1>3. \A i \in DOMAIN table : table[i].history \in Nat
  BY Zenon DEF Sound
<1> QED BY <1>1, <1>2, <1>3, Zenon

\* A list of the members of a set, each of them once or more.
Listed(list, keys) ==
  /\ Len(list) \in Nat
  /\ \A n \in 1..Len(list) : list[n] \in keys
  /\ \A j \in keys : \E n \in 1..Len(list) : list[n] = j

\* A list of the rows of a table, in the order of the histories.
Sorted(list, table) ==
  \A m, n \in 1..Len(list) : m < n => Precedes(table[list[m]], table[list[n]])

LEMMA InOrderMembers ==
  ASSUME NEW grouped, NEW table, Sound(table, grouped),
         \A r \in Range(created) : grouped[r] \in Nat,
         NEW keys \in SUBSET DOMAIN table
  PROVE  /\ Listed(InOrder(table, keys), keys)
         /\ Sorted(InOrder(table, keys), table)
<1> DEFINE R == {q \in keys \X keys : Precedes(table[q[1]], table[q[2]])}
           N == Cardinality(keys)
<1>1. \A s, t \in keys : <<s, t>> \in R <=> Precedes(table[s], table[t])
  OBVIOUS
<1>2. IsFiniteSet(keys)
  <2>1. DOMAIN table = 1..Len(table) /\ Len(table) \in Nat
    BY DEF Sound
  <2>2. IsFiniteSet(DOMAIN table)
    BY <2>1, FirstNumbers
  <2> QED BY <2>2, FS_Subset
<1>3. \A i \in keys : table[i].sequence \in Nat /\ table[i].history \in Nat
  BY RowsAreNumbered, Zenon
<1>4. \A s, t \in keys :
        table[s].history = table[t].history /\ table[s].sequence = table[t].sequence => s = t
  BY Zenon DEF Sound
<1>5. \A s \in keys : ~Precedes(table[s], table[s])
  BY <1>3 DEF Precedes
<1>6. ASSUME NEW s \in keys, NEW t \in keys
      PROVE  s = t \/ Precedes(table[s], table[t]) \/ Precedes(table[t], table[s])
  BY <1>3, <1>4 DEF Precedes
<1>7. ASSUME NEW s \in keys, NEW t \in keys, NEW u \in keys,
             Precedes(table[s], table[t]), Precedes(table[t], table[u])
      PROVE  Precedes(table[s], table[u])
  BY <1>3, <1>7 DEF Precedes
<1>8. /\ N \in Nat
      /\ \A k \in 1..N : \E s \in keys : Cardinality({t \in keys : <<t, s>> \in R}) = k - 1
  <2>1. \A s \in keys : <<s, s>> \notin R
    BY <1>1, <1>5
  <2>2. \A s, t \in keys : s = t \/ <<s, t>> \in R \/ <<t, s>> \in R
    <3> HIDE DEF R
    <3> QED BY <1>1, <1>6, Zenon
  <2>3. \A s, t, u \in keys : <<s, t>> \in R /\ <<t, u>> \in R => <<s, u>> \in R
    <3>1. ASSUME NEW s \in keys, NEW t \in keys, NEW u \in keys, <<s, t>> \in R, <<t, u>> \in R
          PROVE  <<s, u>> \in R
      BY <1>1, <1>7, <3>1, Zenon
    <3> QED BY <3>1, Zenon
  <2> HIDE DEF R
  <2> QED BY <1>2, <2>1, <2>2, <2>3, Ranked
<1>9. \A s \in keys : {t \in keys : <<t, s>> \in R}
                        = {i \in keys : Precedes(table[i], table[s])}
  <2> HIDE DEF R
  <2> QED BY <1>1, Zenon
<1> HIDE DEF R, N
<1>10. \A k \in 1..N : \E j \in keys :
         Cardinality({i \in keys : Precedes(table[i], table[j])}) = k - 1
  <2> SUFFICES ASSUME NEW k \in 1..N
               PROVE  \E j \in keys :
                        Cardinality({i \in keys : Precedes(table[i], table[j])}) = k - 1
    OBVIOUS
  <2>1. PICK s \in keys : Cardinality({t \in keys : <<t, s>> \in R}) = k - 1
    BY <1>8, Zenon
  <2>2. Cardinality({i \in keys : Precedes(table[i], table[s])}) = k - 1
    BY <1>9, <2>1, Zenon
  <2> QED BY <2>2, Zenon
<1> DEFINE ranked(k) ==
             CHOOSE j \in keys : Cardinality({i \in keys : Precedes(table[i], table[j])}) = k - 1
           before(j) == Cardinality({i \in keys : Precedes(table[i], table[j])})
<1>11. \A k \in 1..N : ranked(k) \in keys /\ before(ranked(k)) = k - 1
  BY <1>10, Zenon
<1>12. InOrder(table, keys) = [k \in 1..N |-> ranked(k)]
  BY Zenon DEF InOrder, N
<1> HIDE DEF ranked, before
<1>13. /\ InOrder(table, keys) \in [1..N -> keys]
       /\ \A k \in 1..N : InOrder(table, keys)[k] \in keys
  BY <1>11, <1>12
<1>14. Len(InOrder(table, keys)) = N
  BY <1>8, <1>13
<1> DEFINE list == InOrder(table, keys)
<1>15. list \in Injection(1..N, keys)
  <2>1. \A k \in 1..N : list[k] = ranked(k) /\ before(list[k]) = k - 1
    BY <1>11, <1>12
  <2> HIDE DEF list
  <2>2. ASSUME NEW k \in 1..N, NEW l \in 1..N, list[k] = list[l] PROVE k = l
    <3>1. k - 1 = l - 1
      BY <2>1, <2>2, Zenon
    <3> QED BY <1>8, <3>1
  <2> QED BY <1>13, <2>2, Zenon DEF list, Injection, IsInjective
<1>16. list \in Surjection(1..N, keys)
  <2> HIDE DEF list
  <2>1. Cardinality(1..N) = N
    BY <1>8, FirstNumbers
  <2> QED BY <1>2, <1>15, <2>1, FS_Injection DEF N
<1>17. \A j \in keys : \E n \in 1..N : list[n] = j
  <2> HIDE DEF list
  <2> QED BY <1>16 DEF Surjection
<1>18. \A k \in 1..N : before(list[k]) = k - 1
  BY <1>11, <1>12
<1> HIDE DEF list
<1>19. Len(list) = N /\ \A k \in 1..N : list[k] \in keys
  BY <1>13, <1>14 DEF list
<1>20. ASSUME NEW m \in 1..N, NEW n \in 1..N, m < n
       PROVE  Precedes(table[list[m]], table[list[n]])
  <2> DEFINE Below(s) == {i \in keys : Precedes(table[i], table[s])}
  <2>1. /\ list[m] \in keys /\ Cardinality(Below(list[m])) = m - 1
        /\ list[n] \in keys /\ Cardinality(Below(list[n])) = n - 1
    BY <1>18, <1>19, Zenon DEF before
  <2>2. list[m] # list[n]
    <3>1. m - 1 # n - 1
      BY <1>8, <1>20
    <3> QED BY <2>1, <3>1, Zenon
  <2>3. ~Precedes(table[list[n]], table[list[m]])
    <3> SUFFICES ASSUME Precedes(table[list[n]], table[list[m]]) PROVE FALSE
      OBVIOUS
    <3>1. Below(list[n]) \subseteq Below(list[m])
      BY <1>7, <2>1, Zenon
    <3>2. IsFiniteSet(Below(list[m]))
      <4>1. Below(list[m]) \in SUBSET keys
        BY Zenon
      <4> HIDE DEF Below
      <4> QED BY <1>2, <4>1, FS_Subset
    <3>3. Cardinality(Below(list[n])) <= Cardinality(Below(list[m]))
      <4> HIDE DEF Below
      <4> QED BY <3>1, <3>2, FS_Subset
    <3> HIDE DEF Below
    <3> QED BY <1>8, <1>20, <2>1, <3>3
  <2> QED BY <1>6, <2>1, <2>2, <2>3, Zenon
<1>21. Sorted(list, table)
  BY <1>19, <1>20, Zenon DEF Sorted
<1> QED BY <1>8, <1>17, <1>19, <1>21, Zenon DEF Listed, list

LEMMA SameColumnsKeep ==
  ASSUME NEW grouped, NEW table, Sound(table, grouped), NEW new \in Seq(Row),
         DOMAIN new = DOMAIN table,
         \A i \in DOMAIN table : SameColumns(new[i], table[i])
  PROVE  Sound(new, grouped) /\ Keeps(table, new)
<1>1. \A i : i \in DOMAIN new <=> i \in DOMAIN table
  BY Zenon
<1>2. \A i \in DOMAIN table :
        /\ new[i].subject = table[i].subject /\ new[i].action = table[i].action
        /\ new[i].history = table[i].history /\ new[i].sequence = table[i].sequence
  BY Zenon DEF SameColumns
<1>3. /\ \A i \in DOMAIN table :
           table[i].subject \in Range(created) /\ table[i].history = grouped[table[i].subject]
      /\ \A i, j \in DOMAIN table :
           table[i].history = table[j].history /\ table[i].sequence = table[j].sequence => i = j
  BY Zenon DEF Sound
<1>4. \A i \in DOMAIN new :
        new[i].subject \in Range(created) /\ new[i].history = grouped[new[i].subject]
  BY <1>1, <1>2, <1>3, Zenon
<1>5. \A i, j \in DOMAIN new :
        new[i].history = new[j].history /\ new[i].sequence = new[j].sequence => i = j
  BY <1>1, <1>2, <1>3, Zenon
<1>6. Sound(new, grouped)
  BY <1>4, <1>5, Zenon DEF Sound
<1>7. Keeps(table, new)
  BY <1>1, <1>2, Zenon DEF Keeps
<1> QED BY <1>6, <1>7

LEMMA KeepsTransitive ==
  ASSUME NEW s, NEW t, NEW u, Keeps(s, t), Keeps(t, u)
  PROVE  Keeps(s, u)
<1>1. DOMAIN s \subseteq DOMAIN t /\ DOMAIN t \subseteq DOMAIN u
  BY Zenon DEF Keeps
<1>2. ASSUME NEW i \in DOMAIN s
      PROVE  /\ t[i].subject = s[i].subject /\ t[i].action = s[i].action
             /\ t[i].history = s[i].history
             /\ u[i].subject = s[i].subject /\ u[i].action = s[i].action
             /\ u[i].history = s[i].history
  BY <1>1, Zenon DEF Keeps
<1>3. ASSUME NEW i \in DOMAIN s, NEW j \in DOMAIN s,
             s[i].history = s[j].history, s[i].sequence < s[j].sequence,
             "approved" \notin {s[i].action, s[j].action}
      PROVE  u[i].sequence < u[j].sequence
  <2>1. t[i].sequence < t[j].sequence
    BY <1>3, Zenon DEF Keeps
  <2>2. /\ i \in DOMAIN t /\ j \in DOMAIN t /\ t[i].history = t[j].history
        /\ t[i].action = s[i].action /\ t[j].action = s[j].action
    BY <1>1, <1>2, <1>3, Zenon
  <2>3. "approved" \notin {t[i].action, t[j].action}
    BY <1>3, <2>2
  <2> QED BY <2>1, <2>2, <2>3, Zenon DEF Keeps
<1>4. DOMAIN s \subseteq DOMAIN u
  BY <1>1
<1> QED BY <1>2, <1>3, <1>4, Zenon DEF Keeps

LEMMA StoredKeeps ==
  ASSUME NEW grouped, NEW table, Sound(table, grouped), NEW i \in DOMAIN table,
         NEW e \in Row, SameColumns(e, table[i])
  PROVE  LET new == Stored(table, i, e) IN
         /\ Sound(new, grouped) /\ Keeps(table, new)
         /\ DOMAIN new = DOMAIN table
         /\ \A j \in DOMAIN table : SameColumns(new[j], table[j])
<1> DEFINE new == Stored(table, i, e)
           N == Len(table)
<1>1. table \in Seq(Row) /\ DOMAIN table = 1..N /\ N \in Nat /\ \A j \in DOMAIN table : table[j] \in Row
  BY DEF Sound
<1> HIDE DEF N
<1>2. DOMAIN new = DOMAIN table /\ \A j \in DOMAIN table : new[j] = IF j = i THEN e ELSE table[j]
  BY Zenon DEF Stored
<1>3. new \in [DOMAIN table -> Row]
  <2>1. \A j \in DOMAIN table : (IF j = i THEN e ELSE table[j]) \in Row
    BY <1>1, Zenon
  <2> QED BY <2>1, Zenon DEF Stored
<1> HIDE DEF new
<1>4. \A j \in DOMAIN table : SameColumns(new[j], table[j])
  <2> SUFFICES ASSUME NEW j \in DOMAIN table PROVE SameColumns(new[j], table[j])
    OBVIOUS
  <2>1. CASE j = i
    BY <1>2, <2>1, Zenon
  <2>2. CASE j # i
    <3>1. new[j] = table[j]
      BY <1>2, <2>2
    <3> QED BY <3>1, Zenon DEF SameColumns
  <2> QED BY <2>1, <2>2
<1>5. new \in Seq(Row)
  <2>1. new \in [1..N -> Row]
    BY <1>1, <1>3
  <2> QED BY <1>1, <2>1
<1>6. Sound(new, grouped) /\ Keeps(table, new)
  BY <1>2, <1>4, <1>5, SameColumnsKeep, Zenon
<1> QED BY <1>2, <1>4, <1>6, Zenon DEF new

LEMMA StoredRetells ==
  ASSUME NEW table \in Seq(Row), NEW i \in DOMAIN table, NEW e, SameContent(e, table[i])
  PROVE  Retells(table, Stored(table, i, e))
<1> DEFINE new == Stored(table, i, e)
<1>1. DOMAIN new = DOMAIN table /\ \A j \in DOMAIN table : new[j] = IF j = i THEN e ELSE table[j]
  BY Zenon DEF Stored
<1> HIDE DEF new
<1>2. ASSUME NEW j \in DOMAIN table PROVE SameContent(new[j], table[j])
  <2>1. CASE j = i
    BY <1>1, <2>1, Zenon
  <2>2. CASE j # i
    <3>1. new[j] = table[j]
      BY <1>1, <2>2
    <3> QED BY <3>1, Zenon DEF SameContent
  <2> QED BY <2>1, <2>2
<1> QED BY <1>1, <1>2, Zenon DEF Retells, new

LEMMA SameColumnsChained ==
  ASSUME NEW table, NEW new, DOMAIN new = DOMAIN table,
         \A i \in DOMAIN table : SameColumns(new[i], table[i]), Chained(table)
  PROVE  Chained(new)
<1> SUFFICES ASSUME NEW i \in DOMAIN table PROVE ChainedAt(new, i)
  BY Zenon DEF Chained
<1>1. /\ ChainedAt(table, i)
      /\ \A j \in DOMAIN table : /\ new[j].history = table[j].history
                                /\ new[j].sequence = table[j].sequence
  BY Zenon DEF Chained, SameColumns
<1> QED BY <1>1, Zenon DEF ChainedAt

\* The approvals a publication may have been caused by.
Approvals(table, p) ==
  {i \in DOMAIN table :
     /\ table[i].action = "approved"
     /\ table[i].subject = table[p].subject
     /\ table[i].history = table[p].history}

LEMMA WithApprovalKeeps ==
  ASSUME NEW grouped, NEW table, Sound(table, grouped), NEW p \in DOMAIN table,
         Range(created) \subseteq Records,
         \A r \in Range(created) : grouped[r] \in Nat
  PROVE  LET full == WithApproval(table, p) IN
         /\ Sound(full, grouped) /\ Keeps(table, full)
         /\ \A i \in DOMAIN table : full[i] = table[i]
         /\ \A i \in DOMAIN full :
              i \notin DOMAIN table => full[i].action = "approved" /\ full[i].cause = 0
         /\ Approvals(full, p) # {}
         /\ Retells(table, full)
         /\ Chained(table) => Chained(full)
<1> DEFINE r == table[p].subject
           h == table[p].history
           e == Inferred(r, "approved", System("migration_backfill"), h)
           full == WithApproval(table, p)
<1>1. r \in Range(created) /\ r \in Records /\ h = grouped[r] /\ h \in Nat
  BY Zenon DEF Sound
<1>2. CASE Approvals(table, p) # {}
  <2>1. full = table
    BY <1>2, Zenon DEF WithApproval, Approvals
  <2>2. Keeps(table, table)
    BY Zenon DEF Keeps
  <2>3. Retells(table, table)
    <3>1. \A i \in DOMAIN table : SameContent(table[i], table[i])
      BY Zenon DEF SameContent
    <3> QED BY <3>1, Zenon DEF Retells
  <2> HIDE DEF full
  <2> QED BY <1>2, <2>1, <2>2, <2>3 DEF full
<1>3. CASE Approvals(table, p) = {}
  <2>1. full = AppendAll(table, h, <<e>>)
    BY <1>3, Zenon DEF WithApproval, Approvals
  <2>2. e \in OwnRows(r, h) /\ e.action = "approved" /\ e.cause = 0
    <3>1. System("migration_backfill") \in Actors
      BY Zenon DEF Actors, System
    <3> HIDE DEF r, h
    <3> QED BY <1>1, <3>1, InferredOwn
  <2>3. e.actor = System("migration_backfill")
    BY InferredContent
  <2>4. e \in Row /\ e.subject = r /\ e.history = h
    BY <2>2, Zenon DEF OwnRows
  <2> HIDE DEF e, r, h
  <2> DEFINE new == <<e>>
  <2>5. new \in Seq(Row) /\ DOMAIN new = {1} /\ Len(new) = 1 /\ new[1] = e
    BY <2>4
  <2>6. Appendable(new, h, grouped)
    BY <1>1, <2>4, <2>5, Zenon DEF Appendable
  <2>7. Sound(full, grouped) /\ Appended(table, new, h, full)
    <3>1. Sound(AppendAll(table, h, new), grouped) /\ Appended(table, new, h, AppendAll(table, h, new))
      <4> HIDE DEF new
      <4> QED BY <2>6, AppendAllKeeps, Zenon
    <3> HIDE DEF full
    <3> QED BY <2>1, <3>1, Zenon
  <2>14. Chained(table) => Chained(full)
    <3> HIDE DEF new
    <3>1. Chained(table) => Chained(AppendAll(table, h, new))
      BY <2>6, AppendAllChained, Zenon
    <3> HIDE DEF full
    <3> QED BY <2>1, <3>1, Zenon DEF new
  <2> HIDE DEF full, new
  <2>8. Keeps(table, full)
    BY <2>7, Zenon DEF Keeps, Appended
  <2> DEFINE k == Len(table) + 1
  <2>9. 1 \in 1..Len(new) /\ new[1] = e
    BY <2>5
  <2>10. k \in DOMAIN full /\ full[k].action = e.action
         /\ full[k].subject = e.subject /\ full[k].history = h
    BY <2>7, <2>9, Zenon DEF Appended
  <2> HIDE DEF k
  <2>11. \A i \in DOMAIN table : full[i] = table[i]
    BY <2>7, Zenon DEF Appended
  <2>13. ASSUME NEW i \in DOMAIN full, i \notin DOMAIN table
         PROVE  /\ full[i].action = "approved" /\ full[i].cause = 0
                /\ full[i].actor = System("migration_backfill")
    <3>1. DOMAIN full = 1..(Len(table) + Len(new))
      BY <2>7, Zenon DEF Appended
    <3>2. DOMAIN table = 1..Len(table) /\ Len(table) \in Nat
      BY DEF Sound
    <3>3. i = Len(table) + 1
      BY <2>5, <2>13, <3>1, <3>2
    <3>4. full[i].action = new[1].action /\ full[i].cause = new[1].cause
      BY <2>7, <2>9, <3>3, Zenon DEF Appended
    <3>5. full[i] = WithNumber(new[1], LastSequence(table, h) + 1)
      BY <2>7, <2>9, <3>3, Zenon DEF Appended
    <3> DEFINE l == LastSequence(table, h) + 1
    <3> HIDE DEF l
    <3>6. SameContent(WithNumber(e, l), e)
      BY <2>4, ContentKept, Zenon
    <3>7. full[i] = WithNumber(e, l)
      BY <2>5, <3>5 DEF l
    <3>8. full[i].actor = e.actor
      BY <3>6, <3>7, Zenon DEF SameContent
    <3> QED BY <2>2, <2>3, <2>5, <3>4, <3>8
  <2>12. k \in Approvals(full, p)
    BY <2>2, <2>4, <2>10, <2>11, Zenon DEF Approvals, r, h
  <2>15. Retells(table, full)
    <3>1. \A i \in DOMAIN table : SameContent(full[i], table[i])
      BY <2>11, Zenon DEF SameContent
    <3> QED BY <2>8, <2>13, <3>1, Zenon DEF Retells, Keeps
  <2> QED BY <2>7, <2>8, <2>11, <2>12, <2>13, <2>14, <2>15, Zenon DEF full
<1> QED BY <1>2, <1>3

LEMMA CauseChosen ==
  ASSUME NEW grouped, NEW table, Sound(table, grouped),
         \A r \in Range(created) : grouped[r] \in Nat,
         NEW p \in DOMAIN table, Approvals(table, p) # {}, NEW n
  PROVE  CauseOf(table, p, n) \in Approvals(table, p)
<1> DEFINE A == Approvals(table, p)
           early == {i \in A : table[i].sequence < n}
<1>1. \A i \in DOMAIN table : table[i].sequence \in Nat
  BY RowsAreNumbered, Zenon
<1>2. A \in SUBSET DOMAIN table /\ A # {}
  BY Zenon DEF Approvals
<1>3. IsFiniteSet(A)
  <2>1. DOMAIN table = 1..Len(table) /\ Len(table) \in Nat
    BY DEF Sound
  <2>2. IsFiniteSet(DOMAIN table)
    BY <2>1, FirstNumbers
  <2> HIDE DEF A
  <2> QED BY <1>2, <2>2, FS_Subset
<1> HIDE DEF A
<1>4. IsFiniteSet(early) /\ early \in SUBSET A
  BY <1>3, FS_Subset
<1>5. CauseOf(table, p, n) =
        IF early # {} THEN CHOOSE i \in early : \A j \in early : table[j].sequence <= table[i].sequence
        ELSE CHOOSE i \in A : \A j \in A : table[i].sequence <= table[j].sequence
  BY Zenon DEF CauseOf, A, Approvals
<1>6. CASE early # {}
  <2> DEFINE g == [i \in early |-> table[i].sequence]
  <2>1. g \in [early -> Nat]
    BY <1>1, <1>2
  <2>2. \A i \in early : g[i] = table[i].sequence
    BY Zenon
  <2> HIDE DEF g, early
  <2>3. PICK i \in early : \A j \in early : g[j] <= g[i]
    BY <1>4, <1>6, <2>1, GreatestMember
  <2>4. \A j \in early : table[j].sequence <= table[i].sequence
    BY <2>2, <2>3
  <2>5. CauseOf(table, p, n) \in early
    BY <1>5, <1>6, <2>4, Zenon
  <2> QED BY <1>4, <2>5 DEF A
<1>7. CASE early = {}
  <2> DEFINE used == {table[i].sequence : i \in A}
  <2>1. used \in SUBSET Nat /\ used # {}
    BY <1>1, <1>2
  <2>2. PICK s \in used : \A t \in used : s <= t
    <3> HIDE DEF used
    <3> QED BY <2>1, LeastMember
  <2>3. PICK i \in A : s = table[i].sequence
    OBVIOUS
  <2>4. \A j \in A : table[i].sequence <= table[j].sequence
    BY <2>2, <2>3
  <2>5. CauseOf(table, p, n) \in A
    <3> HIDE DEF early
    <3> QED BY <1>5, <1>7, <2>4, Zenon
  <2> QED BY <2>5 DEF A
<1> QED BY <1>6, <1>7

\* What moving approval a in front of publication p does to the columns.
Reordered(table, a, p, new) ==
  /\ DOMAIN new = DOMAIN table
  /\ new = [i \in DOMAIN table |-> new[i]]
  /\ \A i \in DOMAIN table :
       LET from == table[a].sequence
           to == table[p].sequence
       IN  /\ new[i] \in Row
           /\ new[i].subject = table[i].subject /\ new[i].action = table[i].action
           /\ new[i].history = table[i].history /\ new[i].cause = table[i].cause
           /\ table[i].history # table[p].history => new[i].sequence = table[i].sequence
           /\ i = a => new[i].sequence = to
           /\ (i # a /\ table[i].history = table[p].history) => new[i].sequence =
                IF table[i].sequence \in to..(from - 1)
                THEN table[i].sequence + 1 ELSE table[i].sequence

LEMMA ReorderColumns ==
  ASSUME NEW grouped, NEW table, Sound(table, grouped),
         \A r \in Range(created) : grouped[r] \in Nat,
         NEW p \in DOMAIN table, NEW a \in DOMAIN table,
         table[a].history = table[p].history,
         table[p].sequence < table[a].sequence
  PROVE  Reordered(table, a, p, Reorder(table, a, p))
<1> DEFINE from == table[a].sequence
           to == table[p].sequence
           h == table[p].history
           moved(i) == IF table[i].history # h THEN table[i]
                       ELSE IF i = a THEN [table[i] EXCEPT !.sequence = to]
                       ELSE IF table[i].sequence \in to..(from - 1)
                            THEN [table[i] EXCEPT !.sequence = table[i].sequence + 1]
                       ELSE table[i]
           new == [i \in DOMAIN table |-> moved(i)]
<1>1. \A i \in DOMAIN table :
        table[i] \in Row /\ table[i].sequence \in Nat /\ table[i].history \in Nat
  BY RowsAreNumbered, Zenon
<1>2. from \in Nat /\ to \in Nat /\ to < from
  BY <1>1
<1>3. Reorder(table, a, p) = new
  <2>1. ~(from < to)
    BY <1>2
  <2> QED BY <2>1, Zenon DEF Reorder
<1>4. \A i \in DOMAIN table : new[i] = moved(i)
  BY Zenon
<1>5. DOMAIN new = DOMAIN table /\ new = [i \in DOMAIN table |-> new[i]]
  BY Zenon
<1> HIDE DEF new, moved, from, to, h
<1>6. ASSUME NEW i \in DOMAIN table
      PROVE  /\ new[i] \in Row
             /\ new[i].subject = table[i].subject /\ new[i].action = table[i].action
             /\ new[i].history = table[i].history /\ new[i].cause = table[i].cause
             /\ table[i].history # h => new[i].sequence = table[i].sequence
             /\ i = a => new[i].sequence = to
             /\ (i # a /\ table[i].history = h) => new[i].sequence =
                  IF table[i].sequence \in to..(from - 1)
                  THEN table[i].sequence + 1 ELSE table[i].sequence
  <2> DEFINE e == table[i]
  <2>1. e \in Row /\ e.sequence \in Nat /\ e.sequence + 1 \in Nat
    BY <1>1
  <2>2. CASE e.history # h
    <3>1. new[i] = e /\ i # a
      BY <1>4, <2>2 DEF moved, h
    <3> HIDE DEF e
    <3> QED BY <2>1, <2>2, <3>1 DEF e
  <2>3. CASE e.history = h /\ i = a
    <3> DEFINE d == WithNumber(e, to)
    <3>1. new[i] = d
      BY <1>4, <2>3, Zenon DEF moved, WithNumber
    <3> HIDE DEF e
    <3>2. /\ d \in Row /\ d.sequence = to
          /\ d.subject = e.subject /\ d.action = e.action /\ d.history = e.history
          /\ d.cause = e.cause
      BY <1>2, <2>1, RowNumbered, Zenon
    <3> HIDE DEF d
    <3> QED BY <2>3, <3>1, <3>2 DEF e
  <2>4. CASE e.history = h /\ i # a /\ e.sequence \in to..(from - 1)
    <3> DEFINE d == WithNumber(e, e.sequence + 1)
    <3>1. new[i] = d
      BY <1>4, <2>4, Zenon DEF moved, WithNumber
    <3> HIDE DEF e
    <3>2. /\ d \in Row /\ d.sequence = e.sequence + 1
          /\ d.subject = e.subject /\ d.action = e.action /\ d.history = e.history
          /\ d.cause = e.cause
      BY <2>1, RowNumbered, Zenon
    <3> HIDE DEF d
    <3> QED BY <2>4, <3>1, <3>2 DEF e
  <2>5. CASE e.history = h /\ i # a /\ e.sequence \notin to..(from - 1)
    <3>1. new[i] = e
      BY <1>4, <2>5, Zenon DEF moved
    <3> HIDE DEF e
    <3> QED BY <2>1, <2>5, <3>1 DEF e
  <2> QED BY <2>2, <2>3, <2>4, <2>5
<1> QED BY <1>3, <1>5, <1>6, Zenon DEF Reordered, from, to, h

(* An approval moves in front of a publication of the same history: no other *)
(* two events change places, and no two get one number.                     *)
LEMMA ReorderKeeps ==
  ASSUME NEW grouped, NEW table, Sound(table, grouped),
         \A r \in Range(created) : grouped[r] \in Nat,
         NEW p \in DOMAIN table, table[p].action # "approved",
         NEW a \in DOMAIN table, table[a].action = "approved",
         table[a].history = table[p].history
  PROVE  Sound(Reorder(table, a, p), grouped) /\ Keeps(table, Reorder(table, a, p))
<1> DEFINE from == table[a].sequence
           to == table[p].sequence
           h == table[p].history
           N == Len(table)
           new == Reorder(table, a, p)
<1>1. \A i \in DOMAIN table :
        table[i] \in Row /\ table[i].sequence \in Nat /\ table[i].history \in Nat
  BY RowsAreNumbered, Zenon
<1>2. /\ \A i \in DOMAIN table :
           table[i].subject \in Range(created) /\ table[i].history = grouped[table[i].subject]
      /\ \A i, j \in DOMAIN table :
           table[i].history = table[j].history /\ table[i].sequence = table[j].sequence => i = j
  BY Zenon DEF Sound
<1>3. table \in Seq(Row) /\ DOMAIN table = 1..N /\ N \in Nat
  BY DEF Sound
<1>4. from \in Nat /\ to \in Nat /\ from # to
  <2>1. a # p
    OBVIOUS
  <2> QED BY <1>1, <1>2, <2>1, Zenon
<1>5. CASE from < to
  <2>1. Reorder(table, a, p) = table
    BY <1>5, Zenon DEF Reorder
  <2>2. Keeps(table, table)
    BY Zenon DEF Keeps
  <2> QED BY <2>1, <2>2
<1>6. CASE to < from
  <2>1. /\ DOMAIN new = DOMAIN table
        /\ new = [i \in DOMAIN table |-> new[i]]
        /\ \A i \in DOMAIN table :
             /\ new[i] \in Row
             /\ new[i].subject = table[i].subject /\ new[i].action = table[i].action
             /\ new[i].history = table[i].history
             /\ table[i].history # h => new[i].sequence = table[i].sequence
             /\ i = a => new[i].sequence = to
             /\ (i # a /\ table[i].history = h) => new[i].sequence =
                  IF table[i].sequence \in to..(from - 1)
                  THEN table[i].sequence + 1 ELSE table[i].sequence
    <3>1. Reordered(table, a, p, new)
      BY <1>6, ReorderColumns, Zenon
    <3> QED BY <3>1, Zenon DEF Reordered
  <2> HIDE DEF new, from, to, h, N
  <2>2. new \in Seq(Row)
    <3>1. new \in [DOMAIN table -> Row]
      BY <2>1, Zenon
    <3> QED BY <1>3, <3>1
  <2>3. table[a].history = h /\ table[a].sequence = from /\ \A i \in DOMAIN table : i # a =>
          (table[i].history = h => table[i].sequence # from)
    BY <1>2 DEF h, from
  <2>4. ASSUME NEW i \in DOMAIN table, NEW j \in DOMAIN table, i # j,
               new[i].history = new[j].history
        PROVE  new[i].sequence # new[j].sequence
    <3>1. table[i].history = table[j].history /\ table[i].sequence # table[j].sequence
      BY <1>2, <2>1, <2>4, Zenon
    <3>2. /\ table[i].sequence \in Nat /\ table[j].sequence \in Nat
          /\ i # a /\ table[i].history = h => table[i].sequence # from
          /\ j # a /\ table[j].history = h => table[j].sequence # from
      BY <1>1, <2>3
    <3>3. CASE table[i].history # h
      BY <2>1, <3>1, <3>3
    <3>4. CASE table[i].history = h /\ i = a
      <4>1. new[i].sequence = to
        BY <2>1, <3>4
      <4>2. new[j].sequence = IF table[j].sequence \in to..(from - 1)
                              THEN table[j].sequence + 1 ELSE table[j].sequence
        BY <2>1, <2>4, <3>1, <3>4
      <4> QED BY <1>4, <1>6, <3>2, <4>1, <4>2
    <3>5. CASE table[i].history = h /\ j = a
      <4>1. new[j].sequence = to
        BY <2>1, <3>5
      <4>2. new[i].sequence = IF table[i].sequence \in to..(from - 1)
                              THEN table[i].sequence + 1 ELSE table[i].sequence
        BY <2>1, <2>4, <3>5
      <4> QED BY <1>4, <1>6, <3>2, <4>1, <4>2
    <3>6. CASE table[i].history = h /\ i # a /\ j # a
      <4>1. new[i].sequence = IF table[i].sequence \in to..(from - 1)
                              THEN table[i].sequence + 1 ELSE table[i].sequence
        BY <2>1, <3>6
      <4>2. new[j].sequence = IF table[j].sequence \in to..(from - 1)
                              THEN table[j].sequence + 1 ELSE table[j].sequence
        BY <2>1, <3>1, <3>6
      <4> QED BY <1>4, <1>6, <3>1, <3>2, <3>6, <4>1, <4>2
    <3> QED BY <3>3, <3>4, <3>5, <3>6
  <2>5. Sound(new, grouped)
    <3>1. \A i : i \in DOMAIN new <=> i \in DOMAIN table
      BY <2>1, Zenon
    <3>2. \A i \in DOMAIN new :
            new[i].subject \in Range(created) /\ new[i].history = grouped[new[i].subject]
      BY <1>2, <2>1, <3>1, Zenon
    <3>3. \A i, j \in DOMAIN new :
            new[i].history = new[j].history /\ new[i].sequence = new[j].sequence => i = j
      BY <2>4, <3>1, Zenon
    <3> QED BY <2>2, <3>2, <3>3, Zenon DEF Sound
  <2>6. ASSUME NEW i \in DOMAIN table, NEW j \in DOMAIN table,
               table[i].history = table[j].history, table[i].sequence < table[j].sequence,
               "approved" \notin {table[i].action, table[j].action}
        PROVE  new[i].sequence < new[j].sequence
    <3>1. i # a /\ j # a
      BY <2>6
    <3>2. /\ table[i].sequence \in Nat /\ table[j].sequence \in Nat
          /\ table[i].history = h => table[i].sequence # from
          /\ table[j].history = h => table[j].sequence # from
      BY <1>1, <2>3, <3>1
    <3>3. CASE table[i].history # h
      BY <2>1, <2>6, <3>3
    <3>4. CASE table[i].history = h
      <4>1. new[i].sequence = IF table[i].sequence \in to..(from - 1)
                              THEN table[i].sequence + 1 ELSE table[i].sequence
        BY <2>1, <3>1, <3>4
      <4>2. new[j].sequence = IF table[j].sequence \in to..(from - 1)
                              THEN table[j].sequence + 1 ELSE table[j].sequence
        BY <2>1, <2>6, <3>1, <3>4
      <4> QED BY <1>4, <2>6, <3>2, <3>4, <4>1, <4>2
    <3> QED BY <3>3, <3>4
  <2>7. Keeps(table, new)
    BY <2>1, <2>6, Zenon DEF Keeps
  <2> QED BY <2>5, <2>7 DEF new
<1> QED BY <1>4, <1>5, <1>6

LEMMA ReorderRetells ==
  ASSUME NEW table \in Seq(Row), NEW a, NEW p
  PROVE  Retells(table, Reorder(table, a, p))
<1> DEFINE from == table[a].sequence
           to == table[p].sequence
           moved(i) == IF table[i].history # table[p].history THEN table[i]
                       ELSE IF i = a THEN WithNumber(table[i], to)
                       ELSE IF table[i].sequence \in to..(from - 1)
                            THEN WithNumber(table[i], table[i].sequence + 1)
                       ELSE table[i]
           new == [i \in DOMAIN table |-> moved(i)]
<1>1. \A i \in DOMAIN table : table[i] \in Row
  OBVIOUS
<1>2. Reorder(table, a, p) = IF from < to THEN table ELSE new
  BY Zenon DEF Reorder, WithNumber
<1>3. ASSUME NEW i \in DOMAIN table
      PROVE  SameContent(table[i], table[i]) /\ SameContent(moved(i), table[i])
  <2> DEFINE e == table[i]
             n == e.sequence + 1
  <2>1. e \in Row
    BY <1>1
  <2>2. moved(i) = e \/ moved(i) = WithNumber(e, to) \/ moved(i) = WithNumber(e, n)
    BY Zenon
  <2> HIDE DEF e, n, moved, to
  <2>3. /\ SameContent(e, e) /\ SameContent(WithNumber(e, to), e)
        /\ SameContent(WithNumber(e, n), e)
    BY <2>1, ContentKept, Zenon
  <2>4. SameContent(moved(i), e)
    BY <2>2, <2>3, Zenon
  <2> QED BY <2>3, <2>4, Zenon DEF e
<1>4. Retells(table, table)
  BY <1>3, Zenon DEF Retells
<1>5. Retells(table, new)
  <2> HIDE DEF moved
  <2>1. DOMAIN new = DOMAIN table /\ \A i \in DOMAIN table : new[i] = moved(i)
    BY Zenon
  <2> HIDE DEF new
  <2>2. \A i \in DOMAIN table : SameContent(new[i], table[i])
    BY <1>3, <2>1, Zenon
  <2> QED BY <2>1, <2>2, Zenon DEF Retells
<1> HIDE DEF new
<1> QED BY <1>2, <1>4, <1>5, Zenon

(* The numbers between the two are still used, each of them once.           *)
LEMMA ReorderChained ==
  ASSUME NEW grouped, NEW table, Sound(table, grouped), Chained(table),
         \A r \in Range(created) : grouped[r] \in Nat,
         NEW p \in DOMAIN table, NEW a \in DOMAIN table, a # p,
         table[a].history = table[p].history
  PROVE  Chained(Reorder(table, a, p))
<1> DEFINE from == table[a].sequence
           to == table[p].sequence
           h == table[p].history
           new == Reorder(table, a, p)
<1>1. \A i \in DOMAIN table : table[i].sequence \in Nat /\ ChainedAt(table, i)
  BY RowsAreNumbered, Zenon DEF Chained
<1>2. \A i, j \in DOMAIN table :
        table[i].history = table[j].history /\ table[i].sequence = table[j].sequence => i = j
  BY Zenon DEF Sound
<1>3. from \in Nat /\ to \in Nat /\ from # to
  BY <1>1, <1>2, Zenon
<1>4. CASE from < to
  <2>1. Reorder(table, a, p) = table
    BY <1>4, Zenon DEF Reorder
  <2> QED BY <2>1
<1>5. CASE to < from
  <2>1. /\ DOMAIN new = DOMAIN table
        /\ \A i \in DOMAIN table :
             /\ new[i].history = table[i].history
             /\ table[i].history # h => new[i].sequence = table[i].sequence
             /\ i = a => new[i].sequence = to
             /\ (i # a /\ table[i].history = h) => new[i].sequence =
                  IF table[i].sequence \in to..(from - 1)
                  THEN table[i].sequence + 1 ELSE table[i].sequence
    <3>1. Reordered(table, a, p, new)
      BY <1>5, ReorderColumns, Zenon
    <3> QED BY <3>1, Zenon DEF Reordered
  <2>2. /\ table[a].history = h /\ table[a].sequence = from
        /\ table[p].history = h /\ table[p].sequence = to
        /\ \A i \in DOMAIN table : i # a => (table[i].history = h => table[i].sequence # from)
    BY <1>2
  <2> HIDE DEF new, from, to, h
  <2>3. ASSUME NEW i \in DOMAIN table, table[i].sequence # 1
        PROVE  \E j \in DOMAIN table : /\ table[j].history = table[i].history
                                      /\ table[j].sequence = table[i].sequence - 1
    BY <1>1, <2>3, Zenon DEF ChainedAt
  <2>4. \A i \in DOMAIN table : table[i].sequence > 0
    BY <1>1, Zenon DEF ChainedAt
  <2>5. \A i \in DOMAIN table : i # a /\ table[i].history = h =>
          new[i].sequence = IF table[i].sequence \in to..(from - 1)
                            THEN table[i].sequence + 1 ELSE table[i].sequence
    BY <2>1
  <2>6. SUFFICES ASSUME NEW i \in DOMAIN table
                 PROVE  /\ new[i].sequence > 0
                        /\ \/ new[i].sequence = 1
                           \/ \E j \in DOMAIN table :
                                /\ new[j].history = new[i].history
                                /\ new[j].sequence = new[i].sequence - 1
    BY <2>1, Zenon DEF Chained, ChainedAt, new
  <2> DEFINE s == table[i].sequence
  <2>7. s \in Nat /\ s > 0
    BY <1>1, <2>4
  <2>8. CASE table[i].history # h
    <3>1. CASE s = 1
      BY <2>1, <2>8, <3>1
    <3>2. CASE s # 1
      <4>1. PICK j \in DOMAIN table : table[j].history = table[i].history /\ table[j].sequence = s - 1
        BY <2>3, <3>2
      <4> QED BY <2>1, <2>7, <2>8, <4>1
    <3> QED BY <3>1, <3>2
  <2>9. CASE i = a
    <3>1. new[i].sequence = to /\ new[i].history = h /\ to > 0
      BY <2>1, <2>2, <2>4, <2>9
    <3>2. CASE to # 1
      <4>1. PICK j \in DOMAIN table : table[j].history = h /\ table[j].sequence = to - 1
        BY <2>2, <2>3, <3>2
      <4>2. new[j].sequence = to - 1 /\ new[j].history = h
        BY <1>3, <1>5, <2>1, <2>2, <2>5, <4>1
      <4> QED BY <3>1, <4>2
    <3> QED BY <3>1, <3>2
  <2>10. CASE table[i].history = h /\ i # a /\ s \in to..(from - 1)
    <3>1. new[i].sequence = s + 1 /\ new[i].history = h
      BY <2>1, <2>5, <2>10
    <3>2. CASE s = to
      <4>1. new[a].sequence = s /\ new[a].history = h
        BY <2>1, <2>2, <3>2
      <4> QED BY <2>7, <3>1, <4>1
    <3>3. CASE s # to
      <4>1. s > to /\ s # 1
        BY <1>3, <2>2, <2>4, <2>7, <2>10, <3>3
      <4>2. PICK j \in DOMAIN table : table[j].history = h /\ table[j].sequence = s - 1
        BY <2>3, <2>10, <4>1
      <4>3. new[j].sequence = s /\ new[j].history = h
        BY <1>3, <2>1, <2>2, <2>5, <2>7, <2>10, <4>1, <4>2
      <4> QED BY <2>7, <3>1, <4>3
    <3> QED BY <3>2, <3>3
  <2>11. CASE table[i].history = h /\ i # a /\ s < to
    <3>1. new[i].sequence = s /\ new[i].history = h
      BY <1>3, <2>1, <2>5, <2>7, <2>11
    <3>2. CASE s # 1
      <4>1. PICK j \in DOMAIN table : table[j].history = h /\ table[j].sequence = s - 1
        BY <2>3, <2>11, <3>2
      <4>2. new[j].sequence = s - 1 /\ new[j].history = h
        BY <1>3, <1>5, <2>1, <2>2, <2>5, <2>7, <2>11, <4>1
      <4> QED BY <2>7, <3>1, <4>2
    <3> QED BY <2>7, <3>1, <3>2
  <2>12. CASE table[i].history = h /\ i # a /\ s > from
    <3>1. new[i].sequence = s /\ new[i].history = h /\ s # 1 /\ from # 1
      BY <1>3, <1>5, <2>1, <2>2, <2>4, <2>5, <2>7, <2>12
    <3>2. CASE s - 1 = from
      <4>1. PICK j \in DOMAIN table : table[j].history = h /\ table[j].sequence = from - 1
        BY <2>2, <2>3, <3>1
      <4>2. new[j].sequence = from /\ new[j].history = h
        BY <1>3, <1>5, <2>1, <2>2, <2>5, <4>1
      <4> QED BY <2>7, <3>1, <3>2, <4>2
    <3>3. CASE s - 1 # from
      <4>1. PICK j \in DOMAIN table : table[j].history = h /\ table[j].sequence = s - 1
        BY <2>3, <2>12, <3>1
      <4>2. new[j].sequence = s - 1 /\ new[j].history = h
        BY <1>3, <1>5, <2>1, <2>2, <2>5, <2>7, <2>12, <3>3, <4>1
      <4> QED BY <2>7, <3>1, <4>2
    <3> QED BY <3>2, <3>3
  <2>13. table[i].history = h /\ i # a => s # from
    BY <2>2
  <2> QED BY <1>3, <2>7, <2>8, <2>9, <2>10, <2>11, <2>12, <2>13
<1> QED BY <1>3, <1>4, <1>5

(* An approval of its record in front of the publication explains it, and   *)
(* no other approval falls behind the publication that names it.            *)
LEMMA ReorderExplains ==
  ASSUME NEW grouped, NEW table, Sound(table, grouped),
         \A r \in Range(created) : grouped[r] \in Nat,
         NEW p \in DOMAIN table, table[p].action = "published",
         NEW a \in DOMAIN table, table[a].action = "approved",
         table[a].history = table[p].history, table[a].subject = table[p].subject,
         table[p].cause = a,
         \A i \in DOMAIN table : i # p /\ table[i].cause # 0 => CausedBy(table, i)
  PROVE  LET new == Reorder(table, a, p) IN
         /\ CausesFirst(new)
         /\ DOMAIN new = DOMAIN table
         /\ \A i \in DOMAIN table :
              new[i].action = table[i].action /\ new[i].cause = table[i].cause
<1> DEFINE from == table[a].sequence
           to == table[p].sequence
           h == table[p].history
           new == Reorder(table, a, p)
<1>1. \A i \in DOMAIN table :
        table[i] \in Row /\ table[i].sequence \in Nat /\ table[i].history \in Nat
  BY RowsAreNumbered, Zenon
<1>2. /\ \A i \in DOMAIN table : table[i].history = grouped[table[i].subject]
      /\ \A i, j \in DOMAIN table :
           table[i].history = table[j].history /\ table[i].sequence = table[j].sequence => i = j
  BY Zenon DEF Sound
<1>3. from \in Nat /\ to \in Nat /\ from # to
  <2>1. a # p
    OBVIOUS
  <2> QED BY <1>1, <1>2, <2>1, Zenon
<1>4. CASE from < to
  <2>1. new = table
    BY <1>4, Zenon DEF Reorder
  <2>2. CausedBy(table, p)
    BY <1>4 DEF CausedBy
  <2>3. CausesFirst(table)
    BY <2>2, Zenon DEF CausesFirst
  <2> HIDE DEF new
  <2> QED BY <2>1, <2>3 DEF new
<1>5. CASE to < from
  <2>1. /\ DOMAIN new = DOMAIN table
        /\ \A i \in DOMAIN table :
             /\ new[i].subject = table[i].subject /\ new[i].action = table[i].action
             /\ new[i].history = table[i].history /\ new[i].cause = table[i].cause
             /\ table[i].history # h => new[i].sequence = table[i].sequence
             /\ i = a => new[i].sequence = to
             /\ (i # a /\ table[i].history = h) => new[i].sequence =
                  IF table[i].sequence \in to..(from - 1)
                  THEN table[i].sequence + 1 ELSE table[i].sequence
    <3>1. Reordered(table, a, p, new)
      BY <1>5, ReorderColumns, Zenon
    <3> QED BY <3>1, Zenon DEF Reordered
  <2> HIDE DEF new, from, to, h
  <2>2. \A i \in DOMAIN table : i # a => (table[i].history = h => table[i].sequence # from)
    BY <1>2 DEF h, from
  <2>3. table[a].history = h /\ table[p].history = h
        /\ table[a].sequence = from /\ table[p].sequence = to /\ a # p
    BY DEF h, from, to
  <2>4. ASSUME NEW i \in DOMAIN table, table[i].cause # 0
        PROVE  /\ table[i].action = "published" /\ table[i].cause \in DOMAIN table
               /\ table[table[i].cause].action = "approved"
               /\ table[table[i].cause].subject = table[i].subject
               /\ new[table[i].cause].sequence < new[i].sequence
    <3>1. CASE i = p
      <4>1. new[a].sequence = to /\ new[p].sequence = to + 1
        BY <1>3, <1>5, <2>1, <2>3
      <4> QED BY <1>3, <3>1, <4>1
    <3>2. CASE i # p
      <4> DEFINE c == table[i].cause
      <4>1. CausedBy(table, i)
        BY <2>4, <3>2
      <4>2. /\ table[i].action = "published" /\ c \in DOMAIN table
            /\ table[c].action = "approved" /\ table[c].subject = table[i].subject
            /\ table[c].sequence < table[i].sequence
        BY <4>1, Zenon DEF CausedBy
      <4> HIDE DEF c
      <4>3. table[c].history = table[i].history /\ i # a
        <5>1. i # a
          BY <4>2
        <5>2. /\ table[i].history = grouped[table[i].subject]
              /\ table[c].history = grouped[table[c].subject]
          BY <1>2, <4>2, Zenon
        <5> QED BY <4>2, <5>1, <5>2
      <4>4. /\ table[i].sequence \in Nat /\ table[c].sequence \in Nat
            /\ table[i].history = h => table[i].sequence # from
        BY <1>1, <2>2, <4>2, <4>3
      <4>5. new[c].sequence < new[i].sequence
        <5>1. CASE table[i].history # h
          BY <2>1, <4>2, <4>3, <5>1
        <5>2. CASE table[i].history = h
          <6>1. new[i].sequence = IF table[i].sequence \in to..(from - 1)
                                  THEN table[i].sequence + 1 ELSE table[i].sequence
            BY <2>1, <4>3, <5>2
          <6>2. CASE c = a
            <7>1. new[c].sequence = to /\ table[c].sequence = from
              BY <2>1, <2>3, <6>2
            <7> QED BY <1>3, <1>5, <4>2, <4>4, <6>1, <7>1
          <6>3. CASE c # a
            <7>1. new[c].sequence = IF table[c].sequence \in to..(from - 1)
                                    THEN table[c].sequence + 1 ELSE table[c].sequence
              BY <2>1, <4>2, <4>3, <5>2, <6>3
            <7> QED BY <1>3, <1>5, <4>2, <4>4, <5>2, <6>1, <7>1
          <6> QED BY <6>2, <6>3
        <5> QED BY <5>1, <5>2
      <4> QED BY <4>2, <4>5 DEF c
    <3> QED BY <3>1, <3>2
  <2>5. ASSUME NEW i \in DOMAIN new, new[i].cause # 0 PROVE CausedBy(new, i)
    <3>1. i \in DOMAIN table /\ new[i].cause = table[i].cause /\ new[i].action = table[i].action
          /\ new[i].subject = table[i].subject
      BY <2>1
    <3> DEFINE c == table[i].cause
    <3>2. /\ table[i].action = "published" /\ c \in DOMAIN table
          /\ table[c].action = "approved" /\ table[c].subject = table[i].subject
          /\ new[c].sequence < new[i].sequence
      BY <2>4, <2>5, <3>1
    <3>3. new[i].cause = c
      BY <3>1
    <3> HIDE DEF c
    <3>4. new[c].action = table[c].action /\ new[c].subject = table[c].subject /\ c \in DOMAIN new
      BY <2>1, <3>2
    <3> QED BY <3>1, <3>2, <3>3, <3>4 DEF CausedBy
  <2>6. CausesFirst(new)
    BY <2>5, Zenon DEF CausesFirst
  <2> QED BY <2>1, <2>6 DEF new
<1> QED BY <1>3, <1>4, <1>5

\* A table that names every cause that another one names, and has no other
\* publication.
Explains(table, new) ==
  /\ \A i \in DOMAIN table : table[i].cause # 0 => new[i].cause # 0
  /\ \A i \in DOMAIN new : i \notin DOMAIN table => new[i].action # "published"

LEMMA RepairPublicationKeeps ==
  ASSUME Range(created) \subseteq Records,
         NEW grouped, \A r \in Range(created) : grouped[r] \in Nat,
         NEW table, Sound(table, grouped), CausesFirst(table),
         NEW p \in DOMAIN table, table[p].action = "published", NEW readAs
  PROVE  /\ Sound(RepairPublication(table, p, readAs), grouped)
         /\ Keeps(table, RepairPublication(table, p, readAs))
         /\ CausesFirst(RepairPublication(table, p, readAs))
         /\ Explains(table, RepairPublication(table, p, readAs))
         /\ RepairPublication(table, p, readAs)[p].cause # 0
         /\ Retells(table, RepairPublication(table, p, readAs))
         /\ Chained(table) => Chained(RepairPublication(table, p, readAs))
<1> DEFINE first == AsInferred(table[p])
           marked == Stored(table, p, first)
           full == WithApproval(marked, p)
           cause == CauseOf(full, p, readAs)
           last == WithCause(full[p], cause)
           caused == Stored(full, p, last)
           moved == Reorder(caused, cause, p)
<1>1. RepairPublication(table, p, readAs) = IF table[p].cause # 0 THEN marked ELSE moved
  BY Zenon DEF RepairPublication, AsInferred, WithCause
<1>2. first \in Row /\ SameColumns(first, table[p]) /\ first.cause = table[p].cause
  <2>1. table[p] \in Row
    BY RowsAreNumbered, Zenon
  <2>2. /\ first \in Row /\ first.sequence = table[p].sequence
        /\ first.subject = table[p].subject /\ first.action = table[p].action
        /\ first.history = table[p].history /\ first.cause = table[p].cause
    BY <2>1, RowInferred, Zenon
  <2> HIDE DEF first
  <2> QED BY <2>2, Zenon DEF SameColumns
<1>26. SameContent(first, table[p])
  <2>1. table[p] \in Row
    BY RowsAreNumbered, Zenon
  <2> QED BY <2>1, ContentKept, Zenon
<1> HIDE DEF first
<1>3. /\ Sound(marked, grouped) /\ Keeps(table, marked)
      /\ DOMAIN marked = DOMAIN table
      /\ \A j \in DOMAIN table : SameColumns(marked[j], table[j])
  BY <1>2, StoredKeeps, Zenon
<1>17. \A j \in DOMAIN table : marked[j].cause = table[j].cause
  <2>1. \A j \in DOMAIN table : marked[j] = IF j = p THEN first ELSE table[j]
    BY Zenon DEF Stored
  <2> HIDE DEF marked
  <2> QED BY <1>2, <2>1
<1>27. Retells(table, marked)
  <2>1. table \in Seq(Row)
    BY DEF Sound
  <2> QED BY <1>26, <2>1, StoredRetells, Zenon
<1> HIDE DEF marked
<1>28. Chained(table) => Chained(marked)
  BY <1>3, SameColumnsChained, Zenon
<1>18. CausesFirst(marked)
  BY <1>3, <1>17, CausesExtended, Zenon
<1>4. p \in DOMAIN marked /\ marked[p].action = "published"
  BY <1>3, Zenon DEF SameColumns
<1>5. /\ Sound(full, grouped) /\ Keeps(marked, full)
      /\ \A i \in DOMAIN marked : full[i] = marked[i]
      /\ \A i \in DOMAIN full :
           i \notin DOMAIN marked => full[i].action = "approved" /\ full[i].cause = 0
      /\ Approvals(full, p) # {}
      /\ Retells(marked, full)
      /\ Chained(marked) => Chained(full)
  BY <1>3, <1>4, WithApprovalKeeps, Zenon
<1> HIDE DEF full
<1>19. CausesFirst(full)
  <2>1. \A i \in DOMAIN marked : SameColumns(full[i], marked[i]) /\ full[i].cause = marked[i].cause
    BY <1>5, Zenon DEF SameColumns
  <2>2. DOMAIN marked \subseteq DOMAIN full
    BY <1>5, Zenon DEF Keeps
  <2> QED BY <1>5, <1>18, <2>1, <2>2, CausesExtended, Zenon
<1>6. p \in DOMAIN full /\ full[p].action = "published"
  BY <1>4, <1>5, Zenon DEF Keeps
<1>7. cause \in Approvals(full, p)
  BY <1>5, <1>6, CauseChosen, Zenon
<1> HIDE DEF cause
<1>8. /\ cause \in DOMAIN full /\ full[cause].action = "approved"
      /\ full[cause].history = full[p].history /\ full[cause].subject = full[p].subject
  BY <1>7, Zenon DEF Approvals
<1>20. cause \in Nat \ {0}
  <2>1. DOMAIN full = 1..Len(full) /\ Len(full) \in Nat
    BY <1>5 DEF Sound
  <2> QED BY <1>8, <2>1
<1>9. last \in Row /\ SameColumns(last, full[p]) /\ last.cause = cause
  <2>1. full[p] \in Row
    BY <1>5, <1>6, RowsAreNumbered, Zenon
  <2>2. cause \in Nat
    BY <1>20
  <2>3. /\ last \in Row /\ last.sequence = full[p].sequence
        /\ last.subject = full[p].subject /\ last.action = full[p].action
        /\ last.history = full[p].history /\ last.cause = cause
    BY <2>1, <2>2, RowCaused, Zenon
  <2> HIDE DEF last
  <2> QED BY <2>3, Zenon DEF SameColumns
<1>29. SameContent(last, full[p])
  <2>1. full[p] \in Row
    BY <1>5, <1>6, RowsAreNumbered, Zenon
  <2> QED BY <2>1, ContentKept, Zenon
<1> HIDE DEF last
<1>30. Retells(full, caused)
  <2>1. full \in Seq(Row)
    BY <1>5 DEF Sound
  <2> QED BY <1>6, <1>29, <2>1, StoredRetells, Zenon
<1>10. /\ Sound(caused, grouped) /\ Keeps(full, caused)
       /\ DOMAIN caused = DOMAIN full
       /\ \A j \in DOMAIN full : SameColumns(caused[j], full[j])
  BY <1>5, <1>6, <1>9, StoredKeeps, Zenon
<1>21. /\ caused[p].cause = cause
       /\ \A j \in DOMAIN full : j # p => caused[j].cause = full[j].cause
  <2>1. \A j \in DOMAIN full : caused[j] = IF j = p THEN last ELSE full[j]
    BY Zenon DEF Stored
  <2> HIDE DEF caused
  <2> QED BY <1>6, <1>9, <2>1
<1> HIDE DEF caused
<1>11. /\ p \in DOMAIN caused /\ cause \in DOMAIN caused
       /\ caused[p].action = "published" /\ caused[cause].action = "approved"
       /\ caused[cause].history = caused[p].history
       /\ caused[cause].subject = caused[p].subject
  BY <1>6, <1>8, <1>10, Zenon DEF SameColumns
<1>12. caused[p].action # "approved"
  BY <1>11
<1>31. Retells(caused, moved)
  <2>1. caused \in Seq(Row)
    BY <1>10 DEF Sound
  <2> QED BY <2>1, ReorderRetells, Zenon
<1>32. Chained(full) => Chained(moved)
  <2>1. Chained(full) => Chained(caused)
    BY <1>10, SameColumnsChained, Zenon
  <2>2. cause # p
    BY <1>11
  <2>3. Chained(caused) => Chained(moved)
    BY <1>10, <1>11, <2>2, ReorderChained, Zenon
  <2> QED BY <2>1, <2>3
<1>13. Sound(moved, grouped) /\ Keeps(caused, moved)
  BY <1>10, <1>11, <1>12, ReorderKeeps, Zenon
<1>22. ASSUME NEW i \in DOMAIN caused, i # p, caused[i].cause # 0
       PROVE  CausedBy(caused, i)
  <2> DEFINE c == full[i].cause
  <2>1. i \in DOMAIN full /\ caused[i].cause = c
    BY <1>10, <1>21, <1>22, Zenon
  <2>2. CausedBy(full, i)
    BY <1>19, <1>22, <2>1, Zenon DEF CausesFirst
  <2>3. /\ full[i].action = "published" /\ c \in DOMAIN full
        /\ full[c].action = "approved" /\ full[c].subject = full[i].subject
        /\ full[c].sequence < full[i].sequence
    BY <2>2, Zenon DEF CausedBy
  <2> HIDE DEF c
  <2>4. SameColumns(caused[i], full[i]) /\ SameColumns(caused[c], full[c]) /\ c \in DOMAIN caused
    BY <1>10, <2>1, <2>3, Zenon
  <2> QED BY <2>1, <2>3, <2>4 DEF CausedBy, SameColumns
<1>23. /\ CausesFirst(moved)
       /\ DOMAIN moved = DOMAIN caused
       /\ \A i \in DOMAIN caused :
            moved[i].action = caused[i].action /\ moved[i].cause = caused[i].cause
  BY <1>10, <1>11, <1>21, <1>22, ReorderExplains, Zenon
<1> HIDE DEF moved
<1>14. Keeps(table, full)
  BY <1>3, <1>5, KeepsTransitive, Zenon
<1>15. Keeps(table, caused)
  BY <1>10, <1>14, KeepsTransitive, Zenon
<1>16. Keeps(table, moved)
  BY <1>13, <1>15, KeepsTransitive, Zenon
<1>33. Retells(table, moved)
  <2>1. Retells(table, full)
    BY <1>5, <1>27, RetellsTransitive, Zenon
  <2>2. Retells(table, caused)
    BY <1>30, <2>1, RetellsTransitive, Zenon
  <2> QED BY <1>31, <2>2, RetellsTransitive, Zenon
<1>24. CASE table[p].cause # 0
  <2>1. Explains(table, marked)
    BY <1>3, <1>17, Zenon DEF Explains
  <2>2. marked[p].cause # 0
    BY <1>17, <1>24
  <2> QED BY <1>1, <1>3, <1>18, <1>24, <1>27, <1>28, <2>1, <2>2
<1>25. CASE table[p].cause = 0
  <2>1. ASSUME NEW i \in DOMAIN table, table[i].cause # 0 PROVE moved[i].cause # 0
    <3>1. i # p /\ i \in DOMAIN marked /\ i \in DOMAIN full /\ i \in DOMAIN caused
      <4>1. i # p
        BY <1>25, <2>1
      <4> QED BY <1>3, <1>5, <1>10, <4>1, Zenon DEF Keeps
    <3>2. marked[i].cause = table[i].cause /\ full[i] = marked[i]
      BY <1>5, <1>17, <3>1, Zenon
    <3>3. caused[i].cause = full[i].cause /\ moved[i].cause = caused[i].cause
      BY <1>21, <1>23, <3>1, Zenon
    <3> QED BY <2>1, <3>2, <3>3
  <2>2. ASSUME NEW i \in DOMAIN moved, i \notin DOMAIN table PROVE moved[i].action # "published"
    <3>1. i \in DOMAIN caused /\ i \in DOMAIN full /\ i \notin DOMAIN marked
      BY <1>3, <1>10, <1>23, <2>2, Zenon
    <3>2. full[i].action = "approved" /\ moved[i].action = caused[i].action
      BY <1>5, <1>23, <3>1, Zenon
    <3>3. caused[i].action = full[i].action
      BY <1>10, <3>1, Zenon DEF SameColumns
    <3> QED BY <3>2, <3>3
  <2>3. Explains(table, moved)
    BY <2>1, <2>2, Zenon DEF Explains
  <2>4. moved[p].cause # 0
    BY <1>11, <1>20, <1>21, <1>23
  <2>5. Chained(table) => Chained(moved)
    BY <1>5, <1>28, <1>32
  <2> QED BY <1>1, <1>13, <1>16, <1>23, <1>25, <1>33, <2>3, <2>4, <2>5
<1> QED BY <1>24, <1>25

\* Each snapshot that is not there is said not to be.
SnapshotsTold(table) ==
  \A i \in DOMAIN table :
    table[i].action \in Entered \cup {"edited"} /\ table[i].snapshot = None
      => table[i].unavailable

LEMMA SnapshotsStayTold ==
  ASSUME NEW t, NEW u, Retells(t, u), SnapshotsTold(t)
  PROVE  SnapshotsTold(u)
<1> SUFFICES ASSUME NEW i \in DOMAIN u, u[i].action \in Entered \cup {"edited"}, u[i].snapshot = None
             PROVE  u[i].unavailable
  BY Zenon DEF SnapshotsTold
<1>1. u[i].action # "approved"
  BY DEF Entered
<1>2. i \in DOMAIN t
  BY <1>1, Zenon DEF Retells
<1>3. SameContent(u[i], t[i])
  BY <1>2, Zenon DEF Retells
<1>4. t[i].unavailable
  BY <1>2, <1>3, Zenon DEF SameContent, SnapshotsTold
<1> QED BY <1>3, <1>4, Zenon DEF SameContent

\* The sound tables that keep the order of another one and name its causes.
Orderly(table, grouped) ==
  {t \in Seq(Row) : /\ Sound(t, grouped) /\ Keeps(table, t)
                    /\ CausesFirst(t) /\ Explains(table, t)
                    /\ Retells(table, t) /\ SnapshotsTold(t)
                    /\ Chained(table) => Chained(t)}

LEMMA ExplainsTransitive ==
  ASSUME NEW s, NEW t, NEW u, Keeps(s, t), Keeps(t, u), Explains(s, t), Explains(t, u)
  PROVE  Explains(s, u)
<1>1. /\ DOMAIN s \subseteq DOMAIN t
      /\ \A i \in DOMAIN t : u[i].action = t[i].action
  BY Zenon DEF Keeps
<1>2. ASSUME NEW i \in DOMAIN s, s[i].cause # 0 PROVE u[i].cause # 0
  BY <1>1, <1>2, Zenon DEF Explains
<1>3. ASSUME NEW i \in DOMAIN u, i \notin DOMAIN s PROVE u[i].action # "published"
  <2>1. CASE i \in DOMAIN t
    <3>1. t[i].action # "published"
      BY <1>3, <2>1, Zenon DEF Explains
    <3> QED BY <1>1, <2>1, <3>1, Zenon
  <2>2. CASE i \notin DOMAIN t
    BY <2>2, Zenon DEF Explains
  <2> QED BY <2>1, <2>2
<1> QED BY <1>2, <1>3, Zenon DEF Explains

LEMMA RepairedKeeps ==
  ASSUME Range(created) \subseteq Records,
         NEW grouped, \A r \in Range(created) : grouped[r] \in Nat,
         NEW table, Sound(table, grouped), CausesFirst(table)
  PROVE  /\ Repaired(table) \in Orderly(table, grouped)
         /\ \A i \in DOMAIN Repaired(table) :
              Repaired(table)[i].action = "published" => Repaired(table)[i].cause # 0
<1> DEFINE unexplained(i) ==
             table[i].action \in Entered \cup {"edited"} /\ table[i].snapshot = None
           marked == [i \in DOMAIN table |->
             IF unexplained(i) THEN [table[i] EXCEPT !.inferred = TRUE, !.unavailable = TRUE]
             ELSE table[i]]
           publications == InOrder(table, {i \in DOMAIN table : table[i].action = "published"})
           N == Len(publications)
           X == Orderly(table, grouped)
           readAs(n) == table[publications[n]].sequence
           step == [p \in (1..N) \X X |-> RepairPublication(p[2], publications[p[1]], readAs(p[1]))]
           Equation(f) == f = [n \in 0..N |->
             IF n = 0 THEN marked
             ELSE RepairPublication(f[n - 1], publications[n], table[publications[n]].sequence)]
           repaired == CHOOSE f : Equation(f)
<1>1. marked \in X
  <2> HIDE DEF unexplained
  <2>1. DOMAIN marked = DOMAIN table
    BY Zenon
  <2>2. ASSUME NEW i \in DOMAIN table 
        PROVE  /\ marked[i] \in Row /\ SameColumns(marked[i], table[i])
               /\ marked[i].cause = table[i].cause
               /\ SameContent(marked[i], table[i])
               /\ unexplained(i) => marked[i].unavailable
    <3> DEFINE e == table[i]
               d == [e EXCEPT !.inferred = TRUE, !.unavailable = TRUE]
    <3>1. e \in Row
      BY RowsAreNumbered, Zenon
    <3>2. marked[i] = IF unexplained(i) THEN d ELSE e
      BY Zenon
    <3> HIDE DEF e, marked
    <3>5. SameContent(d, e) /\ d.unavailable /\ SameContent(e, e)
      BY <3>1, Zenon DEF Row, SameContent
    <3>3. /\ d \in Row /\ d.sequence = e.sequence
          /\ d.subject = e.subject /\ d.action = e.action /\ d.history = e.history
          /\ d.cause = e.cause
      BY <3>1, Zenon DEF Row
    <3> HIDE DEF d
    <3>4. /\ marked[i] \in Row /\ SameColumns(marked[i], e) /\ marked[i].cause = e.cause
          /\ SameContent(marked[i], e)
          /\ unexplained(i) => marked[i].unavailable
      <4>1. CASE unexplained(i)
        BY <3>2, <3>3, <3>5, <4>1 DEF SameColumns
      <4>2. CASE ~unexplained(i)
        BY <3>1, <3>2, <3>5, <4>2 DEF SameColumns
      <4> QED BY <4>1, <4>2
    <3> QED BY <3>4 DEF e
  <2>3. marked \in [DOMAIN table -> Row]
    <3>1. marked = [i \in DOMAIN table |-> marked[i]]
      BY Zenon
    <3> HIDE DEF marked
    <3> QED BY <2>2, <3>1, Zenon
  <2>4. marked \in Seq(Row)
    <3>1. DOMAIN table = 1..Len(table) /\ Len(table) \in Nat
      BY DEF Sound
    <3> HIDE DEF marked
    <3> QED BY <2>3, <3>1
  <2> HIDE DEF marked
  <2>5. Sound(marked, grouped) /\ Keeps(table, marked)
    BY <2>1, <2>2, <2>4, SameColumnsKeep, Zenon
  <2>6. CausesFirst(marked)
    BY <2>1, <2>2, CausesExtended, Zenon
  <2>7. Explains(table, marked)
    BY <2>1, <2>2, Zenon DEF Explains
  <2>8. Retells(table, marked)
    BY <2>1, <2>2, Zenon DEF Retells
  <2>9. SnapshotsTold(marked)
    <3>1. ASSUME NEW i \in DOMAIN table,
                 marked[i].action \in Entered \cup {"edited"}, marked[i].snapshot = None
          PROVE  marked[i].unavailable
      <4>1. unexplained(i)
        BY <2>2, <3>1, Zenon DEF SameContent, unexplained
      <4> QED BY <2>2, <4>1
    <3> QED BY <2>1, <3>1, Zenon DEF SnapshotsTold
  <2>10. Chained(table) => Chained(marked)
    BY <2>1, <2>2, SameColumnsChained, Zenon
  <2> QED BY <2>4, <2>5, <2>6, <2>7, <2>8, <2>9, <2>10, Zenon DEF Orderly
<1>2. /\ N \in Nat
      /\ \A n \in 1..N :
           publications[n] \in DOMAIN table /\ table[publications[n]].action = "published"
      /\ \A i \in DOMAIN table :
           table[i].action = "published" => \E n \in 1..N : publications[n] = i
  <2> DEFINE keys == {i \in DOMAIN table : table[i].action = "published"}
  <2>1. keys \in SUBSET DOMAIN table
    OBVIOUS
  <2>2. /\ N \in Nat
        /\ \A n \in 1..N : publications[n] \in keys
        /\ \A j \in keys : \E n \in 1..N : publications[n] = j
    <3> HIDE DEF keys
    <3>1. Listed(InOrder(table, keys), keys)
      BY <2>1, InOrderMembers, Zenon
    <3> QED BY <3>1, Zenon DEF Listed, N, publications, keys
  <2> HIDE DEF publications, N
  <2> QED BY <2>2
<1> HIDE DEF marked, N
<1>3. ASSUME NEW n \in 1..N, NEW t \in X
      PROVE  LET u == RepairPublication(t, publications[n], readAs(n)) IN
             /\ u \in X
             /\ u[publications[n]].cause # 0
             /\ \A i \in DOMAIN table : t[i].cause # 0 => u[i].cause # 0
  <2> DEFINE p == publications[n]
             u == RepairPublication(t, p, readAs(n))
  <2>1. /\ Sound(t, grouped) /\ Keeps(table, t) /\ CausesFirst(t) /\ Explains(table, t)
        /\ Retells(table, t) /\ SnapshotsTold(t)
        /\ Chained(table) => Chained(t)
    BY Zenon DEF Orderly
  <2>2. p \in DOMAIN table /\ table[p].action = "published"
    BY <1>2
  <2> HIDE DEF p
  <2>3. p \in DOMAIN t /\ t[p].action = "published"
    BY <2>1, <2>2, Zenon DEF Keeps
  <2> HIDE DEF readAs
  <2>4. /\ Sound(u, grouped) /\ Keeps(t, u) /\ CausesFirst(u) /\ Explains(t, u)
        /\ u[p].cause # 0
        /\ Retells(t, u)
        /\ Chained(t) => Chained(u)
    BY <2>1, <2>3, RepairPublicationKeeps, Zenon
  <2> HIDE DEF u
  <2>8. Retells(table, u) /\ SnapshotsTold(u)
    BY <2>1, <2>4, RetellsTransitive, SnapshotsStayTold, Zenon
  <2>9. Chained(table) => Chained(u)
    BY <2>1, <2>4
  <2>5. Keeps(table, u) /\ Explains(table, u)
    BY <2>1, <2>4, KeepsTransitive, ExplainsTransitive, Zenon
  <2>6. u \in X
    BY <2>4, <2>5, <2>8, <2>9, Zenon DEF Orderly, Sound
  <2>7. \A i \in DOMAIN table : t[i].cause # 0 => u[i].cause # 0
    <3>1. DOMAIN table \subseteq DOMAIN t
      BY <2>1, Zenon DEF Keeps
    <3> QED BY <2>4, <3>1, Zenon DEF Explains
  <2> HIDE DEF X
  <2> QED BY <2>4, <2>6, <2>7, Zenon DEF u, p
<1> HIDE DEF publications, X
<1>4. step \in [(1..N) \X X -> X]
  <2> HIDE DEF readAs
  <2> QED BY <1>3
<1>5. \A n \in 1..N, t \in X :
        step[<<n, t>>] = RepairPublication(t, publications[n], table[publications[n]].sequence)
  OBVIOUS
<1> HIDE DEF step
<1>6. PICK f : Iterates(f, X, N, marked, step)
  BY <1>1, <1>2, <1>4, Iterated, Zenon
<1>7. /\ \A n \in 0..N : n = 0 \/ (n \in 1..N /\ n - 1 \in 0..N)
      /\ \A n \in 1..N : n # 0 /\ n \in 0..N /\ n - 1 \in 0..N
  BY <1>2
<1>8. \A n \in 1..N :
        f[n] = RepairPublication(f[n - 1], publications[n], table[publications[n]].sequence)
  BY <1>5, <1>6, <1>7 DEF Iterates
<1>9. Equation(f)
  <2>1. f = [n \in 0..N |-> f[n]]
    BY <1>6, Zenon DEF Iterates
  <2>2. \A n \in 0..N : f[n] =
          IF n = 0 THEN marked
          ELSE RepairPublication(f[n - 1], publications[n], table[publications[n]].sequence)
    BY <1>6, <1>7, <1>8, Zenon DEF Iterates
  <2> QED BY <2>1, <2>2, Zenon
<1>10. Equation(repaired)
  BY <1>9, Zenon
<1>11. Repaired(table) = repaired[N]
  BY Zenon DEF Repaired, N, marked, publications
<1> HIDE DEF repaired
<1>12. \A n \in 0..N : repaired[n] =
         IF n = 0 THEN marked
         ELSE RepairPublication(repaired[n - 1], publications[n], readAs(n))
  BY <1>10, Zenon
<1> DEFINE explained(n) == \A m \in 1..n : repaired[n][publications[m]].cause # 0
           S == {n \in 0..N : repaired[n] \in X /\ explained(n)}
<1>13. 0 \in S
  <2>1. 0 \in 0..N /\ \A m \in 1..0 : FALSE
    BY <1>2
  <2>2. repaired[0] \in X
    BY <1>1, <1>12, <2>1, Zenon DEF X
  <2> QED BY <2>1, <2>2, Zenon
<1>14. ASSUME NEW n \in 1..N, n - 1 \in S PROVE n \in S
  <2> DEFINE t == repaired[n - 1]
             u == repaired[n]
  <2>1. t \in X /\ \A m \in 1..(n - 1) : t[publications[m]].cause # 0
    BY <1>14, Zenon
  <2>2. n \in 0..N /\ u = RepairPublication(t, publications[n], readAs(n))
    <3> HIDE DEF readAs
    <3> QED BY <1>7, <1>12, Zenon
  <2> HIDE DEF t, u, readAs
  <2>3. /\ u \in X /\ u[publications[n]].cause # 0
        /\ \A i \in DOMAIN table : t[i].cause # 0 => u[i].cause # 0
    BY <1>3, <2>1, <2>2, Zenon
  <2>4. ASSUME NEW m \in 1..n PROVE u[publications[m]].cause # 0
    <3>1. m = n \/ m \in 1..(n - 1)
      BY <1>2
    <3>2. CASE m \in 1..(n - 1)
      <4>1. m \in 1..N
        BY <1>2
      <4>2. publications[m] \in DOMAIN table
        BY <1>2, <4>1, Zenon
      <4> QED BY <2>1, <2>3, <3>2, <4>2, Zenon
    <3> QED BY <2>3, <3>1, <3>2
  <2> QED BY <2>2, <2>3, <2>4, Zenon DEF u
<1>15. repaired[N] \in X /\ \A m \in 1..N : repaired[N][publications[m]].cause # 0
  <2>1. N \in 0..N
    BY <1>2
  <2>2. N \in S
    <3> HIDE DEF S
    <3> QED BY <1>2, <1>13, <1>14, <2>1, UpToN
  <2> QED BY <2>2, Zenon
<1> DEFINE last == repaired[N]
<1>16. /\ last \in Orderly(table, grouped)
       /\ \A m \in 1..N : last[publications[m]].cause # 0
  BY <1>15 DEF X
<1> HIDE DEF last
<1>17. ASSUME NEW i \in DOMAIN last, last[i].action = "published" PROVE last[i].cause # 0
  <2>1. Keeps(table, last) /\ Explains(table, last)
    BY <1>16, Zenon DEF Orderly
  <2>2. i \in DOMAIN table
    BY <1>17, <2>1, Zenon DEF Explains
  <2>3. table[i].action = "published"
    BY <1>17, <2>1, <2>2, Zenon DEF Keeps
  <2>4. PICK m \in 1..N : publications[m] = i
    BY <1>2, <2>2, <2>3, Zenon
  <2> QED BY <1>16, <2>4, Zenon
<1> QED BY <1>11, <1>16, <1>17, Zenon DEF last

(* What 0006 completed, 0007 leaves complete.                                *)
LEMMA RepairFinishes ==
  ASSUME NEW grouped, NEW t, NEW u, Sound(t, grouped), Keeps(t, u), Retells(t, u), NEW r
  PROVE  Finished(t, r) => Finished(u, r)
<1> SUFFICES ASSUME Finished(t, r) PROVE Finished(u, r)
  OBVIOUS
<1>1. ASSUME NEW i \in Own(t, r)
      PROVE  /\ i \in Own(u, r) /\ u[i].action = t[i].action /\ u[i].actor = t[i].actor
             /\ u[i].projected = t[i].projected
  <2>1. i \in DOMAIN t /\ t[i].subject = r
    BY Zenon DEF Own
  <2>2. i \in DOMAIN u /\ SameContent(u[i], t[i])
    BY <2>1, Zenon DEF Retells
  <2>3. /\ u[i].subject = t[i].subject /\ u[i].action = t[i].action /\ u[i].actor = t[i].actor
        /\ u[i].projected = t[i].projected
    BY <2>2, Zenon DEF SameContent
  <2>4. i \in Own(u, r)
    BY <2>1, <2>2, <2>3, Zenon DEF Own
  <2> QED BY <2>3, <2>4
<1>2. ASSUME NEW i \in Own(u, r), u[i].action # "approved" PROVE i \in Own(t, r)
  <2>1. i \in DOMAIN u /\ u[i].subject = r
    BY Zenon DEF Own
  <2>2. i \in DOMAIN t
    BY <1>2, <2>1, Zenon DEF Retells
  <2>3. SameContent(u[i], t[i])
    BY <2>2, Zenon DEF Retells
  <2>4. t[i].subject = r
    BY <2>1, <2>3, Zenon DEF SameContent
  <2> QED BY <2>2, <2>4, Zenon DEF Own
<1>3. ASSUME NEW i \in Own(t, r), NEW j \in Own(t, r), t[i].sequence < t[j].sequence,
             t[i].action # "approved", t[j].action # "approved"
      PROVE  u[i].sequence < u[j].sequence
  <2>1. i \in DOMAIN t /\ t[i].subject = r /\ j \in DOMAIN t /\ t[j].subject = r
    BY Zenon DEF Own
  <2>2. t[i].history = t[j].history
    BY <2>1, Zenon DEF Sound
  <2>3. "approved" \notin {t[i].action, t[j].action}
    BY <1>3
  <2> QED BY <1>3, <2>1, <2>2, <2>3, Zenon DEF Keeps
<1>4. Complete(r, Have(u, r))
  <2>1. ASSUME NEW a \in Have(t, r) PROVE a \in Have(u, r)
    <3>1. PICK i \in Own(t, r) : t[i].action = a
      BY Zenon DEF Have
    <3>2. i \in Own(u, r) /\ u[i].action = a
      BY <1>1, <3>1
    <3> QED BY <3>2, Zenon DEF Have
  <2>2. Complete(r, Have(t, r))
    BY Zenon DEF Finished
  <2> QED BY <2>1, <2>2, Zenon DEF Complete
<1>5. EditedFirst(u, r)
  <2> SUFFICES ASSUME NEW i \in Own(u, r), NEW j \in Own(u, r),
                      u[i].action = "published", u[j].action = "edited"
               PROVE  u[j].sequence < u[i].sequence
    BY Zenon DEF EditedFirst
  <2>1. i \in Own(t, r) /\ j \in Own(t, r)
    BY <1>2
  <2>2. t[i].action = "published" /\ t[j].action = "edited"
    BY <1>1, <2>1
  <2>3. t[j].sequence < t[i].sequence
    BY <2>1, <2>2, Zenon DEF Finished, EditedFirst
  <2> QED BY <1>3, <2>1, <2>2, <2>3
<1>6. Unannounced(u, r) <=> Unannounced(t, r)
  <2>1. ASSUME Unannounced(t, r) PROVE Unannounced(u, r)
    <3>1. PICK i \in Own(t, r) : t[i].action = "withdrawn" /\ t[i].actor.type = "account"
      BY <2>1, Zenon DEF Unannounced
    <3>2. PICK j \in Own(t, r) : /\ t[j].action = "published"
                                /\ t[j].actor = System("migration_backfill")
      BY <2>1, Zenon DEF Unannounced
    <3>3. i \in Own(u, r) /\ u[i].action = "withdrawn" /\ u[i].actor.type = "account"
      BY <1>1, <3>1
    <3>4. /\ j \in Own(u, r) /\ u[j].action = "published"
          /\ u[j].actor = System("migration_backfill")
      BY <1>1, <3>2
    <3> QED BY <3>3, <3>4, Zenon DEF Unannounced
  <2>2. ASSUME Unannounced(u, r) PROVE Unannounced(t, r)
    <3>1. PICK i \in Own(u, r) : u[i].action = "withdrawn" /\ u[i].actor.type = "account"
      BY <2>2, Zenon DEF Unannounced
    <3>2. PICK j \in Own(u, r) : /\ u[j].action = "published"
                                /\ u[j].actor = System("migration_backfill")
      BY <2>2, Zenon DEF Unannounced
    <3>3. i \in Own(t, r) /\ j \in Own(t, r)
      BY <1>2, <3>1, <3>2
    <3>4. t[i].action = "withdrawn" /\ t[i].actor.type = "account"
      BY <1>1, <3>1, <3>3
    <3>5. t[j].action = "published" /\ t[j].actor = System("migration_backfill")
      BY <1>1, <3>2, <3>3
    <3> QED BY <3>3, <3>4, <3>5, Zenon DEF Unannounced
  <2> QED BY <2>1, <2>2
<1>7. Concluded(u, r)
  <2>1. PICK i \in Own(t, r) : LastShown(t, r, i) /\ Shown(t[i]) = Outcome(t, r)
    BY Zenon DEF Finished, Concluded
  <2>2. /\ Shows(t[i])
        /\ \A j \in Own(t, r) : j # i /\ Shows(t[j]) => t[j].sequence < t[i].sequence
    BY <2>1, Zenon DEF LastShown
  <2>3. i \in Own(u, r) /\ Shows(u[i]) /\ Shown(u[i]) = Shown(t[i])
    BY <1>1, <2>2 DEF Shows, Shown
  <2>4. ASSUME NEW j \in Own(u, r), j # i, Shows(u[j]) PROVE u[j].sequence < u[i].sequence
    <3>1. u[j].action # "approved" /\ t[i].action # "approved"
      BY <2>2, <2>4 DEF Shows, Entered
    <3>2. j \in Own(t, r)
      BY <1>2, <3>1
    <3>3. t[j].action = u[j].action /\ Shows(t[j])
      BY <1>1, <2>4, <3>2 DEF Shows
    <3>4. t[j].sequence < t[i].sequence
      BY <2>2, <2>4, <3>2, <3>3
    <3> QED BY <1>3, <3>1, <3>2, <3>3, <3>4
  <2>5. LastShown(u, r, i)
    BY <2>3, <2>4, Zenon DEF LastShown
  <2>6. Outcome(u, r) = Outcome(t, r)
    BY <1>6 DEF Outcome
  <2>7. Shown(u[i]) = Outcome(u, r)
    BY <2>1, <2>3, <2>6
  <2> QED BY <2>3, <2>5, <2>7, Zenon DEF Concluded
<1> QED BY <1>4, <1>5, <1>6, <1>7, Zenon DEF Finished

LEMMA RepairReads ==
  ASSUME NEW t, NEW u, Retells(t, u), Readable(t)
  PROVE  Readable(u)
<1> SUFFICES ASSUME NEW i \in DOMAIN u PROVE Reads(u[i])
  BY Zenon DEF Readable
<1>1. CASE i \in DOMAIN t
  BY <1>1, ContentRead, Zenon DEF Retells, Readable
<1>2. CASE i \notin DOMAIN t
  <2>1. u[i].action = "approved" /\ u[i].actor = System("migration_backfill")
    BY <1>2, Zenon DEF Retells
  <2>2. ActorValid(u[i])
    BY <2>1, ActorsValid, Zenon
  <2>3. u[i].action # "revision_created" /\ u[i].action \notin Entered \cup {"edited"}
    BY <2>1 DEF Entered
  <2> QED BY <2>2, <2>3, Zenon DEF Reads
<1> QED BY <1>1, <1>2

-----------------------------------------------------------------------------
(* The steps of the migrations and of the registry before them.             *)
Recordable ==
  {"submitted", "resubmitted", "edited", "approved", "published", "withdrawn", "revision_created"}

LEMMA RecordsTyped ==
  ASSUME NEW r, NEW s, NEW t,
         \/ s = "absent" /\ t \in {"published", "pending_review", "pending_reapproval"}
         \/ s \in {"pending_review", "pending_reapproval"} /\ t = "published"
         \/ s = "published" /\ t = "withdrawn"
         \/ s \in {"pending_review", "pending_reapproval"} /\ t = s,
         NEW actions \in RecordsOf(r, s, t)
  PROVE  actions \in Seq(Recordable)
<1>1. "submitted" \in Recordable /\ "resubmitted" \in Recordable /\ "edited" \in Recordable
      /\ "approved" \in Recordable /\ "published" \in Recordable /\ "withdrawn" \in Recordable
  BY DEF Recordable
<1>2. \A p \in PublicationRecords : p \in Seq(Recordable)
  <2>1. /\ <<>> \in Seq(Recordable) /\ <<"published">> \in Seq(Recordable)
        /\ <<"approved", "published">> \in Seq(Recordable)
        /\ <<"published", "approved">> \in Seq(Recordable)
    BY <1>1, ShortSequences, Zenon
  <2> QED BY <2>1, Zenon DEF PublicationRecords
<1>3. /\ <<>> \in Seq(Recordable) /\ <<"submitted">> \in Seq(Recordable)
      /\ <<"resubmitted">> \in Seq(Recordable) /\ <<"withdrawn">> \in Seq(Recordable)
      /\ <<"edited">> \in Seq(Recordable)
  BY <1>1, ShortSequences, Zenon
<1>4. \A p \in PublicationRecords : <<"submitted">> \o p \in Seq(Recordable)
  BY <1>2, <1>3, Concatenation, Zenon
<1>5. CASE s = "absent" /\ t = "published"
  <2>1. actions \in {<<>>} \cup {<<"submitted">> \o p : p \in PublicationRecords}
    BY <1>5 DEF RecordsOf
  <2> QED BY <1>3, <1>4, <2>1, Zenon
<1>6. CASE s = "absent" /\ t = "pending_review"
  <2>1. actions \in {<<>>, <<"submitted">>}
    BY <1>6 DEF RecordsOf
  <2> QED BY <1>3, <2>1, Zenon
<1>7. CASE s = "absent" /\ t = "pending_reapproval"
  <2>1. actions \in {<<>>, <<"resubmitted">>}
    BY <1>7 DEF RecordsOf
  <2> QED BY <1>3, <2>1, Zenon
<1>8. CASE s \in {"pending_review", "pending_reapproval"} /\ t = "published"
  <2>1. actions \in PublicationRecords
    BY <1>8 DEF RecordsOf
  <2> QED BY <1>2, <2>1, Zenon
<1>9. CASE s = "published" /\ t = "withdrawn"
  <2>1. actions \in {<<>>, <<"withdrawn">>}
    BY <1>9 DEF RecordsOf
  <2> QED BY <1>3, <2>1, Zenon
<1>10. CASE s \in {"pending_review", "pending_reapproval"} /\ t = s
  <2>1. actions \in {<<"edited">>}
    BY <1>10 DEF RecordsOf
  <2> QED BY <1>3, <2>1, Zenon
<1> QED BY <1>5, <1>6, <1>7, <1>8, <1>9, <1>10

LegacyMove(r) ==
  /\ \/ state[r] = "absent" /\ state'[r] \in {"published", "pending_review", "pending_reapproval"}
     \/ state[r] \in {"pending_review", "pending_reapproval"} /\ state'[r] = "published"
     \/ state[r] = "published" /\ state'[r] = "withdrawn"
     \/ state[r] \in {"pending_review", "pending_reapproval"} /\ state'[r] = state[r]
  /\ \A q \in Records \ {r} :
       \/ state'[q] = state[q]
       \/ state[q] = "published" /\ state'[q] = "withdrawn"

LEMMA LegacyMoves ==
  ASSUME RegistryInv, NEW r \in Records, LegacyStep(r)
  PROVE  LegacyMove(r)
<1> DEFINE S == {"absent", "pending_review", "pending_reapproval", "published", "withdrawn"}
<1>1. state \in [Records -> S]
  BY DEF RegistryInv, Inv, TypeOK, Public
<1> HIDE DEF S
<1>2. CASE Publish(r)
  BY <1>1, <1>2 DEF LegacyMove, Publish
<1>3. CASE Withdraw(r)
  BY <1>1, <1>3 DEF LegacyMove, Withdraw
<1>4. ASSUME NEW f \in Fields, Revise(r, f) PROVE LegacyMove(r)
  BY <1>1, <1>4 DEF LegacyMove, Revise
<1>5. ASSUME NEW f \in Fields, Enter(r, f) PROVE LegacyMove(r)
  <2>1. EntryState(r, f) \in {"published", "pending_review", "pending_reapproval"}
    BY DEF EntryState
  <2> QED BY <1>1, <1>5, <2>1 DEF LegacyMove, Enter
<1>6. ASSUME NEW f \in Fields, NEW source \in Records, Replace(r, source, f) PROVE LegacyMove(r)
  <2>1. /\ state[r] = "absent" /\ state[source] = "published" /\ source # r
        /\ state' = [state EXCEPT ![source] = "withdrawn", ![r] = "pending_reapproval"]
    BY <1>6 DEF Replace
  <2> QED BY <1>1, <2>1 DEF LegacyMove
<1> QED BY <1>2, <1>3, <1>4, <1>5, <1>6, Zenon DEF LegacyStep

LEMMA LegacyRecords ==
  ASSUME MigrationInv, TableInv, NEW r \in Records, LegacyStep(r)
  PROVE  /\ TableInv'
         /\ DOMAIN events \subseteq DOMAIN events'
         /\ \A i \in DOMAIN events : events'[i] = events[i]
<1> DEFINE T == {e \in Row : e.subject \in Range(created') /\ e.cause = 0}
<1>1. phase = "legacy" /\ phase' = "legacy"
  BY DEF LegacyStep
<1>2. MigrationInv'
  BY LegacyStepKeeps
<1>3. /\ \A q \in Records : q \in Range(created) <=> state[q] # "absent"
      /\ \A q \in Records : q \in Range(created') <=> state'[q] # "absent"
      /\ Range(created) \subseteq Records
  BY <1>2, CreatedInRecords, Zenon DEF MigrationInv, RegistryInv
<1>4. /\ \/ state[r] = "absent" /\ state'[r] \in {"published", "pending_review", "pending_reapproval"}
         \/ state[r] \in {"pending_review", "pending_reapproval"} /\ state'[r] = "published"
         \/ state[r] = "published" /\ state'[r] = "withdrawn"
         \/ state[r] \in {"pending_review", "pending_reapproval"} /\ state'[r] = state[r]
      /\ \A q \in Records \ {r} :
           \/ state'[q] = state[q]
           \/ state[q] = "published" /\ state'[q] = "withdrawn"
  BY LegacyMoves, Zenon DEF LegacyMove, MigrationInv
<1>5. \A q \in Range(created) : q \in Range(created')
  <2> SUFFICES ASSUME NEW q \in Range(created) PROVE q \in Range(created')
    OBVIOUS
  <2>1. q \in Records /\ state[q] # "absent"
    BY <1>3
  <2>2. state'[q] # "absent"
    BY <1>4, <2>1
  <2> QED BY <1>3, <2>1, <2>2
<1>6. r \in Range(created')
  BY <1>3, <1>4
<1>7. PICK withdrawal \in WithdrawalRecords(r), actions \in RecordsOf(r, state[r], state'[r]) :
        events' = events \o withdrawal \o Recorded(r, actions)
  BY Zenon DEF LegacyStep
<1>8. withdrawal \in Seq(T)
  <2>1. ASSUME NEW q \in Records \ {r}, state'[q] # state[q]
        PROVE  Legacy(q, "withdrawn", "person") \in T
    <3>1. q \in Range(created')
      BY <1>3, <1>4, <2>1
    <3>2. q \in Records /\ "person" \in Names
      BY Zenon DEF Names
    <3>3. "withdrawn" \in {"submitted", "resubmitted", "edited", "approved", "published",
                           "withdrawn", "revision_created"}
      OBVIOUS
    <3>4. Legacy(q, "withdrawn", "person") \in Row
      BY <3>2, <3>3, LegacyRow, Zenon
    <3>5. /\ Legacy(q, "withdrawn", "person").subject = q
          /\ Legacy(q, "withdrawn", "person").cause = 0
      BY LegacyColumns
    <3> QED BY <3>1, <3>4, <3>5, Zenon
  <2>2. CASE withdrawal = <<>>
    BY <2>2
  <2>3. CASE withdrawal # <<>>
    <3>1. PICK q \in Records \ {r} : state'[q] # state[q]
                                     /\ withdrawal = <<Legacy(q, "withdrawn", "person")>>
      BY <1>7, <2>3, Zenon DEF WithdrawalRecords
    <3>2. Legacy(q, "withdrawn", "person") \in T
      BY <2>1, <3>1
    <3> HIDE DEF T
    <3> QED BY <3>1, <3>2, ShortSequences, Zenon
  <2> QED BY <2>2, <2>3
<1>9. actions \in Seq(Recordable)
  BY <1>4, <1>7, RecordsTyped
<1>10. Recorded(r, actions) \in Seq(T)
  <2> DEFINE who(i) == LegacyActor(r, state[r], actions[i])
             n == Len(actions)
  <2>1. n \in Nat /\ \A i \in 1..n : actions[i] \in Recordable
    BY <1>9
  <2>2. \A i : who(i) \in Names
    BY Zenon DEF LegacyActor, Names
  <2> HIDE DEF n, who
  <2>3. ASSUME NEW i \in 1..n PROVE Legacy(r, actions[i], who(i)) \in T
    <3>1. actions[i] \in {"submitted", "resubmitted", "edited", "approved", "published",
                          "withdrawn", "revision_created"}
      BY <2>1 DEF Recordable
    <3>2. Legacy(r, actions[i], who(i)) \in Row
      BY <2>2, <3>1, LegacyRow, Zenon
    <3>3. /\ Legacy(r, actions[i], who(i)).subject = r
          /\ Legacy(r, actions[i], who(i)).cause = 0
      BY LegacyColumns
    <3> QED BY <1>6, <3>2, <3>3, Zenon
  <2>4. Recorded(r, actions) \in [1..n -> T]
    <3> HIDE DEF T
    <3> QED BY <2>3, Zenon DEF Recorded, n, who
  <2> HIDE DEF T
  <2> QED BY <2>1, <2>4
<1>11. events \in Seq(T)
  <2>1. /\ events \in Seq(Row)
        /\ \A i \in DOMAIN events : events[i].subject \in Range(created) /\ events[i].cause = 0
    BY <1>1, Zenon DEF TableInv
  <2>2. DOMAIN events = 1..Len(events) /\ Len(events) \in Nat
        /\ \A i \in DOMAIN events : events[i] \in Row
    BY <2>1
  <2>3. \A i \in DOMAIN events : events[i] \in T
    BY <1>5, <2>1, <2>2, Zenon
  <2> HIDE DEF T
  <2> QED BY <2>1, <2>2, <2>3
<1> HIDE DEF T
<1>12. /\ events \o withdrawal \in Seq(T)
       /\ DOMAIN (events \o withdrawal) = 1..(Len(events) + Len(withdrawal))
       /\ \A i \in 1..Len(events) : (events \o withdrawal)[i] = events[i]
  BY <1>8, <1>11, Concatenation, Zenon
<1> DEFINE first == events \o withdrawal
<1>13. first \in Seq(T) /\ Len(events) <= Len(first) /\ Len(events) \in Nat /\ Len(first) \in Nat
  <2>1. Len(withdrawal) \in Nat /\ Len(events) \in Nat
    BY <1>8, <1>11
  <2>2. first \in Seq(T) /\ Len(first) = Len(events) + Len(withdrawal)
    BY <1>8, <1>11
  <2> HIDE DEF first
  <2> QED BY <2>1, <2>2
<1>14. events' = first \o Recorded(r, actions)
  BY <1>7
<1>15. \A i \in 1..Len(events) : first[i] = events[i]
  BY <1>12
<1> HIDE DEF first
<1>16. /\ events' \in Seq(T)
       /\ DOMAIN events' = 1..(Len(first) + Len(Recorded(r, actions)))
       /\ \A i \in 1..Len(first) : events'[i] = first[i]
  BY <1>10, <1>13, <1>14, Concatenation, Zenon
<1>17. DOMAIN events = 1..Len(events) /\ Len(Recorded(r, actions)) \in Nat
  BY <1>10, <1>11
<1>18. /\ DOMAIN events \subseteq DOMAIN events'
       /\ \A i \in DOMAIN events : events'[i] = events[i]
  <2> SUFFICES ASSUME NEW i \in 1..Len(events)
               PROVE  i \in 1..(Len(first) + Len(Recorded(r, actions))) /\ events'[i] = events[i]
    BY <1>16, <1>17
  <2>1. i \in 1..Len(first) /\ i \in 1..(Len(first) + Len(Recorded(r, actions)))
    BY <1>13, <1>17
  <2> QED BY <1>15, <1>16, <2>1, Zenon
<1>19. TableInv'
  <2>1. \A i \in DOMAIN events' : events'[i] \in T
    BY <1>16
  <2>2. events' \in Seq(Row)
    <3>1. T \subseteq Row
      BY Zenon DEF T
    <3> QED BY <1>16, <3>1
  <2>3. \A i \in DOMAIN events' : events'[i].subject \in Range(created') /\ events'[i].cause = 0
    BY <2>1, Zenon DEF T
  <2> QED BY <1>1, <2>2, <2>3, Zenon DEF TableInv
<1> QED BY <1>18, <1>19

(* What the registry recorded fits what became of its records.              *)
LEMMA OccurredConcatenation ==
  ASSUME NEW s, NEW t \in Seq(Row), NEW u \in Seq(Row), Occurred(t, s), Occurred(u, s),
         \A i \in DOMAIN t, j \in DOMAIN u :
           t[i].subject = u[j].subject => MayFollow(t[i].action, u[j].action)
  PROVE  /\ Occurred(t \o u, s)
         /\ \A i \in DOMAIN (t \o u) : \/ \E j \in DOMAIN t : (t \o u)[i] = t[j]
                                      \/ \E j \in DOMAIN u : (t \o u)[i] = u[j]
<1> DEFINE m == Len(t)
           n == Len(u)
           both == t \o u
<1>1. /\ m \in Nat /\ n \in Nat
      /\ DOMAIN t = 1..m /\ DOMAIN u = 1..n /\ DOMAIN both = 1..(m + n)
      /\ \A i \in 1..m : both[i] = t[i]
      /\ \A i \in 1..n : both[m + i] = u[i]
  <2>1. m \in Nat /\ n \in Nat /\ DOMAIN t = 1..m /\ DOMAIN u = 1..n
    OBVIOUS
  <2> QED BY <2>1, Concatenation
<1> HIDE DEF both, m, n
<1>2. ASSUME NEW i \in DOMAIN both
      PROVE  \/ i \in DOMAIN t /\ both[i] = t[i]
             \/ i \notin DOMAIN t /\ i - m \in DOMAIN u /\ both[i] = u[i - m]
  <2>1. CASE i \in 1..m
    BY <1>1, <2>1
  <2>2. CASE i \notin 1..m
    <3> DEFINE j == i - m
    <3>1. j \in 1..n /\ i = m + j
      BY <1>1, <2>2
    <3> HIDE DEF j
    <3>2. both[i] = u[j]
      BY <1>1, <3>1
    <3> QED BY <1>1, <2>2, <3>1, <3>2 DEF j
  <2> QED BY <2>1, <2>2
<1>3. ASSUME NEW i \in DOMAIN both
      PROVE  LegacyEvent(both[i]) /\ Fits(both[i].action, s[both[i].subject])
  <2>1. CASE i \in DOMAIN t /\ both[i] = t[i]
    BY <2>1, Zenon DEF Occurred
  <2>2. CASE i - m \in DOMAIN u /\ both[i] = u[i - m]
    BY <2>2, Zenon DEF Occurred
  <2> QED BY <1>2, <2>1, <2>2
<1>4. ASSUME NEW i \in DOMAIN both, NEW j \in DOMAIN both, i < j,
             both[i].subject = both[j].subject
      PROVE  MayFollow(both[i].action, both[j].action)
  <2>1. i \in Nat /\ j \in Nat
    BY <1>1
  <2>2. CASE j \in DOMAIN t
    <3>1. i \in DOMAIN t
      BY <1>1, <1>4, <2>1, <2>2
    <3>2. both[i] = t[i] /\ both[j] = t[j]
      BY <1>1, <2>2, <3>1
    <3> QED BY <1>4, <2>2, <3>1, <3>2, Zenon DEF Occurred
  <2>3. CASE i \in DOMAIN t /\ j \notin DOMAIN t
    <3>1. both[i] = t[i] /\ j - m \in DOMAIN u /\ both[j] = u[j - m]
      BY <1>2, <2>3
    <3> QED BY <1>4, <2>3, <3>1, Zenon
  <2>4. CASE i \notin DOMAIN t /\ j \notin DOMAIN t
    <3>1. /\ i - m \in DOMAIN u /\ both[i] = u[i - m]
          /\ j - m \in DOMAIN u /\ both[j] = u[j - m]
      BY <1>2, <2>4
    <3>2. i - m < j - m
      BY <1>1, <1>4, <2>1
    <3> QED BY <1>4, <3>1, <3>2, Zenon DEF Occurred
  <2> QED BY <2>2, <2>3, <2>4
<1>5. Occurred(both, s)
  BY <1>3, <1>4, Zenon DEF Occurred
<1>6. \A i \in DOMAIN both : \/ \E j \in DOMAIN t : both[i] = t[j]
                             \/ \E j \in DOMAIN u : both[i] = u[j]
  BY <1>2, Zenon
<1> QED BY <1>5, <1>6 DEF both

\* The actions that a step may record of a record it moves from s to t.
Occurs(actions, s, t) ==
  /\ \A i \in DOMAIN actions :
       /\ Fits(actions[i], t) /\ actions[i] # "revision_created"
       /\ s \in Public => actions[i] = "withdrawn"
  /\ \A i, j \in DOMAIN actions : i < j => MayFollow(actions[i], actions[j])

LEMMA Prefixed ==
  ASSUME NEW T, NEW x \in T, NEW p \in Seq(T)
  PROVE  /\ DOMAIN (<<x>> \o p) = 1..(1 + Len(p))
         /\ (<<x>> \o p)[1] = x
         /\ \A i \in 1..Len(p) : (<<x>> \o p)[1 + i] = p[i]
OBVIOUS

LEMMA RecordsOccur ==
  ASSUME NEW r, NEW s, NEW t,
         \/ s = "absent" /\ t \in {"published", "pending_review", "pending_reapproval"}
         \/ s \in {"pending_review", "pending_reapproval"} /\ t = "published"
         \/ s = "published" /\ t = "withdrawn"
         \/ s \in {"pending_review", "pending_reapproval"} /\ t = s,
         NEW actions \in RecordsOf(r, s, t)
  PROVE  Occurs(actions, s, t)
<1>1. ASSUME NEW p \in PublicationRecords
      PROVE  /\ p \in Seq({"approved", "published"})
             /\ \A i \in DOMAIN p : p[i] \in {"approved", "published"}
  <2>1. /\ <<>> \in Seq({"approved", "published"}) /\ <<"published">> \in Seq({"approved", "published"})
        /\ <<"approved", "published">> \in Seq({"approved", "published"})
        /\ <<"published", "approved">> \in Seq({"approved", "published"})
    BY ShortSequences
  <2>2. p \in Seq({"approved", "published"})
    BY <2>1, Zenon DEF PublicationRecords
  <2> QED BY <2>2
<1>2. DOMAIN <<>> = {}
  OBVIOUS
<1>3. Occurs(<<>>, s, t)
  BY <1>2 DEF Occurs
<1>4. ASSUME NEW a, Fits(a, t), a # "revision_created", s \in Public => a = "withdrawn"
      PROVE  Occurs(<<a>>, s, t)
  <2> DEFINE one == <<a>>
  <2>1. DOMAIN one = {1} /\ one[1] = a
    OBVIOUS
  <2> HIDE DEF one
  <2>2. Occurs(one, s, t)
    BY <1>4, <2>1 DEF Occurs
  <2> QED BY <2>2 DEF one
<1>5. CASE s = "absent" /\ t = "published"
  <2>1. actions \in {<<>>} \cup {<<"submitted">> \o p : p \in PublicationRecords}
    BY <1>5 DEF RecordsOf
  <2>2. ASSUME NEW p \in PublicationRecords, actions = <<"submitted">> \o p
        PROVE  Occurs(actions, s, t)
    <3> DEFINE T == {"submitted", "approved", "published"}
               one == <<"submitted">>
               n == Len(p)
    <3>1. one \in Seq(T) /\ p \in Seq(T) /\ Len(one) = 1 /\ one[1] = "submitted" /\ n \in Nat
      BY <1>1
    <3>2. /\ DOMAIN actions = 1..(1 + n) /\ actions[1] = "submitted"
          /\ \A i \in 1..n : actions[1 + i] = p[i]
      <4> HIDE DEF T
      <4>1. "submitted" \in T
        BY DEF T
      <4>2. /\ DOMAIN (<<"submitted">> \o p) = 1..(1 + Len(p))
            /\ (<<"submitted">> \o p)[1] = "submitted"
            /\ \A i \in 1..Len(p) : (<<"submitted">> \o p)[1 + i] = p[i]
        <5>1. p \in Seq(T)
          BY <3>1
        <5> QED BY <4>1, <5>1, Prefixed
      <4> QED BY <2>2, <4>2
    <3>3. \A i \in 1..n : p[i] \in {"approved", "published"}
      BY <1>1, <3>1
    <3> HIDE DEF n, T
    <3>4. \A i \in DOMAIN actions : i # 1 => actions[i] \in {"approved", "published"}
      <4> SUFFICES ASSUME NEW i \in DOMAIN actions, i # 1
                   PROVE  actions[i] \in {"approved", "published"}
        OBVIOUS
      <4>1. i - 1 \in 1..n /\ i = 1 + (i - 1)
        BY <3>1, <3>2
      <4>2. actions[1 + (i - 1)] = p[i - 1]
        BY <3>2, <4>1
      <4> QED BY <3>3, <4>1, <4>2
    <3>5. ASSUME NEW i \in DOMAIN actions, NEW j \in DOMAIN actions, i < j
          PROVE  MayFollow(actions[i], actions[j])
      <4>1. j # 1
        BY <3>1, <3>2, <3>5
      <4>2. actions[j] \in {"approved", "published"}
        BY <3>4, <4>1
      <4>3. actions[i] \in {"submitted", "approved", "published"}
        BY <3>2, <3>4
      <4> QED BY <4>2, <4>3 DEF MayFollow, Entered
    <3>6. ASSUME NEW i \in DOMAIN actions
          PROVE  /\ Fits(actions[i], t) /\ actions[i] # "revision_created"
                 /\ s \in Public => actions[i] = "withdrawn"
      <4>1. actions[i] \in {"submitted", "approved", "published"}
        BY <3>2, <3>4
      <4> QED BY <1>5, <4>1 DEF Fits, Public
    <3> QED BY <3>5, <3>6, Zenon DEF Occurs
  <2> QED BY <1>3, <2>1, <2>2, Zenon
<1>6. CASE s = "absent" /\ t = "pending_review"
  <2>1. actions \in {<<>>, <<"submitted">>}
    BY <1>6 DEF RecordsOf
  <2>2. Occurs(<<"submitted">>, s, t)
    BY <1>4, <1>6 DEF Fits, Public
  <2> QED BY <1>3, <2>1, <2>2, Zenon
<1>7. CASE s = "absent" /\ t = "pending_reapproval"
  <2>1. actions \in {<<>>, <<"resubmitted">>}
    BY <1>7 DEF RecordsOf
  <2>2. Occurs(<<"resubmitted">>, s, t)
    BY <1>4, <1>7 DEF Fits, Public
  <2> QED BY <1>3, <2>1, <2>2, Zenon
<1>8. CASE s \in {"pending_review", "pending_reapproval"} /\ t = "published"
  <2>1. actions \in PublicationRecords
    BY <1>8 DEF RecordsOf
  <2>2. \A i \in DOMAIN actions : actions[i] \in {"approved", "published"}
    BY <1>1, <2>1
  <2>3. s \notin Public /\ t \in Public
    BY <1>8 DEF Public
  <2> QED BY <2>2, <2>3 DEF Occurs, Fits, MayFollow, Entered
<1>9. CASE s = "published" /\ t = "withdrawn"
  <2>1. actions \in {<<>>, <<"withdrawn">>}
    BY <1>9 DEF RecordsOf
  <2>2. Occurs(<<"withdrawn">>, s, t)
    BY <1>4, <1>9 DEF Fits
  <2> QED BY <1>3, <2>1, <2>2, Zenon
<1>10. CASE s \in {"pending_review", "pending_reapproval"} /\ t = s
  <2>1. actions \in {<<"edited">>}
    BY <1>10 DEF RecordsOf
  <2>2. Occurs(<<"edited">>, s, t)
    BY <1>4, <1>10 DEF Fits, Public
  <2> QED BY <2>1, <2>2, Zenon
<1> QED BY <1>5, <1>6, <1>7, <1>8, <1>9, <1>10

LEMMA LegacyNames ==
  \A q, action, who :
    /\ Legacy(q, action, who).actor.account = who
    /\ Legacy(q, action, who).projected = None /\ Legacy(q, action, who).snapshot = None
<1> SUFFICES ASSUME NEW q, NEW action, NEW who
             PROVE  /\ Legacy(q, action, who).actor.account = who
                    /\ Legacy(q, action, who).projected = None
                    /\ Legacy(q, action, who).snapshot = None
  OBVIOUS
<1> DEFINE actor == [Account(who) EXCEPT !.type = None]
<1>1. actor.account = who
  BY DEF Account
<1> HIDE DEF actor
<1>2. /\ Legacy(q, action, who).actor = actor
      /\ Legacy(q, action, who).projected = None /\ Legacy(q, action, who).snapshot = None
  BY Zenon DEF Legacy, actor
<1> QED BY <1>1, <1>2, Zenon

LEMMA LegacyOccurs ==
  ASSUME MigrationInv, TableInv, Occurred(events, state), NEW r \in Records, LegacyStep(r)
  PROVE  Occurred(events', state')
<1>1. phase = "legacy" /\ MigrationInv'
  BY LegacyStepKeeps DEF LegacyStep
<1>2. LegacyMove(r)
  BY LegacyMoves, Zenon DEF MigrationInv
<1>3. /\ \A q \in Records : q \in Range(created) => state[q] # "absent"
      /\ Range(created) \subseteq Records
  BY <1>1, CreatedInRecords, Zenon DEF MigrationInv, RegistryInv
<1>4. PICK withdrawal \in WithdrawalRecords(r), actions \in RecordsOf(r, state[r], state'[r]) :
        events' = events \o withdrawal \o Recorded(r, actions)
  BY Zenon DEF LegacyStep
<1>5. events \in Seq(Row) /\ \A i \in DOMAIN events : events[i].subject \in Range(created)
  BY Zenon DEF TableInv
<1>6. Occurs(actions, state[r], state'[r]) /\ actions \in Seq(Recordable)
  <2>1. \/ state[r] = "absent" /\ state'[r] \in {"published", "pending_review", "pending_reapproval"}
        \/ state[r] \in {"pending_review", "pending_reapproval"} /\ state'[r] = "published"
        \/ state[r] = "published" /\ state'[r] = "withdrawn"
        \/ state[r] \in {"pending_review", "pending_reapproval"} /\ state'[r] = state[r]
    BY <1>2, Zenon DEF LegacyMove
  <2> QED BY <1>4, <2>1, RecordsOccur, RecordsTyped
<1>7. Occurred(events, state')
  <2>1. ASSUME NEW i \in DOMAIN events PROVE Fits(events[i].action, state'[events[i].subject])
    <3> DEFINE q == events[i].subject
               a == events[i].action
    <3>1. q \in Records /\ state[q] # "absent" /\ Fits(a, state[q])
      BY <1>3, <1>5, Zenon DEF Occurred
    <3>2. \/ state'[q] = state[q]
          \/ state[q] \in {"pending_review", "pending_reapproval"} /\ state'[q] = "published"
          \/ state[q] = "published" /\ state'[q] = "withdrawn"
      BY <1>2, <3>1 DEF LegacyMove
    <3> HIDE DEF q, a
    <3>3. Fits(a, state'[q])
      BY <3>1, <3>2 DEF Fits, Public
    <3> QED BY <3>3 DEF q, a
  <2> QED BY <2>1, Zenon DEF Occurred
<1>8. /\ withdrawal \in Seq(Row) /\ Occurred(withdrawal, state')
      /\ \A i \in DOMAIN withdrawal :
           withdrawal[i].action = "withdrawn" /\ withdrawal[i].subject # r
  <2>1. CASE withdrawal = <<>>
    <3>1. <<>> \in Seq(Row) /\ DOMAIN <<>> = {}
      <4> HIDE DEF Row
      <4> QED OBVIOUS
    <3> QED BY <2>1, <3>1, Zenon DEF Occurred
  <2>2. CASE withdrawal # <<>>
    <3>1. PICK q \in Records \ {r} : state'[q] # state[q]
                                     /\ withdrawal = <<Legacy(q, "withdrawn", "person")>>
      BY <1>4, <2>2, Zenon DEF WithdrawalRecords
    <3> DEFINE e == Legacy(q, "withdrawn", "person")
    <3>2. state'[q] = "withdrawn" /\ q # r
      BY <1>2, <3>1 DEF LegacyMove
    <3>3. "person" \in Names /\ q \in Records
      BY Zenon DEF Names
    <3>4. "withdrawn" \in {"submitted", "resubmitted", "edited", "approved", "published",
                           "withdrawn", "revision_created"}
      OBVIOUS
    <3>5. e \in Row
      BY <3>3, <3>4, LegacyRow, Zenon
    <3>6. /\ e.subject = q /\ e.action = "withdrawn" /\ e.actor.account = "person"
          /\ e.projected = None /\ e.snapshot = None
      BY LegacyColumns, LegacyNames
    <3>7. LegacyEvent(e)
      <4>1. "withdrawn" # "revision_created"
        OBVIOUS
      <4> QED BY <3>6, <4>1, Zenon DEF LegacyEvent
    <3> HIDE DEF e
    <3>8. Fits(e.action, state'[e.subject])
      BY <3>2, <3>6 DEF Fits
    <3> DEFINE one == <<e>>
    <3>9. one \in Seq(Row) /\ DOMAIN one = {1} /\ one[1] = e /\ withdrawal = one
      <4>1. DOMAIN one = {1} /\ one[1] = e
        OBVIOUS
      <4>2. one \in Seq(Row)
        BY <3>5, ShortSequences, Zenon
      <4> QED BY <3>1, <4>1, <4>2, Zenon DEF e
    <3> HIDE DEF one
    <3>10. Occurred(one, state')
      <4>1. \A i \in DOMAIN one : LegacyEvent(one[i]) /\ Fits(one[i].action, state'[one[i].subject])
        BY <3>7, <3>8, <3>9
      <4>2. \A i, j \in DOMAIN one : ~(i < j)
        BY <3>9
      <4> QED BY <4>1, <4>2, Zenon DEF Occurred
    <3> QED BY <3>2, <3>6, <3>9, <3>10
  <2> QED BY <2>1, <2>2
<1> DEFINE new == Recorded(r, actions)
<1>9. /\ new \in Seq(Row) /\ Occurred(new, state')
      /\ \A i \in DOMAIN new :
           /\ new[i].subject = r
           /\ state[r] \in Public => new[i].action = "withdrawn"
  <2> DEFINE n == Len(actions)
             who(i) == LegacyActor(r, state[r], actions[i])
  <2>1. n \in Nat /\ DOMAIN actions = 1..n /\ \A i \in 1..n : actions[i] \in Recordable
    BY <1>6
  <2>2. ASSUME NEW i \in 1..n
        PROVE  /\ who(i) \in Names /\ who(i) \in {"person", "system account"}
               /\ actions[i] = "withdrawn" => who(i) = "person"
    <3>1. "withdrawn" \notin {"approved", "published"}
      OBVIOUS
    <3> QED BY <3>1, Zenon DEF LegacyActor, Names
  <2>3. /\ new = [i \in 1..n |-> Legacy(r, actions[i], who(i))]
    BY Zenon DEF Recorded
  <2> HIDE DEF n, who, new
  <2>4. DOMAIN new = 1..n /\ \A i \in 1..n : new[i] = Legacy(r, actions[i], who(i))
    BY <2>3, Zenon
  <2>5. ASSUME NEW i \in 1..n
        PROVE  /\ new[i] \in Row /\ LegacyEvent(new[i])
               /\ new[i].subject = r /\ new[i].action = actions[i]
    <3> DEFINE a == actions[i]
               w == who(i)
               e == Legacy(r, a, w)
    <3>1. a \in {"submitted", "resubmitted", "edited", "approved", "published",
                 "withdrawn", "revision_created"} /\ a # "revision_created"
      BY <1>6, <2>1 DEF Recordable, Occurs
    <3>2. /\ w \in Names /\ w \in {"person", "system account"}
          /\ a = "withdrawn" => w = "person"
      BY <2>2, Zenon
    <3> HIDE DEF a, w
    <3>3. e \in Row
      BY <3>1, <3>2, LegacyRow, Zenon
    <3>4. /\ e.subject = r /\ e.action = a /\ e.actor.account = w
          /\ e.projected = None /\ e.snapshot = None
      <4>1. e.subject = r /\ e.action = a
        BY LegacyColumns, SMT
      <4>2. e.actor.account = w /\ e.projected = None /\ e.snapshot = None
        BY LegacyNames, SMT
      <4> QED BY <4>1, <4>2
    <3>5. LegacyEvent(e)
      BY <3>1, <3>2, <3>4, Zenon DEF LegacyEvent
    <3>6. new[i] = e
      BY <2>4, Zenon DEF a, w
    <3> HIDE DEF e
    <3> QED BY <3>3, <3>4, <3>5, <3>6, Zenon DEF a
  <2>6. ASSUME NEW i \in 1..n
        PROVE  /\ Fits(new[i].action, state'[new[i].subject])
               /\ state[r] \in Public => new[i].action = "withdrawn"
    BY <1>6, <2>1, <2>5, Zenon DEF Occurs
  <2>7. ASSUME NEW i \in 1..n, NEW j \in 1..n, i < j PROVE MayFollow(new[i].action, new[j].action)
    <3>1. MayFollow(actions[i], actions[j])
      BY <1>6, <2>1, <2>7, Zenon DEF Occurs
    <3> QED BY <2>5, <3>1, Zenon
  <2>8. Occurred(new, state')
    BY <2>4, <2>5, <2>6, <2>7, Zenon DEF Occurred
  <2>9. new \in Seq(Row)
    <3>1. new \in [1..n -> Row]
      <4> HIDE DEF Row
      <4>1. new = [i \in 1..n |-> new[i]]
        BY <2>3, <2>4, Zenon
      <4> QED BY <2>5, <4>1, Zenon
    <3> HIDE DEF Row
    <3> QED BY <2>1, <3>1
  <2> QED BY <2>4, <2>5, <2>6, <2>8, <2>9, Zenon
<1> HIDE DEF new
<1> DEFINE first == events \o withdrawal
<1>10. /\ Occurred(first, state')
       /\ \A i \in DOMAIN first : \/ \E j \in DOMAIN events : first[i] = events[j]
                                  \/ \E j \in DOMAIN withdrawal : first[i] = withdrawal[j]
  <2>1. \A a : MayFollow(a, "withdrawn")
    BY DEF MayFollow, Entered
  <2>2. ASSUME NEW i \in DOMAIN events, NEW j \in DOMAIN withdrawal
        PROVE  MayFollow(events[i].action, withdrawal[j].action)
    BY <1>8, <2>1, Zenon
  <2> QED BY <1>5, <1>7, <1>8, <2>2, OccurredConcatenation, Zenon
<1>11. first \in Seq(Row)
  BY <1>5, <1>8, Concatenation, Zenon
<1>12. events' = first \o new
  BY <1>4 DEF new
<1> HIDE DEF first
<1>13. ASSUME NEW i \in DOMAIN first, NEW j \in DOMAIN new, first[i].subject = new[j].subject
       PROVE  MayFollow(first[i].action, new[j].action)
  <2>1. first[i].subject = r
    BY <1>9, <1>13, Zenon
  <2>2. PICK k \in DOMAIN events : first[i] = events[k]
    BY <1>8, <1>10, <2>1, Zenon
  <2>3. Fits(first[i].action, state[r])
    BY <2>1, <2>2, Zenon DEF Occurred
  <2>4. CASE first[i].action \in {"published", "withdrawn"}
    <3>1. state[r] \in Public
      BY <2>3, <2>4 DEF Fits, Public
    <3>2. new[j].action = "withdrawn"
      BY <1>9, <3>1
    <3> QED BY <3>2 DEF MayFollow, Entered
  <2>5. CASE first[i].action \notin {"published", "withdrawn"}
    BY <2>5 DEF MayFollow
  <2> QED BY <2>4, <2>5
<1>14. Occurred(first \o new, state')
  BY <1>9, <1>10, <1>11, <1>13, OccurredConcatenation, Zenon
<1> QED BY <1>12, <1>14, Zenon

\* What a step may do to the recorded events, as RecordedOrderKept states it.
OrderStep ==
  \A i, j \in DOMAIN events :
    /\ events'[i].subject = events[i].subject
    /\ events'[i].action = events[i].action
    /\ (/\ history'[events[i].subject] = history'[events[j].subject]
        /\ IF phase = "legacy" THEN i < j ELSE events[i].sequence < events[j].sequence
        /\ "approved" \notin {events[i].action, events[j].action}
        /\ phase' # "legacy")
       => events'[i].sequence < events'[j].sequence

LEMMA ComponentsAreNumbers ==
  ASSUME RegistryInv
  PROVE  \A r \in Range(created) : Components[r] \in Nat
<1> SUFFICES ASSUME NEW r \in Range(created) PROVE Components[r] \in Nat
  OBVIOUS
<1>1. /\ Range(created) \subseteq Records
      /\ r \in Records
  BY CreatedInRecords, Zenon
<1>2. Max(Records) \in Nat /\ Linked[Max(Records)] \in Parents
  <2>1. /\ Max(Records) \in Nat
        /\ \A n \in 0..Max(Records) : Linked[n] \in Parents
    BY <1>1, LinkedRows, Zenon
  <2>2. Max(Records) \in 0..Max(Records)
    BY <2>1
  <2> QED BY <2>1, <2>2, Zenon
<1> DEFINE last == Linked[Max(Records)]
<1>3. last \in [Records -> Records]
  BY <1>2 DEF Parents
<1> HIDE DEF last
<1>4. \A q \in Records : q \in Records <=> last[q] \in Records
  BY <1>3
<1>5. FindRoot(last, r) \in Records
  <2>1. Records \in SUBSET Records
    OBVIOUS
  <2> QED BY <1>1, <1>2, <1>4, <2>1, RootReached, Zenon DEF last
<1>6. Components[r] = FindRoot(last, r)
  BY <1>1, Zenon DEF Components, last
<1> QED BY <1>5, <1>6, RecordsAreNumbers

LEMMA BackfillRecords ==
  ASSUME MigrationInv, TableInv, Backfill
  PROVE  TableInv' /\ OrderStep
<1> DEFINE base == Numbered(history')
<1>1. /\ created' = created
      /\ history' = Components
      /\ phase = "legacy" /\ phase' = "backfilled"
      /\ events' = BackfilledEvents(history')
  BY DEF Backfill
<1>2. /\ events \in Seq(Row)
      /\ \A i \in DOMAIN events : events[i].subject \in Range(created) /\ events[i].cause = 0
  BY <1>1, Zenon DEF TableInv
<1>3. \A r \in Range(created) : history'[r] \in Nat
  BY <1>1, ComponentsAreNumbers, Zenon DEF MigrationInv
<1>4. /\ Sound(base, history')
      /\ DOMAIN base = DOMAIN events
      /\ \A i \in DOMAIN events :
           /\ base[i].subject = events[i].subject /\ base[i].action = events[i].action
           /\ base[i].cause = events[i].cause
      /\ \A i, j \in DOMAIN events :
           base[i].history = base[j].history /\ i < j
             => base[i].sequence < base[j].sequence
  BY <1>2, <1>3, NumberedInOrder, Zenon
<1>10. CausesFirst(base)
  BY <1>2, <1>4, Zenon DEF CausesFirst
<1>5. events' \in Longer(base, history')
  BY <1>1, <1>3, <1>4, <1>10, BackfilledKeeps, Zenon DEF MigrationInv
<1> HIDE DEF base
<1>6. /\ events' \in Seq(Row)
      /\ Sound(events', history') /\ CausesFirst(events')
      /\ \A i \in DOMAIN events : events'[i] = base[i]
  BY <1>4, <1>5, Zenon DEF Longer
<1>7. TableInv'
  <2>1. /\ \A i \in DOMAIN events' :
             /\ events'[i].subject \in Range(created')
             /\ events'[i].history = history'[events'[i].subject]
        /\ \A i, j \in DOMAIN events' :
             events'[i].history = events'[j].history /\ events'[i].sequence = events'[j].sequence
               => i = j
    BY <1>1, <1>6, Zenon DEF Sound
  <2>2. \A r \in Range(created') : history'[r] \in Nat
    BY <1>1, <1>3, Zenon
  <2>3. CausesFirst(events)'
    BY <1>6, Zenon DEF CausesFirst, CausedBy
  <2> QED BY <1>1, <1>6, <2>1, <2>2, <2>3, Zenon DEF TableInv, Sound
<1>8. ASSUME NEW i \in DOMAIN events, NEW j \in DOMAIN events
      PROVE  /\ events'[i].subject = events[i].subject
             /\ events'[i].action = events[i].action
             /\ history'[events[i].subject] = history'[events[j].subject] /\ i < j
                  => events'[i].sequence < events'[j].sequence
  <2>1. events'[i] = base[i] /\ events'[j] = base[j]
    BY <1>6
  <2>2. /\ base[i].subject = events[i].subject /\ base[i].action = events[i].action
        /\ base[j].subject = events[j].subject
    BY <1>4
  <2>3. /\ base[i].history = history'[base[i].subject]
        /\ base[j].history = history'[base[j].subject]
    BY <1>4, Zenon DEF Sound
  <2>4. base[i].history = base[j].history /\ i < j => base[i].sequence < base[j].sequence
    BY <1>4
  <2> QED BY <2>1, <2>2, <2>3, <2>4
<1>9. OrderStep
  BY <1>1, <1>8 DEF OrderStep
<1> QED BY <1>7, <1>9

LEMMA RepairRecords ==
  ASSUME MigrationInv, TableInv, Repair
  PROVE  TableInv' /\ OrderStep
<1>1. /\ created' = created /\ history' = history
      /\ phase = "backfilled" /\ phase' = "repaired"
      /\ events' = Repaired(events)
  BY DEF Repair
<1>2. /\ \A r \in Range(created) : history[r] \in Nat
      /\ Sound(events, history) /\ CausesFirst(events)
  <2>1. phase # "legacy"
    BY <1>1
  <2> QED BY <2>1, Zenon DEF TableInv
<1>3. Range(created) \subseteq Records
  BY CreatedInRecords, Zenon DEF MigrationInv
<1>4. /\ events' \in Orderly(events, history)
      /\ \A i \in DOMAIN events' : events'[i].action = "published" => events'[i].cause # 0
  BY <1>1, <1>2, <1>3, RepairedKeeps, Zenon
<1>5. /\ events' \in Seq(Row) /\ Sound(events', history) /\ Keeps(events, events')
      /\ CausesFirst(events')
  BY <1>4, Zenon DEF Orderly
<1>6. TableInv'
  <2>1. /\ \A i \in DOMAIN events' :
             /\ events'[i].subject \in Range(created')
             /\ events'[i].history = history'[events'[i].subject]
        /\ \A i, j \in DOMAIN events' :
             events'[i].history = events'[j].history /\ events'[i].sequence = events'[j].sequence
               => i = j
    BY <1>1, <1>5, Zenon DEF Sound
  <2>2. \A r \in Range(created') : history'[r] \in Nat
    BY <1>1, <1>2, Zenon
  <2>3. CausesFirst(events)'
    BY <1>5, Zenon DEF CausesFirst, CausedBy
  <2> QED BY <1>1, <1>4, <1>5, <2>1, <2>2, <2>3, Zenon DEF TableInv, Sound
<1>7. ASSUME NEW i \in DOMAIN events, NEW j \in DOMAIN events
      PROVE  /\ events'[i].subject = events[i].subject
             /\ events'[i].action = events[i].action
             /\ (/\ history'[events[i].subject] = history'[events[j].subject]
                 /\ events[i].sequence < events[j].sequence
                 /\ "approved" \notin {events[i].action, events[j].action})
                => events'[i].sequence < events'[j].sequence
  <2>1. /\ events[i].history = history[events[i].subject]
        /\ events[j].history = history[events[j].subject]
    BY <1>2, Zenon DEF Sound
  <2>2. /\ events'[i].subject = events[i].subject
        /\ events'[i].action = events[i].action
        /\ (/\ events[i].history = events[j].history
            /\ events[i].sequence < events[j].sequence
            /\ "approved" \notin {events[i].action, events[j].action})
           => events'[i].sequence < events'[j].sequence
    BY <1>5, Zenon DEF Keeps
  <2> QED BY <1>1, <2>1, <2>2
<1>8. OrderStep
  BY <1>1, <1>7 DEF OrderStep
<1> QED BY <1>6, <1>8

LEMMA LegacyOrder ==
  ASSUME MigrationInv, TableInv, NEW r \in Records, LegacyStep(r)
  PROVE  TableInv' /\ OrderStep
<1>1. TableInv' /\ \A i \in DOMAIN events : events'[i] = events[i]
  BY LegacyRecords, Zenon
<1>2. phase' = "legacy"
  BY DEF LegacyStep
<1> QED BY <1>1, <1>2 DEF OrderStep

LEMMA RecordsKept == MigrationSpec => [](MigrationInv /\ TableInv)
<1>1. MigrationInit => TableInv
  <2> SUFFICES ASSUME MigrationInit PROVE TableInv
    OBVIOUS
  <2>1. events = <<>> /\ phase = "legacy"
    BY DEF MigrationInit
  <2>2. <<>> \in Seq(Row) /\ DOMAIN <<>> = {}
    <3> HIDE DEF Row
    <3> QED OBVIOUS
  <2> QED BY <2>1, <2>2, Zenon DEF TableInv
<1>2. MigrationInv /\ TableInv /\ [MigrationNext]_migrationVars => TableInv'
  <2> SUFFICES ASSUME MigrationInv, TableInv, [MigrationNext]_migrationVars PROVE TableInv'
    OBVIOUS
  <2>1. CASE Backfill
    BY <2>1, BackfillRecords
  <2>2. CASE Repair
    BY <2>2, RepairRecords
  <2>3. ASSUME NEW r \in Records, LegacyStep(r) PROVE TableInv'
    BY <2>3, LegacyOrder
  <2>4. CASE UNCHANGED migrationVars
    <3>1. created' = created /\ history' = history /\ phase' = phase /\ events' = events
      BY <2>4 DEF migrationVars
    <3> QED BY <3>1, Zenon DEF TableInv, Sound
  <2> QED BY <2>1, <2>2, <2>3, <2>4 DEF MigrationNext
<1> QED BY <1>1, <1>2, MigrationKept, PTL DEF MigrationSpec

(* Neither 0006 nor 0007 drops a recorded event, changes what it records or *)
(* reorders two events of a history, whatever the number of records and of  *)
(* events: an approval alone moves, and the events a migration infers or    *)
(* renumbers around it keep their order.                                    *)
THEOREM NothingRecordedIsReordered == MigrationSpec => RecordedOrderKept
<1>1. MigrationInv /\ TableInv /\ [MigrationNext]_migrationVars => [OrderStep]_migrationVars
  <2> SUFFICES ASSUME MigrationInv, TableInv, MigrationNext PROVE OrderStep
    OBVIOUS
  <2>1. CASE Backfill
    BY <2>1, BackfillRecords
  <2>2. CASE Repair
    BY <2>2, RepairRecords
  <2>3. ASSUME NEW r \in Records, LegacyStep(r) PROVE OrderStep
    BY <2>3, LegacyOrder
  <2> QED BY <2>1, <2>2, <2>3 DEF MigrationNext
<1> QED BY <1>1, RecordsKept, PTL DEF MigrationSpec, RecordedOrderKept, OrderStep

-----------------------------------------------------------------------------
(* What the tables tell, along the steps: as the records went before 0006,  *)
(* a finished story of every record after it.                               *)
ContentInv ==
  /\ phase = "legacy" => Occurred(events, state)
  /\ phase # "legacy" =>
       /\ Chained(events) /\ Readable(events)
       /\ \A r \in Range(created) : Finished(events, r)
  /\ phase = "repaired" => SnapshotsTold(events)

LEMMA FinishedPrimed ==
  ASSUME state' = state, fields' = fields, NEW r, Finished(events', r)
  PROVE  Finished(events, r)'
<1>1. Own(events, r)' = Own(events', r)
  BY Zenon DEF Own
<1>2. Have(events, r)' = Have(events', r)
  BY <1>1, Zenon DEF Have
<1>3. Unannounced(events, r)' <=> Unannounced(events', r)
  BY <1>1, Zenon DEF Unannounced
<1>4. Outcome(events, r)' = Outcome(events', r)
  BY <1>3 DEF Outcome
<1>5. \A i : LastShown(events, r, i)' <=> LastShown(events', r, i)
  BY <1>1 DEF LastShown
<1>6. Concluded(events, r)'
  <2>1. PICK i \in Own(events', r) : /\ LastShown(events', r, i)
                                     /\ Shown(events'[i]) = Outcome(events', r)
    BY Zenon DEF Finished, Concluded
  <2>2. LastShown(events, r, i)' /\ Shown(events[i])' = Outcome(events, r)'
    BY <1>4, <1>5, <2>1, Zenon DEF Shown
  <2> QED BY <1>1, <2>1, <2>2, Zenon DEF Concluded
<1>7. Complete(r, Have(events, r))'
  <2>1. Complete(r, Have(events', r))
    BY Zenon DEF Finished
  <2> QED BY <1>2, <2>1 DEF Complete
<1>8. EditedFirst(events, r)'
  <2>1. EditedFirst(events', r)
    BY Zenon DEF Finished
  <2> QED BY <1>1, <2>1, Zenon DEF EditedFirst
<1>9. Unannounced(events, r)' => state'[r] = "withdrawn"
  <2>1. Unannounced(events', r) => state[r] = "withdrawn"
    BY Zenon DEF Finished
  <2> QED BY <1>3, <2>1
<1> QED BY <1>6, <1>7, <1>8, <1>9, Zenon DEF Finished

LEMMA ReadsPrimed ==
  ASSUME fields' = fields, Readable(events')
  PROVE  Readable(events)'
<1> SUFFICES ASSUME NEW i \in DOMAIN events' PROVE Reads(events[i])'
  BY Zenon DEF Readable
<1>1. Reads(events'[i])
  BY Zenon DEF Readable
<1> QED BY <1>1, Zenon DEF Reads, ActorValid

LEMMA ContentPrimed ==
  ASSUME state' = state, fields' = fields, created' = created,
         phase' # "legacy", Chained(events'), Readable(events'),
         \A r \in Range(created) : Finished(events', r),
         phase' = "repaired" => SnapshotsTold(events')
  PROVE  ContentInv'
<1>1. Chained(events)'
  BY Zenon DEF Chained, ChainedAt
<1>2. Readable(events)'
  BY ReadsPrimed
<1>3. ASSUME NEW r \in Range(created') PROVE Finished(events, r)'
  BY FinishedPrimed, Zenon
<1>4. phase' = "repaired" => SnapshotsTold(events)'
  BY Zenon DEF SnapshotsTold
<1> QED BY <1>1, <1>2, <1>3, <1>4, Zenon DEF ContentInv

LEMMA BackfillTells ==
  ASSUME MigrationInv, TableInv, ContentInv, Backfill
  PROVE  ContentInv'
<1> DEFINE base == Numbered(history')
<1>1. /\ created' = created /\ state' = state /\ fields' = fields
      /\ history' = Components
      /\ phase = "legacy" /\ phase' = "backfilled"
      /\ events' = BackfilledEvents(history')
  BY DEF Backfill
<1>2. /\ events \in Seq(Row)
      /\ \A i \in DOMAIN events : events[i].subject \in Range(created) /\ events[i].cause = 0
  BY <1>1, Zenon DEF TableInv
<1>3. \A r \in Range(created) : history'[r] \in Nat
  BY <1>1, ComponentsAreNumbers, Zenon DEF MigrationInv
<1>4. /\ Sound(base, history')
      /\ DOMAIN base = DOMAIN events
      /\ \A i \in DOMAIN events : base[i].cause = events[i].cause
  BY <1>2, <1>3, NumberedInOrder, Zenon
<1>5. CausesFirst(base)
  BY <1>2, <1>4, Zenon DEF CausesFirst
<1>6. Occurred(events, state)
  BY <1>1, Zenon DEF ContentInv
<1>7. Telling(base)
  BY <1>2, <1>3, <1>6, NumberedTells, Zenon
<1>8. /\ events' \in Longer(base, history')
      /\ \A r \in Range(created) : Finished(events', r)
  BY <1>1, <1>3, <1>4, <1>5, <1>7, BackfilledKeeps, Zenon DEF MigrationInv
<1> HIDE DEF base
<1>9. Chained(events') /\ Readable(events')
  BY <1>7, <1>8, Zenon DEF Longer, Telling
<1>10. phase' # "legacy" /\ phase' # "repaired"
  BY <1>1
<1> QED BY <1>1, <1>8, <1>9, <1>10, ContentPrimed, Zenon

LEMMA RepairTells ==
  ASSUME MigrationInv, TableInv, ContentInv, Repair
  PROVE  ContentInv'
<1>1. /\ created' = created /\ state' = state /\ fields' = fields /\ history' = history
      /\ phase = "backfilled" /\ phase' = "repaired"
      /\ events' = Repaired(events)
  BY DEF Repair
<1>2. phase # "legacy" /\ phase' # "legacy"
  BY <1>1
<1>3. /\ \A r \in Range(created) : history[r] \in Nat
      /\ Sound(events, history) /\ CausesFirst(events)
  BY <1>2, Zenon DEF TableInv
<1>4. /\ Chained(events) /\ Readable(events)
      /\ \A r \in Range(created) : Finished(events, r)
  BY <1>2, Zenon DEF ContentInv
<1>5. Range(created) \subseteq Records
  BY CreatedInRecords, Zenon DEF MigrationInv
<1>6. events' \in Orderly(events, history)
  BY <1>1, <1>3, <1>5, RepairedKeeps, Zenon
<1>7. /\ Keeps(events, events') /\ Retells(events, events')
      /\ SnapshotsTold(events') /\ Chained(events')
  BY <1>4, <1>6, Zenon DEF Orderly
<1>8. \A r \in Range(created) : Finished(events', r)
  BY <1>3, <1>4, <1>7, RepairFinishes, Zenon
<1>9. Readable(events')
  BY <1>4, <1>7, RepairReads, Zenon
<1> QED BY <1>1, <1>2, <1>7, <1>8, <1>9, ContentPrimed, Zenon

LEMMA StoryKept == MigrationSpec => [](MigrationInv /\ TableInv /\ ContentInv)
<1>1. MigrationInit => ContentInv
  <2> SUFFICES ASSUME MigrationInit PROVE ContentInv
    OBVIOUS
  <2>1. events = <<>> /\ phase = "legacy"
    BY DEF MigrationInit
  <2>2. DOMAIN <<>> = {}
    OBVIOUS
  <2>3. Occurred(events, state)
    BY <2>1, <2>2, Zenon DEF Occurred
  <2>4. phase # "repaired"
    BY <2>1
  <2> QED BY <2>1, <2>3, <2>4, Zenon DEF ContentInv
<1>2. MigrationInv /\ TableInv /\ ContentInv /\ [MigrationNext]_migrationVars => ContentInv'
  <2> SUFFICES ASSUME MigrationInv, TableInv, ContentInv, [MigrationNext]_migrationVars
               PROVE  ContentInv'
    OBVIOUS
  <2>1. CASE Backfill
    BY <2>1, BackfillTells
  <2>2. CASE Repair
    BY <2>2, RepairTells
  <2>3. ASSUME NEW r \in Records, LegacyStep(r) PROVE ContentInv'
    <3>1. phase = "legacy" /\ phase' = "legacy"
      BY <2>3 DEF LegacyStep
    <3>2. Occurred(events, state)
      BY <3>1, Zenon DEF ContentInv
    <3>3. Occurred(events', state')
      BY <2>3, <3>2, LegacyOccurs, Zenon
    <3>4. Occurred(events, state)'
      BY <3>3, Zenon DEF Occurred, LegacyEvent
    <3>5. phase' # "repaired"
      BY <3>1
    <3> QED BY <3>1, <3>4, <3>5, Zenon DEF ContentInv
  <2>4. CASE UNCHANGED migrationVars
    <3>1. /\ created' = created /\ phase' = phase /\ events' = events
          /\ state' = state /\ fields' = fields
      BY <2>4 DEF migrationVars
    <3>2. CASE phase = "legacy"
      <4>1. Occurred(events, state)
        BY <3>2, Zenon DEF ContentInv
      <4>2. Occurred(events', state')
        BY <3>1, <4>1, Zenon
      <4>3. Occurred(events, state)'
        BY <4>2, Zenon DEF Occurred, LegacyEvent
      <4>4. phase' = "legacy" /\ phase' # "repaired"
        BY <3>1, <3>2
      <4> QED BY <4>3, <4>4, Zenon DEF ContentInv
    <3>3. CASE phase # "legacy"
      <4>1. /\ Chained(events') /\ Readable(events')
            /\ \A r \in Range(created) : Finished(events', r)
            /\ phase' # "legacy"
            /\ phase' = "repaired" => SnapshotsTold(events')
        BY <3>1, <3>3, Zenon DEF ContentInv
      <4> QED BY <3>1, <4>1, ContentPrimed, Zenon
    <3> QED BY <3>2, <3>3
  <2> QED BY <2>1, <2>2, <2>3, <2>4 DEF MigrationNext
<1> QED BY <1>1, <1>2, RecordsKept, PTL DEF MigrationSpec

-----------------------------------------------------------------------------
(* The validator replays the events of a record from the first to the last: *)
(* a fold over the numbers of the stream, which the last of the marked ones *)
(* decides.                                                                 *)
Replays(iter, n, marks, value, base) ==
  iter = [s \in SUBSET (1..n) |->
            IF s = {} THEN base
            ELSE IF Max(s) \in marks THEN value[Max(s)] ELSE iter[s \ {Max(s)}]]

LEMMA ReplayExists ==
  ASSUME NEW n \in Nat, NEW marks, NEW value, NEW base
  PROVE  \E iter : Replays(iter, n, marks, value, base)
<1> DEFINE marked(s) == {i \in s : i \in marks}
           last(s) == IF marked(s) = {} THEN base ELSE value[Max(marked(s))]
           f == [s \in SUBSET (1..n) |-> last(s)]
           next(s) == IF s = {} THEN base
                      ELSE IF Max(s) \in marks THEN value[Max(s)] ELSE f[s \ {Max(s)}]
<1>1. ASSUME NEW s \in SUBSET (1..n), s # {}
      PROVE  Max(s) \in s /\ \A t \in s : t <= Max(s)
  <2>1. IsFiniteSet(1..n)
    BY FirstNumbers
  <2>2. s \in SUBSET Nat
    OBVIOUS
  <2>3. IsFiniteSet(s)
    BY <2>1, FS_Subset
  <2> QED BY <1>1, <2>2, <2>3, MaxIn, Zenon
<1>2. ASSUME NEW s \in SUBSET (1..n) PROVE last(s) = next(s)
  <2>1. CASE s = {}
    BY <2>1
  <2>2. CASE s # {} /\ Max(s) \in marks
    <3>1. Max(s) \in s /\ Max(s) \in marked(s) /\ \A t \in s : t <= Max(s)
      BY <1>1, <2>2
    <3>2. marked(s) \in SUBSET (1..n) /\ marked(s) # {} /\ marked(s) \subseteq s
      BY <3>1
    <3>3. Max(marked(s)) \in marked(s) /\ \A t \in marked(s) : t <= Max(marked(s))
      <4> HIDE DEF marked
      <4> QED BY <1>1, <3>2, Zenon
    <3>4. Max(marked(s)) = Max(s)
      <4>1. Max(marked(s)) \in Nat /\ Max(s) \in Nat
        <5> HIDE DEF marked
        <5> QED BY <3>1, <3>2, <3>3
      <4>2. Max(marked(s)) <= Max(s) /\ Max(s) <= Max(marked(s))
        <5> HIDE DEF marked
        <5> QED BY <3>1, <3>2, <3>3
      <4> HIDE DEF marked
      <4> QED BY <4>1, <4>2
    <3> HIDE DEF marked
    <3>5. last(s) = value[Max(s)]
      BY <3>2, <3>4, Zenon
    <3> QED BY <2>2, <3>5, Zenon
  <2>3. CASE s # {} /\ Max(s) \notin marks
    <3> DEFINE rest == s \ {Max(s)}
    <3>1. rest \in SUBSET (1..n) /\ marked(rest) = marked(s)
      BY <2>3
    <3>2. f[rest] = last(rest)
      <4> HIDE DEF last, rest
      <4> QED BY <3>1
    <3>3. last(rest) = last(s)
      <4> HIDE DEF marked, rest
      <4> QED BY <3>1, Zenon
    <3>4. next(s) = f[rest]
      <4> HIDE DEF f
      <4> QED BY <2>3, Zenon
    <3> HIDE DEF f, next, last, rest
    <3> QED BY <3>2, <3>3, <3>4, Zenon
  <2> QED BY <2>1, <2>2, <2>3
<1>3. f = [s \in SUBSET (1..n) |-> next(s)]
  <2> HIDE DEF last, next
  <2> QED BY <1>2, Zenon
<1>4. Replays(f, n, marks, value, base)
  <2> HIDE DEF f
  <2> QED BY <1>3, Zenon DEF Replays, next
<1> HIDE DEF f
<1> QED BY <1>4, Zenon

LEMMA Replayed ==
  ASSUME NEW n \in Nat, NEW marks, NEW value, NEW base, NEW iter,
         Replays(iter, n, marks, value, base),
         NEW l \in 1..n, l \in marks, \A k \in 1..n : k \in marks => k <= l
  PROVE  iter[1..n] = value[l]
<1>1. ASSUME NEW k \in 1..n
      PROVE  iter[1..k] = IF k \in marks THEN value[k] ELSE iter[1..(k - 1)]
  <2> DEFINE s == 1..k
  <2>1. s \in SUBSET (1..n) /\ s # {} /\ IsFiniteSet(s) /\ s \in SUBSET Nat
    <3>1. IsFiniteSet(s)
      BY FirstNumbers
    <3> HIDE DEF s
    <3>2. s \in SUBSET (1..n) /\ s # {}
      BY DEF s
    <3> QED BY <3>1, <3>2
  <2>2. Max(s) = k /\ s \ {k} = 1..(k - 1)
    <3>1. Max(s) \in s /\ \A t \in s : t <= Max(s)
      <4> HIDE DEF s
      <4> QED BY <2>1, MaxIn, Zenon
    <3>2. k \in s
      OBVIOUS
    <3> QED BY <3>1, <3>2
  <2> HIDE DEF s
  <2>3. iter[s] = IF s = {} THEN base
                  ELSE IF Max(s) \in marks THEN value[Max(s)] ELSE iter[s \ {Max(s)}]
    BY <2>1, Zenon DEF Replays
  <2>4. iter[s] = IF k \in marks THEN value[k] ELSE iter[1..(k - 1)]
    BY <2>1, <2>2, <2>3, Zenon
  <2> QED BY <2>4 DEF s
<1> DEFINE N == n - l
           S == {k \in 0..N : iter[1..(l + k)] = value[l]}
<1>2. N \in Nat /\ l + N = n
  OBVIOUS
<1>3. 0 \in S
  <2>1. iter[1..l] = value[l]
    BY <1>1
  <2>2. l + 0 = l
    OBVIOUS
  <2> QED BY <1>2, <2>1, <2>2
<1>4. ASSUME NEW k \in 1..N, k - 1 \in S PROVE k \in S
  <2>1. l + k \in 1..n /\ l + k \notin marks /\ (l + k) - 1 = l + (k - 1)
    BY <1>2
  <2>2. iter[1..(l + k)] = iter[1..((l + k) - 1)]
    BY <1>1, <2>1
  <2>3. iter[1..(l + (k - 1))] = value[l]
    BY <1>4
  <2> QED BY <2>1, <2>2, <2>3
<1>5. N \in S
  <2> HIDE DEF S, N
  <2>1. \A k \in 0..N : k \in S
    BY <1>2, <1>3, <1>4, UpToN
  <2> QED BY <1>2, <2>1
<1> QED BY <1>2, <1>5

\* The events of r, in the order of their numbers.
Streamed(stream, r) ==
  /\ Len(stream) \in Nat /\ DOMAIN stream = 1..Len(stream)
  /\ \A n \in 1..Len(stream) : \E i \in Own(events, r) : stream[n] = events[i]
  /\ \A i \in Own(events, r) : \E n \in 1..Len(stream) : stream[n] = events[i]
  /\ \A m, n \in 1..Len(stream) : m < n => stream[m].sequence < stream[n].sequence

LEMMA StreamOrdered ==
  ASSUME Sound(events, history), \A r \in Range(created) : history[r] \in Nat, NEW r
  PROVE  Streamed(Stream(r), r)
<1> DEFINE keys == InOrder(events, Own(events, r))
           N == Len(keys)
           stream == [i \in 1..N |-> events[keys[i]]]
<1>1. Own(events, r) \in SUBSET DOMAIN events
  BY Zenon DEF Own
<1>2. Listed(keys, Own(events, r)) /\ Sorted(keys, events)
  BY <1>1, InOrderMembers, Zenon
<1>3. Stream(r) = stream
  BY Zenon DEF Stream, Own
<1> HIDE DEF keys
<1>4. /\ N \in Nat
      /\ \A n \in 1..N : keys[n] \in Own(events, r)
      /\ \A j \in Own(events, r) : \E n \in 1..N : keys[n] = j
      /\ \A m, n \in 1..N : m < n => Precedes(events[keys[m]], events[keys[n]])
  BY <1>2, Zenon DEF Listed, Sorted
<1>5. Len(stream) = N /\ DOMAIN stream = 1..N /\ \A n \in 1..N : stream[n] = events[keys[n]]
  BY <1>4
<1>6. ASSUME NEW m \in 1..N, NEW n \in 1..N, m < n
      PROVE  stream[m].sequence < stream[n].sequence
  <2> DEFINE e == events[keys[m]]
             f == events[keys[n]]
  <2>1. /\ keys[m] \in DOMAIN events /\ e.subject = r
        /\ keys[n] \in DOMAIN events /\ f.subject = r
    BY <1>4, Zenon DEF Own
  <2>2. e.history = history[r] /\ f.history = history[r] /\ r \in Range(created)
    BY <2>1, Zenon DEF Sound
  <2>3. history[r] \in Nat
    BY <2>2, Zenon
  <2>4. Precedes(e, f)
    BY <1>4, <1>6, Zenon
  <2> HIDE DEF e, f
  <2>5. e.sequence < f.sequence
    BY <2>2, <2>3, <2>4 DEF Precedes
  <2>6. stream[m] = e /\ stream[n] = f
    BY <1>5, Zenon DEF e, f
  <2> HIDE DEF stream
  <2> QED BY <2>5, <2>6
<1> HIDE DEF N, stream
<1>7. /\ \A n \in 1..N : \E i \in Own(events, r) : stream[n] = events[i]
      /\ \A i \in Own(events, r) : \E n \in 1..N : stream[n] = events[i]
  <2>1. ASSUME NEW n \in 1..N PROVE \E i \in Own(events, r) : stream[n] = events[i]
    BY <1>4, <1>5
  <2>2. ASSUME NEW i \in Own(events, r) PROVE \E n \in 1..N : stream[n] = events[i]
    <3>1. PICK n \in 1..N : keys[n] = i
      BY <1>4
    <3>2. stream[n] = events[keys[n]]
      BY <1>5
    <3> QED BY <3>1, <3>2
  <2> QED BY <2>1, <2>2
<1>8. Streamed(stream, r)
  BY <1>4, <1>5, <1>6, <1>7 DEF Streamed
<1> QED BY <1>3, <1>8, Zenon

\* The step of the replay, which no row takes as a restoration.
Replay(s, e) ==
  CASE e.action \in Entered ->
         IF e.projected # None THEN e.projected
         ELSE IF e.action = "resubmitted" THEN "pending_reapproval" ELSE "pending_review"
    [] e.action \in {"published", "restored"} -> "published"
    [] e.action = "withdrawn" -> "withdrawn"
    [] OTHER -> s

LEMMA ReplayShows ==
  ASSUME NEW s, NEW e, e.action # "restored"
  PROVE  Replay(s, e) = IF Shows(e) THEN Shown(e) ELSE s
BY DEF Replay, Shows, Shown, Entered

LEMMA ProjectedShown ==
  ASSUME NEW r, Streamed(Stream(r), r),
         \A i \in DOMAIN events : /\ events[i].action # "restored"
                                  /\ events[i].sequence \in Nat,
         NEW l, LastShown(events, r, l)
  PROVE  Projected(r) = Shown(events[l])
<1> DEFINE stream == Stream(r)
           n == Len(stream)
           marks == {i \in 1..n : Shows(stream[i])}
           value == [i \in 1..n |-> Shown(stream[i])]
           Folds(iter) == iter = [s \in SUBSET DOMAIN stream |->
             IF s = {} THEN None ELSE Replay(iter[s \ {Max(s)}], stream[Max(s)])]
<1>1. Projected(r) = (CHOOSE iter : Folds(iter))[DOMAIN stream]
  BY Zenon DEF Projected, FoldLeft, MapThenFoldSet, Replay
<1>2. /\ n \in Nat /\ DOMAIN stream = 1..n
      /\ \A k \in 1..n : \E i \in Own(events, r) : stream[k] = events[i]
      /\ \A i \in Own(events, r) : \E k \in 1..n : stream[k] = events[i]
      /\ \A j, k \in 1..n : j < k => stream[j].sequence < stream[k].sequence
  BY Zenon DEF Streamed
<1>3. \A i \in Own(events, r) : i \in DOMAIN events
  BY Zenon DEF Own
<1>4. \A k \in 1..n : stream[k].action # "restored" /\ stream[k].sequence \in Nat
  <2> SUFFICES ASSUME NEW k \in 1..n
               PROVE  stream[k].action # "restored" /\ stream[k].sequence \in Nat
    OBVIOUS
  <2>1. PICK i \in Own(events, r) : stream[k] = events[i]
    BY <1>2, Zenon
  <2> QED BY <1>3, <2>1, Zenon
<1> HIDE DEF stream
<1>5. ASSUME NEW iter PROVE Folds(iter) <=> Replays(iter, n, marks, value, None)
  <2> DEFINE left(s) == IF s = {} THEN None ELSE Replay(iter[s \ {Max(s)}], stream[Max(s)])
             right(s) == IF s = {} THEN None
                         ELSE IF Max(s) \in marks THEN value[Max(s)] ELSE iter[s \ {Max(s)}]
  <2>1. ASSUME NEW s \in SUBSET (1..n), s # {} PROVE Max(s) \in 1..n
    <3> HIDE DEF n
    <3>1. IsFiniteSet(1..n)
      BY <1>2, FirstNumbers, Zenon
    <3>2. s \in SUBSET Nat
      OBVIOUS
    <3>3. IsFiniteSet(s)
      BY <3>1, FS_Subset
    <3>4. Max(s) \in s
      BY <2>1, <3>2, <3>3, MaxIn, Zenon
    <3> QED BY <3>4
  <2>2. ASSUME NEW s \in SUBSET (1..n) PROVE left(s) = right(s)
    <3>1. CASE s = {}
      BY <3>1, Zenon
    <3>2. CASE s # {}
      <4> DEFINE m == Max(s)
                 rest == iter[s \ {m}]
      <4>1. m \in 1..n
        BY <2>1, <3>2, Zenon
      <4>2. stream[m].action # "restored"
        BY <1>4, <4>1, Zenon
      <4> HIDE DEF m
      <4>3. Replay(rest, stream[m]) = IF Shows(stream[m]) THEN Shown(stream[m]) ELSE rest
        BY <4>2, ReplayShows, Zenon
      <4>4. (m \in marks <=> Shows(stream[m])) /\ value[m] = Shown(stream[m])
        BY <4>1, Zenon
      <4> HIDE DEF marks, value, rest
      <4>5. Replay(rest, stream[m]) = IF m \in marks THEN value[m] ELSE rest
        BY <4>3, <4>4, Zenon
      <4> QED BY <3>2, <4>5, Zenon DEF m, rest
    <3> QED BY <3>1, <3>2
  <2>3. [s \in SUBSET (1..n) |-> left(s)] = [s \in SUBSET (1..n) |-> right(s)]
    <3> HIDE DEF left, right
    <3> QED BY <2>2, Zenon
  <2>4. Folds(iter) <=> iter = [s \in SUBSET (1..n) |-> left(s)]
    BY <1>2, Zenon
  <2>5. Replays(iter, n, marks, value, None) <=> iter = [s \in SUBSET (1..n) |-> right(s)]
    <3> HIDE DEF marks, value
    <3> QED BY Zenon DEF Replays
  <2> HIDE DEF left, right, Folds
  <2> QED BY <2>3, <2>4, <2>5, Zenon
<1> HIDE DEF n, marks, value, Folds
<1> DEFINE iter == CHOOSE f : Folds(f)
<1>6. Replays(iter, n, marks, value, None)
  <2>1. PICK f : Replays(f, n, marks, value, None)
    BY <1>2, ReplayExists, Zenon
  <2>2. Folds(f)
    BY <1>5, <2>1, Zenon
  <2>3. Folds(iter)
    BY <2>2, Zenon
  <2> QED BY <1>5, <2>3, Zenon
<1> HIDE DEF iter
<1>7. l \in Own(events, r) /\ Shows(events[l])
      /\ \A j \in Own(events, r) :
           j # l /\ Shows(events[j]) => events[j].sequence < events[l].sequence
  BY Zenon DEF LastShown
<1>8. PICK k \in 1..n : stream[k] = events[l]
  BY <1>2, <1>7, Zenon
<1>9. \A j \in 1..n : j \in marks <=> Shows(stream[j])
  BY Zenon DEF marks
<1>10. k \in marks
  BY <1>7, <1>8, <1>9, Zenon
<1>11. ASSUME NEW j \in 1..n, j \in marks PROVE j <= k
  <2> SUFFICES ASSUME ~(j <= k) PROVE FALSE
    OBVIOUS
  <2>1. k < j
    BY <1>2
  <2>2. stream[k].sequence < stream[j].sequence
    BY <1>2, <2>1, Zenon
  <2>3. PICK i \in Own(events, r) : stream[j] = events[i]
    BY <1>2, Zenon
  <2>4. Shows(events[i])
    BY <1>9, <1>11, <2>3, Zenon
  <2>5. i = l \/ events[i].sequence < events[l].sequence
    BY <1>7, <2>4, Zenon
  <2>6. stream[j].sequence = stream[k].sequence \/ stream[j].sequence < stream[k].sequence
    BY <1>8, <2>3, <2>5, Zenon
  <2> QED BY <1>4, <2>2, <2>6
<1>12. iter[1..n] = value[k]
  <2>1. \A j \in 1..n : j \in marks => j <= k
    BY <1>11
  <2>2. n \in Nat
    BY <1>2
  <2> QED BY <1>6, <1>10, <2>1, <2>2, Replayed
<1>13. value[k] = Shown(events[l])
  <2>1. value[k] = Shown(stream[k])
    BY Zenon DEF value
  <2> QED BY <1>8, <2>1, Zenon
<1> QED BY <1>1, <1>2, <1>12, <1>13, Zenon DEF iter

-----------------------------------------------------------------------------
(* What the validator finds after both migrations.                          *)
LEMMA PredecessorShares ==
  ASSUME MigrationInv, phase # "legacy", NEW r \in Range(created), fields[r].lineage # None
  PROVE  history[fields[r].lineage] = history[r]
<1> DEFINE l == fields[r].lineage
<1>1. r \in Records /\ l \in Range(created)
  BY CreatedInRecords, Zenon DEF MigrationInv
<1>2. \A S \in SUBSET Records : LineageClosed(S) /\ l \in S => r \in S
  BY <1>1, Zenon DEF LineageClosed
<1>3. \A p, q \in Range(created) :
        history[p] = history[q]
          <=> \A S \in SUBSET Records : LineageClosed(S) /\ p \in S => q \in S
  BY Zenon DEF MigrationInv, OneHistoryPerLineage, LineageClosed
<1> HIDE DEF l
<1> QED BY <1>1, <1>2, <1>3, Zenon DEF l

LEMMA ComplaintsMean ==
  ASSUME NEW r
  PROVE  /\ "sequences" \in Complaints(r) => ~Continuous(history[r])
         /\ "actor" \in Complaints(r) =>
              \E e \in Range(events) : e.subject = r /\ ~ActorValid(e)
         /\ "snapshot" \in Complaints(r) =>
              \E e \in Range(events) : e.subject = r /\ ~SnapshotValid(r, e)
         /\ "cause" \in Complaints(r) =>
              \E e \in Range(events) : e.subject = r /\ ~CauseValid(e)
         /\ "events" \in Complaints(r) => {e \in Range(events) : e.subject = r} = {}
         /\ "outside" \in Complaints(r) =>
              \E e \in Range(events) : e.subject = r /\ e.history # history[r]
         /\ "predecessor" \in Complaints(r) =>
              fields[r].lineage # None /\ history[fields[r].lineage] # history[r]
         /\ "revision" \in Complaints(r) =>
              /\ fields[r].lineage # None
              /\ ~\E e \in Range(events) : /\ e.subject = r /\ e.action = "revision_created"
                                           /\ e.predecessor = fields[r].lineage
         /\ "projection" \in Complaints(r) <=> Projected(r) \notin {None, state[r]}
         /\ "edited" \in Complaints(r) => EditedInPlace(r)
         /\ Complaints(r) \subseteq {"sequences", "actor", "snapshot", "cause", "events", "outside",
                                     "predecessor", "revision", "projection", "edited"}
BY DEF Complaints

LEMMA PublicationsExplained ==
  ASSUME MigrationInv, TableInv, phase = "repaired"
  PROVE  /\ \A r \in Range(created) :
              Complaints(r) \cap {"cause", "outside", "predecessor"} = {}
         /\ \A e \in Range(events) : e.action = "published" =>
              /\ events[e.cause].subject = e.subject
              /\ events[e.cause].sequence < e.sequence
<1>1. phase # "legacy"
  OBVIOUS
<1>2. /\ CausesFirst(events) /\ Sound(events, history)
      /\ \A i \in DOMAIN events : events[i].action = "published" => events[i].cause # 0
  BY <1>1, Zenon DEF TableInv
<1>3. \A i \in DOMAIN events : events[i].history = history[events[i].subject]
  BY <1>2, Zenon DEF Sound
<1>4. ASSUME NEW e \in Range(events), e.action = "published"
      PROVE  /\ e.cause # 0 /\ e.cause \in DOMAIN events
             /\ events[e.cause].action = "approved"
             /\ events[e.cause].subject = e.subject
             /\ events[e.cause].sequence < e.sequence
  <2>1. PICK i \in DOMAIN events : e = events[i]
    BY Zenon DEF Range
  <2>2. CausedBy(events, i) /\ e.cause # 0
    BY <1>2, <1>4, <2>1, Zenon DEF CausesFirst
  <2> QED BY <2>1, <2>2 DEF CausedBy
<1>5. ASSUME NEW e \in Range(events) PROVE e.history = history[e.subject]
  BY <1>3, Zenon DEF Range
<1>6. ASSUME NEW e \in Range(events) PROVE CauseValid(e)
  <2>1. CASE e.action = "published"
    <3>1. /\ e.cause # 0 /\ events[e.cause].action = "approved"
          /\ events[e.cause].history = history[events[e.cause].subject]
          /\ events[e.cause].subject = e.subject
      BY <1>3, <1>4, <2>1, Zenon
    <3> QED BY <1>5, <3>1 DEF CauseValid
  <2>2. CASE e.action # "published"
    BY <2>2 DEF CauseValid
  <2> QED BY <2>1, <2>2
<1>7. ASSUME NEW r \in Range(created)
      PROVE  Complaints(r) \cap {"cause", "outside", "predecessor"} = {}
  <2>1. "cause" \notin Complaints(r)
    <3>1. "cause" \in Complaints(r) => \E e \in Range(events) : e.subject = r /\ ~CauseValid(e)
      BY ComplaintsMean
    <3> QED BY <1>6, <3>1, Zenon
  <2>2. "outside" \notin Complaints(r)
    <3>1. "outside" \in Complaints(r) =>
            \E e \in Range(events) : e.subject = r /\ e.history # history[r]
      BY ComplaintsMean
    <3> QED BY <1>5, <3>1, Zenon
  <2>3. "predecessor" \notin Complaints(r)
    BY <1>1, ComplaintsMean, PredecessorShares, Zenon
  <2> QED BY <2>1, <2>2, <2>3
<1> QED BY <1>4, <1>7

\* The numbers of a history, each following another one or the first of all,
\* leave none out.
LEMMA SequencesContinue ==
  ASSUME Sound(events, history), Chained(events), NEW h
  PROVE  Continuous(h)
<1> DEFINE own == {i \in DOMAIN events : events[i].history = h}
           number == [i \in own |-> events[i].sequence]
           S == {events[i].sequence : i \in own}
<1>1. /\ events \in Seq(Row) /\ own \subseteq DOMAIN events
      /\ IsFiniteSet(own)
  <2>1. events \in Seq(Row)
    BY Zenon DEF Sound
  <2>2. DOMAIN events = 1..Len(events) /\ Len(events) \in Nat
    BY <2>1
  <2>3. IsFiniteSet(DOMAIN events)
    BY <2>2, FirstNumbers
  <2>4. own \in SUBSET DOMAIN events
    OBVIOUS
  <2> HIDE DEF own
  <2> QED BY <2>1, <2>3, <2>4, FS_Subset
<1>2. \A i \in own : events[i].sequence \in Nat
  <2>1. \A e \in Row : e.sequence \in Nat
    BY Zenon DEF Row
  <2> QED BY <1>1, <2>1
<1>3. ASSUME NEW i \in own, NEW j \in own, number[i] = number[j] PROVE i = j
  <2>1. /\ i \in DOMAIN events /\ j \in DOMAIN events
        /\ events[i].history = events[j].history
        /\ events[i].sequence = events[j].sequence
    BY <1>3
  <2> QED BY <2>1, Zenon DEF Sound
<1>4. ASSUME NEW i \in own
      PROVE  /\ events[i].sequence > 0
             /\ events[i].sequence # 1 => events[i].sequence - 1 \in S
  <2>1. i \in DOMAIN events /\ events[i].history = h
    OBVIOUS
  <2>2. ChainedAt(events, i)
    BY <2>1, Zenon DEF Chained
  <2>3. events[i].sequence > 0
    BY <2>2, Zenon DEF ChainedAt
  <2>4. ASSUME events[i].sequence # 1 PROVE events[i].sequence - 1 \in S
    <3>1. PICK j \in DOMAIN events : /\ events[j].history = events[i].history
                                     /\ events[j].sequence = events[i].sequence - 1
      BY <2>2, <2>4, Zenon DEF ChainedAt
    <3>2. j \in own
      BY <2>1, <3>1
    <3> HIDE DEF own
    <3> QED BY <3>1, <3>2
  <2> QED BY <2>3, <2>4
<1>5. S \in SUBSET Nat /\ \A n \in S : n > 0 /\ (n # 1 => n - 1 \in S)
  <2> HIDE DEF own
  <2>1. ASSUME NEW n \in S PROVE n \in Nat /\ n > 0 /\ (n # 1 => n - 1 \in S)
    <3>1. PICK i \in own : n = events[i].sequence
      OBVIOUS
    <3> HIDE DEF S
    <3> QED BY <1>2, <1>4, <3>1
  <2> HIDE DEF S
  <2> QED BY <2>1
<1>6. number \in Bijection(own, S)
  <2> HIDE DEF own
  <2>1. number \in [own -> S] /\ \A n \in S : \E i \in own : number[i] = n
    OBVIOUS
  <2> HIDE DEF number, S
  <2>2. number \in Injection(own, S)
    BY <1>3, <2>1, Zenon DEF Injection, IsInjective
  <2>3. number \in Surjection(own, S)
    BY <2>1, Zenon DEF Surjection
  <2> QED BY <2>2, <2>3 DEF Bijection
<1> HIDE DEF own, number, S
<1>7. IsFiniteSet(S) /\ Cardinality(S) = Cardinality(own)
  BY <1>1, <1>6, FS_Bijection, Zenon DEF ExistsBijection
<1>8. S = 1..Cardinality(own)
  <2>1. CASE S = {}
    <3>1. Cardinality(own) = 0
      BY <1>7, <2>1, FS_EmptySet
    <3> QED BY <2>1, <3>1
  <2>2. CASE S # {}
    <3> DEFINE top == Max(S)
    <3>1. top \in S /\ \A n \in S : n <= top
      BY <1>5, <1>7, <2>2, MaxIn, Zenon
    <3> HIDE DEF top
    <3>2. /\ top \in Nat /\ top >= 1
          /\ \A n \in S : n \in Nat /\ n > 0
      BY <1>5, <3>1
    <3>3. ASSUME NEW k \in 1..top PROVE k \in S
      <4> DEFINE above == {n \in S : n >= k}
      <4>1. above \in SUBSET Nat /\ above # {}
        <5>1. top \in above
          BY <3>1, <3>2
        <5>2. \A n \in above : n \in Nat
          BY <3>2
        <5> HIDE DEF above
        <5> QED BY <5>1, <5>2
      <4>2. PICK n \in above : \A l \in above : n <= l
        <5> HIDE DEF above
        <5> QED BY <4>1, LeastMember
      <4>3. n = k
        <5> SUFFICES ASSUME n # k PROVE FALSE
          OBVIOUS
        <5>1. n \in S /\ n \in Nat /\ n > k /\ n # 1
          BY <3>2
        <5>2. n - 1 \in above
          BY <1>5, <5>1
        <5> QED BY <4>2, <5>1, <5>2
      <4> QED BY <4>3
    <3>4. S = 1..top
      <4>1. \A n \in S : n \in 1..top
        BY <3>1, <3>2
      <4> QED BY <3>3, <4>1
    <3>5. Cardinality(S) = top
      <4>1. Cardinality(1..top) = top
        BY <3>2, FirstNumbers
      <4> QED BY <3>4, <4>1, Zenon
    <3> QED BY <1>7, <3>4, <3>5
  <2> QED BY <2>1, <2>2
<1> QED BY <1>8, Zenon DEF Continuous, own, S

LEMMA EventsRead ==
  ASSUME TableInv, ContentInv, phase = "repaired", NEW e \in Range(events)
  PROVE  ActorValid(e) /\ SnapshotValid(e.subject, e)
<1>1. phase # "legacy"
  OBVIOUS
<1>2. PICK i \in DOMAIN events : e = events[i]
  BY Zenon DEF Range
<1>3. /\ Reads(e)
      /\ e.action \in Entered \cup {"edited"} /\ e.snapshot = None => e.unavailable
  BY <1>1, <1>2, Zenon DEF ContentInv, Readable, SnapshotsTold
<1> QED BY <1>3, Zenon DEF Reads, SnapshotValid

LEMMA StoryTold ==
  ASSUME MigrationInv, TableInv, ContentInv, phase = "repaired", NEW r \in Range(created)
  PROVE  /\ {e \in Range(events) : e.subject = r} # {}
         /\ fields[r].lineage # None =>
              \E e \in Range(events) : /\ e.subject = r /\ e.action = "revision_created"
                                       /\ e.predecessor = fields[r].lineage
         /\ ~EditedInPlace(r)
         /\ WithdrawnUnannounced(r) <=> Unannounced(events, r)
         /\ Projected(r) = Outcome(events, r)
         /\ Unannounced(events, r) => state[r] = "withdrawn"
<1>1. phase # "legacy"
  OBVIOUS
<1>2. /\ Sound(events, history) /\ \A q \in Range(created) : history[q] \in Nat
      /\ Readable(events) /\ Finished(events, r)
  BY <1>1, Zenon DEF TableInv, ContentInv
<1>3. \A i \in Own(events, r) :
        i \in DOMAIN events /\ events[i].subject = r /\ events[i] \in Range(events)
  BY Zenon DEF Own, Range
<1>4. \A e \in Range(events) : e.subject = r => \E i \in Own(events, r) : e = events[i]
  BY Zenon DEF Own, Range
<1>5. Complete(r, Have(events, r))
  BY <1>2, Zenon DEF Finished
<1>6. {e \in Range(events) : e.subject = r} # {}
  <2>1. Have(events, r) # {}
    BY <1>5, Zenon DEF Complete
  <2>2. PICK i \in Own(events, r) : TRUE
    BY <2>1, Zenon DEF Have
  <2> QED BY <1>3, <2>2, Zenon
<1>7. ASSUME fields[r].lineage # None
      PROVE  \E e \in Range(events) : /\ e.subject = r /\ e.action = "revision_created"
                                      /\ e.predecessor = fields[r].lineage
  <2>1. "revision_created" \in Have(events, r)
    BY <1>5, <1>7, Zenon DEF Complete
  <2>2. PICK i \in Own(events, r) : events[i].action = "revision_created"
    BY <2>1, Zenon DEF Have
  <2>3. events[i].predecessor = fields[events[i].subject].lineage
    BY <1>2, <1>3, <2>2, Zenon DEF Readable, Reads
  <2>4. events[i].predecessor = fields[r].lineage
    BY <1>3, <2>3, Zenon
  <2> QED BY <1>3, <2>2, <2>4, Zenon
<1>8. Streamed(Stream(r), r)
  BY <1>2, StreamOrdered, Zenon
<1>9. \A i \in DOMAIN events : events[i].action # "restored" /\ events[i].sequence \in Nat
  <2>1. \A e \in Row : e.sequence \in Nat /\ e.action \in {"submitted", "resubmitted", "edited",
          "approved", "published", "withdrawn", "revision_created"}
    BY Zenon DEF Row
  <2>2. ASSUME NEW i \in DOMAIN events PROVE events[i] \in Row
    BY <1>2 DEF Sound
  <2>3. ASSUME NEW i \in DOMAIN events
        PROVE  events[i].action # "restored" /\ events[i].sequence \in Nat
    BY <2>1, <2>2
  <2> QED BY <2>3
<1>10. ~EditedInPlace(r)
  <2> SUFFICES ASSUME NEW m \in 1..Len(Stream(r)), NEW n \in 1..Len(Stream(r)), m < n,
                      Stream(r)[m].action = "published", Stream(r)[n].action = "edited"
               PROVE  FALSE
    BY Zenon DEF EditedInPlace
  <2> DEFINE e == Stream(r)[m]
             f == Stream(r)[n]
  <2>1. e.sequence < f.sequence
    BY <1>8, Zenon DEF Streamed
  <2>2. PICK i \in Own(events, r) : e = events[i]
    BY <1>8, Zenon DEF Streamed
  <2>3. PICK j \in Own(events, r) : f = events[j]
    BY <1>8, Zenon DEF Streamed
  <2>4. e.action = "published" /\ f.action = "edited"
    OBVIOUS
  <2> HIDE DEF e, f
  <2>5. events[j].sequence < events[i].sequence
    BY <1>2, <2>2, <2>3, <2>4, Zenon DEF Finished, EditedFirst
  <2>6. events[i].sequence \in Nat /\ events[j].sequence \in Nat
    BY <1>3, <1>9, Zenon
  <2> QED BY <2>1, <2>2, <2>3, <2>5, <2>6
<1>11. WithdrawnUnannounced(r) <=> Unannounced(events, r)
  <2>1. (\E e \in Range(events) : /\ e.subject = r /\ e.action = "withdrawn"
                                  /\ e.actor.type = "account")
          <=> \E i \in Own(events, r) : /\ events[i].action = "withdrawn"
                                        /\ events[i].actor.type = "account"
    BY <1>3, <1>4, Zenon
  <2>2. (\E e \in Range(events) : /\ e.subject = r /\ e.action = "published"
                                  /\ e.actor = System("migration_backfill"))
          <=> \E i \in Own(events, r) : /\ events[i].action = "published"
                                        /\ events[i].actor = System("migration_backfill")
    BY <1>3, <1>4, Zenon
  <2> QED BY <2>1, <2>2, Zenon DEF WithdrawnUnannounced, Unannounced
<1>12. Projected(r) = Outcome(events, r)
  <2>1. PICK i \in Own(events, r) : /\ LastShown(events, r, i)
                                    /\ Shown(events[i]) = Outcome(events, r)
    BY <1>2, Zenon DEF Finished, Concluded
  <2>2. Projected(r) = Shown(events[i])
    BY <1>8, <1>9, <2>1, ProjectedShown, Zenon
  <2> QED BY <2>1, <2>2, Zenon
<1>13. Unannounced(events, r) => state[r] = "withdrawn"
  BY <1>2, Zenon DEF Finished
<1> QED BY <1>6, <1>7, <1>10, <1>11, <1>12, <1>13, Zenon

(* Once both migrations ran, validate_histories finds every history of any  *)
(* registry sound, whatever the old release left unrecorded, but for the    *)
(* replay of the records whose recorded withdrawal 0006 could only put      *)
(* behind the publication it inferred; and each publication comes after the *)
(* approval it names, of the same record, which the command does not check. *)
THEOREM MigrationsValidate == MigrationSpec => []MigratedValidates
<1>1. MigrationInv /\ TableInv /\ ContentInv => MigratedValidates
  <2> SUFFICES ASSUME MigrationInv, TableInv, ContentInv, phase = "repaired"
               PROVE  /\ \A r \in Range(created) :
                           Complaints(r) = IF WithdrawnUnannounced(r) THEN {"projection"} ELSE {}
                      /\ \A e \in Range(events) : e.action = "published" =>
                           /\ events[e.cause].subject = e.subject
                           /\ events[e.cause].sequence < e.sequence
    BY Zenon DEF MigratedValidates
  <2>1. phase # "legacy"
    OBVIOUS
  <2>2. Sound(events, history) /\ Chained(events)
    BY <2>1, Zenon DEF TableInv, ContentInv
  <2>3. ASSUME NEW r \in Range(created)
        PROVE  Complaints(r) = IF WithdrawnUnannounced(r) THEN {"projection"} ELSE {}
    <3>1. "sequences" \notin Complaints(r)
      BY <2>2, ComplaintsMean, SequencesContinue
    <3>2. "actor" \notin Complaints(r) /\ "snapshot" \notin Complaints(r)
      <4>1. \A e \in Range(events) : ActorValid(e) /\ SnapshotValid(e.subject, e)
        BY EventsRead, Zenon
      <4>2. "actor" \in Complaints(r) =>
              \E e \in Range(events) : e.subject = r /\ ~ActorValid(e)
        BY ComplaintsMean
      <4>3. "snapshot" \in Complaints(r) =>
              \E e \in Range(events) : e.subject = r /\ ~SnapshotValid(r, e)
        BY ComplaintsMean
      <4> QED BY <4>1, <4>2, <4>3, Zenon
    <3>3. /\ "cause" \notin Complaints(r) /\ "outside" \notin Complaints(r)
          /\ "predecessor" \notin Complaints(r)
      BY PublicationsExplained
    <3>4. "events" \notin Complaints(r) /\ "revision" \notin Complaints(r)
      <4>1. "events" \in Complaints(r) => {e \in Range(events) : e.subject = r} = {}
        BY ComplaintsMean
      <4>2. "revision" \in Complaints(r) =>
              /\ fields[r].lineage # None
              /\ ~\E e \in Range(events) : /\ e.subject = r /\ e.action = "revision_created"
                                           /\ e.predecessor = fields[r].lineage
        BY ComplaintsMean
      <4> QED BY <4>1, <4>2, StoryTold, Zenon
    <3>5. "edited" \notin Complaints(r)
      BY StoryTold, ComplaintsMean
    <3>6. "projection" \in Complaints(r) <=> WithdrawnUnannounced(r)
      <4>1. "projection" \in Complaints(r) <=> Projected(r) \notin {None, state[r]}
        BY ComplaintsMean
      <4>2. /\ WithdrawnUnannounced(r) <=> Unannounced(events, r)
            /\ Projected(r) = Outcome(events, r)
            /\ Unannounced(events, r) => state[r] = "withdrawn"
        BY StoryTold, Zenon
      <4>3. CASE Unannounced(events, r)
        <5>1. Projected(r) = "published" /\ state[r] = "withdrawn"
          BY <4>2, <4>3, Zenon DEF Outcome
        <5> QED BY <4>1, <4>2, <4>3, <5>1, NullStates
      <4>4. CASE ~Unannounced(events, r)
        <5>1. Projected(r) = state[r]
          BY <4>2, <4>4, Zenon DEF Outcome
        <5> QED BY <4>1, <4>2, <4>4, <5>1
      <4> QED BY <4>3, <4>4
    <3>7. Complaints(r) \subseteq {"sequences", "actor", "snapshot", "cause", "events", "outside",
                                   "predecessor", "revision", "projection", "edited"}
      BY ComplaintsMean
    <3> HIDE DEF Complaints
    <3> QED BY <3>1, <3>2, <3>3, <3>4, <3>5, <3>6, <3>7
  <2> QED BY <2>3, PublicationsExplained, Zenon
<1> QED BY <1>1, StoryKept, PTL
=============================================================================
