------------------------------ MODULE Backup_proofs ------------------------------
(***************************************************************************)
(* Safety of the backup path, for every value of the constants: the        *)
(* retention of a service, the search of a cron expression's next due      *)
(* time, and one upload.                                                   *)
(*                                                                         *)
(* What the recursive functions compute - the loops of EvaluateRetention,  *)
(* the days before a month, the search of Next - is proved from a closed   *)
(* form: it satisfies the recursion, and of the places where another       *)
(* solution differs from it there would be a least one.                    *)
(***************************************************************************)
EXTENDS MultipartUpload, Retention, CronExpr, FiniteSetTheorems, WellFoundedInduction, TLAPS

\* Any number of a set can be counted from below.
LEMMA Least ==
    ASSUME NEW T \in SUBSET Nat, T # {}
    PROVE  \E n \in T : \A m \in T : n <= m
<1>1. \E n \in T : \A m \in T : <<m, n>> \notin OpToRel(<, Nat)
    BY WFMin, NatLessThanWellFounded, ZenonT(30)
<1>2. PICK n \in T : \A m \in T : <<m, n>> \notin OpToRel(<, Nat)
    BY <1>1
<1>3. ASSUME NEW m \in T PROVE n <= m
    <2>1. <<m, n>> \in Nat \X Nat /\ ~(<<m, n>>[1] < <<m, n>>[2])
        BY <1>2, ZenonT(30) DEF OpToRel
    <2> QED
        BY <2>1
<1> QED
    BY <1>3
--------------------------------------------------------------------------------
(***************************************************************************)
(* Retention.  EvaluateRetention comes down to the promise of the rules,   *)
(* cut to the newest backups; the invariant is that what is promised of    *)
(* all the backups ever taken is still there.                              *)
(***************************************************************************)
\* The items that are newer than b.
Newer(items, b) == {c \in items : c > b}

\* The items, newest first: each of them, once.
LEMMA RankIs ==
    ASSUME NEW items \in SUBSET Nat, IsFiniteSet(items)
    PROVE  /\ Cardinality(items) \in Nat
           /\ \A b \in items : /\ IsFiniteSet(Newer(items, b))
                               /\ Cardinality(Newer(items, b)) \in 0..(Cardinality(items) - 1)
           /\ \A b, c \in items : b > c =>
                 Cardinality(Newer(items, b)) < Cardinality(Newer(items, c))
<1>1. Cardinality(items) \in Nat
    BY FS_CardinalityType
<1>2. ASSUME NEW b \in items, NEW S \in SUBSET items, b \in S, Newer(items, b) \subseteq S
      PROVE  /\ IsFiniteSet(Newer(items, b)) /\ Cardinality(Newer(items, b)) \in Nat
             /\ IsFiniteSet(S) /\ Cardinality(S) \in Nat
             /\ Cardinality(Newer(items, b)) < Cardinality(S)
    <2>1. IsFiniteSet(S) /\ IsFiniteSet(Newer(items, b))
        BY FS_Subset DEF Newer
    <2>2. Cardinality(S) \in Nat /\ Cardinality(Newer(items, b)) \in Nat
        BY <2>1, FS_CardinalityType
    <2>3. b \notin Newer(items, b)
        BY DEF Newer
    <2>4. Newer(items, b) \in SUBSET S /\ Newer(items, b) # S
        BY <1>2, <2>3
    <2>5. /\ Cardinality(Newer(items, b)) <= Cardinality(S)
          /\ Cardinality(S) # Cardinality(Newer(items, b))
        BY <2>1, <2>4, FS_Subset
    <2> QED
        BY <2>1, <2>2, <2>5
<1>3. ASSUME NEW b \in items
      PROVE  /\ IsFiniteSet(Newer(items, b))
             /\ Cardinality(Newer(items, b)) \in 0..(Cardinality(items) - 1)
    <2>1. items \in SUBSET items /\ Newer(items, b) \subseteq items
        BY DEF Newer
    <2>2. /\ IsFiniteSet(Newer(items, b)) /\ Cardinality(Newer(items, b)) \in Nat
          /\ Cardinality(Newer(items, b)) < Cardinality(items)
        BY <1>2, <2>1
    <2> QED
        BY <1>1, <2>2
<1>4. ASSUME NEW b \in items, NEW c \in items, b > c
      PROVE  Cardinality(Newer(items, b)) < Cardinality(Newer(items, c))
    <2>1. /\ b \in Newer(items, c) /\ Newer(items, b) \subseteq Newer(items, c)
          /\ Newer(items, c) \in SUBSET items
        <3>1. b \in Nat /\ c \in Nat /\ \A x \in items : x \in Nat
            OBVIOUS
        <3>2. \A x \in items : x > b => x > c
            BY <1>4, <3>1
        <3> QED
            BY <1>4, <3>2 DEF Newer
    <2> QED
        BY <1>2, <2>1
<1> QED
    BY <1>1, <1>3, <1>4

LEMMA NewestFirstIs ==
    ASSUME NEW items \in SUBSET Nat, IsFiniteSet(items)
    PROVE  /\ Len(NewestFirst(items)) = Cardinality(items) /\ Cardinality(items) \in Nat
           /\ \A i \in 1..Cardinality(items) : NewestFirst(items)[i] \in items
           /\ \A i, j \in 1..Cardinality(items) : i < j => NewestFirst(items)[i] > NewestFirst(items)[j]
           /\ \A b \in items : \E i \in 1..Cardinality(items) : NewestFirst(items)[i] = b
<1> DEFINE n == Cardinality(items)
           rank == [b \in items |-> Cardinality(Newer(items, b))]
           list == NewestFirst(items)
<1>1. n \in Nat /\ \A b \in items : rank[b] \in 0..(n - 1)
    BY RankIs
<1>2. \A b, c \in items : b > c => rank[b] < rank[c]
    BY RankIs
<1>3. rank \in Surjection(items, 0..(n - 1))
    <2>1. rank \in [items -> 0..(n - 1)]
        BY <1>1
    <2>2. \A b, c \in items : rank[b] = rank[c] => b = c
        <3>1. \A b, c \in items : b = c \/ b > c \/ c > b
            OBVIOUS
        <3> QED
            BY <1>1, <1>2, <3>1
    <2>3. rank \in Injection(items, 0..(n - 1))
        BY <2>1, <2>2 DEF Injection, IsInjective
    <2>4. IsFiniteSet(0..(n - 1)) /\ Cardinality(0..(n - 1)) = n
        <3>1. 0 \in Int /\ n - 1 \in Int
            BY <1>1
        <3>2. /\ IsFiniteSet(0..(n - 1))
              /\ Cardinality(0..(n - 1)) = IF 0 > n - 1 THEN 0 ELSE (n - 1) - 0 + 1
            BY <3>1, FS_Interval
        <3> QED
            BY <1>1, <3>2
    <2> QED
        BY <2>3, <2>4, FS_Injection
<1>4. list = [i \in 1..n |-> CHOOSE b \in items : rank[b] = i - 1]
    BY DEF NewestFirst, Newer
<1> HIDE DEF rank
<1>5. \A i \in 1..n : list[i] \in items /\ rank[list[i]] = i - 1
    <2>1. \A i \in 1..n : i - 1 \in 0..(n - 1)
        BY <1>1
    <2>2. \A k \in 0..(n - 1) : \E b \in items : rank[b] = k
        BY <1>3 DEF Surjection
    <2> QED
        BY <1>4, <2>1, <2>2
<1>6. Len(list) = n
    BY <1>1, <1>4
<1>7. ASSUME NEW i \in 1..n, NEW j \in 1..n, i < j PROVE list[i] > list[j]
    <2>1. PICK x \in items, y \in items : x = list[i] /\ y = list[j]
        BY <1>5
    <2>2. rank[x] = i - 1 /\ rank[y] = j - 1
        BY <1>5, <2>1
    <2>3. rank[x] < rank[y] /\ ~(rank[y] < rank[x])
        BY <1>1, <1>7, <2>2
    <2>4. ~(y > x) /\ x # y
        BY <1>1, <1>2, <2>3
    <2>5. x \in Nat /\ y \in Nat
        OBVIOUS
    <2> QED
        BY <2>1, <2>4, <2>5
<1>8. ASSUME NEW b \in items PROVE \E i \in 1..n : list[i] = b
    <2>1. PICK i \in 1..n : i = rank[b] + 1
        BY <1>1
    <2>2. PICK x \in items : x = list[i] /\ rank[x] = rank[b]
        <3>1. rank[b] \in Int /\ list[i] \in items /\ rank[list[i]] = i - 1
            BY <1>1, <1>5
        <3>2. rank[list[i]] = (rank[b] + 1) - 1
            BY <2>1, <3>1
        <3>3. rank[list[i]] = rank[b]
            BY <3>1, <3>2
        <3> QED
            BY <3>1, <3>3
    <2>3. ~(x > b) /\ ~(b > x)
        BY <1>1, <1>2, <2>2
    <2>4. x \in Nat /\ b \in Nat
        OBVIOUS
    <2> QED
        BY <2>2, <2>3, <2>4
<1> QED
    BY <1>1, <1>5, <1>6, <1>7, <1>8

\* A pass of a loop over the items.
Pass(rule, unit, now, before, item) ==
    IF item >= Cutoff(rule, unit, now) /\ Bucket(item, unit) \notin before.buckets
    THEN [buckets |-> before.buckets \cup {Bucket(item, unit)},
          retained |-> before.retained \cup {item}]
    ELSE before

\* Of the first n of a list, those that come first in their bucket.
Firsts(rule, unit, list, n, now) ==
    {list[i] : i \in {j \in 1..n : /\ list[j] >= Cutoff(rule, unit, now)
                                  /\ \A k \in 1..(j - 1) : Bucket(list[k], unit) # Bucket(list[j], unit)}}

\* One of the loops keeps of each bucket the item that comes first.
LEMMA LoopIs ==
    ASSUME NEW rule, NEW unit, NEW now, NEW n \in Nat, NEW list, Len(list) = n,
           Cutoff(rule, unit, now) \in Int,
           \A i \in 1..n : list[i] \in Nat,
           \A i, j \in 1..n : i < j => list[i] > list[j]
    PROVE  KeepByUnit(rule, unit, list, now) = Firsts(rule, unit, list, n, now)
<1> DEFINE B(i) == Bucket(list[i], unit)
           In(i) == list[i] >= Cutoff(rule, unit, now)
           First(j) == In(j) /\ \A k \in 1..(j - 1) : B(k) # B(j)
           g == [i \in 0..n |-> [buckets  |-> {B(j) : j \in {k \in 1..i : In(k)}},
                                 retained |-> {list[j] : j \in {k \in 1..i : First(k)}}]]
           none == [buckets |-> {}, retained |-> {}]
<1>1. g[0] = none
    BY DEF g, none
<1>2. ASSUME NEW i \in 1..n PROVE i - 1 \in 0..n /\ g[i] = Pass(rule, unit, now, g[i - 1], list[i])
    <2>1. i - 1 \in 0..n /\ i \in 0..n /\ i \notin 1..(i - 1) /\ \A k : k \in 1..i <=> k \in 1..(i - 1) \/ k = i
        OBVIOUS
    <2>2. /\ {k \in 1..i : In(k)} = {k \in 1..(i - 1) : In(k)} \cup (IF In(i) THEN {i} ELSE {})
          /\ {k \in 1..i : First(k)} = {k \in 1..(i - 1) : First(k)} \cup (IF First(i) THEN {i} ELSE {})
        BY <2>1
    <2>3. /\ g[i].buckets = g[i - 1].buckets \cup (IF In(i) THEN {B(i)} ELSE {})
          /\ g[i].retained = g[i - 1].retained \cup (IF First(i) THEN {list[i]} ELSE {})
        BY <2>1, <2>2
    <2>4. In(i) => \A k \in 1..(i - 1) : In(k)
        BY <2>1
    <2>5. In(i) => (First(i) <=> B(i) \notin g[i - 1].buckets)
        BY <2>1, <2>4
    <2>6. g[i] = [buckets |-> g[i].buckets, retained |-> g[i].retained]
          /\ g[i - 1] = [buckets |-> g[i - 1].buckets, retained |-> g[i - 1].retained]
        BY <2>1
    <2> HIDE DEF g
    <2>7. CASE In(i) /\ B(i) \notin g[i - 1].buckets
        BY <2>1, <2>3, <2>5, <2>6, <2>7 DEF Pass
    <2>8. CASE ~(In(i) /\ B(i) \notin g[i - 1].buckets)
        BY <2>1, <2>3, <2>5, <2>6, <2>8 DEF Pass
    <2> QED
        BY <2>7, <2>8
<1> HIDE DEF g
<1>3. g = [i \in 0..n |-> IF i = 0 THEN none ELSE Pass(rule, unit, now, g[i - 1], list[i])]
    <2>1. g = [i \in 0..n |-> g[i]]
        BY DEF g
    <2>2. \A i \in 0..n : g[i] = IF i = 0 THEN none ELSE Pass(rule, unit, now, g[i - 1], list[i])
        BY <1>1, <1>2
    <2> QED
        BY <2>1, <2>2
<1>4. PICK s : s = CHOOSE f : f = [i \in 0..n |-> IF i = 0 THEN none
                                               ELSE Pass(rule, unit, now, f[i - 1], list[i])]
    OBVIOUS
<1>5. s = [i \in 0..n |-> IF i = 0 THEN none ELSE Pass(rule, unit, now, s[i - 1], list[i])]
    BY <1>3, <1>4
<1>6. KeepByUnit(rule, unit, list, now) = s[n].retained
    BY <1>4 DEF KeepByUnit, Pass
<1>7. \A i \in 0..n : s[i] = g[i]
    <2> SUFFICES ASSUME {i \in 0..n : s[i] # g[i]} # {} PROVE FALSE
        OBVIOUS
    <2>1. PICK m \in {i \in 0..n : s[i] # g[i]} : \A i \in {i \in 0..n : s[i] # g[i]} : m <= i
        <3>1. {i \in 0..n : s[i] # g[i]} \in SUBSET Nat
            OBVIOUS
        <3> QED
            BY <3>1, Least
    <2>2. m # 0
        BY <1>1, <1>5, <2>1
    <2>3. m - 1 \in 0..n /\ ~(m <= m - 1)
        BY <2>1, <2>2
    <2>4. s[m - 1] = g[m - 1]
        BY <2>1, <2>3
    <2>5. s[m] = g[m]
        <3>1. m \in 1..n /\ m \in 0..n
            BY <2>1, <2>2
        <3>2. g[m] = Pass(rule, unit, now, g[m - 1], list[m])
            BY <1>2, <3>1
        <3>3. s[m] = Pass(rule, unit, now, s[m - 1], list[m])
            BY <1>5, <2>2, <3>1
        <3> QED
            BY <2>4, <3>2, <3>3
    <2> QED
        BY <2>1, <2>5
<1>8. n \in 0..n
    OBVIOUS
<1>9. g[n].retained = {list[j] : j \in {k \in 1..n : First(k)}}
    BY <1>8 DEF g
<1> QED
    BY <1>6, <1>7, <1>8, <1>9 DEF Firsts

\* A loop keeps the newest backup of each of its buckets.
LEMMA KeepsIs ==
    ASSUME NEW objects \in SUBSET Nat, IsFiniteSet(objects), NEW rule, NEW u, NEW now,
           Cutoff(rule, u, now) \in Int
    PROVE  KeepByUnit(rule, u, NewestFirst(objects), now) =
              {b \in objects : /\ b >= Cutoff(rule, u, now)
                               /\ \A c \in objects : Bucket(c, u) = Bucket(b, u) => c <= b}
<1> DEFINE n == Cardinality(objects)
           list == NewestFirst(objects)
           In(b) == b >= Cutoff(rule, u, now)
           B(b) == Bucket(b, u)
<1>1. /\ n \in Nat /\ Len(list) = n
      /\ \A i \in 1..n : list[i] \in objects
      /\ \A i, j \in 1..n : i < j => list[i] > list[j]
      /\ \A b \in objects : \E i \in 1..n : list[i] = b
    BY NewestFirstIs
<1> HIDE DEF n, list
<1>2. \A i \in 1..n : list[i] \in Nat
    BY <1>1
<1>3. KeepByUnit(rule, u, list, now) =
         {list[i] : i \in {j \in 1..n : In(list[j]) /\ \A k \in 1..(j - 1) : B(list[k]) # B(list[j])}}
    <2>1. PICK l : l = list
        OBVIOUS
    <2>2. /\ Len(l) = n /\ \A i \in 1..n : l[i] \in Nat
          /\ \A i, j \in 1..n : i < j => l[i] > l[j]
        BY <1>1, <1>2, <2>1
    <2>3. KeepByUnit(rule, u, l, now) = Firsts(rule, u, l, n, now)
        BY <1>1, <2>2, LoopIs
    <2> QED
        BY <2>1, <2>3 DEF Firsts
<1>4. ASSUME NEW j \in 1..n
      PROVE  (\A k \in 1..(j - 1) : B(list[k]) # B(list[j]))
             <=> (\A c \in objects : B(c) = B(list[j]) => c <= list[j])
    <2>1. ASSUME \A k \in 1..(j - 1) : B(list[k]) # B(list[j]),
                 NEW c \in objects, B(c) = B(list[j])
          PROVE  c <= list[j]
        <3>1. PICK i \in 1..n : list[i] = c
            BY <1>1
        <3>2. i \notin 1..(j - 1)
            BY <2>1, <3>1
        <3>3. i = j \/ j < i
            BY <1>1, <3>2
        <3>4. list[i] \in Nat /\ list[j] \in Nat
            BY <1>2
        <3>5. list[i] = list[j] \/ list[j] > list[i]
            BY <1>1, <3>3
        <3> QED
            BY <3>1, <3>4, <3>5
    <2>2. ASSUME \A c \in objects : B(c) = B(list[j]) => c <= list[j],
                 NEW k \in 1..(j - 1), B(list[k]) = B(list[j])
          PROVE  FALSE
        <3>1. k \in 1..n /\ k < j
            BY <1>1
        <3>2. list[k] \in objects /\ list[k] > list[j] /\ list[k] \in Nat /\ list[j] \in Nat
            BY <1>1, <1>2, <3>1
        <3>3. list[k] <= list[j]
            BY <2>2, <3>2
        <3> QED
            BY <3>2, <3>3
    <2> QED
        BY <2>1, <2>2
<1>5. {list[i] : i \in {j \in 1..n : In(list[j]) /\ \A k \in 1..(j - 1) : B(list[k]) # B(list[j])}}
      = {b \in objects : In(b) /\ \A c \in objects : B(c) = B(b) => c <= b}
    <2> HIDE DEF In, B
    <2>1. ASSUME NEW j \in 1..n, In(list[j]), \A k \in 1..(j - 1) : B(list[k]) # B(list[j])
          PROVE  list[j] \in {b \in objects : In(b) /\ \A c \in objects : B(c) = B(b) => c <= b}
        BY <1>1, <1>4, <2>1
    <2>2. ASSUME NEW b \in objects, In(b), \A c \in objects : B(c) = B(b) => c <= b
          PROVE  \E j \in 1..n : b = list[j] /\ In(list[j]) /\ \A k \in 1..(j - 1) : B(list[k]) # B(list[j])
        <3>1. PICK j \in 1..n : list[j] = b
            BY <1>1
        <3> QED
            BY <1>4, <2>2, <3>1
    <2> QED
        BY <2>1, <2>2
<1> QED
    BY <1>3, <1>5 DEF list

\* A time from the start of the clock on is in a month, and the rules' months before it are known.
LEMMA MonthOfIs ==
    ASSUME NEW rule \in Policies, NEW now \in Nat
    PROVE  /\ MonthOf(now) \in DOMAIN MonthStart /\ MonthOf(now) - rule.monthly \in DOMAIN MonthStart
           /\ MonthStart[MonthOf(now)] \in Int /\ MonthStart[MonthOf(now) - rule.monthly] \in Int
<1> DEFINE n == Len(MonthStart)
           begun(m) == m \in DOMAIN MonthStart /\ MonthStart[m] <= now
           T == {d \in Nat : begun(n - d)}
<1>1. /\ n \in Nat /\ DOMAIN MonthStart = 1..n /\ rule.monthly \in Nat
      /\ \A m \in 1..n : MonthStart[m] \in Int
      /\ rule.monthly + 1 \in 1..n /\ MonthStart[rule.monthly + 1] <= 0
    BY RetentionAssumption DEF Units
<1>2. PICK k \in Nat : k = rule.monthly
    BY <1>1
<1>3. begun(k + 1)
    BY <1>1, <1>2
<1>4. PICK len \in Nat : len = n
    BY <1>1
<1>5. len - (k + 1) \in T
    <2>1. len - (k + 1) \in Nat /\ len - (len - (k + 1)) = k + 1
        BY <1>1, <1>2, <1>4
    <2> QED
        BY <1>3, <1>4, <2>1
<1> HIDE DEF begun
<1>6. T \in SUBSET Nat /\ T # {}
    BY <1>5
<1>7. PICK d \in T : \A e \in T : d <= e
    BY <1>6, Least
<1>8. d \in Nat /\ begun(len - d)
    BY <1>4, <1>7
<1>9. PICK top \in 1..len : top = len - d
    BY <1>1, <1>4, <1>8 DEF begun
<1>10. ASSUME NEW m \in 1..len, begun(m) PROVE m <= top
    <2>1. len - m \in Nat /\ len - (len - m) = m
        OBVIOUS
    <2>2. len - m \in T
        BY <1>4, <1>10, <2>1
    <2>3. d <= len - m
        BY <1>7, <2>2
    <2> QED
        BY <1>8, <1>9, <2>3
<1>11. begun(top)
    BY <1>8, <1>9
<1>12. \A m \in DOMAIN MonthStart : MonthStart[m] <= now => m <= top
    BY <1>1, <1>4, <1>10 DEF begun
<1>13. /\ MonthOf(now) \in DOMAIN MonthStart /\ MonthStart[MonthOf(now)] <= now
       /\ \A m \in DOMAIN MonthStart : MonthStart[m] <= now => m <= MonthOf(now)
    BY <1>11, <1>12 DEF MonthOf, begun
<1>14. PICK here \in 1..len : here = MonthOf(now)
    BY <1>1, <1>4, <1>13
<1>15. k + 1 <= here
    BY <1>2, <1>3, <1>13, <1>14 DEF begun
<1>16. here - k \in 1..len
    BY <1>14, <1>15
<1> QED
    BY <1>1, <1>2, <1>4, <1>14, <1>16

\* The cutoff of a rule is a time, and but for the months it never goes back.
LEMMA CutoffIs ==
    ASSUME NEW rule \in Policies, NEW u \in Units, NEW now \in Nat, NEW later \in Nat, now <= later
    PROVE  /\ Cutoff(rule, u, now) \in Int
           /\ u # "monthly" => Cutoff(rule, u, now) <= Cutoff(rule, u, later)
<1>1. CASE u = "monthly"
    <2>1. PICK begin \in Int : begin = MonthStart[MonthOf(now)]
        BY MonthOfIs
    <2>2. PICK before \in Int : before = MonthStart[MonthOf(now) - rule.monthly]
        BY MonthOfIs
    <2>3. Cutoff(rule, u, now) = before + (now - begin)
        BY <1>1, <2>1, <2>2 DEF Cutoff
    <2> QED
        BY <1>1, <2>3
<1>2. CASE u # "monthly"
    <2>1. rule[u] \in Nat /\ UnitLength[u] \in Nat
        BY <1>2, RetentionAssumption DEF Units
    <2>2. rule[u] * UnitLength[u] \in Int
        BY <2>1
    <2>3. PICK age \in Int : age = rule[u] * UnitLength[u]
        BY <2>2
    <2>4. Cutoff(rule, u, now) = now - age /\ Cutoff(rule, u, later) = later - age
        BY <1>2, <2>3 DEF Cutoff
    <2> QED
        BY <2>4
<1> QED
    BY <1>1, <1>2

\* EvaluateRetention is the promise of the rules, cut to the newest.
LEMMA EvaluateIs ==
    ASSUME NEW objects \in SUBSET Nat, IsFiniteSet(objects), NEW rule \in Policies, NEW now \in Nat
    PROVE  EvaluateRetention(objects, rule, now) =
              IF rule.max > 0 THEN NewestOf(Promised(objects, rule, now), rule.max)
              ELSE Promised(objects, rule, now)
<1> DEFINE Keeps(u) == KeepByUnit(rule, u, NewestFirst(objects), now)
           Holds(u, b) == /\ b >= Cutoff(rule, u, now)
                          /\ \A c \in objects : Bucket(c, u) = Bucket(b, u) => c <= b
           ruled == IF \A u \in Units : rule[u] = 0 THEN objects
                    ELSE UNION {Keeps(u) : u \in {v \in Units : rule[v] > 0}}
<1>1. ASSUME NEW u \in Units PROVE Keeps(u) = {b \in objects : Holds(u, b)}
    <2>1. Cutoff(rule, u, now) \in Int
        BY CutoffIs
    <2> QED
        BY <2>1, KeepsIs
<1> HIDE DEF Keeps, Holds
<1>2. UNION {Keeps(u) : u \in {v \in Units : rule[v] > 0}}
      = {b \in objects : \E u \in Units : rule[u] > 0 /\ Holds(u, b)}
    BY <1>1
<1>3. ruled = Promised(objects, rule, now)
    BY <1>2 DEF Promised, Fresh, NewestOfUnit, Holds
<1> QED
    BY <1>3 DEF EvaluateRetention, Keeps

\* The newest n of a finite set are at most n.
LEMMA NewestOfIs ==
    ASSUME NEW items \in SUBSET Nat, IsFiniteSet(items), NEW n \in Nat
    PROVE  /\ NewestOf(items, n) \in SUBSET items /\ IsFiniteSet(NewestOf(items, n))
           /\ Cardinality(NewestOf(items, n)) <= n
<1> DEFINE S == NewestOf(items, n)
           rank == [b \in S |-> Cardinality(Newer(items, b))]
<1>1. S \in SUBSET items /\ IsFiniteSet(S)
    BY FS_Subset DEF NewestOf
<1>2. \A b \in S : rank[b] \in 0..(n - 1)
    BY <1>1, RankIs DEF NewestOf, Newer
<1>3. \A b, c \in S : b > c => rank[b] < rank[c]
    BY <1>1, RankIs
<1>4. S \in SUBSET Nat
    BY <1>1
<1> HIDE DEF S
<1>5. \A b, c \in S : rank[b] = rank[c] => b = c
    <2>1. \A b, c \in S : b = c \/ b > c \/ c > b
        BY <1>4
    <2> QED
        BY <1>2, <1>3, <2>1
<1>6. rank \in Injection(S, 0..(n - 1))
    BY <1>2, <1>5 DEF Injection, IsInjective
<1>7. IsFiniteSet(0..(n - 1)) /\ Cardinality(0..(n - 1)) = n
    <2>1. 0 \in Int /\ n - 1 \in Int
        OBVIOUS
    <2>2. /\ IsFiniteSet(0..(n - 1))
          /\ Cardinality(0..(n - 1)) = IF 0 > n - 1 THEN 0 ELSE (n - 1) - 0 + 1
        BY <2>1, FS_Interval
    <2> QED
        BY <2>2
<1>8. Cardinality(S) <= n
    BY <1>6, <1>7, FS_Injection
<1> QED
    BY <1>1, <1>8 DEF S

\* What is promised of some of the backups, of which all the promised ones are left.
LEMMA PromisedOfRest ==
    ASSUME NEW objects, NEW rest \in SUBSET objects, NEW rule, NEW now
    PROVE  Promised(objects, rule, now) \cap rest \subseteq Promised(rest, rule, now)
<1> QED
    BY DEF Promised, NewestOfUnit

\* What has been promised ever since is promised now.
LEMMA PromisedNow ==
    ASSUME NEW objects \in SUBSET Nat, NEW rule, NEW now \in Nat, \A b \in objects : b <= now
    PROVE  PromisedSince(objects, rule, now) \in SUBSET Promised(objects, rule, now)
<1>1. ASSUME NEW b \in objects, NEW u, FreshSince(b, rule, u, now) PROVE Fresh(b, rule, u, now)
    <2>1. now \in b..now
        OBVIOUS
    <2> QED
        BY <1>1, <2>1 DEF FreshSince
<1> QED
    BY <1>1 DEF PromisedSince, Promised

\* Evaluating again what was retained retains all of it.
LEMMA EvaluateAgain ==
    ASSUME NEW objects \in SUBSET Nat, IsFiniteSet(objects), NEW rule \in Policies, NEW now \in Nat
    PROVE  LET retained == EvaluateRetention(objects, rule, now) IN
           /\ retained \in SUBSET objects
           /\ rule.max > 0 => Cardinality(retained) <= rule.max
           /\ EvaluateRetention(retained, rule, now) = retained
<1> DEFINE P == Promised(objects, rule, now)
           R == EvaluateRetention(objects, rule, now)
           Q == Promised(R, rule, now)
<1>1. rule.max \in Nat
    BY RetentionAssumption
<1>2. P \in SUBSET objects /\ P \in SUBSET Nat /\ IsFiniteSet(P)
    <2>1. P \in SUBSET objects
        BY DEF Promised
    <2> QED
        BY <2>1, FS_Subset
<1>3. R = IF rule.max > 0 THEN NewestOf(P, rule.max) ELSE P
    BY EvaluateIs
<1>4. /\ R \in SUBSET P /\ IsFiniteSet(R)
      /\ rule.max > 0 => Cardinality(R) <= rule.max
    BY <1>1, <1>2, <1>3, NewestOfIs
<1>5. R \in SUBSET objects /\ R \in SUBSET Nat
    BY <1>2, <1>4
<1>6. Q = R
    <2>1. Q \in SUBSET R
        BY DEF Promised
    <2>2. P \cap R \subseteq Q
        BY <1>5, PromisedOfRest
    <2> QED
        BY <1>4, <2>1, <2>2
<1>7. EvaluateRetention(R, rule, now) = IF rule.max > 0 THEN NewestOf(Q, rule.max) ELSE Q
    BY <1>4, <1>5, EvaluateIs
<1>8. CASE rule.max > 0
    <2> HIDE DEF P, R, Q
    <2>1. ASSUME NEW b \in R PROVE b \in NewestOf(R, rule.max)
        <3>1. b \in P /\ Cardinality({c \in P : c > b}) < rule.max
            BY <1>3, <1>8, <2>1 DEF NewestOf
        <3>2. {c \in R : c > b} \in SUBSET {c \in P : c > b}
            BY <1>4
        <3>3. IsFiniteSet({c \in P : c > b}) /\ IsFiniteSet({c \in R : c > b})
            BY <1>2, <1>4, FS_Subset
        <3>4. /\ Cardinality({c \in P : c > b}) \in Nat /\ Cardinality({c \in R : c > b}) \in Nat
              /\ Cardinality({c \in R : c > b}) <= Cardinality({c \in P : c > b})
            BY <3>2, <3>3, FS_CardinalityType, FS_Subset
        <3>5. Cardinality({c \in R : c > b}) < rule.max
            BY <1>1, <3>1, <3>4
        <3> QED
            BY <2>1, <3>5 DEF NewestOf
    <2>2. NewestOf(R, rule.max) = R
        BY <2>1 DEF NewestOf
    <2>3. EvaluateRetention(R, rule, now) = R
        BY <1>6, <1>7, <1>8, <2>2
    <2> QED
        BY <1>4, <1>5, <1>8, <2>3 DEF R
<1>9. CASE ~(rule.max > 0)
    BY <1>5, <1>6, <1>7, <1>9
<1> QED
    BY <1>8, <1>9

--------------------------------------------------------------------------------
\* Every promised backup is there, or, under a limit, the newest if it is promised.
PromisesKept ==
    /\ policy.max = 0 => PromisedSince(taken, policy, clock) \subseteq kept
    /\ \A b \in PromisedSince(taken, policy, clock) : (\A c \in taken : c <= b) => b \in kept

RetentionInv == RetentionTypeOK /\ PromisesKept

\* What the types say of the two sets of backups.
LEMMA RetentionTyped ==
    ASSUME RetentionTypeOK
    PROVE  /\ clock \in Nat /\ policy \in Policies /\ policy.max \in Nat
           /\ taken \in SUBSET Nat /\ IsFiniteSet(taken)
           /\ kept \in SUBSET taken /\ kept \in SUBSET Nat /\ IsFiniteSet(kept)
<1>1. clock \in Nat /\ policy \in Policies /\ policy.max \in Nat
    BY RetentionAssumption DEF RetentionTypeOK
<1>2. IsFiniteSet(0..clock)
    <2>1. 0 \in Int /\ clock \in Int
        BY <1>1
    <2> QED
        BY <2>1, FS_Interval
<1>3. taken \in SUBSET (0..clock) /\ kept \in SUBSET taken
    BY DEF RetentionTypeOK
<1>4. IsFiniteSet(taken) /\ IsFiniteSet(kept)
    BY <1>2, <1>3, FS_Subset
<1>5. \A x \in 0..clock : x \in Nat
    OBVIOUS
<1> QED
    BY <1>1, <1>3, <1>4, <1>5

\* With time, and with new backups, no older backup comes to be one that always was promised.
LEMMA PromisedShrinks ==
    ASSUME NEW objects, NEW more, objects \subseteq more, NEW rule \in Policies,
           NEW now \in Nat, NEW later \in Nat, now <= later, more \in SUBSET Nat
    PROVE  PromisedSince(more, rule, later) \cap objects \subseteq PromisedSince(objects, rule, now)
<1>1. ASSUME NEW b \in Nat, NEW u \in Units, FreshSince(b, rule, u, later)
      PROVE  FreshSince(b, rule, u, now)
    <2>1. CASE u = "monthly"
        <3>1. \A t \in b..now : t \in b..later
            OBVIOUS
        <3> QED
            BY <1>1, <2>1, <3>1 DEF FreshSince
    <2>2. CASE u # "monthly"
        <3>1. /\ Cutoff(rule, u, now) \in Int /\ Cutoff(rule, u, later) \in Int
              /\ Cutoff(rule, u, now) <= Cutoff(rule, u, later)
            BY <2>2, CutoffIs
        <3> QED
            BY <1>1, <2>2, <3>1 DEF FreshSince, Fresh
    <2> QED
        BY <2>1, <2>2
<1> QED
    BY <1>1 DEF PromisedSince, NewestOfUnit

LEMMA RetentionStarts == RetentionInit => RetentionInv
<1> SUFFICES ASSUME RetentionInit PROVE RetentionInv
    OBVIOUS
<1>1. RetentionTypeOK
    BY RetentionAssumption DEF RetentionInit, RetentionTypeOK, NoBackup
<1>2. taken = {} /\ kept = {}
    BY DEF RetentionInit
<1>3. PromisedSince(taken, policy, clock) \subseteq taken
    BY DEF PromisedSince
<1> QED
    BY <1>1, <1>2, <1>3 DEF RetentionInv, PromisesKept

LEMMA TickKeeps == RetentionInv /\ Tick => RetentionInv'
<1> SUFFICES ASSUME RetentionInv, Tick PROVE RetentionInv'
    OBVIOUS
<1>1. /\ clock \in Nat /\ clock' \in Nat /\ clock <= clock' /\ clock' = clock + 1
      /\ UNCHANGED <<policy, started, prunes, taken, kept>>
    BY RetentionTyped DEF RetentionInv, Tick
<1>2. RetentionTypeOK'
    <2>1. clock' \in 0..LastTick
        BY <1>1, RetentionAssumption DEF Tick
    <2>2. \A x \in 0..clock : x \in 0..clock'
        BY <1>1
    <2>3. started' \in 0..clock' \cup {NoBackup} /\ taken' \subseteq 0..clock'
        BY <1>1, <2>2 DEF RetentionInv, RetentionTypeOK
    <2> QED
        BY <1>1, <2>1, <2>3 DEF RetentionInv, RetentionTypeOK
<1>3. PromisedSince(taken, policy, clock') \subseteq PromisedSince(taken, policy, clock)
    <2>1. policy \in Policies /\ taken \in SUBSET Nat
        BY RetentionTyped DEF RetentionInv
    <2>2. PromisedSince(taken, policy, clock') \subseteq taken
        BY DEF PromisedSince
    <2>3. PromisedSince(taken, policy, clock') \cap taken \subseteq PromisedSince(taken, policy, clock)
        BY <1>1, <2>1, PromisedShrinks
    <2> QED
        BY <2>2, <2>3
<1>4. PromisedSince(taken, policy, clock)' = PromisedSince(taken, policy, clock')
    BY <1>1
<1>5. PromisesKept'
    BY <1>1, <1>3, <1>4 DEF RetentionInv, PromisesKept
<1> QED
    BY <1>2, <1>5 DEF RetentionInv

LEMMA BackupStartsKeeps == RetentionInv /\ BackupStarts => RetentionInv'
<1> SUFFICES ASSUME RetentionInv, BackupStarts PROVE RetentionInv'
    OBVIOUS
<1>1. UNCHANGED <<clock, policy, prunes, taken, kept>> /\ started' = clock
    BY DEF BackupStarts
<1>2. RetentionTypeOK'
    BY <1>1, RetentionTyped DEF RetentionInv, RetentionTypeOK
<1>3. PromisedSince(taken, policy, clock)' = PromisedSince(taken, policy, clock)
    BY <1>1
<1>4. PromisesKept'
    BY <1>1, <1>3 DEF RetentionInv, PromisesKept
<1> QED
    BY <1>2, <1>4 DEF RetentionInv

LEMMA BackupEndsKeeps == RetentionInv /\ BackupEnds => RetentionInv'
<1> SUFFICES ASSUME RetentionInv, BackupEnds PROVE RetentionInv'
    OBVIOUS
<1>1. /\ UNCHANGED <<clock, policy>> /\ started' = NoBackup /\ prunes' \in 0..2
      /\ \/ taken' = taken /\ kept' = kept
         \/ taken' = taken \cup {started} /\ kept' = kept \cup {started}
      /\ started \in 0..clock
    BY DEF BackupEnds, RetentionInv, RetentionTypeOK
<1>2. RetentionTypeOK'
    BY <1>1 DEF RetentionInv, RetentionTypeOK
<1>3. PromisedSince(taken, policy, clock)' = PromisedSince(taken', policy, clock)
    BY <1>1
<1>4. PromisedSince(taken', policy, clock) \subseteq taken'
    BY DEF PromisedSince
<1>5. PromisedSince(taken', policy, clock) \cap taken \subseteq PromisedSince(taken, policy, clock)
    <2>1. taken' \in SUBSET Nat /\ clock \in Nat /\ policy \in Policies
        BY <1>1, RetentionTyped DEF RetentionInv
    <2>2. taken \subseteq taken' /\ clock <= clock
        BY <1>1, <2>1
    <2>3. PICK more : more = taken'
        OBVIOUS
    <2>4. PromisedSince(more, policy, clock) \cap taken \subseteq PromisedSince(taken, policy, clock)
        BY <2>1, <2>2, <2>3, PromisedShrinks
    <2> QED
        BY <2>3, <2>4
<1>6. PromisesKept'
    BY <1>1, <1>3, <1>4, <1>5 DEF RetentionInv, PromisesKept
<1> QED
    BY <1>2, <1>6 DEF RetentionInv

LEMMA PruneKeeps == RetentionInv /\ PruneRetention => RetentionInv'
<1> SUFFICES ASSUME RetentionInv, PruneRetention PROVE RetentionInv'
    OBVIOUS
<1> DEFINE S == PromisedSince(taken, policy, clock)
           P == Promised(taken, policy, clock)
           R == EvaluateRetention(kept, policy, clock)
           Q == Promised(kept, policy, clock)
<1>1. /\ UNCHANGED <<clock, policy, started, taken>> /\ prunes > 0 /\ prunes' = prunes - 1
      /\ kept' \in SUBSET kept /\ R \cap kept \subseteq kept'
    BY DEF PruneRetention
<1>2. RetentionTypeOK'
    <2>1. prunes' \in 0..2
        BY <1>1 DEF RetentionInv, RetentionTypeOK
    <2> QED
        BY <1>1, <2>1 DEF RetentionInv, RetentionTypeOK
<1>3. /\ policy.max \in Nat /\ taken \in SUBSET Nat /\ kept \in SUBSET taken
      /\ R = IF policy.max > 0 THEN NewestOf(Q, policy.max) ELSE Q
    BY RetentionTyped, EvaluateIs DEF RetentionInv
<1>4. P \cap kept \subseteq Q
    BY <1>3, PromisedOfRest
<1>5. Q \subseteq kept
    BY DEF Promised
<1>6. PromisedSince(taken, policy, clock)' = S
    BY <1>1
<1>10. S \in SUBSET P
    <2>1. clock \in Nat /\ taken \in SUBSET (0..clock)
        BY RetentionTyped DEF RetentionInv, RetentionTypeOK
    <2>2. \A x \in taken : x <= clock
        BY <2>1
    <2> QED
        BY <1>3, <2>1, <2>2, PromisedNow
<1> HIDE DEF P, Q, R, S
<1>7. ASSUME policy.max = 0 PROVE S \subseteq kept'
    <2>1. S \subseteq kept /\ R = Q
        BY <1>3, <1>7 DEF RetentionInv, PromisesKept, S
    <2> QED
        BY <1>1, <1>4, <1>10, <2>1
<1>8. ASSUME NEW b \in S, \A c \in taken : c <= b PROVE b \in kept'
    <2>1. b \in kept
        BY <1>8 DEF RetentionInv, PromisesKept, S
    <2>2. b \in Q
        BY <1>4, <1>8, <1>10, <2>1
    <2>3. {c \in Q : c > b} = {}
        <3>1. b \in Nat /\ \A c \in Q : c \in Nat /\ c <= b
            BY <1>3, <1>5, <1>8, <2>1
        <3>2. \A c \in Q : ~(c > b)
            BY <3>1
        <3> QED
            BY <3>2
    <2>4. policy.max > 0 => b \in NewestOf(Q, policy.max)
        BY <2>2, <2>3, FS_EmptySet DEF NewestOf
    <2> QED
        BY <1>1, <1>3, <2>1, <2>2, <2>4
<1>9. PromisesKept'
    BY <1>1, <1>6, <1>7, <1>8 DEF PromisesKept
<1> QED
    BY <1>2, <1>9 DEF RetentionInv

\* PromisedBackupsStay: no pruning of the past took a backup that the rules promise now and
\* always did, the newest survives a limit, the limit is met, and pruning again deletes nothing
\* more - for every set of policies, any lengths of an hour, a day and a week, and any calendar.
THEOREM PromisedBackupsStayHolds == RetentionSpec => []PromisedBackupsStay
<1>1. RetentionInv /\ [RetentionNext]_retentionVars => RetentionInv'
    <2> SUFFICES ASSUME RetentionInv, [RetentionNext]_retentionVars PROVE RetentionInv'
        OBVIOUS
    <2>1. CASE UNCHANGED retentionVars
        <3>1. UNCHANGED <<clock, policy, started, prunes, taken, kept>>
            BY <2>1 DEF retentionVars
        <3>2. PromisedSince(taken, policy, clock)' = PromisedSince(taken, policy, clock)
            BY <3>1
        <3> QED
            BY <3>1, <3>2 DEF RetentionInv, RetentionTypeOK, PromisesKept
    <2> QED
        BY <2>1, TickKeeps, BackupStartsKeeps, BackupEndsKeeps, PruneKeeps DEF RetentionNext
<1>2. RetentionInv => PromisedBackupsStay
    <2> SUFFICES ASSUME RetentionInv PROVE PromisedBackupsStay
        OBVIOUS
    <2> DEFINE R == EvaluateRetention(kept, policy, clock)
    <2>1. /\ policy.max > 0 => Cardinality(R) <= policy.max
          /\ EvaluateRetention(R, policy, clock) = R
        BY RetentionTyped, EvaluateAgain DEF RetentionInv
    <2> QED
        BY <2>1 DEF RetentionInv, PromisesKept, PromisedBackupsStay
<1> QED
    BY RetentionStarts, <1>1, <1>2, PTL DEF RetentionSpec
--------------------------------------------------------------------------------
(***************************************************************************)
(* The search of Next.  The calendar first: in the minutes up to the next  *)
(* hour, day or month the hour, the day or the month stays the same, so    *)
(* none of those that the search skips matches.                            *)
(***************************************************************************)
\* Division with remainder.
LEMMA DivMod ==
    ASSUME NEW a \in Nat, NEW n \in Nat \ {0}
    PROVE  /\ a \div n \in Nat /\ a % n \in 0..(n - 1) /\ a = (a \div n) * n + (a % n)
OBVIOUS

LEMMA NextMultiple ==
    ASSUME NEW n \in Nat \ {0}, NEW q \in Int, NEW p \in Int, q < p
    PROVE  q * n + n <= p * n
OBVIOUS

LEMMA DivMonotone ==
    ASSUME NEW a \in Nat, NEW b \in Nat, NEW n \in Nat \ {0}, a <= b
    PROVE  a \div n <= b \div n
BY DivMod, NextMultiple

LEMMA DivBelow ==
    ASSUME NEW a \in Nat, NEW q \in Nat, NEW n \in Nat \ {0}, a < q * n
    PROVE  a \div n < q
BY DivMod, NextMultiple

LEMMA DivAbove ==
    ASSUME NEW a \in Nat, NEW n \in Nat \ {0}
    PROVE  a < (a \div n + 1) * n
BY DivMod

LEMMA DivIs ==
    ASSUME NEW n \in Nat \ {0}, NEW q \in Nat, NEW y \in 0..(n - 1)
    PROVE  (q * n + y) % n = y /\ (q * n + y) \div n = q
OBVIOUS

--------------------------------------------------------------------------------
\* The days before each month, and before the next year.
LEMMA DaysBeforeIs ==
    /\ Months \in Nat \ {0} /\ \A m \in 1..Months : MonthLengths[m] \in Nat \ {0}
    /\ DaysBefore[1] = 0
    /\ \A m \in 1..Months : DaysBefore[m] \in Nat /\ DaysBefore[m + 1] = DaysBefore[m] + MonthLengths[m]
<1> DEFINE N == Months + 1
           Is(f, n) == f = [m \in 1..n |-> IF m = 1 THEN 0 ELSE f[m - 1] + MonthLengths[m - 1]]
<1>1. Months \in Nat \ {0} /\ \A m \in 1..Months : MonthLengths[m] \in Nat \ {0}
    BY CronExprAssumption DEF Months
<1>2. \A n \in 1..N : \E f : Is(f, n)
    <2> SUFFICES ASSUME {n \in 1..N : ~ \E f : Is(f, n)} # {} PROVE FALSE
        OBVIOUS
    <2>1. PICK n \in {k \in 1..N : ~ \E f : Is(f, k)} :
              \A k \in {i \in 1..N : ~ \E f : Is(f, i)} : n <= k
        <3>1. {k \in 1..N : ~ \E f : Is(f, k)} \in SUBSET Nat
            BY <1>1
        <3> HIDE DEF Is
        <3> QED
            BY <3>1, Least
    <2>2. n # 1
        <3>1. Is([m \in 1..1 |-> 0], 1)
            OBVIOUS
        <3> QED
            BY <2>1, <3>1
    <2>3. n - 1 \in 1..N /\ ~(n <= n - 1) /\ n \in 2..N
        BY <1>1, <2>1, <2>2
    <2>4. PICK f : Is(f, n - 1)
        BY <2>1, <2>3
    <2> DEFINE g == [m \in 1..n |-> IF m = 1 THEN 0 ELSE f[m - 1] + MonthLengths[m - 1]]
    <2>5. \A m \in 1..(n - 1) : g[m] = f[m]
        <3>1. ASSUME NEW m \in 1..(n - 1) PROVE g[m] = f[m]
            <4>1. m \in 1..n
                BY <2>3
            <4>2. f[m] = IF m = 1 THEN 0 ELSE f[m - 1] + MonthLengths[m - 1]
                BY <2>4
            <4> QED
                BY <4>1, <4>2
        <3> QED
            BY <3>1
    <2>6. Is(g, n)
        <3>1. ASSUME NEW m \in 1..n, m # 1 PROVE g[m - 1] = f[m - 1]
            <4>1. m - 1 \in 1..(n - 1)
                BY <2>3, <3>1
            <4> QED
                BY <2>5, <4>1
        <3> HIDE DEF g
        <3>2. g = [m \in 1..n |-> IF m = 1 THEN 0 ELSE g[m - 1] + MonthLengths[m - 1]]
            BY <3>1 DEF g
        <3> QED
            BY <3>2
    <2> QED
        BY <2>1, <2>6
<1>3. Is(DaysBefore, N)
    <2>1. PICK f : Is(f, N)
        BY <1>1, <1>2
    <2>2. DaysBefore = CHOOSE h : h = [m \in 1..(Months + 1) |->
                                         IF m = 1 THEN 0 ELSE h[m - 1] + MonthLengths[m - 1]]
        BY DEF DaysBefore
    <2> QED
        BY <2>1, <2>2
<1>4. /\ DaysBefore[1] = 0
      /\ \A m \in 1..Months : DaysBefore[m + 1] = DaysBefore[m] + MonthLengths[m]
    <2>1. 1 \in 1..N /\ \A m \in 1..Months : m + 1 \in 1..N /\ m + 1 # 1 /\ (m + 1) - 1 = m
        BY <1>1
    <2>2. \A m \in 1..N : DaysBefore[m] = IF m = 1 THEN 0 ELSE DaysBefore[m - 1] + MonthLengths[m - 1]
        BY <1>3
    <2> QED
        BY <2>1, <2>2
<1>5. \A m \in 1..Months : DaysBefore[m] \in Nat
    <2> SUFFICES ASSUME {m \in 1..Months : DaysBefore[m] \notin Nat} # {} PROVE FALSE
        OBVIOUS
    <2>1. PICK m \in {i \in 1..Months : DaysBefore[i] \notin Nat} :
              \A k \in {i \in 1..Months : DaysBefore[i] \notin Nat} : m <= k
        <3>1. {i \in 1..Months : DaysBefore[i] \notin Nat} \in SUBSET Nat
            BY <1>1
        <3> QED
            BY <3>1, Least
    <2>2. m # 1
        BY <1>4, <2>1
    <2>3. m - 1 \in 1..Months /\ ~(m <= m - 1) /\ (m - 1) + 1 = m
        BY <1>1, <2>1, <2>2
    <2>4. DaysBefore[m - 1] \in Nat /\ MonthLengths[m - 1] \in Nat
        BY <1>1, <2>1, <2>3
    <2>5. DaysBefore[m] = DaysBefore[m - 1] + MonthLengths[m - 1]
        BY <1>4, <2>3
    <2> QED
        BY <2>1, <2>4, <2>5
<1> QED
    BY <1>1, <1>4, <1>5

\* The months follow one another.
LEMMA DaysBeforeGrows ==
    ASSUME NEW i \in 1..(Months + 1), NEW j \in 1..(Months + 1), i < j
    PROVE  DaysBefore[i] \in Nat /\ DaysBefore[j] \in Nat /\ DaysBefore[i] < DaysBefore[j]
<1>1. \A m \in 1..(Months + 1) : DaysBefore[m] \in Nat
    <2>1. ASSUME NEW m \in 1..(Months + 1), m # 1 PROVE DaysBefore[m] \in Nat
        <3>1. m - 1 \in 1..Months /\ (m - 1) + 1 = m
            BY <2>1, DaysBeforeIs
        <3>2. DaysBefore[m] = DaysBefore[m - 1] + MonthLengths[m - 1]
            BY <3>1, DaysBeforeIs
        <3> QED
            BY <3>1, <3>2, DaysBeforeIs
    <2> QED
        BY <2>1, DaysBeforeIs
<1> DEFINE Bad == {k \in 1..(Months + 1) : i < k /\ ~(DaysBefore[i] < DaysBefore[k])}
<1>2. Bad = {}
    <2> SUFFICES ASSUME Bad # {} PROVE FALSE
        OBVIOUS
    <2>1. PICK m \in Bad : \A k \in Bad : m <= k
        <3>1. Bad \in SUBSET Nat
            BY DaysBeforeIs
        <3> QED
            BY <3>1, Least
    <2>2. m - 1 \in 1..Months /\ m - 1 \in 1..(Months + 1) /\ (m - 1) + 1 = m /\ ~(m <= m - 1)
          /\ i <= m - 1
        BY <2>1, DaysBeforeIs
    <2>3. DaysBefore[m] = DaysBefore[m - 1] + MonthLengths[m - 1] /\ MonthLengths[m - 1] \in Nat \ {0}
        BY <2>2, DaysBeforeIs
    <2>4. DaysBefore[m - 1] < DaysBefore[m]
        BY <1>1, <2>2, <2>3
    <2>5. m - 1 = i \/ DaysBefore[i] < DaysBefore[m - 1]
        BY <2>1, <2>2
    <2>6. DaysBefore[i] < DaysBefore[m]
        BY <1>1, <2>1, <2>2, <2>4, <2>5
    <2> QED
        BY <2>1, <2>6
<1> QED
    BY <1>1, <1>2

LEMMA YearIs == DaysPerYear \in Nat \ {0}
<1>1. 1 \in 1..(Months + 1) /\ Months + 1 \in 1..(Months + 1) /\ 1 < Months + 1
    BY DaysBeforeIs
<1>2. DaysBefore[1] \in Nat /\ DaysBefore[Months + 1] \in Nat /\ DaysBefore[1] < DaysBefore[Months + 1]
    BY <1>1, DaysBeforeGrows
<1> QED
    BY <1>2 DEF DaysPerYear

\* A day of the year lies in one month.
LEMMA MonthIs ==
    ASSUME NEW y \in 0..(DaysPerYear - 1)
    PROVE  /\ \E m \in 1..Months : DaysBefore[m] <= y /\ y < DaysBefore[m + 1]
           /\ \A m, k \in 1..Months : /\ DaysBefore[m] <= y /\ y < DaysBefore[m + 1]
                                      /\ DaysBefore[k] <= y /\ y < DaysBefore[k + 1]
                                      => m = k
<1> DEFINE Above == {m \in 1..(Months + 1) : y < DaysBefore[m]}
<1>1. /\ Months \in Nat \ {0} /\ Months + 1 \in 1..(Months + 1)
      /\ DaysBefore[Months + 1] = DaysPerYear /\ DaysPerYear \in Nat \ {0} /\ y \in Nat
    BY DaysBeforeIs, YearIs DEF DaysPerYear
<1>2. PICK m \in Above : \A k \in Above : m <= k
    <2>1. Above \in SUBSET Nat /\ Months + 1 \in Above
        BY <1>1
    <2> QED
        BY <2>1, Least
<1>3. m # 1
    BY <1>1, <1>2, DaysBeforeIs
<1>4. m - 1 \in 1..Months /\ m - 1 \in 1..(Months + 1) /\ (m - 1) + 1 = m /\ ~(m <= m - 1)
    BY <1>1, <1>2, <1>3
<1>5. DaysBefore[m - 1] <= y
    BY <1>1, <1>2, <1>4, DaysBeforeIs
<1>6. y < DaysBefore[(m - 1) + 1]
    BY <1>2, <1>4
<1>7. ASSUME NEW a \in 1..Months, NEW b \in 1..Months, a < b, y < DaysBefore[a + 1], DaysBefore[b] <= y
      PROVE  FALSE
    <2>1. a + 1 \in 1..(Months + 1) /\ b \in 1..(Months + 1) /\ (a + 1 = b \/ a + 1 < b)
        BY <1>1, <1>7
    <2>2. DaysBefore[b] \in Nat
        BY DaysBeforeIs
    <2>3. a + 1 = b \/ (DaysBefore[a + 1] \in Nat /\ DaysBefore[a + 1] < DaysBefore[b])
        BY <2>1, DaysBeforeGrows
    <2> QED
        BY <1>1, <1>7, <2>2, <2>3
<1>8. ASSUME NEW a \in 1..Months, NEW b \in 1..Months,
             DaysBefore[a] <= y /\ y < DaysBefore[a + 1], DaysBefore[b] <= y /\ y < DaysBefore[b + 1]
      PROVE  a = b
    <2>1. a = b \/ a < b \/ b < a
        BY <1>1
    <2> QED
        BY <1>7, <1>8, <2>1
<1> QED
    BY <1>4, <1>5, <1>6, <1>8

--------------------------------------------------------------------------------
LEMMA LengthsAre ==
    /\ MinutesPerHour \in Nat \ {0} /\ HoursPerDay \in Nat \ {0} /\ MinutesPerDay \in Nat \ {0}
    /\ YearsAhead \in Nat
<1>1. MinutesPerHour \in Nat \ {0} /\ HoursPerDay \in Nat \ {0} /\ YearsAhead \in Nat
    BY CronExprAssumption
<1>2. \A h, d \in Nat \ {0} : h * d \in Nat \ {0}
    OBVIOUS
<1> QED
    BY <1>1, <1>2 DEF MinutesPerDay

\* An hour is skipped: up to the next one the hour is the same.
LEMMA SkipsHour ==
    ASSUME NEW t \in Nat
    PROVE  /\ NextHour(t) \in Nat /\ NextHour(t) > t
           /\ \A r \in t..(NextHour(t) - 1) : Hour(r) = Hour(t)
<1> DEFINE H == MinutesPerHour
           q == t \div H
<1>1. H \in Nat \ {0} /\ q \in Nat
    BY LengthsAre, DivMod
<1>2. NextHour(t) = (q + 1) * H /\ (q + 1) * H \in Nat /\ (q + 1) * H > t
    BY <1>1, DivAbove DEF NextHour
<1>3. ASSUME NEW r \in t..(NextHour(t) - 1) PROVE r \div H = q
    <2>1. r \in Nat /\ t <= r /\ r < (q + 1) * H
        BY <1>2
    <2>2. t \div H <= r \div H /\ r \div H \in Nat
        BY <1>1, <2>1, DivMonotone, DivMod
    <2>3. PICK p \in Nat : p = q + 1
        BY <1>1
    <2>4. r < p * H
        BY <2>1, <2>3
    <2>5. r \div H < p
        BY <1>1, <2>1, <2>4, DivBelow
    <2> QED
        BY <1>1, <2>2, <2>3, <2>5
<1> QED
    BY <1>2, <1>3 DEF Hour

\* So is a day.
LEMMA SkipsDay ==
    ASSUME NEW t \in Nat
    PROVE  /\ NextDay(t) \in Nat /\ NextDay(t) > t
           /\ \A r \in t..(NextDay(t) - 1) : DayOf(r) = DayOf(t)
<1> DEFINE D == MinutesPerDay
           q == DayOf(t)
<1>1. D \in Nat \ {0} /\ q \in Nat /\ q = t \div D
    BY LengthsAre, DivMod DEF DayOf
<1>2. NextDay(t) = (q + 1) * D /\ (q + 1) * D \in Nat /\ (q + 1) * D > t
    BY <1>1, DivAbove DEF NextDay
<1>3. ASSUME NEW r \in t..(NextDay(t) - 1) PROVE r \div D = q
    <2>1. r \in Nat /\ t <= r /\ r < (q + 1) * D
        BY <1>2
    <2>2. t \div D <= r \div D /\ r \div D \in Nat
        BY <1>1, <2>1, DivMonotone, DivMod
    <2>3. PICK p \in Nat : p = q + 1
        BY <1>1
    <2>4. r < p * D
        BY <2>1, <2>3
    <2>5. r \div D < p
        BY <1>1, <2>1, <2>4, DivBelow
    <2> QED
        BY <1>1, <2>2, <2>3, <2>5
<1> QED
    BY <1>2, <1>3 DEF DayOf

\* And a month.
LEMMA SkipsMonth ==
    ASSUME NEW t \in Nat
    PROVE  /\ NextMonth(t) \in Nat /\ NextMonth(t) > t
           /\ \A r \in t..(NextMonth(t) - 1) : Month(r) = Month(t)
<1> DEFINE D == MinutesPerDay
           Y == DaysPerYear
           d == DayOf(t)
           y == YearDay(t)
           m == Month(t)
           x == d - y + DaysBefore[m + 1]
           In(k, z) == DaysBefore[k] <= z /\ z < DaysBefore[k + 1]
<1>1. D \in Nat \ {0} /\ Y \in Nat \ {0}
    BY LengthsAre, YearIs
<1>2. /\ d \in Nat /\ d = t \div D
      /\ y \in 0..(Y - 1) /\ y = d % Y
    BY <1>1, DivMod DEF DayOf, YearDay
<1>3. PICK q \in Nat : d = q * Y + y
    <2>1. d \div Y \in Nat /\ d = (d \div Y) * Y + (d % Y)
        BY <1>1, <1>2, DivMod
    <2> QED
        BY <1>2, <2>1
<1>4. m \in 1..Months /\ In(m, y)
    BY <1>2, MonthIs DEF Month
<1>5. /\ DaysBefore[m] \in Nat /\ MonthLengths[m] \in Nat
      /\ DaysBefore[m + 1] = DaysBefore[m] + MonthLengths[m]
    BY <1>4, DaysBeforeIs
<1>6. DaysBefore[m + 1] \in Nat /\ DaysBefore[m + 1] <= Y
    <2>1. /\ m + 1 \in 1..(Months + 1) /\ Months + 1 \in 1..(Months + 1)
          /\ (m + 1 = Months + 1 \/ m + 1 < Months + 1)
        BY <1>4, DaysBeforeIs
    <2>2. Y = DaysBefore[Months + 1]
        BY DEF DaysPerYear
    <2>3. m + 1 < Months + 1 => DaysBefore[m + 1] < DaysBefore[Months + 1]
        BY <2>1, DaysBeforeGrows
    <2> QED
        BY <1>1, <1>5, <2>1, <2>2, <2>3
<1>7. x \in Nat /\ d < x
    BY <1>2, <1>4, <1>5, <1>6, <1>3
<1>8. NextMonth(t) = x * D
    <2>1. Day(t) = y - DaysBefore[m] + 1
        BY DEF Day
    <2>2. d - Day(t) + 1 + MonthLengths[m] = x
        BY <1>2, <1>5, <2>1
    <2> QED
        BY <2>2 DEF NextMonth
<1>9. x * D \in Nat /\ x * D > t
    <2>1. t < (d + 1) * D
        BY <1>1, <1>2, DivAbove
    <2>2. d * D + D <= x * D
        BY <1>1, <1>2, <1>7, NextMultiple
    <2>3. (d + 1) * D = d * D + D /\ d * D \in Nat
        BY <1>1, <1>2
    <2> HIDE DEF x, D, d
    <2> QED
        BY <1>1, <1>7, <2>1, <2>2, <2>3
<1>10. ASSUME NEW r \in t..(x * D - 1) PROVE Month(r) = m
    <2>1. r \in Nat /\ t <= r /\ r < x * D
        BY <1>9
    <2>2. DayOf(r) \in Nat /\ d <= DayOf(r) /\ DayOf(r) < x
        BY <1>1, <1>2, <1>7, <2>1, DivMonotone, DivBelow, DivMod DEF DayOf
    <2> DEFINE z == DayOf(r) - d + y
    <2>3. z \in 0..(Y - 1) /\ In(m, z) /\ DayOf(r) = q * Y + z
        <3>1. PICK e \in Nat, s \in Nat : e = DayOf(r) /\ s = DaysBefore[m + 1]
            BY <1>6, <2>2
        <3>2. d <= e /\ e < d - y + s /\ y \in Nat /\ y < s /\ s <= Y /\ d \in Nat
            BY <1>1, <1>2, <1>4, <1>6, <2>2, <3>1
        <3>3. e - d + y \in Nat /\ y <= e - d + y /\ e - d + y < s
            BY <3>2
        <3>4. z \in 0..(Y - 1)
            BY <1>1, <3>1, <3>2, <3>3
        <3>5. In(m, z)
            BY <1>2, <1>4, <1>5, <3>1, <3>3
        <3>6. PICK w \in Nat : w = q * Y
            BY <1>1
        <3>7. DayOf(r) = w + z
            BY <1>2, <1>3, <3>1, <3>2, <3>6
        <3> QED
            BY <3>4, <3>5, <3>6, <3>7
    <2>4. YearDay(r) = z
        <3>1. (q * Y + z) % Y = z
            BY <1>1, <1>3, <2>3, DivIs
        <3> QED
            BY <2>3, <3>1 DEF YearDay
    <2>5. \A k \in 1..Months : In(k, z) => k = m
        BY <1>4, <2>3, MonthIs
    <2>6. Month(r) = CHOOSE k \in 1..Months : In(k, z)
        BY <2>4 DEF Month
    <2> QED
        BY <1>4, <2>3, <2>5, <2>6
<1> QED
    BY <1>8, <1>9, <1>10

--------------------------------------------------------------------------------
\* Where the search goes from a minute that does not match.
Skip(c, t) ==
    IF Month(t) \notin c.months THEN NextMonth(t)
    ELSE IF ~DayMatches(c, t) THEN NextDay(t)
    ELSE IF Hour(t) \notin c.hours THEN NextHour(t)
    ELSE t + 1

\* The first match from t on and before the limit, or Never.
IsFirst(c, limit, t, v) ==
    IF v = Never THEN \A r \in t..(limit - 1) : ~Matches(c, r)
    ELSE v \in t..(limit - 1) /\ Matches(c, v) /\ \A r \in t..(v - 1) : ~Matches(c, r)

LEMMA SkipsNoMatch ==
    ASSUME NEW c, NEW t \in Nat, ~Matches(c, t)
    PROVE  Skip(c, t) \in Nat /\ Skip(c, t) > t /\ \A r \in t..(Skip(c, t) - 1) : ~Matches(c, r)
<1>1. CASE Month(t) \notin c.months
    <2>1. Skip(c, t) = NextMonth(t)
        BY <1>1 DEF Skip
    <2> QED
        BY <1>1, <2>1, SkipsMonth DEF Matches
<1>2. CASE Month(t) \in c.months /\ ~DayMatches(c, t)
    <2>1. Skip(c, t) = NextDay(t)
        BY <1>2 DEF Skip
    <2>2. ASSUME NEW r, DayOf(r) = DayOf(t) PROVE ~DayMatches(c, r)
        <3>1. YearDay(r) = YearDay(t) /\ Weekday(r) = Weekday(t)
            BY <2>2 DEF YearDay, Weekday
        <3>2. Month(r) = Month(t)
            BY <3>1 DEF Month
        <3>3. Day(r) = Day(t)
            BY <3>1, <3>2 DEF Day
        <3>4. DayMatches(c, r) = DayMatches(c, t)
            BY <3>1, <3>3 DEF DayMatches
        <3> QED
            BY <1>2, <3>4
    <2> QED
        BY <2>1, <2>2, SkipsDay DEF Matches
<1>3. CASE Month(t) \in c.months /\ DayMatches(c, t) /\ Hour(t) \notin c.hours
    <2>1. Skip(c, t) = NextHour(t)
        BY <1>3 DEF Skip
    <2> QED
        BY <1>3, <2>1, SkipsHour DEF Matches
<1>4. CASE Month(t) \in c.months /\ DayMatches(c, t) /\ Hour(t) \in c.hours
    <2>1. Skip(c, t) = t + 1
        BY <1>4 DEF Skip
    <2>2. \A r \in t..((t + 1) - 1) : r = t
        OBVIOUS
    <2> QED
        BY <2>1, <2>2
<1> QED
    BY <1>1, <1>2, <1>3, <1>4

\* There is one first match, or none.
LEMMA FirstIs ==
    ASSUME NEW c, NEW limit \in Nat, NEW t \in Nat
    PROVE  /\ \E v : IsFirst(c, limit, t, v)
           /\ \A v, w : IsFirst(c, limit, t, v) /\ IsFirst(c, limit, t, w) => v = w
<1> DEFINE M == {r \in t..(limit - 1) : Matches(c, r)}
<1>1. CASE M = {}
    <2>1. IsFirst(c, limit, t, Never)
        BY <1>1 DEF IsFirst
    <2> QED
        BY <1>1, <2>1 DEF IsFirst
<1>2. CASE M # {}
    <2>1. PICK v \in M : \A r \in M : v <= r
        <3>1. M \in SUBSET Nat
            OBVIOUS
        <3> QED
            BY <1>2, <3>1, Least
    <2>2. v # Never
        BY <2>1 DEF Never
    <2>3. IsFirst(c, limit, t, v)
        <3>1. ASSUME NEW r \in t..(v - 1) PROVE ~Matches(c, r)
            <4>1. r \in t..(limit - 1) /\ ~(v <= r)
                BY <2>1
            <4> QED
                BY <2>1, <4>1
        <3> QED
            BY <2>1, <2>2, <3>1 DEF IsFirst
    <2>4. ASSUME NEW w, IsFirst(c, limit, t, w) PROVE w = v
        <3>1. w # Never
            BY <2>1, <2>4 DEF IsFirst
        <3>2. w \in M /\ \A r \in t..(w - 1) : ~Matches(c, r)
            BY <2>4, <3>1 DEF IsFirst
        <3>3. v <= w
            BY <2>1, <3>2
        <3>4. v \notin t..(w - 1)
            BY <2>1, <3>2
        <3> QED
            BY <2>1, <3>2, <3>3, <3>4
    <2> QED
        BY <2>3, <2>4
<1> QED
    BY <1>1, <1>2

\* What the search returns at t, if it is right at the place it skips to.
LEMMA FirstFromSkip ==
    ASSUME NEW c, NEW limit \in Nat, NEW t \in Nat
    PROVE  /\ t >= limit => IsFirst(c, limit, t, Never)
           /\ t < limit /\ Matches(c, t) => IsFirst(c, limit, t, t)
           /\ t < limit /\ ~Matches(c, t) =>
                 \A v : IsFirst(c, limit, Skip(c, t), v) => IsFirst(c, limit, t, v)
<1>1. ASSUME t >= limit PROVE IsFirst(c, limit, t, Never)
    <2>1. t..(limit - 1) = {}
        BY <1>1
    <2> QED
        BY <2>1 DEF IsFirst
<1>2. ASSUME t < limit, Matches(c, t) PROVE IsFirst(c, limit, t, t)
    <2>1. t \in t..(limit - 1) /\ t..(t - 1) = {} /\ t # Never
        BY <1>2 DEF Never
    <2> QED
        BY <1>2, <2>1 DEF IsFirst
<1>3. ASSUME t < limit, ~Matches(c, t), NEW v, IsFirst(c, limit, Skip(c, t), v)
      PROVE  IsFirst(c, limit, t, v)
    <2>1. PICK u \in Nat : u = Skip(c, t) /\ u > t /\ \A r \in t..(u - 1) : ~Matches(c, r)
        BY <1>3, SkipsNoMatch
    <2>2. IsFirst(c, limit, u, v)
        BY <1>3, <2>1
    <2>3. \A r \in Int : t <= r => r \in t..(u - 1) \/ u <= r
        BY <2>1
    <2>4. CASE v = Never
        <3>1. ASSUME NEW r \in t..(limit - 1) PROVE ~Matches(c, r)
            <4>1. r \in t..(u - 1) \/ r \in u..(limit - 1)
                BY <2>3
            <4> QED
                BY <2>1, <2>2, <2>4, <4>1 DEF IsFirst
        <3> QED
            BY <2>4, <3>1 DEF IsFirst
    <2>5. CASE v # Never
        <3>1. v \in u..(limit - 1) /\ Matches(c, v) /\ \A r \in u..(v - 1) : ~Matches(c, r)
            BY <2>2, <2>5 DEF IsFirst
        <3>2. v \in t..(limit - 1)
            BY <2>1, <3>1
        <3>3. ASSUME NEW r \in t..(v - 1) PROVE ~Matches(c, r)
            <4>1. r \in t..(u - 1) \/ r \in u..(v - 1)
                BY <2>3, <3>1
            <4> QED
                BY <2>1, <3>1, <4>1
        <3> QED
            BY <2>5, <3>1, <3>2, <3>3 DEF IsFirst
    <2> QED
        BY <2>4, <2>5
<1> QED
    BY <1>1, <1>2, <1>3

\* One step of the search, on a function for the rest of it.
Search(c, limit, f, t) ==
    IF t >= limit THEN Never
    ELSE IF Month(t) \notin c.months THEN f[NextMonth(t)]
    ELSE IF ~DayMatches(c, t) THEN f[NextDay(t)]
    ELSE IF Hour(t) \notin c.hours THEN f[NextHour(t)]
    ELSE IF Minute(t) \notin c.minutes THEN f[t + 1]
    ELSE t

LEMMA SearchIs ==
    ASSUME NEW c, NEW limit, NEW f, NEW t
    PROVE  Search(c, limit, f, t) =
              IF t >= limit THEN Never ELSE IF Matches(c, t) THEN t ELSE f[Skip(c, t)]
<1>1. CASE Month(t) \notin c.months
    BY <1>1 DEF Search, Skip, Matches
<1>2. CASE Month(t) \in c.months /\ ~DayMatches(c, t)
    BY <1>2 DEF Search, Skip, Matches
<1>3. CASE Month(t) \in c.months /\ DayMatches(c, t) /\ Hour(t) \notin c.hours
    BY <1>3 DEF Search, Skip, Matches
<1>4. CASE Month(t) \in c.months /\ DayMatches(c, t) /\ Hour(t) \in c.hours
    BY <1>4 DEF Search, Skip, Matches
<1> QED
    BY <1>1, <1>2, <1>3, <1>4

\* CronNext finds the first match.
LEMMA CronNextIs ==
    ASSUME NEW c, NEW from \in Nat
    PROVE  Limit(from) \in Nat /\ IsFirst(c, Limit(from), from + 1, CronNext(c, from))
<1>1. PICK limit \in Nat : limit = Limit(from)
    <2>1. \A y, d, m \in Nat : y * d * m \in Nat
        OBVIOUS
    <2>2. YearsAhead * DaysPerYear * MinutesPerDay \in Nat
        BY <2>1, LengthsAre, YearIs
    <2> QED
        BY <2>2 DEF Limit
<1> DEFINE g == [t \in Nat |-> CHOOSE v : IsFirst(c, limit, t, v)]
<1>2. \A t \in Nat : IsFirst(c, limit, t, g[t])
    BY FirstIs
<1> HIDE DEF g
<1>3. ASSUME NEW t \in Nat, NEW f, t < limit /\ ~Matches(c, t) => IsFirst(c, limit, Skip(c, t), f[Skip(c, t)])
      PROVE  IsFirst(c, limit, t, Search(c, limit, f, t))
    <2>1. t >= limit \/ t < limit
        OBVIOUS
    <2>2. t >= limit <=> ~(t < limit)
        OBVIOUS
    <2>3. CASE t >= limit
        BY <2>3, SearchIs, FirstFromSkip
    <2>4. CASE t < limit /\ Matches(c, t)
        BY <2>2, <2>4, SearchIs, FirstFromSkip
    <2>5. CASE t < limit /\ ~Matches(c, t)
        BY <1>3, <2>2, <2>5, SearchIs, FirstFromSkip
    <2> QED
        BY <2>1, <2>3, <2>4, <2>5
<1>4. ASSUME NEW t \in Nat PROVE g[t] = Search(c, limit, g, t)
    <2>1. ~Matches(c, t) => Skip(c, t) \in Nat
        BY SkipsNoMatch
    <2>2. IsFirst(c, limit, t, Search(c, limit, g, t))
        BY <1>2, <1>3, <2>1
    <2> QED
        BY <1>2, <2>2, FirstIs
<1>5. g = [t \in Nat |-> Search(c, limit, g, t)]
    <2>1. g = [t \in Nat |-> g[t]]
        BY DEF g
    <2> QED
        BY <1>4, <2>1
<1>6. PICK s : s = CHOOSE f : f = [t \in Nat |-> Search(c, limit, f, t)]
    OBVIOUS
<1>7. s = [t \in Nat |-> Search(c, limit, s, t)]
    BY <1>5, <1>6
<1>8. CronNext(c, from) = s[from + 1]
    BY <1>1, <1>6 DEF CronNext, Search
<1> DEFINE Bad == {k \in Nat : \E t \in Nat : t + k = limit /\ ~IsFirst(c, limit, t, s[t])}
<1>9. \A t \in Nat : IsFirst(c, limit, t, s[t])
    <2>1. Bad = {}
        <3> SUFFICES ASSUME Bad # {} PROVE FALSE
            OBVIOUS
        <3>1. PICK k \in Bad : \A j \in Bad : k <= j
            <4>1. Bad \in SUBSET Nat
                OBVIOUS
            <4> HIDE DEF Bad
            <4> QED
                BY <4>1, Least
        <3>2. PICK t \in Nat : t + k = limit /\ ~IsFirst(c, limit, t, s[t])
            BY <3>1
        <3>3. s[t] = Search(c, limit, s, t)
            BY <1>7
        <3>4. ASSUME t < limit, ~Matches(c, t)
              PROVE  IsFirst(c, limit, Skip(c, t), s[Skip(c, t)])
            <4>1. PICK u \in Nat : u = Skip(c, t) /\ u > t
                BY <3>4, SkipsNoMatch
            <4>2. CASE u < limit
                <5>1. limit - u \in Nat /\ u + (limit - u) = limit /\ ~(k <= limit - u)
                    BY <3>1, <3>2, <4>1, <4>2
                <5>2. limit - u \notin Bad
                    BY <3>1, <5>1
                <5> QED
                    BY <4>1, <5>1, <5>2
            <4>3. CASE ~(u < limit)
                <5>1. u >= limit
                    BY <4>3
                <5>2. Search(c, limit, s, u) = Never
                    BY <5>1 DEF Search
                <5>3. s[u] = Never
                    BY <1>7, <5>2
                <5> QED
                    BY <4>1, <5>1, <5>3, FirstFromSkip
            <4> QED
                BY <4>2, <4>3
        <3> QED
            BY <1>3, <3>2, <3>3, <3>4
    <2> SUFFICES ASSUME NEW t \in Nat PROVE IsFirst(c, limit, t, s[t])
        OBVIOUS
    <2>2. CASE t < limit
        <3>1. limit - t \in Nat /\ t + (limit - t) = limit
            BY <2>2
        <3> QED
            BY <2>1, <3>1
    <2>3. CASE ~(t < limit)
        <3>1. t >= limit
            BY <2>3
        <3>2. s[t] = Never
            BY <1>7, <3>1 DEF Search
        <3> QED
            BY <3>1, <3>2, FirstFromSkip
    <2> QED
        BY <2>2, <2>3
<1>10. from + 1 \in Nat
    OBVIOUS
<1> QED
    BY <1>1, <1>8, <1>9, <1>10

\* NextIsFirstMatch: for every calendar, and every expression, the due time that CronNext gives is
\* the first matching minute after the one it is asked from, or there is none within the years it
\* looks ahead.
THEOREM NextIsFirstMatchHolds == CronSpec => []NextIsFirstMatch
<1> DEFINE Inv == cronTime \in Nat
<1>1. CronInit => Inv
    BY DEF CronInit
<1>2. ASSUME Inv
      PROVE  /\ Limit(cronTime) \in Nat
             /\ IsFirst(cron, Limit(cronTime), cronTime + 1, CronNext(cron, cronTime))
    BY <1>2, CronNextIs
<1>3. Inv /\ [ComesDue]_cronVars => Inv'
    <2> SUFFICES ASSUME Inv, [ComesDue]_cronVars PROVE Inv'
        OBVIOUS
    <2>1. CASE ComesDue
        <3>1. CronNext(cron, cronTime) # Never => CronNext(cron, cronTime) \in Nat
            BY <1>2 DEF IsFirst
        <3> QED
            BY <2>1, <3>1 DEF ComesDue
    <2>2. CASE UNCHANGED cronVars
        BY <2>2 DEF cronVars
    <2> QED
        BY <2>1, <2>2
<1>4. Inv => NextIsFirstMatch
    BY <1>2 DEF IsFirst, NextIsFirstMatch
<1> QED
    BY <1>1, <1>3, <1>4, PTL DEF CronSpec
--------------------------------------------------------------------------------
(***************************************************************************)
(* One upload, for a dump of any length, any concurrency and any number of *)
(* attempts.                                                               *)
(*                                                                         *)
(* The inductive invariant follows a part from the pipe to the object: it  *)
(* is held by the reader, at a worker, in the channel of results, or       *)
(* collected - or the upload has an error or no context, and then it can   *)
(* not be completed.  What S3 holds is tied to where the client is.        *)
(***************************************************************************)
USE MultipartUploadAssumption DEF MultipartUploadAssumption

\* The places of the reader at which parts are still read, and those after the workers are gone.
Reading == {"top", "read", "acquire"}
Drained == {"empty", "complete", "abort", "returned", "misread", "failed", "crashed"}
Over    == {"returned", "misread", "failed", "crashed"}

\* The parts of a whole dump: a dump without data is one empty part.
Whole == 1..(IF written = 0 THEN 1 ELSE written)

\* The types of the variables, without the limits.
UploadTyped ==
    /\ dump \in {"running", "ok", "failed"} /\ written \in 0..MaxParts /\ ctx \in BOOLEAN
    /\ reader \in {"initiate", "wait"} \cup Reading \cup Drained
    /\ held \in 0..MaxParts /\ last \in BOOLEAN
    /\ worker \in [Part -> {"none", "put", "sent", "failed", "gone"}]
    /\ attempt \in [Part -> 0..MaxAttempts]
    /\ results \subseteq Part \X BOOLEAN
    /\ uploaded \subseteq Part /\ uploadErr \in BOOLEAN
    /\ upload \in {"none", "open", "completed", "aborted"}
    /\ stored \subseteq Part /\ object \subseteq Part /\ stale \in BOOLEAN /\ abortLost \in BOOLEAN
    /\ backup \in {"none", "ok", "failed"}
    /\ restore \in [at : {"none", "copy", "restored", "failed"}, read : SUBSET Part]

\* The semaphore and the channel of results.
Limits ==
    /\ Cardinality(results) <= MaxConcurrency
    /\ Cardinality(Running) <= MaxConcurrency

\* A worker has attempts left while it puts, and none has begun without a worker.
Attempts ==
    /\ \A p \in Part : worker[p] = "put" => attempt[p] < MaxAttempts
    /\ reader # "crashed" => \A p \in Part : worker[p] = "none" => attempt[p] = 0

\* Which parts can be where.
PartsPlaced ==
    /\ held # 0 <=> reader = "acquire"
    /\ held # 0 => held = written
    /\ \A p \in Part : worker[p] # "none" => p <= written /\ p # held
    /\ \A res \in results : res[1] <= written
    /\ reader \in {"initiate"} \cup Drained => results = {} /\ Running = {}
    /\ reader \in {"initiate", "wait", "empty"} \cup Reading => uploaded \subseteq 1..written

\* The reader knows of the dump's end, and of its failure.
DumpSeen ==
    /\ reader \in {"initiate", "top", "read"} => dump = "running" /\ ~last
    /\ reader = "acquire" => (last <=> dump # "running")
    /\ reader \in {"empty", "complete"} => ~uploadErr
    /\ reader \in {"wait", "empty", "complete"} /\ ~uploadErr => dump = "ok"

\* No part is lost while the upload can still be completed.
PartsAccounted ==
    /\ ctx /\ ~uploadErr =>
          \A p \in 1..written :
              \/ p = held \/ p \in Running \/ p \in uploaded
              \/ \E good \in BOOLEAN : <<p, good>> \in results
    /\ reader = "empty" => uploaded = {}
    /\ reader = "complete" /\ ctx => uploaded = Whole

\* What S3 holds.
Stored ==
    /\ reader = "initiate" => upload = "none"
    /\ reader = "returned" => upload = "completed"
    /\ upload = "completed" =>
          dump = "ok" /\ object = Whole /\ reader \in {"abort", "returned", "failed", "crashed"}
    /\ upload = "aborted" => ~ctx \/ reader = "failed"
    /\ upload = "open" /\ reader = "failed" => abortLost
    /\ stale => ~ctx

\* What is reported, and what is restored.
Reported ==
    /\ reader = "crashed" => ~ctx
    /\ backup # "none" => reader \in Over
    /\ backup = "ok" => reader \in {"returned", "misread"}
    /\ restore.at = "none" => restore.read = {}
    /\ restore.at # "none" => upload = "completed"
    /\ restore.at = "restored" => restore.read = object
    /\ restore.read \subseteq object

UploadInv ==
    /\ UploadTyped /\ Limits /\ Attempts /\ PartsPlaced /\ DumpSeen /\ PartsAccounted
    /\ Stored /\ Reported
-----------------------------------------------------------------------------
LEMMA UploadInvInit == UploadInit => UploadInv
<1> SUFFICES ASSUME UploadInit PROVE UploadInv
    OBVIOUS
<1> USE DEF UploadInit
<1>1. Running = {} /\ results = {}
    BY DEF Running
<1>2. Limits
    BY <1>1, FS_EmptySet DEF Limits
<1>3. UploadTyped
    <2>1. 0 \in 0..MaxParts /\ 0 \in 0..MaxAttempts
        OBVIOUS
    <2>2. restore \in [at : {"none", "copy", "restored", "failed"}, read : SUBSET Part]
        OBVIOUS
    <2> QED
        BY <2>1, <2>2 DEF UploadTyped
<1>4. Attempts /\ PartsPlaced /\ DumpSeen /\ PartsAccounted
    BY <1>1 DEF Attempts, PartsPlaced, DumpSeen, PartsAccounted, Reading, Drained
<1>5. Stored /\ Reported
    BY DEF Stored, Reported, Over
<1> QED
    BY <1>2, <1>3, <1>4, <1>5 DEF UploadInv

LEMMA UploadTypedNext == UploadTyped /\ Attempts /\ PartsPlaced /\ [UploadNext]_uploadVars => UploadTyped'
<1> SUFFICES ASSUME UploadTyped, Attempts, PartsPlaced, [UploadNext]_uploadVars PROVE UploadTyped'
    OBVIOUS
<1> USE DEF UploadTyped, Reading, Drained, clientVars, s3Vars, goto
<1>1. CASE InitiateUpload
    BY <1>1 DEF InitiateUpload
<1>2. CASE CheckContext
    BY <1>2 DEF CheckContext
<1>3. CASE ReadPart
    BY <1>3 DEF ReadPart
<1>4. CASE DumpEnds
    BY <1>4 DEF DumpEnds
<1>5. CASE StartWorker
    <2>1. held \in Part
        BY <1>5 DEF StartWorker, PartsPlaced, Part
    <2> QED
        BY <1>5, <2>1 DEF StartWorker
<1>6. CASE GiveUpAcquire
    BY <1>6 DEF GiveUpAcquire
<1>7. ASSUME NEW p \in Part, UploadPart(p) PROVE UploadTyped'
    <2>1. attempt[p] + 1 \in 0..MaxAttempts
        BY <1>7 DEF UploadPart, Attempts
    <2> QED
        BY <1>7, <2>1 DEF UploadPart
<1>8. ASSUME NEW p \in Part, SendResult(p) PROVE UploadTyped'
    <2>1. PICK good \in BOOLEAN : good = (worker[p] = "sent")
        OBVIOUS
    <2>2. results' \subseteq results \cup {<<p, good>>}
        BY <1>8, <2>1 DEF SendResult
    <2>3. worker' \in [Part -> {"none", "put", "sent", "failed", "gone"}]
        BY <1>8 DEF SendResult
    <2> QED
        BY <1>8, <2>2, <2>3 DEF SendResult
<1>9. CASE Collect
    BY <1>9 DEF Collect
<1>10. CASE WaitWorkers
    BY <1>10 DEF WaitWorkers
<1>11. CASE UploadEmptyPart
    BY <1>11 DEF UploadEmptyPart, Part
<1>12. CASE CompleteUpload
    BY <1>12 DEF CompleteUpload
<1>13. CASE AbortUpload
    BY <1>13 DEF AbortUpload
<1>14. CASE ReturnBackup
    BY <1>14 DEF ReturnBackup
<1>15. CASE EndContext \/ UploadAges \/ PruneStale
    <2>1. UNCHANGED <<dump, written, clientVars, stored, object, abortLost, backup, restore>>
        BY <1>15 DEF EndContext, UploadAges, PruneStale
    <2>2. ctx' \in BOOLEAN /\ stale' \in BOOLEAN /\ upload' \in {"none", "open", "completed", "aborted"}
        BY <1>15 DEF EndContext, UploadAges, PruneStale
    <2> QED
        BY <2>1, <2>2
<1>16. CASE CrashUpload
    <2>1. UNCHANGED <<written, last, attempt, uploaded, uploadErr, s3Vars, restore>>
        BY <1>16 DEF CrashUpload
    <2>2. /\ worker' \in [Part -> {"none", "put", "sent", "failed", "gone"}]
          /\ dump' \in {"running", "ok", "failed"} /\ ctx' \in BOOLEAN
          /\ backup' \in {"none", "ok", "failed"}
        BY <1>16 DEF CrashUpload
    <2>3. reader' = "crashed" /\ results' = {} /\ held' = 0
        BY <1>16 DEF CrashUpload
    <2> QED
        BY <2>1, <2>2, <2>3
<1>17. CASE BeginRestore \/ CopyRestore \/ EndRestore
    BY <1>17 DEF BeginRestore, CopyRestore, EndRestore
<1>18. CASE UNCHANGED uploadVars
    BY <1>18 DEF uploadVars
<1> QED
    BY <1>1, <1>2, <1>3, <1>4, <1>5, <1>6, <1>7, <1>8, <1>9, <1>10, <1>11, <1>12, <1>13, <1>14,
       <1>15, <1>16, <1>17, <1>18 DEF UploadNext, ClientStep
-----------------------------------------------------------------------------
\* Parts, and pairs of a part and an outcome, are finitely many.
LEMMA FiniteParts ==
    ASSUME UploadTyped
    PROVE  IsFiniteSet(Running) /\ IsFiniteSet(results)
<1>1. IsFiniteSet(Part)
    BY FS_Interval DEF Part
<1>2. IsFiniteSet(BOOLEAN)
    <2>1. IsFiniteSet({TRUE} \cup {FALSE})
        BY FS_EmptySet, FS_AddElement, FS_Union, FS_Singleton
    <2>2. BOOLEAN = {TRUE} \cup {FALSE}
        OBVIOUS
    <2> QED
        BY <2>1, <2>2
<1>3. IsFiniteSet(Part \X BOOLEAN)
    BY <1>1, <1>2, FS_Product
<1>4. Running \in SUBSET Part /\ results \in SUBSET (Part \X BOOLEAN)
    BY DEF UploadTyped, Running
<1> QED
    BY <1>1, <1>3, <1>4, FS_Subset

LEMMA OneMore ==
    ASSUME NEW S, IsFiniteSet(S), NEW e
    PROVE  /\ IsFiniteSet(S \cup {e}) /\ Cardinality(S \cup {e}) \in Nat
           /\ Cardinality(S \cup {e}) <= Cardinality(S) + 1
           /\ Cardinality(S) \in Nat
<1>1. Cardinality(S) \in Nat
    BY FS_CardinalityType
<1>2. /\ IsFiniteSet(S \cup {e})
      /\ Cardinality(S \cup {e}) = IF e \in S THEN Cardinality(S) ELSE Cardinality(S) + 1
    BY FS_AddElement
<1> QED
    BY <1>1, <1>2

\* Fewer workers run after a step, or the same ones.
LEMMA FewerRunning ==
    ASSUME UploadTyped, Limits, Running' \subseteq Running
    PROVE  Cardinality(Running') <= MaxConcurrency
<1>1. Cardinality(Running') <= Cardinality(Running)
    BY FiniteParts, FS_Subset
<1>2. Cardinality(Running) \in Nat /\ Cardinality(Running') \in Nat
    BY FiniteParts, FS_Subset, FS_CardinalityType
<1> QED
    BY <1>1, <1>2 DEF Limits

LEMMA FewerResults ==
    ASSUME UploadTyped, Limits, results' \subseteq results
    PROVE  Cardinality(results') <= MaxConcurrency
<1>1. Cardinality(results') <= Cardinality(results)
    BY FiniteParts, FS_Subset
<1>2. Cardinality(results) \in Nat /\ Cardinality(results') \in Nat
    BY FiniteParts, FS_Subset, FS_CardinalityType
<1> QED
    BY <1>1, <1>2 DEF Limits

LEMMA LimitsNext == UploadTyped /\ Limits /\ [UploadNext]_uploadVars => Limits'
<1> SUFFICES ASSUME UploadTyped, Limits, [UploadNext]_uploadVars PROVE Limits'
    OBVIOUS
<1> USE DEF clientVars, s3Vars, goto
<1>1. CASE StartWorker
    <2>1. CASE Running' \subseteq Running
        BY <1>1, <2>1, FewerRunning, FewerResults DEF Limits, StartWorker
    <2>2. CASE ~uploadErr
        <3>1. Running' \subseteq Running \cup {held}
            BY <1>1, <2>2 DEF StartWorker, Running, UploadTyped
        <3>2. /\ IsFiniteSet(Running \cup {held}) /\ Cardinality(Running \cup {held}) \in Nat
              /\ Cardinality(Running \cup {held}) <= Cardinality(Running) + 1
              /\ Cardinality(Running) \in Nat
            BY FiniteParts, OneMore
        <3>3. Cardinality(Running') <= Cardinality(Running \cup {held}) /\ Cardinality(Running') \in Nat
            BY <3>1, <3>2, FS_Subset, FS_CardinalityType
        <3>4. Cardinality(Running) < MaxConcurrency
            BY <1>1 DEF StartWorker
        <3> QED
            BY <1>1, <3>2, <3>3, <3>4, FewerResults DEF Limits, StartWorker
    <2>3. CASE uploadErr
        BY <1>1, <2>1, <2>3 DEF StartWorker, Running
    <2> QED
        BY <2>2, <2>3
<1>2. ASSUME NEW p \in Part, UploadPart(p) PROVE Limits'
    <2>1. Running' \subseteq Running /\ results' \subseteq results
        BY <1>2 DEF UploadPart, Running, UploadTyped
    <2> QED
        BY <2>1, FewerRunning, FewerResults DEF Limits
<1>3. ASSUME NEW p \in Part, SendResult(p) PROVE Limits'
    <2>1. Running' \subseteq Running
        BY <1>3 DEF SendResult, Running, UploadTyped
    <2>2. CASE results' \subseteq results
        BY <2>1, <2>2, FewerRunning, FewerResults DEF Limits
    <2>3. CASE Cardinality(results) < MaxConcurrency
        <3>1. PICK res : results' \subseteq results \cup {res}
            BY <1>3 DEF SendResult
        <3>2. /\ IsFiniteSet(results \cup {res}) /\ Cardinality(results \cup {res}) \in Nat
              /\ Cardinality(results \cup {res}) <= Cardinality(results) + 1
              /\ Cardinality(results) \in Nat
            BY FiniteParts, OneMore
        <3>3. Cardinality(results') <= Cardinality(results \cup {res}) /\ Cardinality(results') \in Nat
            BY <3>1, <3>2, FS_Subset, FS_CardinalityType
        <3> QED
            BY <2>1, <2>3, <3>2, <3>3, FewerRunning DEF Limits
    <2> QED
        BY <1>3, <2>2, <2>3 DEF SendResult
<1>4. CASE Collect
    BY <1>4, FewerRunning, FewerResults DEF Collect, Limits, Running
<1>5. CASE CrashUpload
    <2>1. Running' \subseteq Running /\ results' \subseteq results
        BY <1>5 DEF CrashUpload, Running
    <2> QED
        BY <2>1, FewerRunning, FewerResults DEF Limits
<1>6. CASE UNCHANGED <<worker, results>>
    BY <1>6 DEF Limits, Running
<1>7. CASE \/ InitiateUpload \/ CheckContext \/ ReadPart \/ DumpEnds \/ GiveUpAcquire \/ WaitWorkers
           \/ UploadEmptyPart \/ CompleteUpload \/ AbortUpload \/ ReturnBackup \/ EndContext
           \/ UploadAges \/ PruneStale \/ BeginRestore \/ CopyRestore \/ EndRestore
           \/ UNCHANGED uploadVars
    BY <1>6, <1>7 DEF InitiateUpload, CheckContext, ReadPart, DumpEnds, GiveUpAcquire, WaitWorkers,
       UploadEmptyPart, CompleteUpload, AbortUpload, ReturnBackup, EndContext, UploadAges,
       PruneStale, BeginRestore, CopyRestore, EndRestore, uploadVars
<1> QED
    BY <1>1, <1>2, <1>3, <1>4, <1>5, <1>7 DEF UploadNext, ClientStep
-----------------------------------------------------------------------------
\* Steps that touch nothing of the reading, the workers and their results.
Elsewhere ==
    \/ EndContext \/ UploadAges \/ PruneStale \/ BeginRestore \/ CopyRestore \/ EndRestore
    \/ UNCHANGED uploadVars

LEMMA ElsewhereKeeps ==
    ASSUME Elsewhere
    PROVE  UNCHANGED <<dump, written, reader, held, last, worker, attempt, results, uploaded,
                       uploadErr, stored, object, abortLost, backup>>
BY DEF Elsewhere, EndContext, UploadAges, PruneStale, BeginRestore, CopyRestore, EndRestore,
   uploadVars, clientVars, s3Vars

LEMMA AttemptsNext ==
    UploadTyped /\ PartsPlaced /\ Attempts /\ [UploadNext]_uploadVars => Attempts'
<1> SUFFICES ASSUME UploadTyped, PartsPlaced, Attempts, [UploadNext]_uploadVars PROVE Attempts'
    OBVIOUS
<1> USE DEF UploadTyped, Reading, Drained, clientVars, s3Vars, goto
<1>1. ASSUME UNCHANGED <<worker, attempt>>, reader' # "crashed" => reader # "crashed" PROVE Attempts'
    BY <1>1 DEF Attempts
<1>2. CASE StartWorker
    <2>1. held \in Part /\ worker[held] = "none" /\ reader # "crashed"
        BY <1>2 DEF StartWorker, PartsPlaced, Part
    <2>2. attempt[held] < MaxAttempts
        BY <2>1 DEF Attempts
    <2> QED
        BY <1>2, <2>1, <2>2 DEF StartWorker, Attempts
<1>3. ASSUME NEW p \in Part, UploadPart(p) PROVE Attempts'
    <2>1. attempt[p] + 1 <= MaxAttempts /\ attempt[p] \in Nat
        BY <1>3 DEF UploadPart, Attempts
    <2> QED
        BY <1>3, <2>1 DEF UploadPart, Attempts
<1>4. ASSUME NEW p \in Part, SendResult(p) PROVE Attempts'
    BY <1>4 DEF SendResult, Attempts
<1>5. CASE CrashUpload
    BY <1>5 DEF CrashUpload, Attempts
<1>6. CASE Elsewhere
    BY <1>1, <1>6, ElsewhereKeeps
<1>7. CASE \/ InitiateUpload \/ CheckContext \/ ReadPart \/ DumpEnds \/ GiveUpAcquire \/ Collect
           \/ WaitWorkers \/ UploadEmptyPart \/ CompleteUpload \/ AbortUpload \/ ReturnBackup
    BY <1>1, <1>7 DEF InitiateUpload, CheckContext, ReadPart, DumpEnds, GiveUpAcquire, Collect,
       WaitWorkers, UploadEmptyPart, CompleteUpload, AbortUpload, ReturnBackup
<1> QED
    BY <1>2, <1>3, <1>4, <1>5, <1>6, <1>7 DEF UploadNext, ClientStep, Elsewhere

LEMMA PartsPlacedNext == UploadTyped /\ PartsPlaced /\ [UploadNext]_uploadVars => PartsPlaced'
<1> SUFFICES ASSUME UploadTyped, PartsPlaced, [UploadNext]_uploadVars PROVE PartsPlaced'
    OBVIOUS
<1> USE DEF UploadTyped, Reading, Drained, clientVars, s3Vars, goto, PartsPlaced, Running
<1>1. CASE InitiateUpload \/ CheckContext
    BY <1>1 DEF InitiateUpload, CheckContext
<1>2. CASE ReadPart
    BY <1>2 DEF ReadPart, Part
<1>3. CASE DumpEnds
    BY <1>3 DEF DumpEnds, Part
<1>4. CASE StartWorker
    <2>1. held \in Part /\ held = written
        BY <1>4 DEF StartWorker, Part
    <2>2. reader' \in {"wait", "top"} /\ held' = 0 /\ UNCHANGED <<written, results, uploaded>>
        BY <1>4 DEF StartWorker
    <2>3. \A p \in Part : worker'[p] # "none" => p = held \/ worker[p] # "none"
        BY <1>4, <2>1 DEF StartWorker
    <2>4. \A p \in Part : worker'[p] # "none" => p <= written' /\ p # held'
        BY <2>1, <2>2, <2>3 DEF Part
    <2> QED
        BY <1>4, <2>2, <2>4 DEF StartWorker
<1>5. CASE GiveUpAcquire
    BY <1>5 DEF GiveUpAcquire, Part
<1>6. ASSUME NEW p \in Part, UploadPart(p) PROVE PartsPlaced'
    BY <1>6 DEF UploadPart
<1>7. ASSUME NEW p \in Part, SendResult(p) PROVE PartsPlaced'
    <2>1. p <= written /\ reader \notin {"initiate"} \cup Drained
        BY <1>7 DEF SendResult
    <2>2. \A res \in results' : res \in results \/ res[1] = p
        BY <1>7 DEF SendResult
    <2> QED
        BY <1>7, <2>1, <2>2 DEF SendResult
<1>8. CASE Collect
    <2>1. PICK res \in results :
              /\ results' = results \ {res}
              /\ uploaded' = IF res[2] THEN uploaded \cup {res[1]} ELSE uploaded
        BY <1>8 DEF Collect
    <2>2. res[1] \in 1..written
        BY <2>1 DEF Part
    <2> QED
        BY <1>8, <2>1, <2>2 DEF Collect
<1>9. CASE WaitWorkers
    BY <1>9 DEF WaitWorkers
<1>10. CASE UploadEmptyPart
    BY <1>10 DEF UploadEmptyPart
<1>11. CASE CompleteUpload
    BY <1>11 DEF CompleteUpload
<1>12. CASE AbortUpload
    BY <1>12 DEF AbortUpload
<1>13. CASE ReturnBackup
    BY <1>13 DEF ReturnBackup
<1>14. CASE CrashUpload
    BY <1>14 DEF CrashUpload
<1>15. CASE Elsewhere
    BY <1>15, ElsewhereKeeps
<1> QED
    BY <1>1, <1>2, <1>3, <1>4, <1>5, <1>6, <1>7, <1>8, <1>9, <1>10, <1>11, <1>12, <1>13, <1>14,
       <1>15 DEF UploadNext, ClientStep, Elsewhere

LEMMA DumpSeenNext ==
    UploadTyped /\ PartsPlaced /\ DumpSeen /\ [UploadNext]_uploadVars => DumpSeen'
<1> SUFFICES ASSUME UploadTyped, PartsPlaced, DumpSeen, [UploadNext]_uploadVars PROVE DumpSeen'
    OBVIOUS
<1> USE DEF UploadTyped, Reading, Drained, clientVars, s3Vars, goto, DumpSeen
<1>1. CASE InitiateUpload \/ CheckContext \/ ReadPart
    <2>1. CASE InitiateUpload \/ ReadPart
        <3>1. reader' \in {"top", "acquire", "failed"} /\ UNCHANGED <<dump, last, uploadErr>>
            BY <2>1 DEF InitiateUpload, ReadPart
        <3>2. dump = "running" /\ ~last
            BY <2>1 DEF InitiateUpload, ReadPart
        <3> QED
            BY <3>1, <3>2
    <2>2. CASE CheckContext /\ ctx
        BY <2>2 DEF CheckContext
    <2>3. CASE CheckContext /\ ~ctx
        BY <2>3 DEF CheckContext
    <2> QED
        BY <1>1, <2>1, <2>2, <2>3
<1>2. CASE DumpEnds
    BY <1>2 DEF DumpEnds
<1>3. CASE StartWorker \/ GiveUpAcquire
    BY <1>3 DEF StartWorker, GiveUpAcquire
<1>4. ASSUME NEW p \in Part, UploadPart(p) \/ SendResult(p) PROVE DumpSeen'
    BY <1>4 DEF UploadPart, SendResult
<1>5. CASE Collect
    BY <1>5 DEF Collect, PartsPlaced
<1>6. CASE WaitWorkers \/ UploadEmptyPart \/ CompleteUpload \/ AbortUpload
    BY <1>6 DEF WaitWorkers, UploadEmptyPart, CompleteUpload, AbortUpload
<1>7. CASE ReturnBackup \/ CrashUpload
    BY <1>7 DEF ReturnBackup, CrashUpload
<1>8. CASE Elsewhere
    BY <1>8, ElsewhereKeeps
<1> QED
    BY <1>1, <1>2, <1>3, <1>4, <1>5, <1>6, <1>7, <1>8 DEF UploadNext, ClientStep, Elsewhere

\* The place of each part, while the upload can still be completed.
LEMMA PartsAccountedNext ==
    UploadTyped /\ PartsPlaced /\ DumpSeen /\ PartsAccounted /\ [UploadNext]_uploadVars
        => PartsAccounted'
<1> SUFFICES ASSUME UploadTyped, PartsPlaced, DumpSeen, PartsAccounted, [UploadNext]_uploadVars
             PROVE PartsAccounted'
    OBVIOUS
<1> DEFINE Kept(p) == \/ p = held \/ p \in Running \/ p \in uploaded
                      \/ \E good \in BOOLEAN : <<p, good>> \in results
<1> USE DEF UploadTyped, Reading, Drained, clientVars, s3Vars, goto
<1>1. ASSUME \A p \in 1..written' : ctx' /\ ~uploadErr' => Kept(p)',
             reader' \notin {"empty", "complete"}
      PROVE  PartsAccounted'
    BY <1>1 DEF PartsAccounted
<1>2. \A p \in 1..written : ctx /\ ~uploadErr => Kept(p)
    BY DEF PartsAccounted
<1>3. CASE InitiateUpload \/ CheckContext
    <2>1. reader' \notin {"empty", "complete"} /\ (uploadErr => uploadErr')
        BY <1>3 DEF InitiateUpload, CheckContext
    <2>2. UNCHANGED <<written, ctx, held, worker, results, uploaded>>
        BY <1>3 DEF InitiateUpload, CheckContext
    <2> QED
        BY <1>1, <1>2, <2>1, <2>2 DEF Running
<1>4. CASE ReadPart \/ DumpEnds
    <2>1. /\ held = 0 /\ UNCHANGED <<ctx, worker, results, uploaded>> /\ (uploadErr => uploadErr')
          /\ \/ written' = written + 1 /\ held' = written + 1
             \/ written' = written /\ held' = 0
          /\ reader' \notin {"empty", "complete"}
        BY <1>4 DEF ReadPart, DumpEnds, PartsPlaced
    <2>2. \A p \in 1..written' : p \in 1..written \/ p = held'
        BY <2>1
    <2>3. \A p \in 1..written : p # held
        BY <2>1
    <2> QED
        BY <1>1, <1>2, <2>1, <2>2, <2>3 DEF Running
<1>5. CASE StartWorker
    <2>1. /\ held \in Part /\ (uploadErr => uploadErr') /\ reader' \notin {"empty", "complete"}
          /\ UNCHANGED <<written, ctx, results, uploaded>>
        BY <1>5 DEF StartWorker, PartsPlaced, Part
    <2>2. ~uploadErr => Running' = Running \cup {held}
        BY <1>5, <2>1 DEF StartWorker, Running
    <2> QED
        BY <1>1, <1>2, <2>1, <2>2
<1>6. CASE GiveUpAcquire
    BY <1>1, <1>6 DEF GiveUpAcquire
<1>7. ASSUME NEW q \in Part, UploadPart(q) PROVE PartsAccounted'
    <2>1. Running' = Running
        BY <1>7 DEF UploadPart, Running
    <2> QED
        BY <1>7, <2>1 DEF UploadPart, PartsAccounted, Whole
<1>8. ASSUME NEW q \in Part, SendResult(q) PROVE PartsAccounted'
    <2>1. q \in Running /\ Running' = Running \ {q} /\ reader' = reader
        BY <1>8 DEF SendResult, Running
    <2>2. reader' \notin {"empty", "complete"}
        BY <2>1 DEF PartsPlaced
    <2>3. /\ results \subseteq results' /\ UNCHANGED <<written, ctx, held, uploaded, uploadErr>>
          /\ ctx => <<q, worker[q] = "sent">> \in results'
        BY <1>8 DEF SendResult
    <2>4. PICK good \in BOOLEAN : good = (worker[q] = "sent")
        OBVIOUS
    <2> QED
        BY <1>1, <1>2, <2>1, <2>2, <2>3, <2>4
<1>9. CASE Collect
    <2>1. PICK res \in results :
              /\ results' = results \ {res}
              /\ uploaded' = IF res[2] THEN uploaded \cup {res[1]} ELSE uploaded
              /\ uploadErr' = (uploadErr \/ ~res[2])
        BY <1>9 DEF Collect
    <2>2. UNCHANGED <<written, ctx, held, worker, reader>> /\ reader \notin {"empty", "complete"}
        BY <1>9 DEF Collect, PartsPlaced
    <2>3. PICK q \in Part, good \in BOOLEAN : res = <<q, good>>
        BY <2>1
    <2>4. CASE good
        BY <1>1, <1>2, <2>1, <2>2, <2>3, <2>4 DEF Running
    <2>5. CASE ~good
        BY <1>1, <2>1, <2>2, <2>3, <2>5
    <2> QED
        BY <2>4, <2>5
<1>10. CASE WaitWorkers
    <2>1. held = 0 /\ Running = {} /\ results = {} /\ uploaded \subseteq 1..written
        BY <1>10 DEF WaitWorkers, PartsPlaced
    <2>2. UNCHANGED <<written, ctx, held, worker, results, uploaded, uploadErr>>
        BY <1>10 DEF WaitWorkers
    <2>3. ASSUME reader' = "complete", ctx PROVE uploaded = Whole
        <3>1. ~uploadErr /\ uploaded # {}
            BY <1>10, <2>3 DEF WaitWorkers
        <3>2. 1..written \subseteq uploaded
            BY <1>2, <2>1, <2>3, <3>1
        <3>3. written # 0
            <4>1. PICK p \in 1..written : TRUE
                BY <2>1, <3>1
            <4> QED
                BY <4>1
        <3> QED
            BY <2>1, <3>2, <3>3 DEF Whole
    <2>4. reader' = "empty" => uploaded = {}
        BY <1>10 DEF WaitWorkers
    <2> QED
        BY <2>2, <2>3, <2>4 DEF PartsAccounted, Whole, Running
<1>11. CASE UploadEmptyPart
    <2>1. held = 0 /\ Running = {} /\ results = {} /\ ~uploadErr /\ uploaded = {}
        BY <1>11 DEF UploadEmptyPart, PartsPlaced, DumpSeen, PartsAccounted
    <2>2. ctx => written = 0
        BY <1>2, <2>1
    <2>3. /\ UNCHANGED <<written, ctx, held, worker, results, uploadErr>>
          /\ reader' \in {"complete", "abort"} /\ (reader' = "complete" => uploaded' = {1})
        BY <1>11 DEF UploadEmptyPart
    <2>4. written = 0 => 1..written = {} /\ Whole = {1}
        BY DEF Whole
    <2> QED
        BY <2>2, <2>3, <2>4 DEF PartsAccounted, Whole
<1>12. CASE CompleteUpload \/ AbortUpload
    <2>1. UNCHANGED <<written, ctx, held, worker, results, uploaded, uploadErr>>
        BY <1>12 DEF CompleteUpload, AbortUpload
    <2>2. reader' \notin {"empty", "complete"}
        BY <1>12 DEF CompleteUpload, AbortUpload
    <2> QED
        BY <1>1, <1>2, <2>1, <2>2 DEF Running
<1>13. CASE ReturnBackup
    BY <1>13 DEF ReturnBackup, PartsAccounted, Whole, Running
<1>14. CASE CrashUpload
    BY <1>1, <1>14 DEF CrashUpload
<1>15. CASE Elsewhere
    <2>1. ctx' => ctx
        BY <1>15 DEF Elsewhere, EndContext, UploadAges, PruneStale, BeginRestore, CopyRestore,
           EndRestore, uploadVars
    <2> QED
        BY <1>15, <2>1, ElsewhereKeeps DEF PartsAccounted, Whole, Running
<1> QED
    BY <1>3, <1>4, <1>5, <1>6, <1>7, <1>8, <1>9, <1>10, <1>11, <1>12, <1>13, <1>14, <1>15
    DEF UploadNext, ClientStep, Elsewhere

\* What S3 holds follows the client.
LEMMA StoredNext ==
    /\ UploadTyped /\ PartsPlaced /\ DumpSeen /\ PartsAccounted /\ Reported /\ Stored
    /\ [UploadNext]_uploadVars
    => Stored'
<1> SUFFICES ASSUME UploadTyped, PartsPlaced, DumpSeen, PartsAccounted, Reported, Stored,
                    [UploadNext]_uploadVars
             PROVE Stored'
    OBVIOUS
<1> USE DEF UploadTyped, Reading, Drained, Over, clientVars, s3Vars, goto, Stored, Whole
<1>1. CASE InitiateUpload
    BY <1>1 DEF InitiateUpload
<1>2. CASE CheckContext \/ ReadPart \/ DumpEnds \/ StartWorker \/ GiveUpAcquire \/ WaitWorkers
    BY <1>2 DEF CheckContext, ReadPart, DumpEnds, StartWorker, GiveUpAcquire, WaitWorkers
<1>3. ASSUME NEW p \in Part, UploadPart(p) \/ SendResult(p) PROVE Stored'
    BY <1>3 DEF UploadPart, SendResult
<1>4. CASE Collect \/ UploadEmptyPart
    BY <1>4 DEF Collect, UploadEmptyPart
<1>5. CASE CompleteUpload
    <2>1. dump = "ok" /\ (ctx => uploaded = Whole) /\ upload # "completed"
        BY <1>5 DEF CompleteUpload, DumpSeen, PartsAccounted
    <2> QED
        BY <1>5, <2>1 DEF CompleteUpload
<1>6. CASE AbortUpload
    BY <1>6 DEF AbortUpload
<1>7. CASE ReturnBackup
    BY <1>7 DEF ReturnBackup
<1>8. CASE CrashUpload
    BY <1>8 DEF CrashUpload
<1>9. CASE EndContext \/ UploadAges \/ PruneStale
    BY <1>9 DEF EndContext, UploadAges, PruneStale
<1>10. CASE BeginRestore \/ CopyRestore \/ EndRestore \/ UNCHANGED uploadVars
    BY <1>10 DEF BeginRestore, CopyRestore, EndRestore, uploadVars
<1> QED
    BY <1>1, <1>2, <1>3, <1>4, <1>5, <1>6, <1>7, <1>8, <1>9, <1>10 DEF UploadNext, ClientStep

LEMMA ReportedNext ==
    UploadTyped /\ DumpSeen /\ Stored /\ Reported /\ [UploadNext]_uploadVars => Reported'
<1> SUFFICES ASSUME UploadTyped, DumpSeen, Stored, Reported, [UploadNext]_uploadVars PROVE Reported'
    OBVIOUS
<1> USE DEF UploadTyped, Reading, Drained, Over, clientVars, s3Vars, goto, Reported
<1>1. CASE \/ InitiateUpload \/ CheckContext \/ ReadPart \/ DumpEnds \/ StartWorker \/ GiveUpAcquire
           \/ Collect \/ WaitWorkers \/ UploadEmptyPart
           \/ \E p \in Part : UploadPart(p) \/ SendResult(p)
    <2> DEFINE Working ==
            /\ UNCHANGED <<ctx, object, backup, restore>>
            /\ reader' = "crashed" => reader = "crashed"
            /\ reader \in Over => reader' = reader
            /\ upload = "completed" => upload' = "completed"
    <2>1. InitiateUpload => Working
        BY DEF InitiateUpload, Stored
    <2>2. CheckContext \/ ReadPart \/ DumpEnds => Working
        BY DEF CheckContext, ReadPart, DumpEnds
    <2>3. StartWorker \/ GiveUpAcquire \/ WaitWorkers \/ UploadEmptyPart => Working
        BY DEF StartWorker, GiveUpAcquire, WaitWorkers, UploadEmptyPart
    <2>4. Collect => Working
        BY DEF Collect
    <2>5. \A p \in Part : UploadPart(p) \/ SendResult(p) => Working
        BY DEF UploadPart, SendResult
    <2>6. Working => Reported'
        OBVIOUS
    <2> QED
        BY <1>1, <2>1, <2>2, <2>3, <2>4, <2>5, <2>6
<1>2. CASE CompleteUpload
    BY <1>2 DEF CompleteUpload, Stored
<1>3. CASE AbortUpload
    BY <1>3 DEF AbortUpload
<1>4. CASE ReturnBackup
    BY <1>4 DEF ReturnBackup
<1>5. CASE CrashUpload
    BY <1>5 DEF CrashUpload
<1>6. CASE EndContext \/ UploadAges \/ PruneStale
    BY <1>6 DEF EndContext, UploadAges, PruneStale
<1>7. CASE BeginRestore
    BY <1>7 DEF BeginRestore
<1>8. CASE CopyRestore \/ EndRestore
    BY <1>8 DEF CopyRestore, EndRestore
<1>9. CASE UNCHANGED uploadVars
    BY <1>9 DEF uploadVars
<1> QED
    BY <1>1, <1>2, <1>3, <1>4, <1>5, <1>6, <1>7, <1>8, <1>9 DEF UploadNext, ClientStep
-----------------------------------------------------------------------------
THEOREM UploadInvHolds == UploadSpec => []UploadInv
<1>1. UploadInv /\ [UploadNext]_uploadVars => UploadInv'
    BY UploadTypedNext, LimitsNext, AttemptsNext, PartsPlacedNext, DumpSeenNext,
       PartsAccountedNext, StoredNext, ReportedNext DEF UploadInv
<1> QED
    BY <1>1, UploadInvInit, PTL DEF UploadSpec

\* The types of the upload's variables, the semaphore and the channel of results: never more
\* parts in flight, and never more results waiting, than MaxConcurrency.
THEOREM UploadTypeCorrect == UploadSpec => []UploadTypeOK
<1>1. UploadInv => UploadTypeOK
    BY DEF UploadInv, UploadTyped, Limits, Reported, UploadTypeOK, Reading, Drained
<1> QED
    BY <1>1, UploadInvHolds, PTL

\* For a dump of any length, any concurrency and any number of attempts: an object in S3, a
\* backup reported as good and a restore reported as done are of the whole dump, save where S3
\* refused in the body of an answer 200.
THEOREM BackupIsWholeDumpHolds == UploadSpec => []BackupIsWholeDump
<1>1. UploadInv => BackupIsWholeDump
    <2> SUFFICES ASSUME UploadInv PROVE BackupIsWholeDump
        OBVIOUS
    <2>1. UploadTypeOK
        BY DEF UploadInv, UploadTyped, Limits, Reported, UploadTypeOK, Reading, Drained
    <2> QED
        BY <2>1 DEF UploadInv, Stored, Reported, Whole, BackupIsWholeDump
<1> QED
    BY <1>1, UploadInvHolds, PTL

\* An upload is left open by a finished backup only when an answer or an abort was lost, and none
\* is aborted under a backup that could still complete it.
THEOREM NoOrphanUploadHolds == UploadSpec => []NoOrphanUpload
<1>1. UploadInv => NoOrphanUpload
    BY DEF UploadInv, Stored, Reported, Over, NoOrphanUpload
<1> QED
    BY <1>1, UploadInvHolds, PTL
==================================================================================
