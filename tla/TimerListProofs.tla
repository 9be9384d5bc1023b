-------------------------- MODULE TimerListProofs --------------------------
(* Theorems of TimerList, for any number of timers and any times: the      *)
(* pointers always form one ascending doubly linked list of the live       *)
(* timers, and the list implements the set of timers its callers see.      *)
EXTENDS TimerList, FiniteSetTheorems, WellFoundedInduction, TLAPS

LEMMA Least ==
  ASSUME NEW A \in SUBSET Nat, A # {}
  PROVE  \E m \in A : \A a \in A : m <= a
<1> DEFINE R == OpToRel(<, Nat)
<1>1. IsWellFoundedOn(R, Nat)
  BY NatLessThanWellFounded
<1>2. \A a, b \in Nat : <<a, b>> \in R <=> a < b
  BY DEF OpToRel
<1> HIDE DEF R
<1>3. PICK m \in A : \A a \in A : ~(<<a, m>> \in R)
  BY <1>1, WFMin
<1>4. ASSUME NEW a \in A PROVE m <= a
  <2>1. m \in Nat /\ a \in Nat /\ ~(a < m)
    BY <1>2, <1>3, <1>4
  <2> QED
    BY <2>1
<1> QED
  BY <1>4

LEMMA Greatest ==
  ASSUME NEW n \in Nat, NEW A \in SUBSET (0 .. n), A # {}
  PROVE  \E m \in A : \A a \in A : a <= m
<1>1. PICK d \in {n - a : a \in A} : \A e \in {n - a : a \in A} : d <= e
  <2>1. \A a \in A : n - a \in Nat
    OBVIOUS
  <2>2. {n - a : a \in A} \in SUBSET Nat /\ {n - a : a \in A} # {}
    BY <2>1
  <2> QED
    BY <2>2, Least
<1>2. PICK m \in A : d = n - m
  OBVIOUS
<1>3. ASSUME NEW a \in A PROVE a <= m
  <2>1. d <= n - a /\ a \in 0 .. n /\ m \in 0 .. n
    BY <1>1
  <2> QED
    BY <1>2, <2>1
<1> QED
  BY <1>3

----------------------------------------------------------------------------
(* The nodes s[1], ..., s[n] linked in this order, for the expiries x.     *)
Chain(L, x, n, s) ==
  /\ n \in Nat /\ s \in [1 .. n -> Timers]
  /\ \A i, j \in 1 .. n : i < j => s[i] # s[j] /\ x[s[i]] <= x[s[j]]
  /\ \A i \in 1 .. n : /\ L.next[s[i]] = IF i = n THEN Nil ELSE s[i + 1]
                       /\ L.prev[s[i]] = IF i = 1 THEN Nil ELSE s[i - 1]
  /\ L.head = IF n = 0 THEN Nil ELSE s[1]
  /\ n > 0 => L.tail = s[n]

Nodes(n, s) == {s[i] : i \in 1 .. n}

(* The first m nodes are those due at time v. *)
Ranked(x, v, n, s, m) == \A i \in 1 .. n : x[s[i]] <= v <=> i <= m

LEMMA Rank ==
  ASSUME NEW L, NEW x \in [Timers -> Nat], NEW n, NEW s, Chain(L, x, n, s), NEW v \in Nat
  PROVE  \E m \in 0 .. n : Ranked(x, v, n, s, m)
<1> DEFINE A == {i \in 0 .. n : i = 0 \/ (i \in 1 .. n /\ x[s[i]] <= v)}
<1>1. n \in Nat /\ s \in [1 .. n -> Timers]
  BY DEF Chain
<1>2. A \in SUBSET (0 .. n) /\ 0 \in A
  BY <1>1
<1>3. PICK m \in A : \A a \in A : a <= m
  BY <1>1, <1>2, Greatest
<1>4. m \in 0 .. n
  BY <1>2
<1>5. ASSUME NEW i \in 1 .. n PROVE x[s[i]] <= v <=> i <= m
  <2>1. x[s[i]] \in Nat /\ i \in 0 .. n
    BY <1>1
  <2>2. ASSUME x[s[i]] <= v PROVE i <= m
    BY <1>3, <2>1, <2>2
  <2>3. ASSUME i <= m PROVE x[s[i]] <= v
    <3>1. m \in 1 .. n /\ x[s[m]] <= v /\ x[s[m]] \in Nat
      BY <1>1, <1>4, <2>3
    <3>2. i = m \/ i < m
      BY <1>4, <2>3
    <3>3. x[s[i]] <= x[s[m]]
      BY <2>1, <3>1, <3>2 DEF Chain
    <3> QED
      BY <2>1, <3>1, <3>3
  <2> QED
    BY <2>2, <2>3
<1> QED
  BY <1>4, <1>5 DEF Ranked

(* t put behind the m-th node. *)
Put(s, n, m, t) ==
  [i \in 1 .. n + 1 |-> IF i <= m THEN s[i] ELSE IF i = m + 1 THEN t ELSE s[i - 1]]

IsPut(L, n, s, m, t, R) ==
  /\ R.next[t] = IF m = n THEN Nil ELSE s[m + 1]
  /\ R.prev[t] = IF m = 0 THEN Nil ELSE s[m]
  /\ \A i \in 1 .. n : /\ R.next[s[i]] = IF i = m THEN t ELSE L.next[s[i]]
                       /\ R.prev[s[i]] = IF i = m + 1 THEN t ELSE L.prev[s[i]]
  /\ R.head = IF m = 0 THEN t ELSE L.head
  /\ R.tail = IF m = n THEN t ELSE L.tail

LEMMA PutIn ==
  ASSUME NEW L, NEW x \in [Timers -> Nat], NEW n, NEW s, Chain(L, x, n, s),
         NEW t \in Timers, t \notin Nodes(n, s),
         NEW m \in 0 .. n, Ranked(x, x[t], n, s, m), NEW R, IsPut(L, n, s, m, t, R)
  PROVE  /\ Chain(R, x, n + 1, Put(s, n, m, t))
         /\ Nodes(n + 1, Put(s, n, m, t)) = Nodes(n, s) \cup {t}
<1> \A i \in 1 .. n : x[s[i]] <= x[t] <=> i <= m
  BY DEF Ranked
<1> /\ R.next[t] = IF m = n THEN Nil ELSE s[m + 1]
    /\ R.prev[t] = IF m = 0 THEN Nil ELSE s[m]
    /\ \A i \in 1 .. n : /\ R.next[s[i]] = IF i = m THEN t ELSE L.next[s[i]]
                         /\ R.prev[s[i]] = IF i = m + 1 THEN t ELSE L.prev[s[i]]
    /\ R.head = IF m = 0 THEN t ELSE L.head
    /\ R.tail = IF m = n THEN t ELSE L.tail
  BY DEF IsPut
<1> DEFINE N == n + 1
           p == Put(s, n, m, t)
<1>1. n \in Nat /\ s \in [1 .. n -> Timers] /\ N \in Nat /\ m \in Nat
  BY DEF Chain
<1>2. /\ \A i \in 1 .. m : i \in 1 .. n /\ i \in 1 .. N /\ p[i] = s[i]
      /\ m + 1 \in 1 .. N /\ p[m + 1] = t
      /\ \A i \in m + 2 .. N : i - 1 \in m + 1 .. n /\ i - 1 \in 1 .. n /\ p[i] = s[i - 1]
      /\ \A i \in 1 .. N : i \in 1 .. m \/ i = m + 1 \/ i \in m + 2 .. N
  BY <1>1 DEF Put
<1>3. p \in [1 .. N -> Timers]
  BY <1>1 DEF Put
<1> HIDE DEF p, N
<1>4. \A i \in 1 .. n : s[i] # t /\ x[s[i]] \in Nat /\ x[t] \in Nat
  BY <1>1 DEF Nodes
<1>5. \A i, j \in 1 .. N : i < j => p[i] # p[j] /\ x[p[i]] <= x[p[j]]
  <2> SUFFICES ASSUME NEW i \in 1 .. N, NEW j \in 1 .. N, i < j
               PROVE  p[i] # p[j] /\ x[p[i]] <= x[p[j]]
    OBVIOUS
  <2>1. CASE j \in 1 .. m
    <3>1. i \in 1 .. m
      BY <1>1, <2>1
    <3> QED
      BY <1>2, <2>1, <3>1 DEF Chain
  <2>2. CASE j = m + 1
    <3>1. i \in 1 .. m
      BY <1>1, <2>2
    <3> QED
      BY <1>2, <1>4, <2>2, <3>1
  <2>3. CASE j \in m + 2 .. N
    <3>1. CASE i \in 1 .. m
      <4>0. i \in 1 .. n /\ j - 1 \in m + 1 .. n /\ j - 1 \in 1 .. n
        BY <1>2, <2>3, <3>1
      <4>1. i < j - 1 /\ i \in 1 .. n /\ j - 1 \in 1 .. n
        BY <1>1, <3>1, <4>0
      <4>2. p[i] = s[i] /\ p[j] = s[j - 1]
        BY <1>2, <2>3, <3>1
      <4>3. s[i] # s[j - 1] /\ x[s[i]] <= x[s[j - 1]]
        BY <4>1 DEF Chain
      <4> QED
        BY <4>2, <4>3
    <3>2. CASE i = m + 1
      <4>1. j - 1 \in 1 .. n /\ ~(j - 1 <= m)
        BY <1>1, <1>2, <2>3
      <4>2. p[i] = t /\ p[j] = s[j - 1]
        BY <1>2, <2>3, <3>2
      <4>3. ~(x[s[j - 1]] <= x[t])
        BY <4>1
      <4> QED
        BY <1>4, <4>1, <4>2, <4>3
    <3>3. CASE i \in m + 2 .. N
      <4>0. i - 1 \in 1 .. n /\ j - 1 \in 1 .. n
        BY <1>2, <2>3, <3>3
      <4>1. i - 1 < j - 1 /\ i - 1 \in 1 .. n /\ j - 1 \in 1 .. n
        BY <1>1, <4>0
      <4>2. p[i] = s[i - 1] /\ p[j] = s[j - 1]
        BY <1>2, <2>3, <3>3
      <4>3. s[i - 1] # s[j - 1] /\ x[s[i - 1]] <= x[s[j - 1]]
        BY <4>1 DEF Chain
      <4> QED
        BY <4>2, <4>3
    <3> QED
      BY <1>2, <3>1, <3>2, <3>3
  <2> QED
    BY <1>2, <2>1, <2>2, <2>3
<1>6. \A i \in 1 .. N : R.next[p[i]] = IF i = N THEN Nil ELSE p[i + 1]
  <2> SUFFICES ASSUME NEW i \in 1 .. N PROVE R.next[p[i]] = IF i = N THEN Nil ELSE p[i + 1]
    OBVIOUS
  <2>1. CASE i \in 1 .. m
    <3>1. i # N /\ i \in 1 .. n
      BY <1>1, <2>1 DEF N
    <3>2. CASE i = m
      BY <1>2, <2>1, <3>1, <3>2
    <3>3. CASE i # m
      <4>1. i + 1 \in 1 .. m /\ i # n
        BY <1>1, <2>1, <3>3
      <4> QED
        BY <1>2, <2>1, <3>1, <3>3, <4>1 DEF Chain
    <3> QED
      BY <3>2, <3>3
  <2>2. CASE i = m + 1
    <3>1. i = N <=> m = n
      BY <1>1, <2>2 DEF N
    <3>2. m # n => m + 2 \in m + 2 .. N /\ (m + 2) - 1 = m + 1 /\ i + 1 = m + 2
      BY <1>1, <2>2 DEF N
    <3> QED
      BY <1>2, <2>2, <3>1, <3>2
  <2>3. CASE i \in m + 2 .. N
    <3>1. i - 1 # m /\ (i = N <=> i - 1 = n) /\ (i - 1) + 1 = i
      BY <1>1, <2>3 DEF N
    <3>2. i # N => i + 1 \in m + 2 .. N /\ (i + 1) - 1 = i
      BY <1>1, <2>3 DEF N
    <3> QED
      BY <1>2, <2>3, <3>1, <3>2 DEF Chain
  <2> QED
    BY <1>2, <2>1, <2>2, <2>3
<1>7. \A i \in 1 .. N : R.prev[p[i]] = IF i = 1 THEN Nil ELSE p[i - 1]
  <2> SUFFICES ASSUME NEW i \in 1 .. N PROVE R.prev[p[i]] = IF i = 1 THEN Nil ELSE p[i - 1]
    OBVIOUS
  <2>1. CASE i \in 1 .. m
    <3>1. i # m + 1 /\ i \in 1 .. n /\ (i # 1 => i - 1 \in 1 .. m)
      BY <1>1, <2>1
    <3> QED
      BY <1>2, <2>1, <3>1 DEF Chain
  <2>2. CASE i = m + 1
    <3>1. (i = 1 <=> m = 0) /\ i - 1 = m /\ (m # 0 => m \in 1 .. m)
      BY <1>1, <2>2
    <3> QED
      BY <1>2, <2>2, <3>1
  <2>3. CASE i \in m + 2 .. N
    <3>1. i # 1 /\ i - 1 \in 1 .. n
      BY <1>1, <2>3 DEF N
    <3>2. CASE i = m + 2
      <4>1. i - 1 = m + 1
        BY <1>1, <3>2
      <4> QED
        BY <1>2, <2>3, <3>1, <4>1
    <3>3. CASE i # m + 2
      <4>1. /\ i - 1 \in m + 2 .. N /\ i - 1 # m + 1 /\ i - 1 # 1
        BY <1>1, <2>3, <3>3 DEF N
      <4> QED
        BY <1>2, <2>3, <3>1, <4>1 DEF Chain
    <3> QED
      BY <3>2, <3>3
  <2> QED
    BY <1>2, <2>1, <2>2, <2>3
<1>8. R.head = p[1] /\ R.tail = p[N] /\ N # 0
  <2>1. N # 0
    BY <1>1 DEF N
  <2>2. R.head = p[1]
    <3>1. CASE m = 0
      BY <1>2, <3>1
    <3>2. CASE m # 0
      <4>1. 1 \in 1 .. m /\ n # 0
        BY <1>1, <3>2
      <4> QED
        BY <1>2, <3>2, <4>1 DEF Chain
    <3> QED
      BY <3>1, <3>2
  <2>3. R.tail = p[N]
    <3>1. CASE m = n
      BY <1>2, <3>1 DEF N
    <3>2. CASE m # n
      <4>1. N \in m + 2 .. N /\ N - 1 = n /\ n > 0
        BY <1>1, <3>2 DEF N
      <4> QED
        BY <1>2, <3>2, <4>1 DEF Chain
    <3> QED
      BY <3>1, <3>2
  <2> QED
    BY <2>1, <2>2, <2>3
<1>9. Nodes(N, p) = Nodes(n, s) \cup {t}
  <2>1. \A i \in 1 .. N : p[i] \in Nodes(n, s) \cup {t}
    BY <1>2 DEF Nodes
  <2>2. \A i \in 1 .. n : s[i] \in Nodes(N, p)
    <3> SUFFICES ASSUME NEW i \in 1 .. n PROVE s[i] \in Nodes(N, p)
      OBVIOUS
    <3>1. CASE i <= m
      <4>1. i \in 1 .. m
        BY <1>1, <3>1
      <4> QED
        BY <1>2, <4>1 DEF Nodes
    <3>2. CASE ~(i <= m)
      <4>1. i + 1 \in m + 2 .. N /\ (i + 1) - 1 = i /\ i + 1 \in 1 .. N
        BY <1>1, <3>2 DEF N
      <4>2. p[i + 1] = s[i]
        BY <1>2, <4>1
      <4> QED
        BY <4>1, <4>2 DEF Nodes
    <3> QED
      BY <3>1, <3>2
  <2>3. t \in Nodes(N, p)
    BY <1>2 DEF Nodes
  <2> QED
    BY <2>1, <2>2, <2>3 DEF Nodes
<1> QED
  BY <1>1, <1>3, <1>5, <1>6, <1>7, <1>8, <1>9 DEF Chain, p, N

(* The k-th node taken out. *)
Drop(s, n, k) == [i \in 1 .. n - 1 |-> IF i < k THEN s[i] ELSE s[i + 1]]

IsTakenOut(L, n, s, k, R) ==
  /\ \A i \in 1 .. n : i # k =>
       /\ R.next[s[i]] = IF i = k - 1 THEN L.next[s[k]] ELSE L.next[s[i]]
       /\ R.prev[s[i]] = IF i = k + 1 THEN L.prev[s[k]] ELSE L.prev[s[i]]
  /\ R.head = IF k = 1 THEN L.next[s[k]] ELSE L.head
  /\ n > 1 => R.tail = IF k = n THEN L.prev[s[k]] ELSE L.tail

LEMMA TakenOut ==
  ASSUME NEW L, NEW x, NEW n, NEW s, Chain(L, x, n, s), NEW k \in 1 .. n,
         NEW R, IsTakenOut(L, n, s, k, R)
  PROVE  /\ Chain(R, x, n - 1, Drop(s, n, k))
         /\ Nodes(n - 1, Drop(s, n, k)) = Nodes(n, s) \ {s[k]}
<1> USE DEF IsTakenOut
<1> DEFINE N == n - 1
           p == Drop(s, n, k)
<1>1. n \in Nat /\ s \in [1 .. n -> Timers] /\ N \in Nat /\ k \in Nat
  BY DEF Chain
<1>2. /\ \A i \in 1 .. k - 1 : i \in 1 .. n /\ i \in 1 .. N /\ p[i] = s[i] /\ i # k
      /\ \A i \in k .. N : i + 1 \in 1 .. n /\ i \in 1 .. N /\ p[i] = s[i + 1] /\ i + 1 # k
      /\ \A i \in 1 .. N : i \in 1 .. k - 1 \/ i \in k .. N
  BY <1>1 DEF Drop
<1>3. p \in [1 .. N -> Timers]
  BY <1>1 DEF Drop
<1> HIDE DEF p, N
<1>4. \A i, j \in 1 .. N : i < j => p[i] # p[j] /\ x[p[i]] <= x[p[j]]
  <2> SUFFICES ASSUME NEW i \in 1 .. N, NEW j \in 1 .. N, i < j
               PROVE  p[i] # p[j] /\ x[p[i]] <= x[p[j]]
    OBVIOUS
  <2>1. CASE j \in 1 .. k - 1
    <3>1. i \in 1 .. k - 1
      BY <1>1, <2>1
    <3> QED
      BY <1>2, <2>1, <3>1 DEF Chain
  <2>2. CASE j \in k .. N
    <3>1. p[j] = s[j + 1] /\ j + 1 \in 1 .. n /\ i < j + 1 /\ i + 1 < j + 1
      BY <1>1, <1>2, <2>2
    <3>2. CASE i \in 1 .. k - 1
      BY <1>2, <3>1, <3>2 DEF Chain
    <3>3. CASE i \in k .. N
      BY <1>2, <3>1, <3>3 DEF Chain
    <3> QED
      BY <1>2, <3>2, <3>3
  <2> QED
    BY <1>2, <2>1, <2>2
<1>5. \A i \in 1 .. N : R.next[p[i]] = IF i = N THEN Nil ELSE p[i + 1]
  <2> SUFFICES ASSUME NEW i \in 1 .. N PROVE R.next[p[i]] = IF i = N THEN Nil ELSE p[i + 1]
    OBVIOUS
  <2>1. CASE i \in 1 .. k - 1
    <3>1. CASE i = k - 1
      <4>1. (k = n <=> i = N) /\ (i # N => i + 1 = k /\ k \in k .. N) /\ k \in 1 .. n
        BY <1>1, <2>1, <3>1 DEF N
      <4> QED
        BY <1>2, <2>1, <3>1, <4>1 DEF Chain
    <3>2. CASE i # k - 1
      <4>1. i + 1 \in 1 .. k - 1 /\ i # n /\ i # N
        BY <1>1, <2>1, <3>2 DEF N
      <4> QED
        BY <1>2, <2>1, <3>2, <4>1 DEF Chain
    <3> QED
      BY <3>1, <3>2
  <2>2. CASE i \in k .. N
    <3>1. i + 1 # k - 1 /\ (i = N <=> i + 1 = n) /\ (i # N => i + 1 \in k .. N)
      BY <1>1, <2>2 DEF N
    <3> QED
      BY <1>2, <2>2, <3>1 DEF Chain
  <2> QED
    BY <1>2, <2>1, <2>2
<1>6. \A i \in 1 .. N : R.prev[p[i]] = IF i = 1 THEN Nil ELSE p[i - 1]
  <2> SUFFICES ASSUME NEW i \in 1 .. N PROVE R.prev[p[i]] = IF i = 1 THEN Nil ELSE p[i - 1]
    OBVIOUS
  <2>1. CASE i \in 1 .. k - 1
    <3>1. i # k + 1 /\ (i # 1 => i - 1 \in 1 .. k - 1)
      BY <1>1, <2>1
    <3> QED
      BY <1>2, <2>1, <3>1 DEF Chain
  <2>2. CASE i \in k .. N
    <3>1. CASE i = k
      <4>1. i + 1 = k + 1 /\ (k # 1 => k - 1 \in 1 .. k - 1)
        BY <1>1, <3>1
      <4> QED
        BY <1>2, <2>2, <3>1, <4>1 DEF Chain
    <3>2. CASE i # k
      <4>1. i + 1 # k + 1 /\ i # 1 /\ i - 1 \in k .. N /\ (i - 1) + 1 = i /\ (i + 1) - 1 = i
            /\ i + 1 # 1
        BY <1>1, <2>2, <3>2 DEF N
      <4> QED
        BY <1>2, <2>2, <3>2, <4>1 DEF Chain
    <3> QED
      BY <3>1, <3>2
  <2> QED
    BY <1>2, <2>1, <2>2
<1>7. R.head = IF N = 0 THEN Nil ELSE p[1]
  <2>1. CASE k = 1
    <3>1. (N = 0 <=> n = 1) /\ (N # 0 => 1 \in k .. N) /\ 1 \in 1 .. n
      BY <1>1, <2>1 DEF N
    <3> QED
      BY <1>2, <2>1, <3>1 DEF Chain
  <2>2. CASE k # 1
    <3>1. 1 \in 1 .. k - 1 /\ N # 0 /\ n # 0
      BY <1>1, <2>2 DEF N
    <3> QED
      BY <1>2, <2>2, <3>1 DEF Chain
  <2> QED
    BY <2>1, <2>2
<1>8. N > 0 => R.tail = p[N]
  <2> SUFFICES ASSUME N > 0 PROVE R.tail = p[N]
    OBVIOUS
  <2>1. n > 1 /\ n > 0 /\ N \in 1 .. N /\ N + 1 = n
    BY <1>1 DEF N
  <2>2. CASE k = n
    <3>1. N \in 1 .. k - 1 /\ k # 1 /\ k - 1 = N
      BY <1>1, <2>1, <2>2 DEF N
    <3> QED
      BY <1>2, <2>1, <2>2, <3>1 DEF Chain
  <2>3. CASE k # n
    <3>1. N \in k .. N
      BY <1>1, <2>1, <2>3
    <3> QED
      BY <1>2, <2>1, <2>3, <3>1 DEF Chain
  <2> QED
    BY <2>2, <2>3
<1>9. Nodes(N, p) = Nodes(n, s) \ {s[k]}
  <2>1. \A i \in 1 .. n : i # k => s[i] # s[k]
    BY <1>1 DEF Chain
  <2>2. \A i \in 1 .. N : p[i] \in Nodes(n, s) \ {s[k]}
    BY <1>2, <2>1 DEF Nodes
  <2>3. ASSUME NEW i \in 1 .. n, i # k PROVE s[i] \in Nodes(N, p)
    <3>1. CASE i < k
      <4>1. i \in 1 .. k - 1
        BY <1>1, <3>1
      <4> QED
        BY <1>2, <4>1 DEF Nodes
    <3>2. CASE ~(i < k)
      <4>1. i - 1 \in k .. N /\ (i - 1) + 1 = i
        BY <1>1, <2>3, <3>2 DEF N
      <4>2. p[i - 1] = s[i] /\ i - 1 \in 1 .. N
        BY <1>2, <4>1
      <4> QED
        BY <4>2 DEF Nodes
    <3> QED
      BY <3>1, <3>2
  <2> QED
    BY <2>2, <2>3 DEF Nodes
<1> QED
  BY <1>1, <1>3, <1>4, <1>5, <1>6, <1>7, <1>8, <1>9 DEF Chain, p, N

(* The first m nodes taken off. *)
Rest(s, n, m) == [i \in 1 .. n - m |-> s[i + m]]

IsTakenOff(L, n, s, m, R) ==
  /\ \A i \in m + 1 .. n : /\ R.next[s[i]] = L.next[s[i]]
                           /\ R.prev[s[i]] = IF i = m + 1 THEN Nil ELSE L.prev[s[i]]
  /\ R.head = IF m = n THEN Nil ELSE s[m + 1]
  /\ R.tail = L.tail

LEMMA TakenOff ==
  ASSUME NEW L, NEW x, NEW n, NEW s, Chain(L, x, n, s), NEW m \in 0 .. n,
         NEW R, IsTakenOff(L, n, s, m, R)
  PROVE  /\ Chain(R, x, n - m, Rest(s, n, m))
         /\ Nodes(n - m, Rest(s, n, m)) = {s[i] : i \in m + 1 .. n}
<1> USE DEF IsTakenOff
<1> DEFINE N == n - m
           p == Rest(s, n, m)
<1>1. n \in Nat /\ s \in [1 .. n -> Timers] /\ N \in Nat /\ m \in Nat
  BY DEF Chain
<1>2. \A i \in 1 .. N : i + m \in m + 1 .. n /\ i + m \in 1 .. n /\ p[i] = s[i + m]
  BY <1>1 DEF Rest
<1>3. p \in [1 .. N -> Timers]
  BY <1>1 DEF Rest
<1> HIDE DEF p, N
<1>4. \A i, j \in 1 .. N : i < j => p[i] # p[j] /\ x[p[i]] <= x[p[j]]
  <2> SUFFICES ASSUME NEW i \in 1 .. N, NEW j \in 1 .. N, i < j
               PROVE  p[i] # p[j] /\ x[p[i]] <= x[p[j]]
    OBVIOUS
  <2>1. i + m < j + m
    BY <1>1
  <2> QED
    BY <1>2, <2>1 DEF Chain
<1>5. \A i \in 1 .. N : R.next[p[i]] = IF i = N THEN Nil ELSE p[i + 1]
  <2> SUFFICES ASSUME NEW i \in 1 .. N PROVE R.next[p[i]] = IF i = N THEN Nil ELSE p[i + 1]
    OBVIOUS
  <2>1. /\ (i = N <=> i + m = n) /\ (i # N => i + 1 \in 1 .. N) /\ (i + 1) + m = (i + m) + 1
    BY <1>1 DEF N
  <2>2. p[i] = s[i + m] /\ i + m \in m + 1 .. n /\ i + m \in 1 .. n
    BY <1>2
  <2> DEFINE h == i + m
  <2>3. R.next[p[i]] = IF h = n THEN Nil ELSE s[h + 1]
    <3>1. p[i] = s[h] /\ h \in m + 1 .. n /\ h \in 1 .. n
      BY <2>2
    <3> HIDE DEF h
    <3>2. R.next[s[h]] = L.next[s[h]] /\ L.next[s[h]] = IF h = n THEN Nil ELSE s[h + 1]
      BY <3>1 DEF Chain
    <3> QED
      BY <3>1, <3>2
  <2>4. i # N => p[i + 1] = s[(i + m) + 1]
    BY <1>2, <2>1
  <2> QED
    BY <2>1, <2>3, <2>4
<1>6. \A i \in 1 .. N : R.prev[p[i]] = IF i = 1 THEN Nil ELSE p[i - 1]
  <2> SUFFICES ASSUME NEW i \in 1 .. N PROVE R.prev[p[i]] = IF i = 1 THEN Nil ELSE p[i - 1]
    OBVIOUS
  <2>1. (i = 1 <=> i + m = m + 1) /\ (i # 1 => i - 1 \in 1 .. N /\ i + m # 1)
        /\ (i - 1) + m = (i + m) - 1
    BY <1>1 DEF N
  <2>2. p[i] = s[i + m] /\ i + m \in m + 1 .. n /\ i + m \in 1 .. n
    BY <1>2
  <2>3. i # 1 => p[i - 1] = s[(i + m) - 1] /\ L.prev[s[i + m]] = s[(i + m) - 1]
    BY <1>2, <2>1, <2>2 DEF Chain
  <2> QED
    BY <2>1, <2>2, <2>3
<1>7. R.head = IF N = 0 THEN Nil ELSE p[1]
  <2>1. (N = 0 <=> m = n) /\ (N # 0 => 1 \in 1 .. N) /\ 1 + m = m + 1
    BY <1>1 DEF N
  <2> QED
    BY <1>2, <2>1
<1>8. N > 0 => R.tail = p[N]
  <2>1. N > 0 => n > 0 /\ N \in 1 .. N /\ N + m = n
    BY <1>1 DEF N
  <2> QED
    BY <1>2, <2>1 DEF Chain
<1>9. Nodes(N, p) = {s[i] : i \in m + 1 .. n}
  <2>1. \A i \in m + 1 .. n : i - m \in 1 .. N /\ (i - m) + m = i
    BY <1>1 DEF N
  <2>2. \A i \in m + 1 .. n : s[i] = p[i - m] /\ i - m \in 1 .. N
    BY <1>2, <2>1
  <2> QED
    BY <1>2, <2>2 DEF Nodes
<1> QED
  BY <1>1, <1>3, <1>4, <1>5, <1>6, <1>7, <1>8, <1>9 DEF Chain, p, N

----------------------------------------------------------------------------
(* The walks of add_timer and tick.                                        *)

LEMMA Special ==
  /\ Nil \notin Timers /\ Freed \notin Timers /\ Nil # Freed
  /\ IsFiniteSet(Timers) /\ MaxTime \in Nat /\ Span \in Nat
  BY TimerAssumption

(* Whatever has a successor has one in the list. *)
NextInside(L, n, s) == \A p \in Timers : L.next[p] \in Timers => L.next[p] \in Nodes(n, s)

(* From any of the nodes due with t the walk leads to the last of them. *)
LEMMA PlaceFound ==
  ASSUME NEW L, NEW x \in [Timers -> Nat], NEW n, NEW s, Chain(L, x, n, s),
         NEW t \in Timers, NEW m \in 1 .. n, Ranked(x, x[t], n, s, m),
         NextInside(L, n, s), NEW k \in 1 .. m
  PROVE  places(L, x, t)[s[k]] = s[m]
<1> USE DEF Ranked, NextInside
<1> DEFINE on(p) == L.next[p] \in Timers /\ x[t] >= x[L.next[p]]
           eq(f) == f = [p \in Timers |-> IF on(p) THEN f[L.next[p]] ELSE p]
           f == places(L, x, t)
           g == [p \in Timers |-> IF on(p) THEN s[m] ELSE p]
<1>1. n \in Nat /\ s \in [1 .. n -> Timers] /\ m \in Nat
  BY DEF Chain
<1>2. \A i \in 1 .. n : on(s[i]) <=> i < m
  <2> SUFFICES ASSUME NEW i \in 1 .. n PROVE on(s[i]) <=> i < m
    OBVIOUS
  <2>1. CASE i = n
    BY <1>1, <2>1, Special DEF Chain
  <2>2. CASE i # n
    <3>1. i + 1 \in 1 .. n /\ (i + 1 <= m <=> i < m)
      BY <1>1, <2>2
    <3>2. L.next[s[i]] = s[i + 1] /\ s[i + 1] \in Timers
      BY <1>1, <2>2, <3>1 DEF Chain
    <3>3. x[s[i + 1]] \in Nat /\ x[t] \in Nat
      BY <3>2
    <3> QED
      BY <3>1, <3>2, <3>3
  <2> QED
    BY <2>1, <2>2
<1>3. eq(g)
  <2>1. ASSUME NEW p \in Timers, on(p) PROVE g[L.next[p]] = s[m]
    <3>1. PICK i \in 1 .. n : L.next[p] = s[i]
      BY <2>1 DEF Nodes
    <3>2. x[s[i]] \in Nat /\ x[t] \in Nat /\ x[s[i]] <= x[t]
      BY <1>1, <2>1, <3>1
    <3>3. i <= m
      BY <3>2
    <3>4. CASE i = m
      <4>1. ~on(s[m])
        BY <1>1, <1>2
      <4> QED
        BY <2>1, <3>1, <3>4, <4>1
    <3>5. CASE i # m
      <4>1. on(s[i])
        BY <1>1, <1>2, <3>3, <3>5
      <4> QED
        BY <2>1, <3>1, <4>1
    <3> QED
      BY <3>4, <3>5
  <2> QED
    BY <2>1
<1>4. eq(f)
  <2>1. f = CHOOSE h : eq(h)
    BY DEF places
  <2> HIDE DEF f, g, eq
  <2> QED
    BY <1>3, <2>1
<1>5. \A p \in Timers : f[p] = IF on(p) THEN f[L.next[p]] ELSE p
  <2> HIDE DEF f, on
  <2> QED
    BY <1>4
<1> HIDE DEF f, g, eq, on
<1>6. ASSUME {i \in 1 .. m : f[s[i]] # s[m]} # {} PROVE FALSE
  <2> DEFINE D == {i \in 1 .. m : f[s[i]] # s[m]}
  <2>1. D \in SUBSET (0 .. m)
    OBVIOUS
  <2>2. PICK i \in D : \A j \in D : j <= i
    BY <1>1, <1>6, <2>1, Greatest
  <2>3. i \in 1 .. n /\ i \in 1 .. m /\ s[i] \in Timers
    BY <1>1
  <2>4. CASE i = m
    BY <1>1, <1>2, <1>5, <2>3, <2>4
  <2>5. CASE i # m
    <3>1. i + 1 \in 1 .. m /\ i # n /\ i < m /\ ~(i + 1 <= i)
      BY <1>1, <2>3, <2>5
    <3>2. f[s[i]] = f[s[i + 1]]
      <4>1. L.next[s[i]] = s[i + 1] /\ on(s[i])
        BY <1>2, <2>3, <3>1 DEF Chain
      <4> QED
        BY <1>5, <2>3, <4>1
    <3>3. f[s[i + 1]] = s[m]
      BY <2>2, <3>1
    <3> QED
      BY <3>2, <3>3
  <2> QED
    BY <2>4, <2>5
<1> QED
  BY <1>6 DEF f

LiveOnly(L, S) == \A p \in Timers : L.next[p] # Freed <=> p \in S

(* L is the list of the nodes s[1], ..., s[n]; no other node is live. *)
Whole(L, x, n, s) == L \in Lists /\ Chain(L, x, n, s) /\ LiveOnly(L, Nodes(n, s))

LEMMA LinkedIn ==
  ASSUME NEW L \in Lists, NEW x \in [Timers -> Nat], NEW n, NEW s, Chain(L, x, n, s),
         NEW t \in Timers, t \notin Nodes(n, s), L.next[t] \in Nodes(n, s) \cup {Nil},
         LiveOnly(L, Nodes(n, s) \cup {t}),
         NEW m \in 1 .. n, Ranked(x, x[t], n, s, m), NEW k \in 1 .. m
  PROVE  /\ Whole(link(L, x, t, s[k]), x, n + 1, Put(s, n, m, t))
         /\ Nodes(n + 1, Put(s, n, m, t)) = Nodes(n, s) \cup {t}
<1> DEFINE R == link(L, x, t, s[k])
           q == L.next[s[m]]
<1>1. n \in Nat /\ s \in [1 .. n -> Timers] /\ m \in Nat /\ s[m] \in Timers /\ s[m] # t
  BY DEF Chain, Nodes
<1>2. NextInside(L, n, s)
  <2> SUFFICES ASSUME NEW p \in Timers, L.next[p] \in Timers PROVE L.next[p] \in Nodes(n, s)
    BY DEF NextInside
  <2>1. p = t \/ p \in Nodes(n, s)
    BY Special DEF LiveOnly
  <2>2. CASE p = t
    BY <2>2, Special
  <2>3. CASE p \in Nodes(n, s)
    <3>1. PICK i \in 1 .. n : p = s[i]
      BY <2>3 DEF Nodes
    <3>2. i # n
      BY <3>1, Special DEF Chain
    <3>3. i + 1 \in 1 .. n /\ L.next[p] = s[i + 1]
      BY <1>1, <3>1, <3>2 DEF Chain
    <3> QED
      BY <3>3 DEF Nodes
  <2> QED
    BY <2>1, <2>2, <2>3
<1>3. places(L, x, t)[s[k]] = s[m]
  BY <1>2, PlaceFound
<1>4. q = IF m = n THEN Nil ELSE s[m + 1]
  BY DEF Chain
<1>5. (q = Nil <=> m = n) /\ (m # n => q \in Timers /\ q # t)
  <2>1. m # n => m + 1 \in 1 .. n
    BY <1>1
  <2> QED
    BY <1>1, <1>4, <2>1, Special DEF Nodes
<1>6. R = IF q = Nil
          THEN [L EXCEPT !.next[s[m]] = t, !.prev[t] = s[m], !.next[t] = Nil, !.tail = t]
          ELSE [L EXCEPT !.next[s[m]] = t, !.next[t] = q, !.prev[q] = t, !.prev[t] = s[m]]
  BY <1>3 DEF link
<1> HIDE DEF R
<1>7. /\ R.next = [[L.next EXCEPT ![s[m]] = t] EXCEPT ![t] = q]
      /\ R.prev = IF m = n THEN [L.prev EXCEPT ![t] = s[m]]
                  ELSE [[L.prev EXCEPT ![q] = t] EXCEPT ![t] = s[m]]
      /\ R.head = L.head /\ R.tail = IF m = n THEN t ELSE L.tail
      /\ R \in [head : Timers \cup {Nil}, tail : Timers \cup {Nil},
                next : [Timers -> Timers \cup {Nil, Freed}],
                prev : [Timers -> Timers \cup {Nil, Freed}]]
  BY <1>1, <1>5, <1>6 DEF Lists
<1>8. /\ R.next[t] = IF m = n THEN Nil ELSE s[m + 1]
      /\ R.prev[t] = s[m]
  BY <1>1, <1>4, <1>5, <1>7 DEF Lists
<1>9. \A i \in 1 .. n : /\ s[i] \in Timers /\ s[i] # t /\ (i # m => s[i] # s[m])
                        /\ (m # n => (s[i] = q <=> i = m + 1))
  <2> SUFFICES ASSUME NEW i \in 1 .. n
               PROVE  /\ s[i] \in Timers /\ s[i] # t /\ (i # m => s[i] # s[m])
                      /\ (m # n => (s[i] = q <=> i = m + 1))
    OBVIOUS
  <2>1. \A a, b \in 1 .. n : a # b => s[a] # s[b]
    <3>1. \A a, b \in 1 .. n : a # b => a < b \/ b < a
      BY <1>1
    <3> QED
      BY <3>1 DEF Chain
  <2>2. m # n => m + 1 \in 1 .. n
    BY <1>1
  <2> QED
    BY <1>1, <1>4, <2>1, <2>2 DEF Nodes
<1>10. \A i \in 1 .. n : /\ R.next[s[i]] = IF i = m THEN t ELSE L.next[s[i]]
                         /\ R.prev[s[i]] = IF i = m + 1 THEN t ELSE L.prev[s[i]]
  <2> SUFFICES ASSUME NEW i \in 1 .. n
               PROVE  /\ R.next[s[i]] = IF i = m THEN t ELSE L.next[s[i]]
                      /\ R.prev[s[i]] = IF i = m + 1 THEN t ELSE L.prev[s[i]]
    OBVIOUS
  <2>1. L.next \in [Timers -> Timers \cup {Nil, Freed}]
        /\ L.prev \in [Timers -> Timers \cup {Nil, Freed}]
    BY DEF Lists
  <2>2. R.next[s[i]] = IF i = m THEN t ELSE L.next[s[i]]
    BY <1>1, <1>7, <1>9, <2>1
  <2>3. CASE m = n
    <3>1. i # m + 1
      BY <1>1, <2>3
    <3> QED
      BY <1>1, <1>7, <1>9, <2>1, <2>2, <2>3, <3>1
  <2>4. CASE m # n
    BY <1>1, <1>5, <1>7, <1>9, <2>1, <2>2, <2>4
  <2> QED
    BY <2>3, <2>4
<1>11. IsPut(L, n, s, m, t, R) /\ m \in 0 .. n
  BY <1>1, <1>7, <1>8, <1>10 DEF IsPut
<1>12. /\ Chain(R, x, n + 1, Put(s, n, m, t))
       /\ Nodes(n + 1, Put(s, n, m, t)) = Nodes(n, s) \cup {t}
  BY <1>11, PutIn
<1>13. LiveOnly(R, Nodes(n, s) \cup {t})
  <2>1. \A p \in Timers : R.next[p] = IF p = t THEN q ELSE IF p = s[m] THEN t ELSE L.next[p]
    BY <1>1, <1>7 DEF Lists
  <2>2. q # Freed /\ t # Freed /\ s[m] \in Nodes(n, s)
    BY <1>5, Special DEF Nodes
  <2> QED
    BY <2>1, <2>2 DEF LiveOnly
<1> QED
  BY <1>7, <1>12, <1>13 DEF Whole, R, Lists

----------------------------------------------------------------------------
(* What the operations do to a list.                                       *)

LEMMA Distinct ==
  ASSUME NEW L, NEW x, NEW n, NEW s, Chain(L, x, n, s)
  PROVE  /\ n \in Nat /\ s \in [1 .. n -> Timers] /\ \A i \in 1 .. n : s[i] \in Timers
         /\ \A i, j \in 1 .. n : i # j => s[i] # s[j]
<1>1. \A i, j \in 1 .. n : i # j => i < j \/ j < i
  BY DEF Chain
<1> QED
  BY <1>1 DEF Chain

(* What expires when matters to the nodes in the list only. *)
Reset(x, t, e, y) == y = [x EXCEPT ![t] = e]

LEMMA OthersExpire ==
  ASSUME NEW L, NEW x \in [Timers -> Nat], NEW n, NEW s, Chain(L, x, n, s),
         NEW t \in Timers, t \notin Nodes(n, s), NEW e, NEW y, Reset(x, t, e, y)
  PROVE  Chain(L, y, n, s)
<1>1. \A i \in 1 .. n : s[i] \in Timers /\ s[i] # t
  BY Distinct DEF Nodes
<1>2. \A i \in 1 .. n : y[s[i]] = x[s[i]]
  BY <1>1 DEF Reset
<1> QED
  BY <1>2 DEF Chain

LEMMA Added ==
  ASSUME NEW L, NEW x \in [Timers -> Nat], NEW n, NEW s, Whole(L, x, n, s),
         NEW t \in Timers, t \notin Nodes(n, s)
  PROVE  \E p : /\ Whole(add_timer(Create(L, t), x, t), x, n + 1, p)
                /\ Nodes(n + 1, p) = Nodes(n, s) \cup {t}
<1> DEFINE D == Create(L, t)
           R == add_timer(D, x, t)
<1>0. L \in Lists /\ Chain(L, x, n, s)
  BY DEF Whole
<1>1. n \in Nat /\ s \in [1 .. n -> Timers] /\ \A i \in 1 .. n : s[i] \in Timers /\ s[i] # t
  BY <1>0, Distinct DEF Nodes
<1>2. /\ D.head = L.head /\ D.tail = L.tail /\ D \in Lists
      /\ D.next = [L.next EXCEPT ![t] = Nil] /\ D.prev = [L.prev EXCEPT ![t] = Nil]
  BY <1>0 DEF Create, Lists
<1>3. /\ D.next[t] = Nil /\ D.prev[t] = Nil
      /\ \A p \in Timers : p # t => D.next[p] = L.next[p] /\ D.prev[p] = L.prev[p]
  BY <1>0, <1>2 DEF Lists
<1>4. LiveOnly(D, Nodes(n, s) \cup {t})
  BY <1>3, Special DEF Whole, LiveOnly
<1> HIDE DEF D, R
<1> SUFFICES \E p : Whole(R, x, n + 1, p) /\ Nodes(n + 1, p) = Nodes(n, s) \cup {t}
  BY DEF D, R
<1>5. Chain(D, x, n, s)
  <2>1. \A i \in 1 .. n : D.next[s[i]] = L.next[s[i]] /\ D.prev[s[i]] = L.prev[s[i]]
    BY <1>1, <1>3
  <2>2. D.head = L.head /\ D.tail = L.tail
    BY <1>2
  <2> QED
    BY <1>0, <2>1, <2>2 DEF Chain
<1>6. PICK m \in 0 .. n : Ranked(x, x[t], n, s, m)
  <2>1. x[t] \in Nat
    OBVIOUS
  <2> QED
    BY <1>5, <2>1, Rank
<1>7. ASSUME R \in Lists, IsPut(D, n, s, m, t, R), LiveOnly(R, Nodes(n, s) \cup {t})
      PROVE  \E p : Whole(R, x, n + 1, p) /\ Nodes(n + 1, p) = Nodes(n, s) \cup {t}
  <2>1. /\ Chain(R, x, n + 1, Put(s, n, m, t))
        /\ Nodes(n + 1, Put(s, n, m, t)) = Nodes(n, s) \cup {t}
    BY <1>5, <1>6, <1>7, PutIn
  <2>2. Whole(R, x, n + 1, Put(s, n, m, t))
    BY <1>7, <2>1 DEF Whole
  <2> QED
    BY <2>1, <2>2
<1>8. CASE n = 0
  <2>1. m = 0 /\ D.head = Nil
    BY <1>5, <1>6, <1>8 DEF Chain
  <2>2. R = [D EXCEPT !.head = t, !.tail = t]
    BY <2>1 DEF add_timer, R
  <2>3. R.head = t /\ R.tail = t /\ R.next = D.next /\ R.prev = D.prev /\ R \in Lists
    BY <1>2, <2>2 DEF Lists
  <2>4. IsPut(D, n, s, m, t, R)
    BY <1>3, <1>8, <2>1, <2>3 DEF IsPut
  <2>5. LiveOnly(R, Nodes(n, s) \cup {t})
    BY <1>4, <2>3 DEF LiveOnly
  <2> QED
    BY <1>7, <2>3, <2>4, <2>5
<1>9. CASE n # 0 /\ x[t] < x[s[1]]
  <2>1. 1 \in 1 .. n /\ D.head = s[1] /\ D.head # Nil /\ s[1] \in Timers
    BY <1>1, <1>5, <1>9, Special DEF Chain
  <2>2. m = 0
    <3>1. x[t] \in Nat /\ x[s[1]] \in Nat /\ ~(1 <= m)
      BY <1>6, <1>9, <2>1 DEF Ranked
    <3> QED
      BY <3>1
  <2>3. R = [D EXCEPT !.next[t] = s[1], !.prev[s[1]] = t, !.head = t]
    BY <1>9, <2>1 DEF add_timer, R
  <2>4. /\ R.head = t /\ R.tail = D.tail /\ R \in Lists
        /\ R.next = [D.next EXCEPT ![t] = s[1]] /\ R.prev = [D.prev EXCEPT ![s[1]] = t]
    <3>1. D \in Lists
      BY <1>2
    <3>2. /\ R.head = t /\ R.tail = D.tail
          /\ R.next = [D.next EXCEPT ![t] = s[1]] /\ R.prev = [D.prev EXCEPT ![s[1]] = t]
      BY <3>1, <2>3 DEF Lists
    <3>3. /\ R.next \in [Timers -> Timers \cup {Nil, Freed}]
          /\ R.prev \in [Timers -> Timers \cup {Nil, Freed}]
      BY <3>1, <3>2, <2>1 DEF Lists
    <3>4. R = [head |-> R.head, tail |-> R.tail, next |-> R.next, prev |-> R.prev]
      BY <3>1, <2>3 DEF Lists
    <3> QED
      BY <3>1, <3>2, <3>3, <3>4 DEF Lists
  <2>5. \A i \in 1 .. n : R.next[s[i]] = D.next[s[i]]
                          /\ R.prev[s[i]] = IF i = 1 THEN t ELSE D.prev[s[i]]
    <3>1. \A i \in 1 .. n : i # 1 => s[i] # s[1]
      BY <1>0, <2>1, Distinct
    <3> QED
      BY <1>1, <1>2, <2>1, <2>4, <3>1 DEF Lists
  <2>6. R.next[t] = s[1] /\ R.prev[t] = Nil
    BY <1>1, <1>2, <1>3, <2>1, <2>4 DEF Lists
  <2>7. IsPut(D, n, s, m, t, R)
    <3>1. 0 + 1 = 1 /\ 0 # n /\ \A i \in 1 .. n : i # 0
      BY <1>1, <1>9
    <3> QED
      BY <2>2, <2>4, <2>5, <2>6, <3>1 DEF IsPut
  <2>8. LiveOnly(R, Nodes(n, s) \cup {t})
    <3>1. \A p \in Timers : R.next[p] # Freed <=> D.next[p] # Freed
      BY <1>2, <1>3, <2>1, <2>4, Special DEF Lists
    <3> QED
      BY <1>4, <3>1 DEF LiveOnly
  <2> QED
    BY <1>7, <2>4, <2>7, <2>8
<1>10. CASE n # 0 /\ ~(x[t] < x[s[1]])
  <2>1. 1 \in 1 .. n /\ D.head = s[1] /\ D.head # Nil /\ s[1] \in Timers
    BY <1>1, <1>5, <1>10, Special DEF Chain
  <2>2. m \in 1 .. n /\ 1 \in 1 .. m
    <3>1. x[t] \in Nat /\ x[s[1]] \in Nat
      BY <2>1
    <3>2. 1 <= m
      BY <1>6, <1>10, <2>1, <3>1 DEF Ranked
    <3> QED
      BY <1>1, <3>2
  <2>3. R = link(D, x, t, s[1])
    BY <1>10, <2>1 DEF add_timer, R
  <2>4. D.next[t] \in Nodes(n, s) \cup {Nil}
    BY <1>3
  <2>5. /\ Whole(link(D, x, t, s[1]), x, n + 1, Put(s, n, m, t))
        /\ Nodes(n + 1, Put(s, n, m, t)) = Nodes(n, s) \cup {t}
    <3>1. D \in Lists /\ Ranked(x, x[t], n, s, m)
      BY <1>2, <1>6
    <3> QED
      BY <1>4, <1>5, <2>2, <2>4, <3>1, LinkedIn
  <2> QED
    BY <2>3, <2>5
<1> QED
  BY <1>8, <1>9, <1>10

(* U is L with the k-th node unlinked: whatever that node still says.      *)
IsUnlinked(L, n, s, k, U) ==
  /\ U \in Lists
  /\ \A q \in Timers \ {s[k]} :
       /\ U.next[q] = IF k # 1 /\ q = s[k - 1] THEN L.next[s[k]] ELSE L.next[q]
       /\ U.prev[q] = IF k # n /\ q = s[k + 1] THEN L.prev[s[k]] ELSE L.prev[q]
  /\ U.head = IF k = 1 THEN L.next[s[k]] ELSE L.head
  /\ U.tail = IF k = n THEN L.prev[s[k]] ELSE L.tail

LEMMA Unlinked ==
  ASSUME NEW L, NEW x, NEW n, NEW s, Whole(L, x, n, s), NEW k \in 1 .. n,
         NEW U, IsUnlinked(L, n, s, k, U)
  PROVE  /\ IsTakenOut(L, n, s, k, U)
         /\ \A q \in Timers \ {s[k]} : U.next[q] # Freed <=> q \in Nodes(n, s) \ {s[k]}
<1>0. Chain(L, x, n, s)
  BY DEF Whole
<1>1. n \in Nat /\ k \in Nat /\ \A i \in 1 .. n : s[i] \in Timers
  BY <1>0, Distinct
<1>2. \A i, j \in 1 .. n : i # j => s[i] # s[j]
  BY <1>0, Distinct
<1>3. (k # 1 => k - 1 \in 1 .. n) /\ (k # n => k + 1 \in 1 .. n)
  BY <1>1
<1>4. ASSUME NEW i \in 1 .. n, i # k
      PROVE  /\ U.next[s[i]] = IF i = k - 1 THEN L.next[s[k]] ELSE L.next[s[i]]
             /\ U.prev[s[i]] = IF i = k + 1 THEN L.prev[s[k]] ELSE L.prev[s[i]]
  <2>1. s[i] \in Timers \ {s[k]}
    BY <1>1, <1>2, <1>4
  <2>2. k # 1 /\ s[i] = s[k - 1] <=> i = k - 1
    BY <1>1, <1>2, <1>3
  <2>3. k # n /\ s[i] = s[k + 1] <=> i = k + 1
    BY <1>1, <1>2, <1>3
  <2> QED
    BY <2>1, <2>2, <2>3 DEF IsUnlinked
<1>5. IsTakenOut(L, n, s, k, U)
  BY <1>4 DEF IsUnlinked, IsTakenOut
<1>6. ASSUME NEW q \in Timers \ {s[k]}
      PROVE  U.next[q] # Freed <=> q \in Nodes(n, s) \ {s[k]}
  <2>1. CASE k # 1 /\ q = s[k - 1]
    <3>1. L.next[s[k]] # Freed
      BY <1>1 DEF Whole, LiveOnly, Nodes
    <3>2. q \in Nodes(n, s)
      BY <1>3, <2>1 DEF Nodes
    <3> QED
      BY <2>1, <3>1, <3>2 DEF IsUnlinked
  <2>2. CASE ~(k # 1 /\ q = s[k - 1])
    BY <2>2 DEF IsUnlinked, Whole, LiveOnly
  <2> QED
    BY <2>1, <2>2
<1> QED
  BY <1>5, <1>6

LEMMA Removed ==
  ASSUME NEW L, NEW x, NEW n, NEW s, Whole(L, x, n, s), NEW k \in 1 .. n
  PROVE  /\ Whole(del_timer(L, s[k]), x, n - 1, Drop(s, n, k))
         /\ Nodes(n - 1, Drop(s, n, k)) = Nodes(n, s) \ {s[k]}
<1> DEFINE t == s[k]
           nx == L.next[t]
           pv == L.prev[t]
           R == del_timer(L, t)
<1>0. L \in Lists /\ Chain(L, x, n, s)
  BY DEF Whole
<1>1. n \in Nat /\ k \in Nat /\ \A i \in 1 .. n : s[i] \in Timers
  BY <1>0, Distinct
<1>2. \A i, j \in 1 .. n : i # j => s[i] # s[j]
  BY <1>0, Distinct
<1>3. /\ t \in Timers /\ 1 \in 1 .. n /\ n \in 1 .. n /\ n # 0
      /\ (t = L.head <=> k = 1) /\ (t = L.tail <=> k = n)
  <2>1. 1 \in 1 .. n /\ n \in 1 .. n /\ n > 0 /\ n # 0
    BY <1>1
  <2>2. L.head = s[1] /\ L.tail = s[n]
    BY <1>0, <2>1 DEF Chain
  <2> QED
    BY <1>1, <1>2, <2>1, <2>2
<1>4. /\ nx = IF k = n THEN Nil ELSE s[k + 1]
      /\ pv = IF k = 1 THEN Nil ELSE s[k - 1]
      /\ (k # n => nx \in Timers /\ nx # t) /\ (k # 1 => pv \in Timers /\ pv # t)
  <2>1. (k # 1 => k - 1 \in 1 .. n /\ k - 1 # k) /\ (k # n => k + 1 \in 1 .. n /\ k + 1 # k)
    BY <1>1
  <2>2. nx = (IF k = n THEN Nil ELSE s[k + 1]) /\ pv = (IF k = 1 THEN Nil ELSE s[k - 1])
    BY <1>0 DEF Chain
  <2> QED
    BY <1>1, <1>2, <2>1, <2>2
<1>5. \E U : R = Delete(U, {t}) /\ IsUnlinked(L, n, s, k, U)
  <2> USE DEF Lists
  <2>1. CASE k = 1 /\ k = n
    <3> DEFINE U == [L EXCEPT !.head = Nil, !.tail = Nil]
    <3>1. R = Delete(U, {t})
      BY <1>3, <2>1 DEF del_timer
    <3>2. U.head = Nil /\ U.tail = Nil /\ U.next = L.next /\ U.prev = L.prev /\ U \in Lists
      BY <1>0
    <3>3. IsUnlinked(L, n, s, k, U)
      <4> HIDE DEF U
      <4> QED
        BY <1>4, <2>1, <3>2 DEF IsUnlinked
    <3> QED
      BY <3>1, <3>3
  <2>2. CASE k = 1 /\ k # n
    <3> DEFINE U == [L EXCEPT !.head = nx, !.prev[nx] = Nil]
    <3>1. R = Delete(U, {t})
      BY <1>3, <2>2 DEF del_timer
    <3>2. /\ U.head = nx /\ U.tail = L.tail /\ U.next = L.next
          /\ U.prev = [L.prev EXCEPT ![nx] = Nil] /\ U \in Lists
      BY <1>0, <1>4, <2>2
    <3>3. IsUnlinked(L, n, s, k, U)
      <4> HIDE DEF U
      <4>1. \A q \in Timers : U.prev[q] = IF q = nx THEN Nil ELSE L.prev[q]
        BY <1>0, <3>2
      <4> QED
        BY <1>4, <2>2, <3>2, <4>1 DEF IsUnlinked
    <3> QED
      BY <3>1, <3>3
  <2>3. CASE k # 1 /\ k = n
    <3> DEFINE U == [L EXCEPT !.tail = pv, !.next[pv] = Nil]
    <3>1. R = Delete(U, {t})
      BY <1>3, <2>3 DEF del_timer
    <3>2. /\ U.head = L.head /\ U.tail = pv /\ U.prev = L.prev
          /\ U.next = [L.next EXCEPT ![pv] = Nil] /\ U \in Lists
      BY <1>0, <1>4, <2>3
    <3>3. IsUnlinked(L, n, s, k, U)
      <4> HIDE DEF U
      <4>1. \A q \in Timers : U.next[q] = IF q = pv THEN Nil ELSE L.next[q]
        BY <1>0, <3>2
      <4> QED
        BY <1>4, <2>3, <3>2, <4>1 DEF IsUnlinked
    <3> QED
      BY <3>1, <3>3
  <2>4. CASE k # 1 /\ k # n
    <3> DEFINE U == [L EXCEPT !.next[pv] = nx, !.prev[nx] = pv]
    <3>1. R = Delete(U, {t})
      BY <1>3, <2>4 DEF del_timer
    <3>2. /\ U.head = L.head /\ U.tail = L.tail
          /\ U.next = [L.next EXCEPT ![pv] = nx]
          /\ U.prev = [L.prev EXCEPT ![nx] = pv] /\ U \in Lists
      BY <1>0, <1>4, <2>4
    <3>3. IsUnlinked(L, n, s, k, U)
      <4> HIDE DEF U
      <4>1. \A q \in Timers : /\ U.next[q] = IF q = pv THEN nx ELSE L.next[q]
                              /\ U.prev[q] = IF q = nx THEN pv ELSE L.prev[q]
        BY <1>0, <3>2
      <4> QED
        BY <1>4, <2>4, <3>2, <4>1 DEF IsUnlinked
    <3> QED
      BY <3>1, <3>3
  <2> QED
    BY <2>1, <2>2, <2>3, <2>4
<1>6. PICK U : R = Delete(U, {t}) /\ IsUnlinked(L, n, s, k, U)
  BY <1>5
<1>7. /\ IsTakenOut(L, n, s, k, U)
      /\ \A q \in Timers \ {t} : U.next[q] # Freed <=> q \in Nodes(n, s) \ {t}
  BY <1>6, Unlinked
<1>8. U \in Lists
  BY <1>6 DEF IsUnlinked
<1> HIDE DEF R
<1>9. /\ R \in Lists /\ R.head = U.head /\ R.tail = U.tail
      /\ R.next = [q \in Timers |-> IF q \in {t} THEN Freed ELSE U.next[q]]
      /\ R.prev = [q \in Timers |-> IF q \in {t} THEN Freed ELSE U.prev[q]]
  BY <1>6, <1>8 DEF Delete, Lists
<1>10. IsTakenOut(L, n, s, k, R)
  <2>1. \A i \in 1 .. n : i # k => s[i] \in Timers /\ s[i] \notin {t}
    BY <1>1, <1>2
  <2> QED
    BY <1>7, <1>9, <2>1 DEF IsTakenOut
<1>11. /\ Chain(R, x, n - 1, Drop(s, n, k))
       /\ Nodes(n - 1, Drop(s, n, k)) = Nodes(n, s) \ {t}
  BY <1>0, <1>10, TakenOut
<1>12. LiveOnly(R, Nodes(n, s) \ {t})
  BY <1>7, <1>9 DEF LiveOnly
<1> QED
  BY <1>9, <1>11, <1>12 DEF Whole, R

LEMMA Adjusted ==
  ASSUME NEW L, NEW x \in [Timers -> Nat], NEW n, NEW s, Whole(L, x, n, s),
         NEW k \in 1 .. n, NEW e \in Nat, e >= x[s[k]],
         NEW y, Reset(x, s[k], e, y)
  PROVE  \E p : /\ Whole(adjust_timer(L, y, s[k]), y, n, p)
                /\ Nodes(n, p) = Nodes(n, s)
<1> DEFINE t == s[k]
           nx == L.next[t]
           pv == L.prev[t]
           R == adjust_timer(L, y, t)
           N == n - 1
           d == Drop(s, n, k)
<1>0. L \in Lists /\ Chain(L, x, n, s) /\ LiveOnly(L, Nodes(n, s))
  BY DEF Whole
<1>1. n \in Nat /\ k \in Nat /\ \A i \in 1 .. n : s[i] \in Timers
  BY <1>0, Distinct
<1>2. \A i, j \in 1 .. n : i # j => s[i] # s[j]
  BY <1>0, Distinct
<1>3. t \in Timers /\ y \in [Timers -> Nat] /\ y[t] = e
      /\ \A i \in 1 .. n : x[s[i]] \in Nat /\ (i # k => y[s[i]] = x[s[i]])
  BY <1>1, <1>2 DEF Reset
<1>4. /\ (t = L.head <=> k = 1)
      /\ nx = IF k = n THEN Nil ELSE s[k + 1]
      /\ pv = IF k = 1 THEN Nil ELSE s[k - 1]
      /\ (k # n => k + 1 \in 1 .. n /\ nx \in Timers /\ nx # t /\ nx # Nil)
      /\ (k # 1 => pv \in Timers /\ pv # t)
  <2>1. (k # 1 => k - 1 \in 1 .. n /\ k - 1 # k) /\ (k # n => k + 1 \in 1 .. n /\ k + 1 # k)
    BY <1>1
  <2>2. nx = (IF k = n THEN Nil ELSE s[k + 1]) /\ pv = (IF k = 1 THEN Nil ELSE s[k - 1])
    BY <1>0 DEF Chain
  <2>3. L.head = s[1] /\ 1 \in 1 .. n
    BY <1>0, <1>1 DEF Chain
  <2> QED
    BY <1>1, <1>2, <2>1, <2>2, <2>3, Special
<1>5. CASE k = n \/ (k # n /\ e < x[s[k + 1]])
  <2>1. R = L
    <3>1. CASE k = n
      BY <1>4, <3>1 DEF adjust_timer
    <3>2. CASE k # n /\ e < x[s[k + 1]]
      <4>1. y[nx] = x[s[k + 1]]
        BY <1>1, <1>3, <1>4, <3>2
      <4> QED
        BY <1>3, <1>4, <3>2, <4>1 DEF adjust_timer
    <3> QED
      BY <1>5, <3>1, <3>2
  <2>2. ASSUME NEW i \in 1 .. n, NEW j \in 1 .. n, i < j
        PROVE  s[i] # s[j] /\ y[s[i]] <= y[s[j]]
    <3>1. s[i] # s[j] /\ x[s[i]] <= x[s[j]]
      BY <1>0, <2>2 DEF Chain
    <3>2. CASE i = k
      <4>1. k # n /\ e < x[s[k + 1]] /\ k + 1 \in 1 .. n /\ (k + 1 = j \/ k + 1 < j)
        BY <1>1, <1>5, <2>2, <3>2
      <4>2. x[s[k + 1]] <= x[s[j]]
        BY <1>0, <1>3, <4>1 DEF Chain
      <4>3. y[s[i]] = e /\ y[s[j]] = x[s[j]]
        BY <1>1, <1>3, <2>2, <3>2
      <4> QED
        BY <1>3, <3>1, <4>1, <4>2, <4>3
    <3>3. CASE j = k
      <4>1. y[s[i]] = x[s[i]] /\ y[s[j]] = e /\ x[s[i]] <= e
        BY <1>1, <1>3, <2>2, <3>1, <3>3
      <4> QED
        BY <3>1, <4>1
    <3>4. CASE i # k /\ j # k
      BY <1>3, <3>1, <3>4
    <3> QED
      BY <3>2, <3>3, <3>4
  <2>3. Chain(L, y, n, s)
    BY <1>0, <2>2 DEF Chain
  <2>4. Whole(R, y, n, s)
    <3> HIDE DEF R
    <3> QED
      BY <1>0, <2>1, <2>3 DEF Whole
  <2> QED
    BY <2>4
<1>6. CASE k # n /\ ~(e < x[s[k + 1]])
  <2>1. /\ N \in Nat /\ k \in 1 .. N /\ d[k] = s[k + 1] /\ d[k] = nx /\ N + 1 = n
    BY <1>1, <1>4, <1>6 DEF Drop
  <2> DEFINE U == IF t = L.head
                  THEN [L EXCEPT !.head = nx, !.prev[nx] = Nil, !.next[t] = Nil]
                  ELSE [L EXCEPT !.next[pv] = nx, !.prev[nx] = pv]
  <2>2. R = link(U, y, t, d[k])
    <3>1. ~(y[t] < y[nx]) /\ nx # Nil
      BY <1>1, <1>3, <1>4, <1>6
    <3> QED
      BY <2>1, <3>1 DEF adjust_timer
  <2>3. /\ U.head = (IF k = 1 THEN nx ELSE L.head) /\ U.tail = L.tail
        /\ U.next = (IF k = 1 THEN [L.next EXCEPT ![t] = Nil] ELSE [L.next EXCEPT ![pv] = nx])
        /\ U.prev = (IF k = 1 THEN [L.prev EXCEPT ![nx] = Nil] ELSE [L.prev EXCEPT ![nx] = pv])
        /\ U \in Lists
    <3>1. CASE k = 1
      BY <1>0, <1>3, <1>4, <1>6, <3>1 DEF Lists
    <3>2. CASE k # 1
      BY <1>0, <1>3, <1>4, <1>6, <3>2 DEF Lists
    <3> QED
      BY <3>1, <3>2
  <2> HIDE DEF U
  <2>4. /\ IsUnlinked(L, n, s, k, U)
        /\ U.next[t] = IF k = 1 THEN Nil ELSE nx
    <3>1. /\ L.next \in [Timers -> Timers \cup {Nil, Freed}]
          /\ L.prev \in [Timers -> Timers \cup {Nil, Freed}]
      BY <1>0 DEF Lists
    <3>2. CASE k = 1
      <4>1. \A q \in Timers : /\ U.next[q] = IF q = t THEN Nil ELSE L.next[q]
                              /\ U.prev[q] = IF q = nx THEN Nil ELSE L.prev[q]
        BY <2>3, <3>1, <3>2
      <4> QED
        BY <1>3, <1>4, <1>6, <2>3, <3>2, <4>1 DEF IsUnlinked
    <3>3. CASE k # 1
      <4>1. \A q \in Timers : /\ U.next[q] = IF q = pv THEN nx ELSE L.next[q]
                              /\ U.prev[q] = IF q = nx THEN pv ELSE L.prev[q]
        BY <2>3, <3>1, <3>3
      <4> QED
        BY <1>3, <1>4, <1>6, <2>3, <3>3, <4>1 DEF IsUnlinked
    <3> QED
      BY <3>2, <3>3
  <2>5. /\ IsTakenOut(L, n, s, k, U)
        /\ \A q \in Timers \ {t} : U.next[q] # Freed <=> q \in Nodes(n, s) \ {t}
    BY <2>4, Unlinked
  <2>6. Chain(U, x, N, d) /\ Nodes(N, d) = Nodes(n, s) \ {t}
    BY <1>0, <2>5, TakenOut
  <2>7. t \notin Nodes(N, d) /\ t \in Nodes(n, s) /\ nx \in Nodes(N, d)
    BY <1>4, <1>6, <2>6 DEF Nodes
  <2>8. U.next[t] \in Nodes(N, d) \cup {Nil} /\ U.next[t] # Freed
    BY <1>4, <1>6, <2>4, <2>7, Special
  <2>9. LiveOnly(U, Nodes(N, d) \cup {t})
    BY <2>5, <2>6, <2>7, <2>8 DEF LiveOnly
  <2> HIDE DEF N, d
  <2>10. Chain(U, y, N, d)
    <3>1. t \in Timers /\ t \notin Nodes(N, d)
      BY <1>3, <2>7
    <3> QED
      BY <2>6, <3>1, OthersExpire
  <2>11. PICK m \in 0 .. N : Ranked(y, y[t], N, d, m)
    BY <1>3, <2>10, Rank
  <2>12. m \in 1 .. N /\ k \in 1 .. m
    <3>1. y[d[k]] <= y[t]
      BY <1>1, <1>3, <1>4, <1>6, <2>1
    <3>2. k <= m
      BY <2>1, <2>11, <3>1 DEF Ranked
    <3> QED
      BY <2>1, <3>2
  <2> HIDE DEF t
  <2>13. U \in Lists
    BY <2>3
  <2>14. t \in Timers /\ y \in [Timers -> Nat]
    BY <1>3
  <2>15. /\ Whole(link(U, y, t, d[k]), y, N + 1, Put(d, N, m, t))
         /\ Nodes(N + 1, Put(d, N, m, t)) = Nodes(N, d) \cup {t}
    <3>1. Ranked(y, y[t], N, d, m)
      BY <2>11
    <3>2. t \notin Nodes(N, d) /\ U.next[t] \in Nodes(N, d) \cup {Nil}
      BY <2>7, <2>8
    <3> QED
      BY <2>9, <2>10, <2>12, <2>13, <2>14, <3>1, <3>2, LinkedIn
  <2>16. Nodes(N, d) \cup {t} = Nodes(n, s)
    BY <2>6, <2>7
  <2> HIDE DEF R
  <2>17. Whole(R, y, n, Put(d, N, m, t)) /\ Nodes(n, Put(d, N, m, t)) = Nodes(n, s)
    BY <2>1, <2>2, <2>15, <2>16
  <2>18. \E p : Whole(R, y, n, p) /\ Nodes(n, p) = Nodes(n, s)
    BY <2>17
  <2> QED
    BY <2>18 DEF R, t
<1> QED
  BY <1>5, <1>6

(* What tick() meets: the first m nodes are due, and the walk ends behind  *)
(* them.                                                                   *)
Pointers == Timers \cup {Nil, Freed}
Behind(n, s, m) == IF m = n THEN Nil ELSE s[m + 1]

LEMMA DueNodes ==
  ASSUME NEW L, NEW n, NEW s, Whole(L, expire, n, s), expire \in [Timers -> Nat], now \in Nat,
         NEW m \in 0 .. n, Ranked(expire, now, n, s, m)
  PROVE  /\ n \in Nat /\ m \in Nat /\ L \in Lists /\ \A i \in 1 .. n : s[i] \in Timers
         /\ \A i \in 1 .. n : (s[i] \in Timers /\ Due(s[i])) <=> i <= m
         /\ \A i \in 1 .. m : /\ i \in 1 .. n /\ L.next[s[i]] # Freed
                             /\ L.next[s[i]] = IF i = m THEN Behind(n, s, m) ELSE s[i + 1]
         /\ Behind(n, s, m) \in Timers \cup {Nil}
         /\ ~(Behind(n, s, m) \in Timers /\ Due(Behind(n, s, m)))
<1>0. L \in Lists /\ Chain(L, expire, n, s) /\ LiveOnly(L, Nodes(n, s))
  BY DEF Whole
<1>1. n \in Nat /\ m \in Nat /\ \A i \in 1 .. n : s[i] \in Timers
  BY <1>0, Distinct
<1>2. \A i \in 1 .. n : (s[i] \in Timers /\ Due(s[i])) <=> i <= m
  <2>1. \A i \in 1 .. n : expire[s[i]] \in Nat
    BY <1>1
  <2> QED
    BY <1>1, <2>1 DEF Due, Ranked
<1>3. ASSUME NEW i \in 1 .. m
      PROVE  /\ i \in 1 .. n /\ L.next[s[i]] # Freed
             /\ L.next[s[i]] = IF i = m THEN Behind(n, s, m) ELSE s[i + 1]
  <2>1. i \in 1 .. n /\ (i # m => i # n)
    BY <1>1
  <2>2. L.next[s[i]] = IF i = n THEN Nil ELSE s[i + 1]
    BY <1>0, <2>1 DEF Chain
  <2>3. L.next[s[i]] # Freed
    BY <1>0, <1>1, <2>1 DEF LiveOnly, Nodes
  <2> QED
    BY <2>1, <2>2, <2>3 DEF Behind
<1>4. m # n => m + 1 \in 1 .. n /\ ~(m + 1 <= m)
  BY <1>1
<1>5. Behind(n, s, m) \in Timers \cup {Nil}
  BY <1>1, <1>4 DEF Behind
<1>6. ~(Behind(n, s, m) \in Timers /\ Due(Behind(n, s, m)))
  BY <1>2, <1>4, Special DEF Behind
<1> HIDE DEF Due
<1> QED
  BY <1>0, <1>1, <1>2, <1>3, <1>5, <1>6

LEMMA Stopped ==
  ASSUME NEW L, NEW n, NEW s, Whole(L, expire, n, s), expire \in [Timers -> Nat], now \in Nat,
         NEW m \in 0 .. n, Ranked(expire, now, n, s, m), n > 0
  PROVE  stops(L)[L.head] = Behind(n, s, m)
<1> DEFINE due(p) == p \in Timers /\ Due(p)
           last == Behind(n, s, m)
           eq(f) == f = [p \in Pointers |-> IF due(p) THEN f[L.next[p]] ELSE p]
           f == stops(L)
           g == [p \in Pointers |-> IF due(p) THEN IF L.next[p] = Freed THEN Freed ELSE last
                                    ELSE p]
<1>1. n \in Nat /\ m \in Nat /\ L \in Lists /\ \A i \in 1 .. n : s[i] \in Timers
  BY DueNodes
<1>2. \A i \in 1 .. n : due(s[i]) <=> i <= m
  BY DueNodes
<1>3. \A i \in 1 .. m : /\ i \in 1 .. n /\ L.next[s[i]] # Freed
                       /\ L.next[s[i]] = IF i = m THEN last ELSE s[i + 1]
  BY DueNodes
<1>4. last \in Timers \cup {Nil} /\ ~due(last) /\ last # Freed /\ ~due(Freed)
  BY DueNodes, Special
<1>5. \A p \in Timers : p \in Pointers /\ L.next[p] \in Pointers
  BY <1>1 DEF Lists, Pointers
<1>6. f = CHOOSE h : eq(h)
  BY DEF stops, Pointers
<1> HIDE DEF f, last
<1>7. eq(g)
  <2>1. ASSUME NEW p \in Timers, due(p) PROVE g[L.next[p]] = g[p]
    <3>1. g[p] = IF L.next[p] = Freed THEN Freed ELSE last
      BY <1>5, <2>1
    <3>2. CASE L.next[p] = Freed
      <4>1. Freed \in Pointers
        BY DEF Pointers
      <4> QED
        BY <1>4, <3>1, <3>2, <4>1
    <3>3. CASE L.next[p] # Freed
      <4>1. PICK i \in 1 .. n : p = s[i]
        BY <3>3 DEF Whole, LiveOnly, Nodes
      <4>2. i \in 1 .. m
        BY <1>1, <1>2, <2>1, <4>1
      <4>3. CASE i = m
        BY <1>3, <1>4, <1>5, <2>1, <3>1, <3>3, <4>1, <4>2, <4>3
      <4>4. CASE i # m
        <5>1. i + 1 \in 1 .. m
          BY <1>1, <4>2, <4>4
        <5>2. s[i + 1] \in Timers /\ due(s[i + 1]) /\ L.next[s[i + 1]] # Freed
          BY <1>1, <1>2, <1>3, <5>1
        <5> QED
          BY <1>3, <1>5, <3>1, <3>3, <4>1, <4>2, <4>4, <5>2
      <4> QED
        BY <4>3, <4>4
    <3> QED
      BY <3>2, <3>3
  <2>2. \A p \in Pointers : ~due(p) => g[p] = p
    OBVIOUS
  <2> QED
    BY <2>1, <2>2
<1>8. eq(f)
  <2> HIDE DEF g, eq
  <2> QED
    BY <1>6, <1>7
<1>9. \A p \in Pointers : f[p] = IF due(p) THEN f[L.next[p]] ELSE p
  <2> HIDE DEF due
  <2> QED
    BY <1>8
<1> HIDE DEF g, eq, due
<1>10. f[last] = last
  BY <1>4, <1>9 DEF Pointers
<1>11. ASSUME {i \in 1 .. m : f[s[i]] # last} # {} PROVE FALSE
  <2> DEFINE A == {i \in 1 .. m : f[s[i]] # last}
  <2>1. A \in SUBSET (0 .. m)
    OBVIOUS
  <2>2. PICK i \in A : \A j \in A : j <= i
    BY <1>1, <1>11, <2>1, Greatest
  <2>3. i \in 1 .. m /\ i \in 1 .. n /\ s[i] \in Timers /\ due(s[i])
    BY <1>1, <1>2, <1>3
  <2>4. f[s[i]] = f[L.next[s[i]]]
    BY <1>5, <1>9, <2>3
  <2>5. CASE i = m
    BY <1>3, <1>10, <2>3, <2>4, <2>5
  <2>6. CASE i # m
    <3>1. i + 1 \in 1 .. m /\ ~(i + 1 <= i)
      BY <1>1, <2>3, <2>6
    <3>2. f[s[i + 1]] = last
      BY <2>2, <3>1
    <3> QED
      BY <1>3, <2>3, <2>4, <2>6, <3>2
  <2> QED
    BY <2>5, <2>6
<1>12. L.head = s[1] /\ 1 \in 1 .. n
  BY <1>1 DEF Whole, Chain
<1>13. f[s[1]] = last
  <2>1. CASE m = 0
    <3>1. last = s[1] /\ 0 + 1 = 1
      BY <2>1 DEF last, Behind
    <3> QED
      BY <1>10, <3>1
  <2>2. CASE m # 0
    <3>1. 1 \in 1 .. m
      BY <1>1, <2>2
    <3> QED
      BY <1>11, <3>1
  <2> QED
    BY <2>1, <2>2
<1> QED
  BY <1>12, <1>13 DEF f, last

LEMMA Passed ==
  ASSUME NEW L, NEW n, NEW s, Whole(L, expire, n, s), expire \in [Timers -> Nat], now \in Nat,
         NEW m \in 0 .. n, Ranked(expire, now, n, s, m), n > 0
  PROVE  expired(L)[L.head] = {s[i] : i \in 1 .. m}
<1> DEFINE due(p) == p \in Timers /\ Due(p)
           last == Behind(n, s, m)
           from(i) == {s[j] : j \in i .. m}
           idx(p) == CHOOSE i \in 1 .. n : s[i] = p
           eq(f) == f = [p \in Pointers |-> IF due(p) THEN {p} \cup f[L.next[p]] ELSE {}]
           f == expired(L)
           g == [p \in Pointers |-> IF due(p) THEN IF L.next[p] = Freed THEN {p} ELSE from(idx(p))
                                    ELSE {}]
<1>1. n \in Nat /\ m \in Nat /\ L \in Lists /\ \A i \in 1 .. n : s[i] \in Timers
  BY DueNodes
<1>2. \A i \in 1 .. n : due(s[i]) <=> i <= m
  BY DueNodes
<1>3. \A i \in 1 .. m : /\ i \in 1 .. n /\ L.next[s[i]] # Freed
                       /\ L.next[s[i]] = IF i = m THEN last ELSE s[i + 1]
  BY DueNodes
<1>4. last \in Pointers /\ ~due(last) /\ Freed \in Pointers /\ ~due(Freed)
  BY DueNodes, Special DEF Pointers
<1>5. \A p \in Timers : p \in Pointers /\ L.next[p] \in Pointers
  BY <1>1 DEF Lists, Pointers
<1>6. f = CHOOSE h : eq(h)
  BY DEF expired, Pointers
<1>7. \A i \in 1 .. n : idx(s[i]) = i
  <2>1. \A i, j \in 1 .. n : i # j => s[i] # s[j]
    BY Distinct DEF Whole
  <2> QED
    BY <2>1
<1> HIDE DEF f, last, idx
<1>8. \A i \in 1 .. m : from(i) = {s[i]} \cup (IF i = m THEN {} ELSE from(i + 1))
  <2> SUFFICES ASSUME NEW i \in 1 .. m
               PROVE  from(i) = {s[i]} \cup (IF i = m THEN {} ELSE from(i + 1))
    OBVIOUS
  <2>1. i .. m = {i} \cup (IF i = m THEN {} ELSE i + 1 .. m)
    BY <1>1
  <2> QED
    BY <2>1
<1> HIDE DEF from
<1>9. eq(g)
  <2>1. ASSUME NEW p \in Timers, due(p) PROVE g[p] = {p} \cup g[L.next[p]]
    <3>1. CASE L.next[p] = Freed
      BY <1>4, <1>5, <2>1, <3>1
    <3>2. CASE L.next[p] # Freed
      <4>1. PICK i \in 1 .. n : p = s[i]
        BY <3>2 DEF Whole, LiveOnly, Nodes
      <4>2. i \in 1 .. m
        BY <1>1, <1>2, <2>1, <4>1
      <4>3. g[p] = from(i)
        BY <1>5, <1>7, <2>1, <3>2, <4>1
      <4>4. CASE i = m
        <5>1. g[L.next[p]] = {}
          BY <1>3, <1>4, <4>1, <4>2, <4>4
        <5> QED
          BY <1>8, <4>1, <4>2, <4>3, <4>4, <5>1
      <4>5. CASE i # m
        <5>1. i + 1 \in 1 .. m /\ i + 1 \in 1 .. n
          BY <1>1, <4>2, <4>5
        <5>2. s[i + 1] \in Timers /\ due(s[i + 1]) /\ L.next[s[i + 1]] # Freed
          BY <1>1, <1>2, <1>3, <5>1
        <5>3. g[s[i + 1]] = from(i + 1)
          BY <1>5, <1>7, <5>1, <5>2
        <5>4. L.next[p] = s[i + 1]
          BY <1>3, <4>1, <4>2, <4>5
        <5> QED
          BY <1>8, <4>1, <4>2, <4>3, <4>5, <5>3, <5>4
      <4> QED
        BY <4>4, <4>5
    <3> QED
      BY <3>1, <3>2
  <2>2. \A p \in Pointers : ~due(p) => g[p] = {}
    OBVIOUS
  <2> QED
    BY <2>1, <2>2
<1>10. eq(f)
  <2> HIDE DEF g, eq
  <2> QED
    BY <1>6, <1>9
<1>11. \A p \in Pointers : f[p] = IF due(p) THEN {p} \cup f[L.next[p]] ELSE {}
  <2> HIDE DEF due
  <2> QED
    BY <1>10
<1> HIDE DEF g, eq, due
<1>12. ASSUME {i \in 1 .. m : f[s[i]] # from(i)} # {} PROVE FALSE
  <2> DEFINE A == {i \in 1 .. m : f[s[i]] # from(i)}
  <2>1. A \in SUBSET (0 .. m)
    OBVIOUS
  <2>2. PICK i \in A : \A j \in A : j <= i
    BY <1>1, <1>12, <2>1, Greatest
  <2>3. i \in 1 .. m /\ i \in 1 .. n /\ s[i] \in Timers /\ due(s[i])
    BY <1>1, <1>2, <1>3
  <2>4. f[s[i]] = {s[i]} \cup f[L.next[s[i]]]
    BY <1>5, <1>11, <2>3
  <2>5. CASE i = m
    BY <1>3, <1>4, <1>8, <1>11, <2>3, <2>4, <2>5
  <2>6. CASE i # m
    <3>1. i + 1 \in 1 .. m /\ ~(i + 1 <= i)
      BY <1>1, <2>3, <2>6
    <3>2. f[s[i + 1]] = from(i + 1)
      BY <2>2, <3>1
    <3> QED
      BY <1>3, <1>8, <2>3, <2>4, <2>6, <3>2
  <2> QED
    BY <2>5, <2>6
<1>13. L.head = s[1] /\ 1 \in 1 .. n
  BY <1>1 DEF Whole, Chain
<1>14. f[s[1]] = from(1)
  <2>1. CASE m = 0
    <3>1. last = s[1] /\ 0 + 1 = 1 /\ 1 .. 0 = {}
      BY <2>1 DEF last, Behind
    <3> QED
      BY <1>4, <1>11, <2>1, <3>1 DEF from
  <2>2. CASE m # 0
    <3>1. 1 \in 1 .. m
      BY <1>1, <2>2
    <3> QED
      BY <1>12, <3>1
  <2> QED
    BY <2>1, <2>2
<1> QED
  BY <1>13, <1>14 DEF f, from

LEMMA Ticked ==
  ASSUME NEW L, NEW n, NEW s, Whole(L, expire, n, s), expire \in [Timers -> Nat], now \in Nat,
         L.head # Nil
  PROVE  \E N, p : /\ Whole(tick(L), expire, N, p)
                   /\ Nodes(N, p) = {q \in Nodes(n, s) : now < expire[q]}
<1>0. L \in Lists /\ Chain(L, expire, n, s) /\ LiveOnly(L, Nodes(n, s))
  BY DEF Whole
<1>1. n \in Nat /\ n > 0 /\ \A i \in 1 .. n : s[i] \in Timers
  <2>1. n \in Nat /\ n # 0
    BY <1>0 DEF Chain
  <2> QED
    BY <1>0, <2>1, Distinct
<1>2. \A i, j \in 1 .. n : i # j => s[i] # s[j]
  BY <1>0, Distinct
<1>3. PICK m \in 0 .. n : Ranked(expire, now, n, s, m)
  BY <1>0, Rank
<1> DEFINE h == stops(L)[L.head]
           S == expired(L)[L.head]
           R == tick(L)
           N == n - m
           p == Rest(s, n, m)
<1>4. h = Behind(n, s, m) /\ S = {s[i] : i \in 1 .. m}
  BY <1>1, <1>3, Stopped, Passed
<1>5. /\ (m = n => h = Nil)
      /\ (m # n => m + 1 \in 1 .. n /\ h = s[m + 1] /\ h \in Timers /\ h # Nil)
  <2>1. m # n => m + 1 \in 1 .. n
    BY <1>1
  <2> QED
    BY <1>1, <1>4, <2>1, Special DEF Behind
<1>6. LET D == Delete(L, S) IN R = IF h = Nil THEN [D EXCEPT !.head = Nil]
                                   ELSE [D EXCEPT !.head = h, !.prev[h] = Nil]
  BY DEF tick
<1> HIDE DEF h, S, R
<1>7. /\ R \in Lists /\ R.head = h /\ R.tail = L.tail
      /\ R.next = [q \in Timers |-> IF q \in S THEN Freed ELSE L.next[q]]
      /\ \A q \in Timers : R.prev[q] = IF m # n /\ q = h THEN Nil
                                        ELSE IF q \in S THEN Freed ELSE L.prev[q]
  <2> DEFINE D == Delete(L, S)
  <2>1. /\ D \in Lists /\ D.head = L.head /\ D.tail = L.tail
        /\ D.next = [q \in Timers |-> IF q \in S THEN Freed ELSE L.next[q]]
        /\ D.prev = [q \in Timers |-> IF q \in S THEN Freed ELSE L.prev[q]]
    BY <1>0 DEF Delete, Lists
  <2>2. R = IF h = Nil THEN [D EXCEPT !.head = Nil] ELSE [D EXCEPT !.head = h, !.prev[h] = Nil]
    BY <1>6
  <2> HIDE DEF D
  <2>3. CASE m = n
    BY <1>5, <2>1, <2>2, <2>3 DEF Lists
  <2>4. CASE m # n
    <3>1. R = [D EXCEPT !.head = h, !.prev[h] = Nil]
      BY <1>5, <2>2, <2>4
    <3>2. R.head = h /\ R.tail = L.tail /\ R.next = D.next /\ R.prev = [D.prev EXCEPT ![h] = Nil]
      BY <2>1, <3>1 DEF Lists
    <3>3. R \in Lists
      BY <1>5, <2>1, <2>4, <3>1 DEF Lists
    <3> QED
      BY <1>5, <2>1, <2>4, <3>2, <3>3
  <2> QED
    BY <2>3, <2>4
<1>8. \A i \in 1 .. n : s[i] \in S <=> i <= m
  BY <1>1, <1>2, <1>4
<1>9. IsTakenOff(L, n, s, m, R)
  <2>1. ASSUME NEW i \in m + 1 .. n
        PROVE  /\ R.next[s[i]] = L.next[s[i]]
               /\ R.prev[s[i]] = IF i = m + 1 THEN Nil ELSE L.prev[s[i]]
    <3>1. i \in 1 .. n /\ m # n /\ ~(i <= m)
      BY <1>1, <1>3
    <3>2. s[i] \in Timers /\ s[i] \notin S /\ (s[i] = h <=> i = m + 1)
      BY <1>1, <1>2, <1>5, <1>8, <3>1
    <3> QED
      BY <1>7, <3>1, <3>2
  <2>2. R.head = IF m = n THEN Nil ELSE s[m + 1]
    BY <1>5, <1>7
  <2> QED
    BY <1>7, <2>1, <2>2 DEF IsTakenOff
<1>10. /\ Chain(R, expire, N, p)
       /\ Nodes(N, p) = {s[i] : i \in m + 1 .. n}
  BY <1>0, <1>9, TakenOff
<1> HIDE DEF N, p
<1>11. {s[i] : i \in m + 1 .. n} = {q \in Nodes(n, s) : now < expire[q]}
  <2>1. \A i \in 1 .. n : now < expire[s[i]] <=> ~(i <= m)
    <3>1. \A i \in 1 .. n : expire[s[i]] \in Nat
      BY <1>1
    <3> QED
      BY <1>3, <3>1 DEF Ranked
  <2>2. \A i : i \in m + 1 .. n <=> i \in 1 .. n /\ ~(i <= m)
    BY <1>1
  <2> QED
    BY <2>1, <2>2 DEF Nodes
<1>12. Nodes(n, s) \ S = {q \in Nodes(n, s) : now < expire[q]}
  <2>1. \A i \in 1 .. n : expire[s[i]] \in Nat /\ (now < expire[s[i]] <=> ~(i <= m))
    <3>1. \A i \in 1 .. n : expire[s[i]] \in Nat
      BY <1>1
    <3> QED
      BY <1>3, <3>1 DEF Ranked
  <2> QED
    BY <1>8, <2>1 DEF Nodes
<1>13. LiveOnly(R, Nodes(n, s) \ S)
  BY <1>0, <1>7 DEF LiveOnly
<1>14. Whole(R, expire, N, p) /\ Nodes(N, p) = {q \in Nodes(n, s) : now < expire[q]}
  BY <1>7, <1>10, <1>11, <1>12, <1>13 DEF Whole
<1> QED
  BY <1>14 DEF R

----------------------------------------------------------------------------
(* What a walk along the list sees.                                        *)

LEMMA Counted ==
  ASSUME NEW L, NEW x, NEW n, NEW s, Chain(L, x, n, s)
  PROVE  /\ n \in Nat /\ Cardinality(Nodes(n, s)) = n
         /\ Cardinality(Timers) \in Nat /\ n <= Cardinality(Timers)
<1>1. n \in Nat /\ s \in [1 .. n -> Timers] /\ \A i \in 1 .. n : s[i] \in Timers
  BY Distinct
<1>2. \A i, j \in 1 .. n : i # j => s[i] # s[j]
  BY Distinct
<1>3. s \in Bijection(1 .. n, Nodes(n, s))
  <2>1. s \in [1 .. n -> Nodes(n, s)]
    BY <1>1 DEF Nodes
  <2>2. \A q \in Nodes(n, s) : \E i \in 1 .. n : s[i] = q
    BY DEF Nodes
  <2> QED
    BY <1>2, <2>1, <2>2 DEF Bijection, Injection, Surjection, IsInjective
<1>4. Cardinality(Nodes(n, s)) = n
  BY <1>1, <1>3, FS_CountingElements DEF ExistsBijection
<1>5. Nodes(n, s) \in SUBSET Timers
  BY <1>1 DEF Nodes
<1> QED
  BY <1>1, <1>4, <1>5, FS_CardinalityType, FS_Subset, Special

LEMMA Walked ==
  ASSUME NEW L, NEW x, NEW n, NEW s, Whole(L, x, n, s)
  PROVE  {walk(L)[k] : k \in 0 .. Cardinality(Timers)} \cap Timers = Nodes(n, s)
<1> DEFINE c == Cardinality(Timers)
           eq(f) == f = [k \in 0 .. c |-> IF k = 0 THEN L.head
                                          ELSE IF f[k - 1] \in Timers THEN L.next[f[k - 1]]
                                          ELSE Nil]
           f == walk(L)
           g == [k \in 0 .. c |-> IF k < n THEN s[k + 1] ELSE Nil]
<1>0. L \in Lists /\ Chain(L, x, n, s)
  BY DEF Whole
<1>1. n \in Nat /\ c \in Nat /\ n <= c /\ \A i \in 1 .. n : s[i] \in Timers
  BY <1>0, Distinct, Counted
<1>2. \A i \in 1 .. n : L.next[s[i]] = IF i = n THEN Nil ELSE s[i + 1]
  BY <1>0 DEF Chain
<1>3. L.head = IF n = 0 THEN Nil ELSE s[1]
  BY <1>0 DEF Chain
<1>4. f = CHOOSE h : eq(h)
  BY DEF walk
<1> HIDE DEF f, c
<1>5. \A k \in 0 .. c : k # 0 => k - 1 \in 0 .. c
  BY <1>1
<1>6. ASSUME NEW h, h[0] = L.head,
             NEW k \in 0 .. c, k # 0, h[k - 1] = g[k - 1]
      PROVE  g[k] = IF h[k - 1] \in Timers THEN L.next[h[k - 1]] ELSE Nil
  <2>1. k - 1 \in 0 .. c /\ (k - 1) + 1 = k
    BY <1>1, <1>6
  <2>2. CASE k - 1 < n
    <3>1. k \in 1 .. n /\ h[k - 1] = s[k] /\ (k < n <=> k # n)
      BY <1>1, <1>6, <2>1, <2>2
    <3> QED
      BY <1>1, <1>2, <3>1
  <2>3. CASE ~(k - 1 < n)
    <3>1. ~(k < n) /\ h[k - 1] = Nil
      BY <1>1, <1>6, <2>1, <2>3
    <3> QED
      BY <3>1, Special
  <2> QED
    BY <2>2, <2>3
<1>7. 0 \in 0 .. c /\ g[0] = L.head
  <2>1. 0 \in 0 .. c /\ (0 < n <=> n # 0) /\ 0 + 1 = 1
    BY <1>1
  <2> QED
    BY <1>3, <2>1
<1>8. eq(g)
  <2>1. \A k \in 0 .. c : g[k] = IF k = 0 THEN L.head
                                  ELSE IF g[k - 1] \in Timers THEN L.next[g[k - 1]] ELSE Nil
    BY <1>6, <1>7
  <2>2. g = [k \in 0 .. c |-> g[k]]
    OBVIOUS
  <2> HIDE DEF g
  <2> QED
    BY <2>1, <2>2
<1>9. eq(f)
  <2> HIDE DEF g, eq
  <2> QED
    BY <1>4, <1>8
<1>10. \A k \in 0 .. c : f[k] = IF k = 0 THEN L.head
                                ELSE IF f[k - 1] \in Timers THEN L.next[f[k - 1]] ELSE Nil
  BY <1>9
<1> HIDE DEF eq
<1>11. ASSUME {k \in 0 .. c : f[k] # g[k]} # {} PROVE FALSE
  <2> DEFINE A == {k \in 0 .. c : f[k] # g[k]}
  <2>1. A \in SUBSET Nat
    BY <1>1
  <2>2. PICK k \in A : \A j \in A : k <= j
    BY <1>11, <2>1, Least
  <2>3. k \in 0 .. c /\ f[k] # g[k]
    OBVIOUS
  <2>4. CASE k = 0
    BY <1>7, <1>10, <2>3, <2>4
  <2>5. CASE k # 0
    <3>1. k - 1 \in 0 .. c /\ ~(k <= k - 1)
      BY <1>1, <1>5, <2>3, <2>5
    <3>2. f[k - 1] = g[k - 1]
      BY <2>2, <3>1
    <3>3. f[0] = L.head
      BY <1>7, <1>10
    <3> HIDE DEF g
    <3> QED
      BY <1>6, <1>10, <2>3, <2>5, <3>2, <3>3
  <2> QED
    BY <2>4, <2>5
<1>12. \A k \in 0 .. c : f[k] = IF k < n THEN s[k + 1] ELSE Nil
  BY <1>11
<1>13. ASSUME NEW k \in 0 .. c, f[k] \in Timers PROVE f[k] \in Nodes(n, s)
  <2>1. k < n
    BY <1>12, <1>13, Special
  <2>2. k + 1 \in 1 .. n
    BY <1>1, <2>1
  <2> QED
    BY <1>12, <2>1, <2>2 DEF Nodes
<1>14. ASSUME NEW i \in 1 .. n PROVE s[i] \in Timers /\ \E k \in 0 .. c : f[k] = s[i]
  <2>1. i - 1 \in 0 .. c /\ i - 1 < n /\ (i - 1) + 1 = i
    BY <1>1
  <2>2. f[i - 1] = s[i]
    BY <1>12, <2>1
  <2> QED
    BY <1>1, <2>1, <2>2
<1>15. {f[k] : k \in 0 .. c} \cap Timers = Nodes(n, s)
  BY <1>13, <1>14 DEF Nodes
<1> QED
  BY <1>15 DEF f, c

----------------------------------------------------------------------------
(* The invariant: the live timers are linked as one list.                  *)
TLInv ==
  /\ expire \in [Timers -> 0 .. MaxTime + Span] /\ now \in 0 .. MaxTime
  /\ \E n, s : Whole(list, expire, n, s)

LEMMA Seen ==
  ASSUME NEW n, NEW s, Whole(list, expire, n, s)
  PROVE  Linked = Nodes(n, s) /\ Allocated = Nodes(n, s) /\ list \in Lists
<1>1. Linked = Nodes(n, s)
  BY Walked DEF Linked
<1>2. Allocated \subseteq Timers /\ Nodes(n, s) \subseteq Timers
  BY Distinct DEF Allocated, Nodes, Whole
<1> QED
  BY <1>1, <1>2 DEF Whole, LiveOnly, Allocated

LEMMA SeenNext ==
  ASSUME NEW n, NEW s, Whole(list', expire', n, s)
  PROVE  Linked' = Nodes(n, s)
  BY Walked DEF Linked

LEMMA Times ==
  ASSUME TLInv
  PROVE  /\ expire \in [Timers -> Nat] /\ now \in Nat
         /\ \A e \in now + 1 .. now + Span : e \in 0 .. MaxTime + Span /\ e \in Nat
<1>1. 0 .. MaxTime + Span \subseteq Nat
  BY Special
<1>2. expire \in [Timers -> Nat]
  BY <1>1 DEF TLInv
<1> QED
  BY <1>2, Special DEF TLInv

LEMMA InitLinked == Init => TLInv /\ Sorted!Init
<1> SUFFICES ASSUME Init PROVE TLInv /\ Sorted!Init
  OBVIOUS
<1> DEFINE s == [i \in 1 .. 0 |-> Nil]
<1>1. s \in [1 .. 0 -> Timers] /\ Nodes(0, s) = {}
  BY DEF Nodes
<1>2. list \in Lists
  BY DEF Init, Lists
<1>3. Chain(list, expire, 0, s)
  BY <1>1 DEF Init, Chain
<1>4. LiveOnly(list, Nodes(0, s))
  BY <1>1 DEF Init, LiveOnly
<1>5. Whole(list, expire, 0, s)
  BY <1>2, <1>3, <1>4 DEF Whole
<1>6. expire \in [Timers -> 0 .. MaxTime + Span] /\ now \in 0 .. MaxTime
  BY Special DEF Init
<1>7. Linked = {}
  BY <1>1, <1>5, Seen
<1> QED
  BY <1>5, <1>6, <1>7 DEF TLInv, Init, Sorted!Init

(* Every step keeps the timers linked as one list and, seen from outside,  *)
(* changes the set of timers as SortedTimers says.                         *)
LEMMA StepLinked == TLInv /\ [Next]_tvars => TLInv' /\ [Sorted!Next]_Sorted!svars
<1> SUFFICES ASSUME TLInv, [Next]_tvars PROVE TLInv' /\ [Sorted!Next]_Sorted!svars
  OBVIOUS
<1>1. PICK n, s : Whole(list, expire, n, s)
  BY DEF TLInv
<1>2. Linked = Nodes(n, s) /\ Allocated = Nodes(n, s) /\ list \in Lists
  BY <1>1, Seen
<1>3. expire \in [Timers -> 0 .. MaxTime + Span] /\ now \in 0 .. MaxTime
  BY DEF TLInv
<1>4. expire \in [Timers -> Nat] /\ now \in Nat
  BY Times
<1>5. ASSUME NEW t \in Timers, Del(t) PROVE TLInv' /\ Sorted!Next
  <2>1. PICK k \in 1 .. n : t = s[k]
    BY <1>2, <1>5 DEF Del, Nodes
  <2>2. UNCHANGED <<expire, now>>
    BY <1>5 DEF Del
  <2>3. /\ Whole(list', expire', n - 1, Drop(s, n, k))
        /\ Nodes(n - 1, Drop(s, n, k)) = Nodes(n, s) \ {t}
    BY <1>1, <1>5, <2>1, <2>2, Removed DEF Del
  <2>4. Linked' = Linked \ {t}
    BY <1>2, <2>3, SeenNext
  <2>5. Sorted!Delete(t)
    BY <1>2, <1>5, <2>2, <2>4 DEF Del, Sorted!Delete
  <2>6. TLInv'
    BY <1>3, <2>2, <2>3 DEF TLInv
  <2> QED
    BY <2>5, <2>6 DEF Sorted!Next
<1>6. ASSUME NEW t \in Timers, NEW e \in now + 1 .. now + Span, Add(t, e)
      PROVE  TLInv' /\ Sorted!Next
  <2>1. t \notin Nodes(n, s) /\ expire' = [expire EXCEPT ![t] = e] /\ now' = now
        /\ list' = add_timer(Create(list, t), expire', t)
    BY <1>2, <1>6 DEF Add
  <2>2. e \in 0 .. MaxTime + Span /\ e \in Nat
    BY Times
  <2>3. expire' \in [Timers -> 0 .. MaxTime + Span] /\ expire' \in [Timers -> Nat]
    BY <1>3, <1>4, <2>1, <2>2
  <2>4. Whole(list, expire', n, s)
    <3>1. Reset(expire, t, e, expire')
      BY <2>1 DEF Reset
    <3>2. Chain(list, expire', n, s)
      BY <1>1, <1>4, <2>1, <3>1, OthersExpire DEF Whole
    <3> QED
      BY <1>1, <3>2 DEF Whole
  <2>5. \E p : Whole(list', expire', n + 1, p) /\ Nodes(n + 1, p) = Nodes(n, s) \cup {t}
    <3>1. t \notin Nodes(n, s) /\ list' = add_timer(Create(list, t), expire', t)
      BY <2>1
    <3>2. expire' \in [Timers -> Nat]
      BY <2>3
    <3> QED
      BY <2>4, <3>1, <3>2, Added
  <2>6. PICK p : Whole(list', expire', n + 1, p) /\ Nodes(n + 1, p) = Nodes(n, s) \cup {t}
    BY <2>5
  <2>7. Linked' = Linked \cup {t}
    BY <1>2, <2>6, SeenNext
  <2>8. Sorted!Add(t, e)
    BY <1>2, <2>1, <2>7 DEF Sorted!Add
  <2>9. TLInv'
    BY <1>3, <2>1, <2>3, <2>6 DEF TLInv
  <2> QED
    BY <2>8, <2>9 DEF Sorted!Next
<1>7. ASSUME NEW t \in Timers, NEW e \in now + 1 .. now + Span, Adjust(t, e)
      PROVE  TLInv' /\ Sorted!Next
  <2>1. PICK k \in 1 .. n : t = s[k]
    BY <1>2, <1>7 DEF Adjust, Nodes
  <2>2. e >= expire[t] /\ expire' = [expire EXCEPT ![t] = e] /\ now' = now
        /\ list' = adjust_timer(list, expire', t)
    BY <1>7 DEF Adjust
  <2>3. e \in 0 .. MaxTime + Span /\ e \in Nat
    BY Times
  <2>4. Reset(expire, t, e, expire')
    BY <2>2 DEF Reset
  <2>5. \E p : /\ Whole(adjust_timer(list, expire', s[k]), expire', n, p)
               /\ Nodes(n, p) = Nodes(n, s)
    <3>1. expire \in [Timers -> Nat] /\ e \in Nat /\ e >= expire[s[k]]
      BY <1>4, <2>1, <2>2, <2>3
    <3>2. Reset(expire, s[k], e, expire')
      BY <2>1, <2>4
    <3> QED
      BY <1>1, <3>1, <3>2, Adjusted
  <2>6. PICK p : Whole(list', expire', n, p) /\ Nodes(n, p) = Nodes(n, s)
    BY <2>1, <2>2, <2>5
  <2>7. Linked' = Linked
    BY <1>2, <2>6, SeenNext
  <2>8. Sorted!Adjust(t, e)
    BY <1>2, <2>1, <2>2, <2>7 DEF Sorted!Adjust, Nodes
  <2>9. TLInv'
    <3>1. expire' \in [Timers -> 0 .. MaxTime + Span]
      BY <1>3, <2>2, <2>3
    <3> QED
      BY <1>3, <2>2, <2>6, <3>1 DEF TLInv
  <2> QED
    BY <2>8, <2>9 DEF Sorted!Next
<1>8. ASSUME Tick PROVE TLInv' /\ Sorted!Next
  <2>1. list.head # Nil /\ list' = tick(list) /\ UNCHANGED <<expire, now>>
    BY <1>8 DEF Tick
  <2>2. \E N, p : /\ Whole(tick(list), expire, N, p)
                  /\ Nodes(N, p) = {q \in Nodes(n, s) : now < expire[q]}
    BY <1>1, <1>4, <2>1, Ticked
  <2>3. PICK N, p : /\ Whole(list', expire', N, p)
                    /\ Nodes(N, p) = {q \in Nodes(n, s) : now < expire[q]}
    BY <2>1, <2>2
  <2>4. Linked' = {q \in Linked : now < expire[q]}
    BY <1>2, <2>3, SeenNext
  <2>5. Sorted!Tick
    BY <2>1, <2>4 DEF Sorted!Tick
  <2>6. TLInv'
    BY <1>3, <2>1, <2>3 DEF TLInv
  <2> QED
    BY <2>5, <2>6 DEF Sorted!Next
<1>9. ASSUME Elapse PROVE TLInv' /\ Sorted!Next
  <2>1. now < MaxTime /\ now' = now + 1 /\ UNCHANGED <<list, expire>>
    BY <1>9 DEF Elapse
  <2>2. TLInv'
    <3>1. now' \in 0 .. MaxTime
      BY <1>3, <2>1, Special
    <3> QED
      BY <1>1, <1>3, <2>1, <3>1 DEF TLInv
  <2>3. Linked' = Linked
    BY <2>1 DEF Linked
  <2> QED
    BY <2>1, <2>2, <2>3 DEF Sorted!Next, Sorted!Elapse
<1>10. CASE UNCHANGED tvars
  <2>1. list' = list /\ expire' = expire /\ now' = now
    BY <1>10 DEF tvars
  <2>2. Linked' = Linked
    BY <2>1 DEF Linked
  <2>3. TLInv'
    BY <1>1, <1>3, <2>1 DEF TLInv
  <2> QED
    BY <2>1, <2>2, <2>3 DEF Sorted!svars
<1> QED
  BY <1>5, <1>6, <1>7, <1>8, <1>9, <1>10 DEF Next

LEMMA TLInvariant == Spec => []TLInv
<1>1. Init => TLInv
  BY InitLinked
<1>2. TLInv /\ [Next]_tvars => TLInv'
  BY StepLinked
<1> QED
  BY <1>1, <1>2, PTL DEF Spec

(* The links of every node stay within the nodes that new can return, nil  *)
(* and deleted memory, and no expiry lies further ahead than a timer can   *)
(* be set.                                                                 *)
THEOREM TimerTypes == Spec => []TLTypeOK
<1>1. TLInv => TLTypeOK
  BY Seen DEF TLInv, TLTypeOK
<1> QED
  BY <1>1, TLInvariant, PTL

(* Whatever add_timer, adjust_timer, del_timer and tick do, the live       *)
(* timers form one list from head to tail, linked both ways, the nearest   *)
(* expiry first: no timer is leaked, no deleted node is linked in.         *)
THEOREM OneSortedList == Spec => []WellLinked
<1>1. TLInv => WellLinked
  <2> SUFFICES ASSUME TLInv PROVE WellLinked
    OBVIOUS
  <2>1. PICK n, s : Whole(list, expire, n, s)
    BY DEF TLInv
  <2>2. Allocated = Nodes(n, s) /\ Chain(list, expire, n, s)
    BY <2>1, Seen DEF Whole
  <2>3. n \in Nat /\ Cardinality(Allocated) = n
    BY <2>2, Counted
  <2>4. s \in [1 .. n -> Allocated]
    BY <2>2, Distinct DEF Nodes
  <2>5. Ordered(s)
    <3>1. n # 0 => n > 0
      BY <2>3
    <3> QED
      BY <2>2, <2>3, <3>1 DEF Ordered, Chain
  <2> QED
    BY <2>3, <2>4, <2>5 DEF WellLinked
<1> QED
  BY <1>1, TLInvariant, PTL

(* The linked list implements the set of timers its callers see: an        *)
(* operation touches no timer but its own, and tick() removes exactly the  *)
(* expired ones although it stops at the first that is not.                *)
THEOREM SortedImplemented == Spec => ImplementsSorted
<1>1. Init => TLInv /\ Sorted!Init
  BY InitLinked
<1>2. TLInv /\ [Next]_tvars => TLInv' /\ [Sorted!Next]_Sorted!svars
  BY StepLinked
<1> QED
  BY <1>1, <1>2, TLInvariant, PTL DEF Spec, ImplementsSorted, Sorted!Spec
=============================================================================
