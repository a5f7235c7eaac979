-------------------------- MODULE KeyListenerProofs --------------------------
(***************************************************************************)
(* The safety properties of KeyListener for any keyboards, keys, keybinds, *)
(* debounce and rescan interval.                                           *)
(***************************************************************************)
EXTENDS KeyListener, FiniteSetTheorems, SequenceTheorems, WellFoundedInduction, TLAPS

-----------------------------------------------------------------------------
(* Least and greatest numbers, and induction as a fact about sets           *)

\* A set of naturals that is not empty has a least element.
LEMMA LeastNat ==
  ASSUME NEW T \in SUBSET Nat, T # {}
  PROVE  \E x \in T : \A y \in T : x <= y
<1>1. PICK x \in T : \A y \in T : ~ (<<y, x>> \in OpToRel(<, Nat))
  <2>1. \E x \in T : \A y \in T : ~ (<<y, x>> \in OpToRel(<, Nat))
    BY WFMin, NatLessThanWellFounded
  <2> QED
    BY <2>1
<1>2. ASSUME NEW y \in T PROVE x <= y
  <2>1. ~ (y < x)
    BY <1>1 DEF OpToRel
  <2> QED
    BY <2>1
<1> QED
  BY <1>2

\* What holds of 0 and goes from a number to the next holds of every number.
LEMMA SetInduction ==
  ASSUME NEW G, 0 \in G, \A n \in Nat : n \in G => n + 1 \in G
  PROVE  Nat \subseteq G
<1> SUFFICES ASSUME Nat \ G # {} PROVE FALSE
  OBVIOUS
<1>1. PICK x \in Nat \ G : \A y \in Nat \ G : x <= y
  BY LeastNat
<1>2. x - 1 \in Nat /\ x - 1 < x /\ x - 1 + 1 = x
  BY <1>1
<1>3. x - 1 \in G
  BY <1>1, <1>2
<1> QED
  BY <1>2, <1>3

\* Min of the next device that is ready is one of them.
LEMMA MinIsLeast ==
  ASSUME NEW T \in SUBSET Nat, T # {}
  PROVE  Min(T) \in T /\ \A y \in T : Min(T) <= y
BY LeastNat DEF Min

\* Max of indices is one of them.
LEMMA MaxIsGreatest ==
  ASSUME NEW m \in Nat, NEW T \in SUBSET (1..m), T # {}
  PROVE  Max(T) \in T /\ \A y \in T : y <= Max(T)
<1> DEFINE U == {m - x : x \in T}
<1>1. U \in SUBSET Nat /\ U # {}
  <2>1. ASSUME NEW x \in T PROVE m - x \in Nat
    <3>1. x \in 1..m
      OBVIOUS
    <3> QED
      BY <3>1
  <2> QED
    BY <2>1
<1>2. PICK u \in U : \A w \in U : u <= w
  BY <1>1, LeastNat
<1>3. PICK x \in T : u = m - x
  BY <1>2
<1>4. ASSUME NEW y \in T PROVE x >= y
  <2>1. u <= m - y
    BY <1>2
  <2>2. x \in 1..m /\ y \in 1..m
    OBVIOUS
  <2> QED
    BY <1>3, <2>1, <2>2
<1>5. \E z \in T : \A y \in T : z >= y
  BY <1>4
<1>6. Max(T) \in T /\ \A y \in T : Max(T) >= y
  BY <1>5 DEF Max
<1>7. \A y \in T : y \in Nat
  OBVIOUS
<1> QED
  BY <1>6, <1>7

-----------------------------------------------------------------------------
(* The fold of Kept, step by step                                          *)

\* g folds the indices of every subset of 1..m.
Folds(g, base, q, m) ==
  g = [s \in SUBSET (1..m) |->
         IF s = {} THEN base ELSE RemoveIfThere(g[s \ {Max(s)}], q[Max(s)])]

\* There is such a function: the recursive definition behind FoldLeft means
\* something.
LEMMA FoldExists ==
  ASSUME NEW base, NEW q, NEW m \in Nat
  PROVE  \E g : Folds(g, base, q, m)
<1> DEFINE G == {k \in Nat : \E g : Folds(g, base, q, k)}
<1>1. 0 \in G
  <2> DEFINE g == [s \in SUBSET (1..0) |-> base]
  <2>1. \A s \in SUBSET (1..0) : s = {}
    OBVIOUS
  <2>2. Folds(g, base, q, 0)
    BY <2>1 DEF Folds
  <2> QED
    BY <2>2
<1>2. ASSUME NEW k \in Nat, k \in G PROVE k + 1 \in G
  <2>1. PICK g : Folds(g, base, q, k)
    BY <1>2
  <2> DEFINE h == [s \in SUBSET (1..(k + 1)) |->
                     IF k + 1 \in s THEN RemoveIfThere(g[s \ {k + 1}], q[k + 1])
                     ELSE g[s]]
  <2>2. ASSUME NEW s \in SUBSET (1..(k + 1))
        PROVE  h[s] = IF s = {} THEN base
                      ELSE RemoveIfThere(h[s \ {Max(s)}], q[Max(s)])
    <3>1. CASE k + 1 \in s
      <4>1. Max(s) \in s /\ \A y \in s : y <= Max(s)
        <5>1. k + 1 \in Nat /\ s # {}
          BY <3>1
        <5> QED
          BY <5>1, MaxIsGreatest
      <4>2. Max(s) = k + 1
        <5>1. Max(s) \in 1..(k + 1) /\ k + 1 <= Max(s)
          BY <3>1, <4>1
        <5> QED
          BY <5>1
      <4>3. s \ {k + 1} \in SUBSET (1..(k + 1)) /\ k + 1 \notin s \ {k + 1}
        OBVIOUS
      <4>4. h[s \ {k + 1}] = g[s \ {k + 1}]
        BY <4>3
      <4> QED
        BY <3>1, <4>2, <4>4
    <3>2. CASE k + 1 \notin s
      <4>1. s \in SUBSET (1..k)
        BY <3>2
      <4>2. h[s] = g[s]
        BY <3>2
      <4>3. CASE s = {}
        BY <2>1, <4>1, <4>2, <4>3 DEF Folds
      <4>4. CASE s # {}
        <5>1. Max(s) \in s
          BY <4>1, <4>4, MaxIsGreatest
        <5>2. s \ {Max(s)} \in SUBSET (1..(k + 1)) /\ k + 1 \notin s \ {Max(s)}
          BY <3>2
        <5>3. h[s \ {Max(s)}] = g[s \ {Max(s)}]
          BY <5>2
        <5>4. g[s] = RemoveIfThere(g[s \ {Max(s)}], q[Max(s)])
          BY <2>1, <4>1, <4>4 DEF Folds
        <5> QED
          BY <4>2, <4>4, <5>3, <5>4
      <4> QED
        BY <4>3, <4>4
    <3> QED
      BY <3>1, <3>2
  <2> DEFINE rhs == [s \in SUBSET (1..(k + 1)) |->
                       IF s = {} THEN base
                       ELSE RemoveIfThere(h[s \ {Max(s)}], q[Max(s)])]
  <2>3. h = rhs
    BY <2>2
  <2>4. Folds(h, base, q, k + 1)
    BY <2>3 DEF Folds
  <2> QED
    BY <2>4
<1> HIDE DEF G
<1>3. Nat \subseteq G
  BY <1>1, <1>2, SetInduction
<1> QED
  BY <1>3 DEF G

RemovedInTurn(base, q) == FoldLeft(RemoveIfThere, base, q)

\* f has what is left after each of the m indices of q.
Stepwise(f, base, q, m) ==
  /\ f[0] = base
  /\ \A k \in 1..m : f[k] = RemoveIfThere(f[k - 1], q[k])
  /\ RemovedInTurn(base, q) = f[m]

\* FoldLeft removes what q lists, one after the other.
LEMMA FoldLeftSteps ==
  ASSUME NEW base, NEW m \in Nat, NEW q, DOMAIN q = 1..m
  PROVE  \E f : Stepwise(f, base, q, m)
<1> DEFINE iter == CHOOSE g : Folds(g, base, q, m)
<1>1. Folds(iter, base, q, m)
  BY FoldExists
<1>2. RemovedInTurn(base, q) = iter[1..m]
  BY DEF RemovedInTurn, FoldLeft, MapThenFoldSet, Folds
<1> HIDE DEF iter
<1> DEFINE f == [k \in 0..m |-> iter[1..k]]
<1>3. f[0] = base
  <2>1. 1..0 = {} /\ 1..0 \in SUBSET (1..m)
    OBVIOUS
  <2>2. iter[1..0] = base
    BY <1>1, <2>1 DEF Folds
  <2> QED
    BY <2>2
<1>4. ASSUME NEW k \in 1..m PROVE f[k] = RemoveIfThere(f[k - 1], q[k])
  <2>1. 1..k \in SUBSET (1..m) /\ 1..k # {} /\ k \in 1..k
    BY SMTT(30)
  <2>2. Max(1..k) \in 1..k /\ k <= Max(1..k)
    BY <2>1, MaxIsGreatest
  <2>3. Max(1..k) = k
    BY <2>2
  <2>4. (1..k) \ {k} = 1..(k - 1)
    BY SMTT(30)
  <2>5. iter[1..k] = RemoveIfThere(iter[(1..k) \ {Max(1..k)}], q[Max(1..k)])
    BY <1>1, <2>1 DEF Folds
  <2>6. iter[1..k] = RemoveIfThere(iter[1..(k - 1)], q[k])
    BY <2>3, <2>4, <2>5
  <2>7. k \in 0..m /\ k - 1 \in 0..m
    OBVIOUS
  <2> QED
    BY <2>6, <2>7
<1>5. RemovedInTurn(base, q) = f[m]
  BY <1>2
<1> HIDE DEF f
<1>6. Stepwise(f, base, q, m)
  BY <1>3, <1>4, <1>5 DEF Stepwise
<1> QED
  BY <1>6

-----------------------------------------------------------------------------
(* What Kept keeps                                                         *)

\* RemoveAt takes out one position and moves the later ones down.
LEMMA RemoveAtDoes ==
  ASSUME NEW S, NEW list \in Seq(S), NEW i \in 1..Len(list)
  PROVE  /\ RemoveAt(list, i) \in Seq(S)
         /\ Len(RemoveAt(list, i)) = Len(list) - 1
         /\ \A j \in 1..(Len(list) - 1) :
              RemoveAt(list, i)[j] = IF j < i THEN list[j] ELSE list[j + 1]
<1> DEFINE n == Len(list)
           low == SubSeq(list, 1, i - 1)
           high == SubSeq(list, i + 1, n)
<1>1. n \in Nat /\ i \in 1..n /\ i \in Int /\ \A j \in 1..n : list[j] \in S
  BY LenProperties
<1>2. /\ low \in Seq(S) /\ Len(low) = i - 1
      /\ \A j \in 1..(i - 1) : low[j] = list[j]
  <2>1. 1 \in Int /\ i - 1 \in Int /\ \A j \in 1..(i - 1) : list[j] \in S
    BY <1>1
  <2>2. /\ low \in Seq(S) /\ Len(low) = IF 1 <= i - 1 THEN (i - 1) - 1 + 1 ELSE 0
        /\ \A j \in 1..((i - 1) - 1 + 1) : low[j] = list[1 + j - 1]
    BY <2>1, SubSeqProperties
  <2> QED
    BY <1>1, <2>2
<1>3. /\ high \in Seq(S) /\ Len(high) = n - i
      /\ \A j \in 1..(n - i) : high[j] = list[i + j]
  <2>1. i + 1 \in Int /\ n \in Int /\ \A j \in (i + 1)..n : list[j] \in S
    BY <1>1
  <2>2. /\ high \in Seq(S) /\ Len(high) = IF i + 1 <= n THEN n - (i + 1) + 1 ELSE 0
        /\ \A j \in 1..(n - (i + 1) + 1) : high[j] = list[(i + 1) + j - 1]
    BY <2>1, SubSeqProperties
  <2> QED
    BY <1>1, <2>2
<1>4. RemoveAt(list, i) = low \o high
  BY DEF RemoveAt
<1>5. /\ low \o high \in Seq(S) /\ Len(low \o high) = Len(low) + Len(high)
      /\ \A j \in 1..(Len(low) + Len(high)) :
           (low \o high)[j] = IF j <= Len(low) THEN low[j] ELSE high[j - Len(low)]
  BY <1>2, <1>3, ConcatProperties
<1> HIDE DEF low, high
<1>6. Len(low) + Len(high) = n - 1
  BY <1>1, <1>2, <1>3
<1>7. ASSUME NEW j \in 1..(n - 1)
      PROVE  (low \o high)[j] = IF j < i THEN list[j] ELSE list[j + 1]
  <2>1. CASE j < i
    <3>1. j \in 1..(i - 1) /\ j <= Len(low)
      BY <1>1, <1>2, <2>1
    <3> QED
      BY <1>2, <1>5, <1>6, <2>1, <3>1
  <2>2. CASE ~(j < i)
    <3>1. /\ j - (i - 1) \in 1..(n - i) /\ ~(j <= i - 1)
          /\ i + (j - (i - 1)) = j + 1
      BY <1>1, <2>2
    <3>2. (low \o high)[j] = high[j - (i - 1)]
      BY <1>2, <1>5, <1>6, <3>1
    <3>3. high[j - (i - 1)] = list[i + (j - (i - 1))]
      BY <1>3, <3>1
    <3> QED
      BY <2>2, <3>1, <3>2, <3>3
  <2> QED
    BY <2>1, <2>2
<1> QED
  BY <1>4, <1>5, <1>6, <1>7

\* The list is a list of handles still, and e says which of the n handles polled
\* is where: all but the removed ones, the ones below those in their places.
Remains(list, e, n, removed) ==
  /\ list \in Seq(Handle)
  /\ e \in [1..Len(list) -> 1..n]
  /\ \A j \in 1..Len(list) : list[j] = handles[e[j]] /\ e[j] \notin removed
  /\ \A j, k \in 1..Len(list) : e[j] = e[k] => j = k
  /\ \A i \in (1..n) \ removed : \E j \in 1..Len(list) : e[j] = i
  /\ \A i \in 1..n : (\A r \in removed : i < r) => i <= Len(list) /\ e[i] = i

\* Removing the next lower index leaves the rest where it was.
LEMMA RemainsWithout ==
  ASSUME NEW n \in Nat, NEW list, NEW e, NEW removed \in SUBSET (1..n),
         Remains(list, e, n, removed),
         NEW i \in 1..n, \A r \in removed : i < r
  PROVE  \E e1 : Remains(RemoveIfThere(list, i), e1, n, removed \union {i})
<1>1. /\ list \in Seq(Handle) /\ Len(list) \in Nat /\ DOMAIN list = 1..Len(list)
      /\ i \in 1..Len(list) /\ e[i] = i
  <2>1. list \in Seq(Handle) /\ i <= Len(list) /\ e[i] = i
    BY DEF Remains
  <2>2. Len(list) \in Nat /\ DOMAIN list = 1..Len(list)
    BY <2>1, LenProperties
  <2> QED
    BY <2>1, <2>2
<1> DEFINE m == Len(list) - 1
           next == RemoveAt(list, i)
           e1 == [j \in 1..m |-> IF j < i THEN e[j] ELSE e[j + 1]]
<1>2. /\ next \in Seq(Handle) /\ Len(next) = m
      /\ \A j \in 1..m : next[j] = IF j < i THEN list[j] ELSE list[j + 1]
  <2>1. list \in Seq(Handle) /\ i \in 1..Len(list)
    BY <1>1
  <2> QED
    BY <2>1, RemoveAtDoes, Zenon
<1>3. RemoveIfThere(list, i) = next
  BY <1>1 DEF RemoveIfThere
<1> HIDE DEF next
<1>4. m \in Nat /\ \A j \in 1..m : j \in 1..Len(list) /\ j + 1 \in 1..Len(list)
  BY <1>1
<1>5. ASSUME NEW j \in 1..m
      PROVE  /\ e1[j] \in 1..n /\ next[j] = handles[e1[j]]
             /\ e1[j] \notin removed \union {i}
  <2>1. CASE j < i
    <3>1. e1[j] = e[j]
      BY <2>1
    <3>2. next[j] = list[j]
      BY <1>2, <2>1
    <3>3. j \in 1..Len(list) /\ j # i
      BY <1>4, <2>1
    <3> QED
      BY <1>1, <3>1, <3>2, <3>3 DEF Remains
  <2>2. CASE ~(j < i)
    <3>1. /\ e1[j] = e[j + 1] /\ next[j] = list[j + 1] /\ j + 1 \in 1..Len(list)
          /\ j + 1 # i
      BY <1>2, <1>4, <2>2
    <3> QED
      BY <1>1, <3>1 DEF Remains
  <2> QED
    BY <2>1, <2>2
<1>6. ASSUME NEW j \in 1..m, NEW k \in 1..m, e1[j] = e1[k] PROVE j = k
  <2> DEFINE at(x) == IF x < i THEN x ELSE x + 1
  <2>1. /\ e1[j] = e[at(j)] /\ e1[k] = e[at(k)]
        /\ at(j) \in 1..Len(list) /\ at(k) \in 1..Len(list)
    BY <1>4
  <2>2. at(j) = at(k)
    BY <1>6, <2>1 DEF Remains
  <2> QED
    BY <2>2
<1>7. ASSUME NEW x \in (1..n) \ (removed \union {i}) PROVE \E j \in 1..m : e1[j] = x
  <2>1. PICK k \in 1..Len(list) : e[k] = x
    BY DEF Remains
  <2>2. k # i
    BY <1>1, <2>1
  <2>3. CASE k < i
    <3>1. k \in 1..m /\ e1[k] = x
      BY <1>1, <2>1, <2>3
    <3> QED
      BY <3>1
  <2>4. CASE ~(k < i)
    <3>1. k - 1 \in 1..m /\ ~(k - 1 < i) /\ k - 1 + 1 = k
      BY <1>1, <2>2, <2>4
    <3>2. e1[k - 1] = x
      BY <2>1, <3>1
    <3> QED
      BY <3>1, <3>2
  <2> QED
    BY <2>3, <2>4
<1>8. ASSUME NEW x \in 1..n, \A r \in removed \union {i} : x < r
      PROVE  x <= m /\ e1[x] = x
  <2>1. x < i /\ \A r \in removed : x < r
    BY <1>8
  <2>2. e[x] = x
    BY <2>1 DEF Remains
  <2>3. x \in 1..m
    BY <1>1, <2>1
  <2> QED
    BY <2>1, <2>2, <2>3
<1>9. e1 \in [1..m -> 1..n]
  BY <1>5
<1> HIDE DEF e1
<1>10. Remains(next, e1, n, removed \union {i})
  <2>1. /\ next \in Seq(Handle) /\ e1 \in [1..Len(next) -> 1..n]
        /\ \A j \in 1..Len(next) :
             next[j] = handles[e1[j]] /\ e1[j] \notin removed \union {i}
    BY <1>2, <1>5, <1>9
  <2>2. \A j, k \in 1..Len(next) : e1[j] = e1[k] => j = k
    BY <1>2, <1>6
  <2>3. \A x \in (1..n) \ (removed \union {i}) : \E j \in 1..Len(next) : e1[j] = x
    BY <1>2, <1>7
  <2>4. \A x \in 1..n : (\A r \in removed \union {i} : x < r)
                       => x <= Len(next) /\ e1[x] = x
    BY <1>2, <1>8
  <2> QED
    BY <2>1, <2>2, <2>3, <2>4 DEF Remains
<1> QED
  BY <1>3, <1>10

\* Kept is what remains without the broken ones, whatever their number.
LEMMA KeptRemains ==
  ASSUME handles \in Seq(Handle), broken \in Seq(Nat),
         \A i \in DOMAIN broken : broken[i] \in 1..Len(handles),
         \A i, j \in DOMAIN broken : i < j => broken[i] < broken[j]
  PROVE  \E e : Remains(Kept, e, Len(handles), Range(broken))
<1> DEFINE n == Len(handles)
           m == Len(broken)
           q == Reverse(broken)
           Gone(k) == {broken[j] : j \in (m - k + 1)..m}
<1>1. /\ n \in Nat /\ m \in Nat /\ DOMAIN broken = 1..m /\ DOMAIN handles = 1..n
      /\ \A j \in 1..n : handles[j] \in Handle
  BY LenProperties
<1>2. DOMAIN q = 1..m /\ \A k \in 1..m : q[k] = broken[m - k + 1]
  BY DEF Reverse
<1> HIDE DEF n, m, q
<1>3. PICK f : Stepwise(f, handles, q, m)
  <2>1. m \in Nat /\ DOMAIN q = 1..m
    BY <1>1, <1>2
  <2>2. \E f : Stepwise(f, handles, q, m)
    BY <2>1, FoldLeftSteps
  <2> QED
    BY <2>2
<1> DEFINE G == {k \in Nat : k <= m => \E e : Remains(f[k], e, n, Gone(k))}
<1>4. 0 \in G
  <2> DEFINE e == [j \in 1..n |-> j]
  <2>1. Gone(0) = {}
    BY <1>1
  <2>2. /\ handles \in Seq(Handle) /\ Len(handles) = n
        /\ e \in [1..n -> 1..n] /\ \A j \in 1..n : e[j] = j
    BY DEF n
  <2> HIDE DEF e
  <2>3. Remains(handles, e, n, {})
    BY <1>1, <2>2 DEF Remains
  <2> QED
    BY <1>3, <2>1, <2>3 DEF Stepwise
<1>5. ASSUME NEW k \in Nat, k \in G PROVE k + 1 \in G
  <2> SUFFICES ASSUME k + 1 <= m
               PROVE  \E e : Remains(f[k + 1], e, n, Gone(k + 1))
    <3>1. k + 1 \in Nat
      OBVIOUS
    <3> HIDE DEF Gone
    <3> QED
      BY <3>1
  <2>1. /\ k <= m /\ k + 1 \in 1..m /\ k + 1 - 1 = k /\ m - (k + 1) + 1 = m - k
        /\ m - k \in 1..m /\ (m - k + 1)..m \subseteq 1..m
    BY <1>1
  <2>2. PICK e : Remains(f[k], e, n, Gone(k))
    BY <1>5, <2>1
  <2> DEFINE i == broken[m - k]
  <2>3. f[k + 1] = RemoveIfThere(f[k], i)
    BY <1>2, <1>3, <2>1 DEF Stepwise
  <2>4. i \in 1..n /\ Gone(k) \in SUBSET (1..n)
    BY <1>1, <2>1 DEF n
  <2>5. \A r \in Gone(k) : i < r
    <3>1. ASSUME NEW j \in (m - k + 1)..m PROVE i < broken[j]
      <4>1. m - k < j /\ j \in 1..m
        BY <1>1, <2>1
      <4> QED
        BY <1>1, <2>1, <4>1
    <3> QED
      BY <3>1
  <2>6. Gone(k + 1) = Gone(k) \union {i}
    <3>1. (m - (k + 1) + 1)..m = ((m - k + 1)..m) \union {m - k}
      BY <1>1, <2>1, SMTT(30)
    <3> QED
      BY <3>1
  <2> HIDE DEF Gone, i
  <2>7. \E e1 : Remains(RemoveIfThere(f[k], i), e1, n, Gone(k) \union {i})
    BY <1>1, <2>2, <2>4, <2>5, RemainsWithout
  <2> QED
    BY <2>3, <2>6, <2>7
<1> HIDE DEF G
<1>6. m \in G
  BY <1>1, <1>4, <1>5, SetInduction
<1>7. \E e : Remains(f[m], e, n, Gone(m))
  <2>1. m <= m
    BY <1>1
  <2> HIDE DEF Gone
  <2> QED
    BY <1>6, <2>1 DEF G
<1>8. Gone(m) = Range(broken)
  <2>1. m - m + 1 = 1
    BY <1>1
  <2> QED
    BY <1>1, <2>1 DEF Range
<1>9. Kept = f[m]
  BY <1>3 DEF Stepwise, Kept, RemovedInTurn, q
<1> QED
  BY <1>7, <1>8, <1>9 DEF n

-----------------------------------------------------------------------------
(* The inductive invariant                                                 *)

\* The variables TypeOK leaves open, histories included.
MoreTypes ==
  /\ revents \in Seq({"none", "in", "broken"})
  /\ cursor \in Nat
  /\ broken \in Seq(Nat)
  /\ heard \in [Devices -> SUBSET Keys]
  /\ seenUp \subseteq Keybinds

\* A path is opened once: the rescan leaves out those that are open.
DistinctPaths ==
  \A i, j \in DOMAIN handles : handles[i].path = handles[j].path => i = j

\* In a round, poll's answer still holds of the devices the loop has to come to,
\* but for one that has gone since.
StillReady ==
  pc = "devices" => \A i \in cursor..Len(revents) :
    revents[i] = "in" /\ handles[i].live => handles[i].events # <<>>

\* What a round calls broken is gone, and the indices are in ascending order.
BrokenAreGone ==
  pc = "devices" =>
    /\ \A i \in DOMAIN revents : revents[i] = "broken" => ~handles[i].live
    /\ \A i \in DOMAIN broken : ~handles[broken[i]].live
    /\ \A i, j \in DOMAIN broken : i < j => broken[i] < broken[j]

\* A keybind that counts as up has been seen up since its last report.
UpWasSeen == \A b \in Keybinds : wasDown[b] \/ b \in seenUp

IInv == /\ TypeOK /\ MoreTypes /\ DistinctPaths /\ StillReady /\ BrokenAreGone
        /\ NoPhantomKeys /\ UpWasSeen

-----------------------------------------------------------------------------
(* What the steps do to the handles                                        *)

\* A function on 1..n is a sequence.
LEMMA ListIsSeq ==
  ASSUME NEW S, NEW n \in Nat, NEW f, DOMAIN f = 1..n, f = [i \in 1..n |-> f[i]],
         \A i \in 1..n : f[i] \in S
  PROVE  f \in Seq(S) /\ Len(f) = n
OBVIOUS

\* The handles stay where they are; a device that has gone stays gone.
SameHandles ==
  /\ handles' \in Seq(Handle)
  /\ Len(handles') = Len(handles)
  /\ \A i \in 1..Len(handles) : /\ handles'[i].path = handles[i].path
                                /\ handles'[i].live => handles[i].live

\* No handle is read empty.
KeepsUnread(i) ==
  handles'[i].live /\ handles[i].events # <<>> => handles'[i].events # <<>>

\* The kernel queues an event behind those that are unread.
LEMMA QueuedKeeps ==
  ASSUME TypeOK, NEW d \in Devices, NEW k \in Keys,
         NEW kind \in {"press", "release", "repeat"},
         handles' = Queued(d, [kind |-> kind, key |-> k])
  PROVE  SameHandles /\ \A i \in 1..Len(handles) : KeepsUnread(i)
<1> DEFINE Event == [kind : {"press", "release", "repeat", "syn"}, key : Keys]
           event == [kind |-> kind, key |-> k]
           n == Len(handles)
<1>1. n \in Nat /\ DOMAIN handles = 1..n /\ event \in Event
  BY LenProperties DEF TypeOK
<1>2. ASSUME NEW i \in 1..n
      PROVE  /\ handles'[i] \in Handle /\ handles'[i].path = handles[i].path
             /\ handles'[i].live => handles[i].live
             /\ KeepsUnread(i)
  <2>1. handles[i] \in Handle /\ handles[i].events \in Seq(Event)
    <3>1. handles[i] \in Handle
      BY ElementOfSeq DEF TypeOK
    <3> QED
      BY <3>1 DEF Handle
  <2> DEFINE events == Append(handles[i].events, event)
  <2>2. events \in Seq(Event) /\ events # <<>>
    BY <1>1, <2>1, AppendProperties
  <2> HIDE DEF event
  <2>3. CASE handles[i].path = d /\ handles[i].live
    <3>1. handles'[i] = [handles[i] EXCEPT !.events = events]
      BY <1>1, <2>3 DEF Queued, event
    <3> HIDE DEF events
    <3>2. /\ handles'[i].events = events /\ handles'[i].path = handles[i].path
          /\ handles'[i].live = handles[i].live
      BY <2>1, <3>1 DEF Handle
    <3>3. handles'[i] \in Handle
      BY <2>1, <2>2, <3>1 DEF Handle
    <3> QED
      BY <2>2, <3>2, <3>3 DEF KeepsUnread
  <2>4. CASE ~(handles[i].path = d /\ handles[i].live)
    <3>1. handles'[i] = handles[i]
      BY <1>1, <2>4 DEF Queued
    <3> QED
      BY <2>1, <3>1 DEF KeepsUnread
  <2> QED
    BY <2>3, <2>4
<1>3. DOMAIN handles' = 1..n /\ handles' = [i \in 1..n |-> handles'[i]]
  BY <1>1 DEF Queued
<1>4. handles' \in Seq(Handle) /\ Len(handles') = n
  BY <1>1, <1>2, <1>3, ListIsSeq
<1> QED
  BY <1>2, <1>4 DEF SameHandles

\* A handle whose unread events change is one handle of the list still.
LEMMA HandleExcept ==
  ASSUME TypeOK, NEW i \in 1..Len(handles),
         NEW events \in Seq([kind : {"press", "release", "repeat", "syn"}, key : Keys]),
         handles' = [handles EXCEPT ![i].events = events]
  PROVE  /\ SameHandles /\ handles'[i].events = events
         /\ \A j \in 1..Len(handles) : j # i => handles'[j] = handles[j]
<1> DEFINE h == [handles[i] EXCEPT !.events = events]
<1>1. handles[i] \in Handle
  BY ElementOfSeq DEF TypeOK
<1>2. /\ h \in Handle /\ h.path = handles[i].path /\ h.live = handles[i].live
      /\ h.events = events
  BY <1>1 DEF Handle
<1>3. handles' = [handles EXCEPT ![i] = h]
  OBVIOUS
<1> HIDE DEF h
<1>4. /\ handles' \in Seq(Handle) /\ Len(handles') = Len(handles)
      /\ \A j \in 1..Len(handles) : handles'[j] = IF j = i THEN h ELSE handles[j]
  <2>1. handles \in Seq(Handle)
    BY DEF TypeOK
  <2>2. /\ [handles EXCEPT ![i] = h] \in Seq(Handle)
        /\ Len([handles EXCEPT ![i] = h]) = Len(handles)
        /\ \A j \in 1..Len(handles) :
             [handles EXCEPT ![i] = h][j] = IF j = i THEN h ELSE handles[j]
    BY <1>2, <2>1, ExceptSeq
  <2> QED
    BY <1>3, <2>2
<1> QED
  BY <1>2, <1>4 DEF SameHandles

\* A full buffer is replaced by one event, so there is something to read still.
LEMMA EventsDroppedKeeps ==
  ASSUME TypeOK, NEW i \in DOMAIN handles, EventsDropped(i)
  PROVE  SameHandles /\ \A j \in 1..Len(handles) : KeepsUnread(j)
<1> DEFINE Event == [kind : {"press", "release", "repeat", "syn"}, key : Keys]
           events == <<[kind |-> "syn", key |-> Head(handles[i].events).key]>>
<1>1. i \in 1..Len(handles) /\ handles[i] \in Handle
  BY LenProperties, ElementOfSeq DEF TypeOK
<1>2. handles[i].events \in Seq(Event) /\ Len(handles[i].events) > 1
  BY <1>1 DEF Handle, EventsDropped
<1>3. Head(handles[i].events) \in Event
  <2> DEFINE s == handles[i].events
  <2>1. s \in Seq(Event) /\ s # <<>>
    BY <1>2, EmptySeq
  <2> HIDE DEF s, Event
  <2>2. Head(s) \in Event
    BY <2>1, HeadTailProperties
  <2> QED
    BY <2>2 DEF s
<1>4. events \in Seq(Event) /\ events # <<>>
  BY <1>3
<1>5. handles' = [handles EXCEPT ![i].events = events]
  BY <1>1 DEF EventsDropped
<1> HIDE DEF events
<1>6. /\ SameHandles /\ handles'[i].events = events
      /\ \A j \in 1..Len(handles) : j # i => handles'[j] = handles[j]
  BY <1>1, <1>4, <1>5, HandleExcept
<1> QED
  BY <1>4, <1>6 DEF KeepsUnread

\* A device that is unplugged is gone for every handle of it.
LEMMA UnplugKeeps ==
  ASSUME TypeOK, NEW d \in Devices, Unplug(d)
  PROVE  SameHandles /\ \A i \in 1..Len(handles) : KeepsUnread(i)
<1> DEFINE n == Len(handles)
<1>1. n \in Nat /\ DOMAIN handles = 1..n
  BY LenProperties DEF TypeOK
<1>2. ASSUME NEW i \in 1..n
      PROVE  /\ handles'[i] \in Handle /\ handles'[i].path = handles[i].path
             /\ handles'[i].live => handles[i].live
             /\ KeepsUnread(i)
  <2>1. handles[i] \in Handle
    BY ElementOfSeq DEF TypeOK
  <2>2. CASE handles[i].path = d
    <3>1. handles'[i] = [handles[i] EXCEPT !.live = FALSE, !.events = <<>>]
      BY <1>1, <2>2 DEF Unplug
    <3>2. /\ handles'[i].path = handles[i].path /\ handles'[i].live = FALSE
          /\ handles'[i].events = <<>>
      BY <2>1, <3>1 DEF Handle
    <3>3. <<>> \in Seq([kind : {"press", "release", "repeat", "syn"}, key : Keys])
      BY EmptySeq
    <3>4. handles'[i] \in Handle
      BY <2>1, <3>1, <3>3 DEF Handle
    <3> QED
      BY <3>2, <3>4 DEF KeepsUnread
  <2>3. CASE handles[i].path # d
    <3>1. handles'[i] = handles[i]
      BY <1>1, <2>3 DEF Unplug
    <3> QED
      BY <2>1, <3>1 DEF KeepsUnread
  <2> QED
    BY <2>2, <2>3
<1>3. DOMAIN handles' = 1..n /\ handles' = [i \in 1..n |-> handles'[i]]
  BY <1>1 DEF Unplug
<1>4. handles' \in Seq(Handle) /\ Len(handles') = n
  BY <1>1, <1>2, <1>3, ListIsSeq
<1> QED
  BY <1>2, <1>4 DEF SameHandles

-----------------------------------------------------------------------------
(* Every step keeps the invariant                                          *)

\* What a step that leaves the round alone does to it: the handles keep their
\* places, and nothing unread is lost but with its device.
LEMMA RoundKept ==
  ASSUME IInv, SameHandles, \A i \in 1..Len(handles) : KeepsUnread(i),
         UNCHANGED <<pc, revents, cursor, broken, chords>>
  PROVE  DistinctPaths' /\ StillReady' /\ BrokenAreGone' /\ NoPhantomKeys' /\ UpWasSeen'
<1>1. /\ DOMAIN handles = 1..Len(handles) /\ DOMAIN handles' = 1..Len(handles)
      /\ \A i \in 1..Len(handles) : /\ handles'[i].path = handles[i].path
                                    /\ handles'[i].live => handles[i].live
  BY LenProperties DEF IInv, TypeOK, SameHandles
<1>2. DistinctPaths'
  BY <1>1 DEF IInv, DistinctPaths
<1>3. pc = "devices" => /\ DOMAIN revents = 1..Len(handles)
                        /\ cursor..Len(revents) \subseteq 1..Len(handles)
                        /\ \A i \in DOMAIN broken : broken[i] \in 1..Len(handles)
  <2> SUFFICES ASSUME pc = "devices"
               PROVE  /\ DOMAIN revents = 1..Len(handles)
                      /\ cursor..Len(revents) \subseteq 1..Len(handles)
                      /\ \A i \in DOMAIN broken : broken[i] \in 1..Len(handles)
    OBVIOUS
  <2>1. /\ DOMAIN revents = 1..Len(handles) /\ cursor \in 1..(Len(handles) + 1)
        /\ \A i \in DOMAIN broken : broken[i] \in 1..(cursor - 1)
    BY <1>1 DEF IInv, TypeOK
  <2>2. Len(handles) \in Nat /\ Len(revents) \in Nat /\ DOMAIN revents = 1..Len(revents)
    BY LenProperties DEF IInv, TypeOK, MoreTypes
  <2>3. Len(revents) = Len(handles)
    BY <2>1, <2>2
  <2> QED
    BY <2>1, <2>2, <2>3
<1>4. StillReady'
  BY <1>1, <1>3 DEF IInv, StillReady, KeepsUnread
<1>5. BrokenAreGone'
  BY <1>1, <1>3 DEF IInv, BrokenAreGone
<1>6. OpenPaths' = OpenPaths
  BY <1>1 DEF OpenPaths
<1>7. NoPhantomKeys'
  BY <1>6 DEF IInv, NoPhantomKeys, chords
<1>8. UpWasSeen'
  BY DEF IInv, UpWasSeen, chords
<1> QED
  BY <1>2, <1>4, <1>5, <1>7, <1>8

\* Hands and cables.
LEMMA EnvironmentKeeps ==
  ASSUME IInv, Environment
  PROVE  IInv'
<1> DEFINE Quiet == UNCHANGED <<requirements, pc, revents, cursor, broken, chords, since,
                                retryIn>>
           Machine == /\ node' \in [Devices -> {"absent", "denied", "readable"}]
                      /\ held' \in [Devices -> SUBSET Keys]
                      /\ used' \in [keys : 0..MaxKeyEvents, plugs : 0..MaxPlugs]
                      /\ running' \in BOOLEAN
           Unread == \A i \in 1..Len(handles) : KeepsUnread(i)
<1>0. TypeOK
  BY DEF IInv
<1>1. ASSUME NEW d \in Devices, NEW k \in Keys,
             KeyGoesDown(d, k) \/ KeyGoesUp(d, k) \/ KeyRepeats(d, k)
      PROVE  SameHandles /\ Unread /\ Quiet /\ Machine
  <2>1. PICK kind \in {"press", "release", "repeat"} : KeyEvent(d, k, kind)
    BY <1>1 DEF KeyGoesDown, KeyGoesUp, KeyRepeats
  <2>2. SameHandles /\ Unread
    BY <1>0, <2>1, QueuedKeeps DEF KeyEvent
  <2>3. held' \in [Devices -> SUBSET Keys]
    BY <1>0, <1>1 DEF KeyGoesDown, KeyGoesUp, KeyRepeats, TypeOK
  <2>4. used' \in [keys : 0..MaxKeyEvents, plugs : 0..MaxPlugs]
    <3>1. /\ used.keys \in 0..MaxKeyEvents /\ used.plugs \in 0..MaxPlugs
          /\ used.keys < MaxKeyEvents /\ used' = [used EXCEPT !.keys = used.keys + 1]
      BY <1>0, <2>1 DEF KeyEvent, TypeOK
    <3>2. used.keys + 1 \in 0..MaxKeyEvents
      BY <3>1, KeyListenerAssumption
    <3> QED
      BY <1>0, <3>1, <3>2 DEF TypeOK
  <2> QED
    BY <1>0, <2>1, <2>2, <2>3, <2>4 DEF KeyEvent, TypeOK
<1>2. ASSUME NEW i \in DOMAIN handles, EventsDropped(i)
      PROVE  SameHandles /\ Unread /\ Quiet /\ Machine
  BY <1>0, <1>2, EventsDroppedKeeps DEF EventsDropped, machine, TypeOK
<1>3. ASSUME NEW d \in Devices, Unplug(d)
      PROVE  SameHandles /\ Unread /\ Quiet /\ Machine
  BY <1>0, <1>3, UnplugKeeps DEF Unplug, TypeOK
<1>4. UNCHANGED handles => SameHandles /\ Unread
  BY <1>0 DEF SameHandles, KeepsUnread, TypeOK
<1>5. ASSUME NEW d \in Devices, Plug(d)
      PROVE  SameHandles /\ Unread /\ Quiet /\ Machine
  <2>1. used' \in [keys : 0..MaxKeyEvents, plugs : 0..MaxPlugs]
    <3>1. /\ used.keys \in 0..MaxKeyEvents /\ used.plugs \in 0..MaxPlugs
          /\ used.plugs < MaxPlugs /\ used' = [used EXCEPT !.plugs = used.plugs + 1]
      BY <1>0, <1>5 DEF Plug, TypeOK
    <3>2. used.plugs + 1 \in 0..MaxPlugs
      BY <3>1, KeyListenerAssumption
    <3> QED
      BY <1>0, <3>1, <3>2 DEF TypeOK
  <2> QED
    BY <1>0, <1>4, <1>5, <2>1 DEF Plug, polling, TypeOK
<1>6. ASSUME NEW d \in Devices, Grant(d)
      PROVE  SameHandles /\ Unread /\ Quiet /\ Machine
  BY <1>0, <1>4, <1>6 DEF Grant, polling, TypeOK
<1>7. ASSUME RequestStop
      PROVE  SameHandles /\ Unread /\ Quiet /\ Machine
  BY <1>0, <1>4, <1>7 DEF RequestStop, machine, polling, TypeOK
<1>8. SameHandles /\ Unread /\ Quiet /\ Machine
  BY <1>1, <1>2, <1>3, <1>5, <1>6, <1>7 DEF Environment
<1>9. TypeOK'
  BY <1>0, <1>8 DEF TypeOK, SameHandles, chords
<1>10. MoreTypes'
  BY <1>8 DEF IInv, MoreTypes, chords
<1> QED
  BY <1>8, <1>9, <1>10, RoundKept DEF IInv

\* Time passes.
LEMMA TickKeeps ==
  ASSUME IInv, Tick
  PROVE  IInv'
<1>1. SameHandles /\ \A i \in 1..Len(handles) : KeepsUnread(i)
  BY DEF IInv, TypeOK, Tick, polling, SameHandles, KeepsUnread
<1>2. UNCHANGED <<pc, revents, cursor, broken, chords>>
  BY DEF Tick, polling
<1>3. since' \in [Keybinds -> 0..Debounce] /\ retryIn' \in 0..RetryInterval
  <2>1. \A b \in Keybinds : since[b] \in 0..Debounce
    BY DEF IInv, TypeOK
  <2>2. retryIn \in 0..RetryInterval
    BY DEF IInv, TypeOK
  <2>3. \A b \in Keybinds :
          (IF since[b] < Debounce THEN since[b] + 1 ELSE Debounce) \in 0..Debounce
    BY <2>1, KeyListenerAssumption
  <2>4. retryIn' \in 0..RetryInterval
    BY <2>2, KeyListenerAssumption DEF Tick
  <2> QED
    BY <2>3, <2>4 DEF Tick
<1>4. TypeOK' /\ MoreTypes'
  BY <1>3 DEF IInv, TypeOK, MoreTypes, Tick, machine, polling, chords
<1> QED
  BY <1>1, <1>2, <1>4, RoundKept DEF IInv

\* The loop goes on to a later device, or past the last one.
LEMMA NextReadyIsLater ==
  ASSUME revents \in Seq({"none", "in", "broken"}), NEW i \in 0..Len(revents)
  PROVE  NextReady(i) \in (i + 1)..(Len(revents) + 1)
<1> DEFINE ready == {j \in (i + 1)..Len(revents) : revents[j] # "none"}
<1>1. Len(revents) \in Nat
  BY LenProperties
<1>2. CASE ready = {}
  <2>1. NextReady(i) = Len(revents) + 1
    BY <1>2 DEF NextReady
  <2> QED
    BY <1>1, <2>1
<1>3. CASE ready # {}
  <2>1. NextReady(i) = Min(ready)
    BY <1>3 DEF NextReady
  <2>2. ready \in SUBSET Nat
    BY <1>1
  <2> HIDE DEF ready
  <2>3. Min(ready) \in ready
    BY <1>3, <2>2, MinIsLeast
  <2> QED
    BY <1>1, <2>1, <2>3 DEF ready
<1> QED
  BY <1>2, <1>3

\* The loop ends, or finds nothing to read.
LEMMA LoopStepKeeps ==
  ASSUME IInv, LoopEnds \/ NothingReady
  PROVE  IInv'
<1>1. /\ pc' \in {"loop", "done"}
      /\ UNCHANGED <<machine, requirements, running, polling, chords, since, retryIn>>
  BY DEF LoopEnds, NothingReady
<1>2. TypeOK' /\ MoreTypes'
  BY <1>1 DEF IInv, TypeOK, MoreTypes, machine, polling, chords
<1>3. DistinctPaths' /\ StillReady' /\ BrokenAreGone'
  BY <1>1 DEF IInv, DistinctPaths, StillReady, BrokenAreGone, polling
<1>4. NoPhantomKeys' /\ UpWasSeen'
  BY <1>1 DEF IInv, NoPhantomKeys, UpWasSeen, OpenPaths, polling, chords
<1> QED
  BY <1>2, <1>3, <1>4 DEF IInv

\* What the rescan opens has paths of its own and nothing to tell yet.
LEMMA RescanOpens ==
  ASSUME IInv, NEW order \in SetToSeqs(Usable), handles' = handles \o Opened(order)
  PROVE  /\ handles' \in Seq(Handle) /\ DistinctPaths'
         /\ Len(handles) <= Len(handles')
         /\ \A i \in 1..Len(handles) : handles'[i] = handles[i]
         /\ \A i \in DOMAIN handles' :
              i \notin DOMAIN handles => handles'[i].path \in Usable
<1> DEFINE n == Len(handles)
           m == Cardinality(Usable)
           opened == Opened(order)
<1>1. /\ n \in Nat /\ handles \in Seq(Handle) /\ DOMAIN handles = 1..n
      /\ \A i \in 1..n : handles[i] \in Handle
  BY LenProperties, ElementOfSeq DEF IInv, TypeOK
<1>2. m \in Nat
  <2>1. Usable \subseteq Devices
    BY DEF Usable
  <2> QED
    BY <2>1, KeyListenerAssumption, FS_Subset, FS_CardinalityType
<1>3. /\ order \in [1..m -> Usable]
      /\ \A i, j \in 1..m : i # j => order[i] # order[j]
  BY DEF SetToSeqs
<1>4. ASSUME NEW i \in 1..m
      PROVE  /\ opened[i] \in Handle /\ opened[i].path = order[i]
             /\ order[i] \in Usable /\ order[i] \notin OpenPaths
  <2>1. order[i] \in Usable /\ order[i] \in Devices /\ order[i] \notin OpenPaths
    BY <1>3 DEF Usable
  <2>2. opened[i] = [path |-> order[i], live |-> TRUE, events |-> <<>>]
    BY <1>3 DEF Opened
  <2>3. <<>> \in Seq([kind : {"press", "release", "repeat", "syn"}, key : Keys])
    BY EmptySeq
  <2> QED
    BY <2>1, <2>2, <2>3 DEF Handle
<1>5. DOMAIN opened = 1..m /\ opened = [i \in 1..m |-> opened[i]]
  BY <1>3 DEF Opened
<1> HIDE DEF opened, m
<1>6. opened \in Seq(Handle) /\ Len(opened) = m
  BY <1>2, <1>4, <1>5, ListIsSeq
<1>7. /\ handles' \in Seq(Handle) /\ Len(handles') = n + m
      /\ \A i \in 1..(n + m) :
           handles'[i] = IF i <= n THEN handles[i] ELSE opened[i - n]
  <2>1. handles' = handles \o opened
    BY DEF opened
  <2>2. /\ handles \o opened \in Seq(Handle)
        /\ Len(handles \o opened) = Len(handles) + Len(opened)
        /\ \A i \in 1..(Len(handles) + Len(opened)) :
             (handles \o opened)[i] = IF i <= Len(handles) THEN handles[i]
                                      ELSE opened[i - Len(handles)]
    BY <1>1, <1>6, ConcatProperties
  <2> QED
    BY <1>6, <2>1, <2>2
<1>8. DOMAIN handles' = 1..(n + m)
  BY <1>7, LenProperties
<1> HIDE DEF n
<1>9. ASSUME NEW i \in 1..n PROVE handles'[i] = handles[i] /\ handles'[i].path \in OpenPaths
  <2>1. i \in 1..(n + m) /\ i <= n
    BY <1>1, <1>2
  <2> QED
    BY <1>1, <1>7, <2>1 DEF OpenPaths
<1>10. ASSUME NEW i \in 1..(n + m), i \notin 1..n
       PROVE  /\ i - n \in 1..m /\ handles'[i].path = order[i - n]
              /\ handles'[i].path \in Usable /\ handles'[i].path \notin OpenPaths
  <2>1. i - n \in 1..m /\ ~(i <= n)
    BY <1>1, <1>2, <1>10
  <2> QED
    BY <1>4, <1>7, <2>1
<1>11. ASSUME NEW i \in 1..(n + m), NEW j \in 1..(n + m),
              handles'[i].path = handles'[j].path
       PROVE  i = j
  <2>1. CASE i \in 1..n /\ j \in 1..n
    BY <1>1, <1>9, <1>11, <2>1 DEF IInv, DistinctPaths
  <2>2. CASE i \notin 1..n /\ j \notin 1..n
    <3>1. i - n \in 1..m /\ j - n \in 1..m /\ order[i - n] = order[j - n]
      BY <1>10, <1>11, <2>2
    <3>2. i - n = j - n
      BY <1>3, <3>1 DEF m
    <3> QED
      BY <1>1, <3>2
  <2>3. CASE i \in 1..n <=> j \notin 1..n
    BY <1>9, <1>10, <1>11, <2>3
  <2> QED
    BY <2>1, <2>2, <2>3
<1>12. DistinctPaths'
  BY <1>8, <1>11 DEF DistinctPaths
<1> QED
  BY <1>1, <1>2, <1>7, <1>8, <1>9, <1>10, <1>12 DEF n

\* New devices are opened, or none.
LEMMA RescanKeeps ==
  ASSUME IInv, Rescan
  PROVE  IInv'
<1>1. /\ pc' = "poll" /\ retryIn' = RetryInterval
      /\ UNCHANGED <<machine, requirements, running, revents, cursor, broken, pressed,
                     wasDown, seenUp, since>>
  BY DEF Rescan
<1>2. /\ handles' \in Seq(Handle) /\ DistinctPaths' /\ OpenPaths \subseteq OpenPaths'
      /\ heard' \in [Devices -> SUBSET Keys]
      /\ \A d \in OpenPaths : heard'[d] = heard[d]
  <2>1. CASE \A b \in Keybinds : requirements[b] # {}
    <3>1. PICK order \in SetToSeqs(Usable) : handles' = handles \o Opened(order)
      BY <2>1 DEF Rescan
    <3>2. /\ handles' \in Seq(Handle) /\ DistinctPaths'
          /\ Len(handles) <= Len(handles')
          /\ \A i \in 1..Len(handles) : handles'[i] = handles[i]
      BY <3>1, RescanOpens
    <3>3. DOMAIN handles = 1..Len(handles) /\ DOMAIN handles' = 1..Len(handles')
          /\ Len(handles) \in Nat /\ Len(handles') \in Nat
      BY <3>2, LenProperties DEF IInv, TypeOK
    <3>4. OpenPaths \subseteq OpenPaths'
      <4>1. ASSUME NEW i \in DOMAIN handles
            PROVE  i \in DOMAIN handles' /\ handles'[i] = handles[i]
        BY <3>2, <3>3
      <4> QED
        BY <4>1 DEF OpenPaths
    <3>5. heard' = [d \in Devices |-> IF d \in Usable THEN {} ELSE heard[d]]
      BY <2>1 DEF Rescan
    <3>6. OpenPaths \subseteq Devices
      <4>1. ASSUME NEW i \in 1..Len(handles) PROVE handles[i].path \in Devices
        <5>1. handles[i] \in Handle
          BY ElementOfSeq DEF IInv, TypeOK
        <5> QED
          BY <5>1 DEF Handle
      <4> QED
        BY <3>3, <4>1 DEF OpenPaths
    <3>7. /\ heard' \in [Devices -> SUBSET Keys]
          /\ \A d \in OpenPaths : heard'[d] = heard[d]
      BY <3>5, <3>6 DEF IInv, MoreTypes, Usable
    <3> QED
      BY <3>2, <3>4, <3>7
  <2>2. CASE ~(\A b \in Keybinds : requirements[b] # {})
    BY <2>2 DEF Rescan, IInv, TypeOK, MoreTypes, DistinctPaths, OpenPaths
  <2> QED
    BY <2>1, <2>2
<1>3. TypeOK' /\ MoreTypes'
  BY <1>1, <1>2, KeyListenerAssumption DEF IInv, TypeOK, MoreTypes, machine
<1>4. StillReady' /\ BrokenAreGone'
  BY <1>1 DEF StillReady, BrokenAreGone
<1>5. NoPhantomKeys'
  BY <1>1, <1>2 DEF IInv, NoPhantomKeys
<1>6. UpWasSeen'
  BY <1>1 DEF IInv, UpWasSeen
<1> QED
  BY <1>2, <1>3, <1>4, <1>5, <1>6 DEF IInv

\* A round begins with what poll says of the handles as they are.
LEMMA PollKeeps ==
  ASSUME IInv, Poll
  PROVE  IInv'
<1> DEFINE n == Len(handles)
<1>1. /\ n \in Nat /\ DOMAIN handles = 1..n
      /\ UNCHANGED <<machine, requirements, running, handles, chords, since, retryIn>>
      /\ pc' = "devices" /\ broken' = <<>>
  BY LenProperties DEF IInv, TypeOK, Poll
<1>2. /\ revents' \in Seq({"none", "in", "broken"}) /\ Len(revents') = n
      /\ DOMAIN revents' = 1..n
      /\ \A i \in 1..n : revents'[i] = Revent(handles[i])
  <2>1. revents' = [i \in 1..n |-> Revent(handles[i])]
    BY <1>1 DEF Poll
  <2>2. \A i \in 1..n : revents'[i] \in {"none", "in", "broken"}
    BY <2>1 DEF Revent
  <2>3. DOMAIN revents' = 1..n /\ revents' = [i \in 1..n |-> revents'[i]]
    BY <2>1
  <2>4. revents' \in Seq({"none", "in", "broken"}) /\ Len(revents') = n
    BY <1>1, <2>2, <2>3, ListIsSeq
  <2> QED
    BY <2>1, <2>4
<1>3. cursor' \in 1..(n + 1)
  <2>1. (NextReady(0))' \in 1..(n + 1)
    <3>1. (revents \in Seq({"none", "in", "broken"}))' /\ 0 \in 0..Len(revents')
      BY <1>1, <1>2
    <3>2. ASSUME revents' \in Seq({"none", "in", "broken"}), 0 \in 0..Len(revents')
          PROVE  (NextReady(0))' \in 1..(Len(revents') + 1)
      <4> DEFINE ready == {j \in (0 + 1)..Len(revents') : revents'[j] # "none"}
      <4>1. CASE ready = {}
        BY <1>1, <1>2, <4>1 DEF NextReady
      <4>2. CASE ready # {}
        <5>1. (NextReady(0))' = Min(ready)
          BY <4>2 DEF NextReady
        <5>2. ready \in SUBSET Nat /\ ready \subseteq 1..Len(revents')
          BY <1>1, <1>2
        <5> HIDE DEF ready
        <5>3. Min(ready) \in ready
          BY <4>2, <5>2, MinIsLeast
        <5>4. (NextReady(0))' \in 1..n
          BY <1>2, <5>1, <5>2, <5>3
        <5>5. 1..n \subseteq 1..(n + 1)
          BY <1>1
        <5> HIDE DEF n
        <5> QED
          BY <1>2, <5>4, <5>5
      <4> QED
        BY <4>1, <4>2
    <3> QED
      BY <1>2, <3>1, <3>2
  <2> QED
    BY <2>1 DEF Poll
<1>4. \A i \in 1..n : /\ revents'[i] = "broken" => ~handles[i].live
                      /\ revents'[i] = "in" => handles[i].events # <<>>
  BY <1>2 DEF Revent
<1>5. DOMAIN broken' = {} /\ broken' \in Seq(Nat)
  BY <1>1
<1> HIDE DEF n
<1>6. TypeOK'
  BY <1>1, <1>2, <1>3, <1>5 DEF IInv, TypeOK, machine, chords, n
<1>7. MoreTypes'
  BY <1>1, <1>2, <1>3, <1>5 DEF IInv, MoreTypes, chords
<1>8. StillReady'
  <2>1. \A i \in cursor'..n : i \in 1..n
    BY <1>1, <1>3
  <2> QED
    BY <1>1, <1>2, <1>4, <2>1 DEF StillReady
<1>9. BrokenAreGone'
  BY <1>1, <1>2, <1>4, <1>5 DEF BrokenAreGone
<1>10. DistinctPaths' /\ NoPhantomKeys' /\ UpWasSeen'
  BY <1>1 DEF IInv, DistinctPaths, NoPhantomKeys, OpenPaths, UpWasSeen, chords
<1> QED
  BY <1>6, <1>7, <1>8, <1>9, <1>10 DEF IInv

\* Where the loop is in a round.
LEMMA AtCursor ==
  ASSUME IInv, NEW revent, AtDevice(revent)
  PROVE  /\ cursor \in 1..Len(handles) /\ Len(revents) = Len(handles)
         /\ Len(handles) \in Nat
         /\ DOMAIN handles = 1..Len(handles) /\ DOMAIN revents = 1..Len(handles)
         /\ pc = "devices" /\ revents[cursor] = revent
         /\ cursor' \in (cursor + 1)..(Len(handles) + 1)
<1>1. /\ Len(handles) \in Nat /\ Len(revents) \in Nat
      /\ DOMAIN handles = 1..Len(handles) /\ DOMAIN revents = 1..Len(revents)
      /\ DOMAIN revents = DOMAIN handles /\ cursor \in 1..(Len(handles) + 1)
      /\ cursor <= Len(revents) /\ pc = "devices" /\ revents[cursor] = revent
      /\ revents \in Seq({"none", "in", "broken"})
  BY LenProperties DEF IInv, TypeOK, MoreTypes, AtDevice
<1>2. Len(revents) = Len(handles)
  <2>1. Len(handles) \in Nat /\ Len(revents) \in Nat /\ 1..Len(revents) = 1..Len(handles)
    BY <1>1
  <2> QED
    BY <2>1
<1>3. cursor \in 1..Len(handles) /\ cursor \in 0..Len(revents)
  BY <1>1, <1>2
<1>4. cursor' \in (cursor + 1)..(Len(revents) + 1)
  BY <1>1, <1>3, NextReadyIsLater DEF AtDevice
<1> QED
  BY <1>1, <1>2, <1>3, <1>4

\* A device that went is noted behind the others, which come before it.
LEMMA DeviceBrokenKeeps ==
  ASSUME IInv, DeviceBroken
  PROVE  IInv'
<1> DEFINE n == Len(handles)
           m == Len(broken)
<1>1. UNCHANGED <<machine, requirements, running, pc, handles, revents, chords, since,
                  retryIn>>
  BY DEF DeviceBroken
<1>2. /\ cursor \in 1..n /\ Len(revents) = n /\ n \in Nat
      /\ DOMAIN handles = 1..n /\ DOMAIN revents = 1..n
      /\ pc = "devices" /\ cursor' \in (cursor + 1)..(n + 1)
  BY AtCursor DEF DeviceBroken
<1>3. ~handles[cursor].live
  <2>1. CASE AtDevice("broken")
    <3>1. revents[cursor] = "broken" /\ cursor \in DOMAIN revents
      BY <1>2, <2>1, AtCursor
    <3> QED
      BY <1>2, <3>1 DEF IInv, BrokenAreGone
  <2>2. CASE AtDevice("in") /\ ~handles[cursor].live
    BY <2>2
  <2> QED
    BY <2>1, <2>2 DEF DeviceBroken
<1>4. /\ m \in Nat /\ DOMAIN broken = 1..m /\ broken \in Seq(Nat)
      /\ \A i \in 1..m : broken[i] \in 1..(cursor - 1)
  BY <1>2, LenProperties DEF IInv, TypeOK, MoreTypes
<1>5. /\ broken' \in Seq(Nat) /\ Len(broken') = m + 1
      /\ \A i \in 1..m : broken'[i] = broken[i]
      /\ broken'[m + 1] = cursor
  <2>1. broken' = Append(broken, cursor) /\ cursor \in Nat
    BY <1>2 DEF DeviceBroken
  <2> QED
    BY <1>4, <2>1, AppendProperties
<1>6. DOMAIN broken' = 1..(m + 1)
  BY <1>5, LenProperties
<1> HIDE DEF n, m
<1>later. 1..(cursor - 1) \subseteq 1..(cursor' - 1) /\ cursor \in 1..(cursor' - 1)
  <2>1. cursor \in Nat /\ cursor' \in Nat /\ 1 <= cursor /\ cursor + 1 <= cursor'
    BY <1>2
  <2>2. \A a, b \in Nat : a + 1 <= b /\ 1 <= a
          => 1..(a - 1) \subseteq 1..(b - 1) /\ a \in 1..(b - 1)
    OBVIOUS
  <2> QED
    BY <2>1, <2>2
<1>7. \A i \in 1..(m + 1) : i \in 1..m \/ i = m + 1
  BY <1>4
<1>8. \A i \in 1..(m + 1) : broken'[i] \in 1..(cursor' - 1)
  <2>1. ASSUME NEW i \in 1..m PROVE broken'[i] \in 1..(cursor' - 1)
    <3>1. broken'[i] = broken[i] /\ broken[i] \in 1..(cursor - 1)
      BY <1>4, <1>5
    <3> QED
      BY <3>1, <1>later
  <2> QED
    BY <1>later, <1>5, <1>7, <2>1
<1>9. \A i \in 1..(m + 1) : ~handles[broken'[i]].live
  <2>1. \A i \in 1..m : ~handles[broken[i]].live
    BY <1>2, <1>4 DEF IInv, BrokenAreGone
  <2> QED
    BY <1>3, <1>5, <1>7, <2>1
<1>10. ASSUME NEW i \in 1..(m + 1), NEW j \in 1..(m + 1), i < j
       PROVE  broken'[i] < broken'[j]
  <2>1. i \in 1..m
    BY <1>4, <1>10
  <2>2. broken'[i] = broken[i] /\ broken[i] \in 1..(cursor - 1)
    BY <1>4, <1>5, <2>1
  <2>3. CASE j \in 1..m
    BY <1>2, <1>4, <1>5, <1>10, <2>1, <2>3 DEF IInv, BrokenAreGone
  <2>4. CASE j = m + 1
    BY <1>2, <1>5, <2>2, <2>4
  <2> QED
    BY <1>7, <2>3, <2>4
<1>11. TypeOK'
  BY <1>1, <1>2, <1>6, <1>8 DEF IInv, TypeOK, machine, chords, n
<1>12. MoreTypes'
  BY <1>1, <1>2, <1>5 DEF IInv, MoreTypes, chords
<1>13. StillReady'
  <2>1. cursor'..n \subseteq cursor..n
    BY <1>2
  <2> QED
    BY <1>1, <1>2, <2>1 DEF IInv, StillReady
<1>14. BrokenAreGone'
  BY <1>1, <1>2, <1>6, <1>9, <1>10 DEF IInv, BrokenAreGone
<1>15. DistinctPaths' /\ NoPhantomKeys' /\ UpWasSeen'
  BY <1>1 DEF IInv, DistinctPaths, NoPhantomKeys, OpenPaths, UpWasSeen, chords
<1> QED
  BY <1>11, <1>12, <1>13, <1>14, <1>15 DEF IInv

\* An event is taken from a device that poll found something to read from.
LEMMA HandleInputEventKeeps ==
  ASSUME IInv, HandleInputEvent
  PROVE  IInv'
<1> DEFINE Event == [kind : {"press", "release", "repeat", "syn"}, key : Keys]
           event == Head(handles[cursor].events)
           path == handles[cursor].path
<1>1. /\ cursor \in 1..Len(handles) /\ Len(revents) = Len(handles)
      /\ Len(handles) \in Nat
      /\ DOMAIN handles = 1..Len(handles) /\ DOMAIN revents = 1..Len(handles)
      /\ pc = "devices" /\ revents[cursor] = "in"
      /\ cursor' \in (cursor + 1)..(Len(handles) + 1)
  <2>1. AtDevice("in")
    BY DEF HandleInputEvent
  <2> QED
    BY <2>1, AtCursor
<1>2. /\ UNCHANGED <<machine, requirements, running, pc, revents, broken, retryIn>>
      /\ handles' = [handles EXCEPT ![cursor].events = Tail(@)]
      /\ handles[cursor].live
  BY DEF HandleInputEvent
<1>3. handles[cursor] \in Handle
  BY <1>1, ElementOfSeq DEF IInv, TypeOK
<1>4. /\ handles[cursor].events \in Seq(Event) /\ handles[cursor].events # <<>>
      /\ path \in Devices
  <2>1. cursor \in cursor..Len(revents)
    BY <1>1
  <2> QED
    BY <1>1, <1>2, <1>3, <2>1 DEF IInv, StillReady, Handle
<1>5. event \in Event /\ Tail(handles[cursor].events) \in Seq(Event)
  BY <1>4, HeadTailProperties
<1>6. /\ SameHandles
      /\ \A j \in 1..Len(handles) : j # cursor => handles'[j] = handles[j]
  <2> DEFINE events == Tail(handles[cursor].events)
  <2>1. handles' = [handles EXCEPT ![cursor].events = events]
    BY <1>1, <1>2
  <2>2. events \in Seq(Event)
    BY <1>5
  <2>3. TypeOK
    BY DEF IInv
  <2> HIDE DEF events
  <2> QED
    BY <1>1, <2>1, <2>2, <2>3, HandleExcept
<1>7. /\ handles' \in Seq(Handle) /\ Len(handles') = Len(handles)
      /\ DOMAIN handles' = 1..Len(handles)
      /\ \A i \in 1..Len(handles) : /\ handles'[i].path = handles[i].path
                                    /\ handles'[i].live => handles[i].live
  BY <1>6, LenProperties DEF SameHandles
<1>open. OpenPaths \subseteq Devices
  <2>1. \A i \in 1..Len(handles) : handles[i] \in Handle
    BY <1>1, ElementOfSeq DEF IInv, TypeOK
  <2> QED
    BY <1>1, <2>1 DEF OpenPaths, Handle
<1>8. /\ pressed' \subseteq Keys /\ heard' \in [Devices -> SUBSET Keys]
      /\ wasDown' \in [Keybinds -> BOOLEAN] /\ seenUp' \subseteq Keybinds
      /\ since' \in [Keybinds -> 0..Debounce] /\ UpWasSeen'
      /\ pressed' \subseteq UNION {heard'[d] : d \in OpenPaths}
  <2>1. /\ pressed \subseteq Keys /\ heard \in [Devices -> SUBSET Keys]
        /\ wasDown \in [Keybinds -> BOOLEAN] /\ seenUp \subseteq Keybinds
        /\ since \in [Keybinds -> 0..Debounce] /\ UpWasSeen
        /\ pressed \subseteq UNION {heard[d] : d \in OpenPaths}
    BY DEF IInv, TypeOK, MoreTypes, NoPhantomKeys
  <2>2. CASE event.kind \notin {"press", "release"}
    <3>1. UNCHANGED <<chords, since>>
      BY <2>2 DEF HandleInputEvent
    <3> QED
      BY <2>1, <3>1 DEF chords, UpWasSeen
  <2>3. CASE event.kind \in {"press", "release"}
    <3>1. /\ pressed' = KeysAfter(pressed, event)
          /\ heard' = [heard EXCEPT ![path] = KeysAfter(heard[path], event)]
          /\ UpdateKeybinds(pressed')
      <4>1. heard' = [heard EXCEPT ![path] = KeysAfter(@, event)]
        BY <2>3 DEF HandleInputEvent
      <4> QED
        BY <2>1, <2>3, <4>1 DEF HandleInputEvent
    <3>2. path \in OpenPaths /\ event.key \in Keys
      BY <1>1, <1>5 DEF OpenPaths
    <3> HIDE DEF event, path
    <3>3. \A keys \in SUBSET Keys : KeysAfter(keys, event) \subseteq Keys
      BY <2>3, <3>2 DEF KeysAfter
    <3>4. pressed' \subseteq Keys
      BY <2>1, <3>1, <3>3
    <3>5. heard[path] \subseteq Keys
      BY <1>4, <2>1
    <3>6. /\ heard' \in [Devices -> SUBSET Keys]
          /\ heard'[path] = KeysAfter(heard[path], event)
          /\ \A d \in Devices : d # path => heard'[d] = heard[d]
      BY <1>4, <2>1, <3>1, <3>3, <3>5
    <3>7. ASSUME NEW k \in pressed'
          PROVE  \E d \in OpenPaths : k \in heard'[d]
      <4>1. CASE event.kind = "press"
        <5>1. k \in pressed \/ k = event.key
          BY <3>1, <3>7, <4>1 DEF KeysAfter
        <5>2. heard'[path] = heard[path] \union {event.key}
          BY <3>6, <4>1 DEF KeysAfter
        <5>3. CASE k = event.key
          BY <3>2, <5>2, <5>3
        <5>4. CASE k \in pressed
          <6>1. PICK d \in OpenPaths : k \in heard[d]
            BY <2>1, <5>4
          <6>2. d \in Devices
            BY <1>open, <6>1
          <6>3. k \in heard'[d]
            BY <3>6, <5>2, <6>1, <6>2
          <6> QED
            BY <6>1, <6>3
        <5> QED
          BY <5>1, <5>3, <5>4
      <4>2. CASE event.kind = "release"
        <5>1. k \in pressed /\ k # event.key
          BY <3>1, <3>7, <4>2 DEF KeysAfter
        <5>2. heard'[path] = heard[path] \ {event.key}
          BY <3>6, <4>2 DEF KeysAfter
        <5>3. PICK d \in OpenPaths : k \in heard[d]
          BY <2>1, <5>1
        <5>4. d \in Devices
          BY <1>open, <5>3
        <5>5. k \in heard'[d]
          BY <3>6, <5>1, <5>2, <5>3, <5>4
        <5> QED
          BY <5>3, <5>5
      <4> QED
        BY <2>3, <4>1, <4>2
    <3>8. pressed' \subseteq UNION {heard'[d] : d \in OpenPaths}
      BY <3>7
    <3>9. wasDown' \in [Keybinds -> BOOLEAN] /\ seenUp' \subseteq Keybinds
      <4>1. \A b \in Keybinds : KeybindIsPressed(b, pressed') \in BOOLEAN
        BY DEF KeybindIsPressed
      <4>2. wasDown' = [b \in Keybinds |-> KeybindIsPressed(b, pressed')]
        BY <3>1 DEF UpdateKeybinds
      <4>3. wasDown' \in [Keybinds -> BOOLEAN]
        BY <4>1, <4>2, Zenon
      <4>4. seenUp' \subseteq Keybinds
        BY <2>1, <3>1 DEF UpdateKeybinds
      <4> QED
        BY <4>3, <4>4
    <3>10. since' \in [Keybinds -> 0..Debounce]
      BY <2>1, <3>1, KeyListenerAssumption DEF UpdateKeybinds
    <3>11. UpWasSeen'
      BY <3>1, Zenon DEF UpdateKeybinds, UpWasSeen
    <3> QED
      BY <3>4, <3>6, <3>8, <3>9, <3>10, <3>11
  <2> QED
    BY <2>2, <2>3
<1> HIDE DEF event, path
<1>9. cursor' \in 1..(Len(handles) + 1) /\ 1..(cursor - 1) \subseteq 1..(cursor' - 1)
  <2>1. \A a, b \in Nat : a + 1 <= b => 1..(a - 1) \subseteq 1..(b - 1)
    OBVIOUS
  <2>2. /\ cursor \in Nat /\ cursor' \in Nat /\ cursor + 1 <= cursor'
        /\ cursor' \in 1..(Len(handles) + 1)
    BY <1>1
  <2> QED
    BY <2>1, <2>2
<1>10. TypeOK'
  BY <1>1, <1>2, <1>7, <1>8, <1>9 DEF IInv, TypeOK, machine
<1>11. MoreTypes'
  BY <1>1, <1>2, <1>8 DEF IInv, MoreTypes
<1>12. DistinctPaths'
  BY <1>1, <1>7 DEF IInv, DistinctPaths
<1>13. StillReady'
  <2>1. \A i \in cursor'..Len(revents) :
          i \in 1..Len(handles) /\ i # cursor /\ i \in cursor..Len(revents)
    BY <1>1
  <2> QED
    BY <1>1, <1>2, <1>6, <2>1 DEF IInv, StillReady
<1>14. BrokenAreGone'
  <2>1. \A i \in DOMAIN broken : broken[i] \in 1..Len(handles)
    BY <1>1 DEF IInv, TypeOK
  <2> QED
    BY <1>1, <1>2, <1>7, <2>1 DEF IInv, BrokenAreGone
<1>15. OpenPaths' = OpenPaths
  BY <1>1, <1>7 DEF OpenPaths
<1>16. NoPhantomKeys'
  BY <1>8, <1>15 DEF NoPhantomKeys
<1> QED
  BY <1>8, <1>10, <1>11, <1>12, <1>13, <1>14, <1>16 DEF IInv

\* A round in which no device broke leaves the handles alone.
LEMMA NoneBrokenKeeps ==
  ASSUME IInv, NoneBroken
  PROVE  IInv'
<1>1. /\ pc' = "loop" /\ revents' = <<>> /\ cursor' = 0 /\ broken' = <<>>
      /\ UNCHANGED <<machine, requirements, running, handles, chords, since, retryIn>>
  BY DEF NoneBroken, RoundEnds
<1>2. revents' \in Seq({"none", "in", "broken"}) /\ broken' \in Seq(Nat)
  BY <1>1
<1>3. TypeOK' /\ MoreTypes'
  BY <1>1, <1>2 DEF IInv, TypeOK, MoreTypes, machine, chords
<1> QED
  BY <1>1, <1>3 DEF IInv, DistinctPaths, StillReady, BrokenAreGone, NoPhantomKeys,
                    OpenPaths, UpWasSeen, chords

\* The round knows which of its handles broke, in ascending order.
LEMMA KeptIsWhatRemains ==
  ASSUME IInv, pc = "devices"
  PROVE  /\ \E e : Remains(Kept, e, Len(handles), Range(broken))
         /\ Len(handles) \in Nat /\ DOMAIN handles = 1..Len(handles)
         /\ \A i \in DOMAIN broken : broken[i] \in 1..Len(handles)
<1>1. Len(handles) \in Nat /\ DOMAIN handles = 1..Len(handles)
  BY LenProperties DEF IInv, TypeOK
<1>2. \A i \in DOMAIN broken : broken[i] \in 1..Len(handles)
  BY <1>1 DEF IInv, TypeOK
<1>3. /\ handles \in Seq(Handle) /\ broken \in Seq(Nat)
      /\ \A i, j \in DOMAIN broken : i < j => broken[i] < broken[j]
  BY DEF IInv, TypeOK, MoreTypes, BrokenAreGone
<1> QED
  BY <1>1, <1>2, <1>3, KeptRemains

\* The handles that remain are handles of other paths, and every key is forgotten.
LEMMA RemoveBrokenDevicesKeeps ==
  ASSUME IInv, RemoveBrokenDevices
  PROVE  IInv'
<1>1. /\ pc' = "loop" /\ revents' = <<>> /\ cursor' = 0 /\ broken' = <<>>
      /\ handles' = Kept /\ pc = "devices"
      /\ pressed' = {} /\ wasDown' = [b \in Keybinds |-> FALSE] /\ seenUp' = Keybinds
      /\ UNCHANGED <<machine, requirements, running, heard, since, retryIn>>
  BY DEF RemoveBrokenDevices, RoundEnds, ResetKeyState
<1>2. /\ revents' \in Seq({"none", "in", "broken"}) /\ broken' \in Seq(Nat)
      /\ wasDown' \in [Keybinds -> BOOLEAN]
  BY <1>1
<1>3. Len(handles) \in Nat /\ DOMAIN handles = 1..Len(handles)
  BY <1>1, KeptIsWhatRemains
<1>4. PICK e : Remains(handles', e, Len(handles), Range(broken))
  BY <1>1, KeptIsWhatRemains
<1>5. handles' \in Seq(Handle)
  BY <1>4 DEF Remains
<1>6. DOMAIN handles' = 1..Len(handles')
  BY <1>5, LenProperties
<1>7. DistinctPaths'
  <2> SUFFICES ASSUME NEW i \in 1..Len(handles'), NEW j \in 1..Len(handles'),
                      handles'[i].path = handles'[j].path
               PROVE  i = j
    BY <1>6 DEF DistinctPaths
  <2>1. /\ handles'[i] = handles[e[i]] /\ handles'[j] = handles[e[j]]
        /\ e[i] \in 1..Len(handles) /\ e[j] \in 1..Len(handles)
        /\ e[i] = e[j] => i = j
    BY <1>4 DEF Remains
  <2> QED
    BY <1>3, <2>1 DEF IInv, DistinctPaths
<1>8. TypeOK' /\ MoreTypes'
  BY <1>1, <1>2, <1>5 DEF IInv, TypeOK, MoreTypes, machine
<1> QED
  BY <1>1, <1>7, <1>8 DEF IInv, StillReady, BrokenAreGone, NoPhantomKeys, UpWasSeen

\* The daemon starts with no keyboard open.
LEMMA IInvInit ==
  ASSUME Init
  PROVE  IInv
<1>1. /\ handles = <<>> /\ revents = <<>> /\ broken = <<>> /\ pc = "loop" /\ cursor = 0
      /\ pressed = {} /\ seenUp = Keybinds
  BY DEF Init
<1>2. /\ handles \in Seq(Handle) /\ revents \in Seq({"none", "in", "broken"})
      /\ broken \in Seq(Nat) /\ DOMAIN handles = {}
  BY <1>1
<1>3. TypeOK /\ MoreTypes
  BY <1>1, <1>2, KeyListenerAssumption DEF Init, TypeOK, MoreTypes
<1> QED
  BY <1>1, <1>2, <1>3 DEF IInv, DistinctPaths, StillReady, BrokenAreGone, NoPhantomKeys,
                          UpWasSeen

\* Every step of the machine and of the listener keeps the invariant.
LEMMA IInvStep ==
  ASSUME IInv
  PROVE  [Next]_vars => IInv'
<1>1. CASE Environment
  BY <1>1, EnvironmentKeeps
<1>2. CASE Tick
  BY <1>2, TickKeeps
<1>3. CASE LoopEnds \/ NothingReady
  BY <1>3, LoopStepKeeps
<1>4. CASE Rescan
  BY <1>4, RescanKeeps
<1>5. CASE Poll
  BY <1>5, PollKeeps
<1>6. CASE DeviceBroken
  BY <1>6, DeviceBrokenKeeps
<1>7. CASE HandleInputEvent
  BY <1>7, HandleInputEventKeeps
<1>8. CASE NoneBroken
  BY <1>8, NoneBrokenKeeps
<1>9. CASE RemoveBrokenDevices
  BY <1>9, RemoveBrokenDevicesKeeps
<1>10. CASE UNCHANGED vars
  BY <1>10 DEF IInv, TypeOK, MoreTypes, DistinctPaths, StillReady, BrokenAreGone,
               NoPhantomKeys, OpenPaths, UpWasSeen, vars, machine, polling, chords
<1> QED
  BY <1>1, <1>2, <1>3, <1>4, <1>5, <1>6, <1>7, <1>8, <1>9, <1>10 DEF Next, ListenLoop

\* The invariant holds in every state the listener reaches.
THEOREM KeyListenerInvariant == Spec => []IInv
<1>1. Init => IInv
  BY IInvInit
<1>2. IInv /\ [Next]_vars => IInv'
  BY IInvStep
<1> QED
  BY <1>1, <1>2, PTL DEF Spec

\* TypeOK (ListenLoop, RemoveBrokenDevices): the indices of a poll round are those
\* of the handles it polled.
THEOREM TypeCorrect == Spec => []TypeOK
<1>1. IInv => TypeOK
  BY DEF IInv
<1> QED
  BY <1>1, KeyListenerInvariant, PTL

\* NoPhantomKeys (RemoveBrokenDevices, ResetKeyState): no key counts as pressed that
\* no open device has reported down and not up.
THEOREM NoPhantomKeysHolds == Spec => []NoPhantomKeys
<1>1. IInv => NoPhantomKeys
  BY DEF IInv
<1> QED
  BY <1>1, KeyListenerInvariant, PTL

-----------------------------------------------------------------------------
(* A report takes a keybind whose keys were apart                           *)

\* A keybind is reported only when its keys were seen apart since the last time.
ReportedWhenSeenUp ==
  \A b \in Keybinds : since[b] >= Debounce /\ since'[b] < since[b] => b \in seenUp

\* Time only makes since grow.
LEMMA TickReportsNothing ==
  ASSUME TypeOK, Tick
  PROVE  ReportedWhenSeenUp
<1>1. \A b \in Keybinds : since[b] \in Int
  BY KeyListenerAssumption DEF TypeOK
<1>2. \A b \in Keybinds : since'[b] = IF since[b] < Debounce THEN since[b] + 1 ELSE Debounce
  BY DEF Tick
<1>3. \A b \in Keybinds : since[b] \in 0..Debounce
  BY DEF TypeOK
<1> QED
  BY <1>1, <1>2, <1>3, KeyListenerAssumption DEF ReportedWhenSeenUp

\* HandleInputEvent reports the keybinds that were up before the event.
LEMMA EventReportsWhatWasUp ==
  ASSUME IInv, HandleInputEvent
  PROVE  ReportedWhenSeenUp
<1>1. \A b \in Keybinds : since[b] \in Int
  BY KeyListenerAssumption DEF IInv, TypeOK
<1>2. CASE UNCHANGED since
  BY <1>1, <1>2 DEF ReportedWhenSeenUp
<1>3. CASE UpdateKeybinds(pressed')
  <2>1. \A b \in Keybinds : since'[b] = IF b \in Reported(pressed') THEN 0 ELSE since[b]
    BY <1>3 DEF UpdateKeybinds
  <2>2. \A b \in Keybinds : b \in Reported(pressed') => b \in seenUp
    BY DEF Reported, IInv, UpWasSeen
  <2> QED
    BY <1>1, <2>1, <2>2 DEF ReportedWhenSeenUp
<1> QED
  BY <1>2, <1>3 DEF HandleInputEvent

\* ReportedOncePerPress (HandleInputEvent): however long a keybind is held, it is
\* reported once; between two reports its keys were apart.
THEOREM ReportedOncePerPressHolds == Spec => ReportedOncePerPress
<1>1. IInv /\ [Next]_vars => [ReportedWhenSeenUp]_vars
  <2> SUFFICES ASSUME IInv, Next
               PROVE  ReportedWhenSeenUp
    OBVIOUS
  <2>1. TypeOK /\ \A b \in Keybinds : since[b] \in Int
    BY KeyListenerAssumption DEF IInv, TypeOK
  <2>2. CASE Tick
    BY <2>1, <2>2, TickReportsNothing
  <2>3. CASE HandleInputEvent
    BY <2>3, EventReportsWhatWasUp
  <2>4. CASE UNCHANGED since
    BY <2>1, <2>4 DEF ReportedWhenSeenUp
  <2>5. Environment => UNCHANGED since
    BY DEF Environment, KeyGoesDown, KeyGoesUp, KeyRepeats, KeyEvent, EventsDropped, Unplug,
           Plug, Grant, RequestStop
  <2>6. ListenLoop => HandleInputEvent \/ UNCHANGED since
    BY DEF ListenLoop, LoopEnds, Rescan, NothingReady, Poll, DeviceBroken, NoneBroken,
           RemoveBrokenDevices
  <2> QED
    BY <2>2, <2>3, <2>4, <2>5, <2>6 DEF Next
<1>2. ReportedOncePerPress <=> [][ReportedWhenSeenUp]_vars
  BY DEF ReportedOncePerPress, ReportedWhenSeenUp
<1> QED
  BY <1>1, <1>2, KeyListenerInvariant, PTL DEF Spec

-----------------------------------------------------------------------------
(* What a round removes                                                     *)

\* A device that is there stays, one that broke in the round goes.
RemovesWhatBroke ==
  LET paths == {handles'[j].path : j \in DOMAIN handles'} IN
    \A i \in DOMAIN handles :
      /\ handles[i].live => handles[i].path \in paths
      /\ pc = "devices" /\ pc' = "loop" /\ i \in Range(broken)
           => handles[i].path \notin paths

\* The handles of before are still where they were, under the same path.
PathsStay ==
  \A i \in DOMAIN handles : i \in DOMAIN handles' /\ handles'[i].path = handles[i].path

\* As long as the handles stay where they are, nothing is removed.
LEMMA PathsStayEnough ==
  ASSUME PathsStay, pc = "devices" /\ pc' = "loop" => broken = <<>>
  PROVE  RemovesWhatBroke
<1>1. broken = <<>> => Range(broken) = {}
  BY DEF Range
<1> QED
  BY <1>1 DEF PathsStay, RemovesWhatBroke

\* Handles that keep their place keep their path.
LEMMA SamePathsStay ==
  ASSUME TypeOK, SameHandles
  PROVE  PathsStay
<1>1. DOMAIN handles = 1..Len(handles) /\ DOMAIN handles' = 1..Len(handles)
  BY LenProperties DEF TypeOK, SameHandles
<1> QED
  BY <1>1 DEF SameHandles, PathsStay

\* Hands and cables move no handle.
LEMMA EnvironmentMovesNone ==
  ASSUME IInv, Environment
  PROVE  PathsStay /\ pc' = pc
<1>1. TypeOK
  BY DEF IInv
<1>2. CASE \E d \in Devices, k \in Keys :
             KeyGoesDown(d, k) \/ KeyGoesUp(d, k) \/ KeyRepeats(d, k)
  <2>1. PICK d \in Devices, k \in Keys, kind \in {"press", "release", "repeat"} :
          KeyEvent(d, k, kind)
    BY <1>2 DEF KeyGoesDown, KeyGoesUp, KeyRepeats
  <2>2. handles' = Queued(d, [kind |-> kind, key |-> k]) /\ pc' = pc
    BY <2>1 DEF KeyEvent
  <2>3. SameHandles
    BY <1>1, <2>2, QueuedKeeps
  <2> QED
    BY <1>1, <2>2, <2>3, SamePathsStay
<1>3. CASE \E i \in DOMAIN handles : EventsDropped(i)
  <2>1. PICK i \in DOMAIN handles : EventsDropped(i)
    BY <1>3
  <2>2. SameHandles
    BY <1>1, <2>1, EventsDroppedKeeps
  <2> QED
    BY <1>1, <2>1, <2>2, SamePathsStay DEF EventsDropped
<1>4. CASE \E d \in Devices : Unplug(d)
  <2>1. PICK d \in Devices : Unplug(d)
    BY <1>4
  <2>2. SameHandles
    BY <1>1, <2>1, UnplugKeeps
  <2> QED
    BY <1>1, <2>1, <2>2, SamePathsStay DEF Unplug
<1>5. CASE (\E d \in Devices : Plug(d) \/ Grant(d)) \/ RequestStop
  BY <1>5 DEF Plug, Grant, RequestStop, polling, PathsStay
<1> QED
  BY <1>2, <1>3, <1>4, <1>5 DEF Environment

\* RemoveBrokenDevices takes out the devices that broke, and no other.
LEMMA RemovalIsExact ==
  ASSUME IInv, RemoveBrokenDevices
  PROVE  RemovesWhatBroke
<1> DEFINE n == Len(handles)
<1>1. pc = "devices" /\ handles' = Kept
  BY DEF RemoveBrokenDevices, RoundEnds
<1>2. /\ n \in Nat /\ DOMAIN handles = 1..n
      /\ \A i \in DOMAIN broken : broken[i] \in 1..n
  BY <1>1, KeptIsWhatRemains
<1>3. PICK e : Remains(handles', e, n, Range(broken))
  BY <1>1, KeptIsWhatRemains
<1>4. DOMAIN handles' = 1..Len(handles')
  BY <1>3, LenProperties DEF Remains
<1> HIDE DEF n
<1>5. \A i \in Range(broken) : ~handles[i].live
  BY <1>1 DEF IInv, BrokenAreGone, Range
<1>6. ASSUME NEW i \in 1..n, handles[i].live
      PROVE  \E j \in DOMAIN handles' : handles'[j].path = handles[i].path
  <2>1. i \in (1..n) \ Range(broken)
    BY <1>5, <1>6
  <2>2. PICK j \in 1..Len(handles') : e[j] = i
    BY <1>3, <2>1 DEF Remains
  <2>3. handles'[j] = handles[e[j]]
    BY <1>3 DEF Remains
  <2> QED
    BY <1>4, <2>2, <2>3
<1>7. ASSUME NEW i \in 1..n, i \in Range(broken), NEW j \in DOMAIN handles'
      PROVE  handles'[j].path # handles[i].path
  <2>1. handles'[j] = handles[e[j]] /\ e[j] \in 1..n /\ e[j] \notin Range(broken)
    BY <1>3, <1>4 DEF Remains
  <2>2. handles[e[j]].path = handles[i].path => e[j] = i
    BY <1>2, <2>1 DEF IInv, DistinctPaths
  <2> QED
    BY <1>7, <2>1, <2>2
<1> QED
  BY <1>2, <1>6, <1>7 DEF RemovesWhatBroke

\* ExactlyBrokenRemoved (RemoveBrokenDevices): a round takes out every device that
\* broke in it, and nothing ever takes out a device that is there.
THEOREM ExactlyBrokenRemovedHolds == Spec => ExactlyBrokenRemoved
<1>1. IInv /\ [Next]_vars => [RemovesWhatBroke]_vars
  <2> SUFFICES ASSUME IInv, Next
               PROVE  RemovesWhatBroke
    OBVIOUS
  <2>1. CASE Environment
    <3>1. PathsStay /\ pc' = pc
      BY <2>1, EnvironmentMovesNone
    <3> QED
      BY <3>1, PathsStayEnough
  <2>2. CASE Tick \/ LoopEnds \/ NothingReady \/ Poll \/ DeviceBroken
    <3>1. PathsStay /\ (pc = "devices" => pc' # "loop")
      BY <2>2 DEF Tick, LoopEnds, NothingReady, AtPoll, Poll, DeviceBroken, AtDevice,
                  polling, PathsStay
    <3> QED
      BY <3>1, PathsStayEnough
  <2>3. CASE NoneBroken
    <3>1. PathsStay /\ broken = <<>>
      BY <2>3 DEF NoneBroken, PathsStay
    <3> QED
      BY <3>1, PathsStayEnough
  <2>4. CASE HandleInputEvent
    <3>1. pc' = pc
      BY <2>4 DEF HandleInputEvent
    <3>2. PathsStay
      <4>1. /\ handles' = [handles EXCEPT ![cursor] = [handles[cursor] EXCEPT
                             !.events = Tail(handles[cursor].events)]]
            /\ cursor \in DOMAIN handles
        <5>1. AtDevice("in")
          BY <2>4 DEF HandleInputEvent
        <5>2. cursor \in DOMAIN handles
          BY <5>1, AtCursor
        <5> QED
          BY <2>4, <5>2 DEF HandleInputEvent
      <4>2. handles[cursor] \in Handle
        BY <4>1, LenProperties, ElementOfSeq DEF IInv, TypeOK
      <4> QED
        BY <4>1, <4>2 DEF PathsStay, Handle
    <3> QED
      BY <3>1, <3>2, PathsStayEnough
  <2>5. CASE Rescan
    <3>1. pc' = "poll"
      BY <2>5 DEF Rescan
    <3>2. PathsStay
      <4>1. CASE UNCHANGED handles
        BY <4>1 DEF PathsStay
      <4>2. CASE \E order \in SetToSeqs(Usable) : handles' = handles \o Opened(order)
        <5>1. PICK order \in SetToSeqs(Usable) : handles' = handles \o Opened(order)
          BY <4>2
        <5>2. /\ handles' \in Seq(Handle) /\ Len(handles) <= Len(handles')
              /\ \A i \in 1..Len(handles) : handles'[i] = handles[i]
          BY <5>1, RescanOpens
        <5>3. /\ DOMAIN handles = 1..Len(handles) /\ DOMAIN handles' = 1..Len(handles')
              /\ Len(handles) \in Nat /\ Len(handles') \in Nat
          BY <5>2, LenProperties DEF IInv, TypeOK
        <5> QED
          BY <5>2, <5>3 DEF PathsStay
      <4> QED
        BY <2>5, <4>1, <4>2 DEF Rescan
    <3> QED
      BY <3>1, <3>2, PathsStayEnough
  <2>6. CASE RemoveBrokenDevices
    BY <2>6, RemovalIsExact
  <2> QED
    BY <2>1, <2>2, <2>3, <2>4, <2>5, <2>6 DEF Next, ListenLoop
<1>2. ExactlyBrokenRemoved <=> [][RemovesWhatBroke]_vars
  BY DEF ExactlyBrokenRemoved, RemovesWhatBroke
<1> QED
  BY <1>1, <1>2, KeyListenerInvariant, PTL DEF Spec
=============================================================================
