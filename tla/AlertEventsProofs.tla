------------------------- MODULE AlertEventsProofs -------------------------
(***************************************************************************)
(* What the alert entity does, for every size of page and of memory, every *)
(* set of bowls and platforms and any number of alerts.                    *)
(***************************************************************************)
EXTENDS AlertEvents, BowlEntitiesProofs

----------------------------------------------------------------------------
(* Induction: among the numbers without a property there is a least one.   *)

\* A set of natural numbers that is not empty has a least member.
LEMMA LeastNatural ==
  ASSUME NEW T \in SUBSET Nat, T # {}
  PROVE  \E n \in T : \A m \in T : n <= m
  <1>1. \E R : R = {p \in Nat \X Nat : p[1] < p[2]}
    OBVIOUS
  <1>2. PICK R : R = {p \in Nat \X Nat : p[1] < p[2]}
    BY <1>1
  <1>3. IsWellFoundedOn(R, Nat)
    BY <1>2, NatLessThanWellFounded, Zenon DEF OpToRel
  <1>4. PICK n \in T : \A m \in T : <<m, n>> \notin R
    BY <1>3, WFMin
  <1>5. \A m \in T : ~ (m < n)
    BY <1>2, <1>4
  <1> QED
    BY <1>5

\* A set that has zero, and with each number the next one, has them all.
LEMMA NaturalInduction ==
  ASSUME NEW S \in SUBSET Nat, 0 \in S, \A n \in S : n + 1 \in S
  PROVE  \A n \in Nat : n \in S
  <1> SUFFICES ASSUME Nat \ S # {}
               PROVE  FALSE
    OBVIOUS
  <1>1. PICK n \in Nat \ S : \A m \in Nat \ S : n <= m
    BY LeastNatural
  <1>2. n - 1 \in Nat /\ n - 1 \notin Nat \ S
    BY <1>1
  <1>3. (n - 1) + 1 \in S
    BY <1>2
  <1> QED
    BY <1>1, <1>3

----------------------------------------------------------------------------
(* A set of alerts as a sequence.                                          *)

\* The alerts of a log are finitely many.
LEMMA SubrangeIsFinite ==
  ASSUME NEW n \in Nat, NEW S \in SUBSET (1 .. n)
  PROVE  IsFiniteSet(S) /\ Cardinality(S) \in Nat
  <1>1. IsFiniteSet(1 .. n)
    <2>1. 1 \in Int /\ n \in Int
      OBVIOUS
    <2> QED
      BY <2>1, FS_Interval
  <1>2. IsFiniteSet(S)
    BY <1>1, FS_Subset
  <1> QED
    BY <1>2, FS_CardinalityType

\* An enumeration of a set of alerts has each of them once.
LEMMA Enumerates ==
  ASSUME NEW n \in Nat, NEW S \in SUBSET (1 .. n), NEW s \in SetToSeqs(S)
  PROVE  s \in Seq(S) /\ ToSet(s) = S /\ IsInjective(s) /\ Len(s) = Cardinality(S)
  <1> DEFINE D == 1 .. Cardinality(S)
  <1>1. IsFiniteSet(S)
    BY SubrangeIsFinite
  <1>2. Cardinality(S) \in Nat
    BY SubrangeIsFinite
  <1>3. s \in [D -> S] /\ \A i, j \in D : i # j => s[i] # s[j]
    BY DEF SetToSeqs
  <1>4. s \in Injection(D, S) /\ IsInjective(s)
    BY <1>3 DEF Injection, IsInjective
  <1>5. IsFiniteSet(D) /\ Cardinality(D) = Cardinality(S)
    BY <1>2, FS_Interval
  <1>6. s \in Surjection(D, S)
    BY <1>1, <1>4, <1>5, FS_Injection
  <1>7. ToSet(s) = S
    <2>1. DOMAIN s = D /\ \A k \in D : s[k] \in S
      BY <1>3
    <2>2. \A x \in S : \E k \in D : s[k] = x
      BY <1>6 DEF Surjection
    <2>3. ToSet(s) = {s[k] : k \in D}
      BY <2>1 DEF ToSet
    <2> QED
      BY <2>1, <2>2, <2>3
  <1>8. s \in Seq(S) /\ Len(s) = Cardinality(S)
    <2>1. s \in [1 .. Cardinality(S) -> S]
      BY <1>3
    <2>2. s \in Seq(S)
      BY <1>2, <2>1, IsASeq
    <2>3. DOMAIN s = 1 .. Len(s) /\ Len(s) \in Nat
      BY <2>2, LenProperties
    <2> QED
      BY <1>2, <2>1, <2>2, <2>3
  <1> QED
    BY <1>4, <1>7, <1>8

\* Any set of alerts can be put in ascending order.
LEMMA SortingExists ==
  \A n \in Nat : \A S \in SUBSET (1 .. n) : \E s \in SetToSeqs(S) : Ascending(s)
  <1> DEFINE Sortable == {n \in Nat : \A S \in SUBSET (1 .. n) :
                            \E s \in SetToSeqs(S) : Ascending(s)}
  <1>1. 0 \in Sortable
    <2> SUFFICES ASSUME NEW S \in SUBSET (1 .. 0)
                 PROVE  \E s \in SetToSeqs(S) : Ascending(s)
      OBVIOUS
    <2>1. S = {} /\ 1 .. 0 = {}
      OBVIOUS
    <2>2. Cardinality(S) = 0
      BY <2>1, FS_EmptySet
    <2>3. << >> \in SetToSeqs(S)
      BY <2>1, <2>2 DEF SetToSeqs
    <2>4. Ascending(<< >>)
      BY DEF Ascending
    <2> QED
      BY <2>3, <2>4
  <1>2. ASSUME NEW n \in Sortable
        PROVE  n + 1 \in Sortable
    <2> SUFFICES ASSUME NEW S \in SUBSET (1 .. n + 1)
                 PROVE  \E s \in SetToSeqs(S) : Ascending(s)
      OBVIOUS
    <2> DEFINE T == S \ {n + 1}
    <2>1. n \in Nat /\ T \in SUBSET (1 .. n)
      OBVIOUS
    <2>2. PICK t \in SetToSeqs(T) : Ascending(t)
      BY <2>1
    <2>3. t \in Seq(T) /\ ToSet(t) = T /\ Len(t) = Cardinality(T)
      BY <2>1, <2>2, Enumerates
    <2>4. CASE n + 1 \notin S
      <3>1. T = S
        BY <2>4
      <3> QED
        BY <2>2, <3>1
    <2>5. CASE n + 1 \in S
      <3> DEFINE s == Append(t, n + 1)
      <3>1. IsFiniteSet(S) /\ Cardinality(S) = Cardinality(T) + 1
        <4>1. IsFiniteSet(S)
          BY <2>1, SubrangeIsFinite
        <4>2. Cardinality(S) \in Nat /\ Cardinality(T) = Cardinality(S) - 1
          BY <2>5, <4>1, FS_RemoveElement, FS_CardinalityType
        <4> QED
          BY <4>1, <4>2
      <3>2. t \in Seq(S)
        BY <2>3, SeqMonotonic
      <3>3. /\ s \in Seq(S)
            /\ Len(s) = Len(t) + 1
            /\ \A i \in 1 .. Len(t) : s[i] = t[i]
            /\ s[Len(t) + 1] = n + 1
        BY <2>5, <3>2, AppendProperties
      <3>4. \A i \in 1 .. Len(t) : t[i] \in 1 .. n
        BY <2>1, <2>3, ElementOfSeq
      <3>5. Len(t) \in Nat /\ DOMAIN t = 1 .. Len(t) /\ DOMAIN s = 1 .. Len(t) + 1
        BY <2>3, <3>3, LenProperties
      <3> HIDE DEF s
      <3>6. Ascending(s)
        <4> SUFFICES ASSUME NEW i \in 1 .. Len(t) + 1, NEW j \in 1 .. Len(t) + 1, i < j
                     PROVE  s[i] < s[j]
          BY <3>5 DEF Ascending
        <4>1. i \in 1 .. Len(t)
          BY <3>5
        <4>2. CASE j \in 1 .. Len(t)
          BY <2>2, <3>3, <3>5, <4>1, <4>2 DEF Ascending
        <4>3. CASE j = Len(t) + 1
          BY <3>3, <3>4, <4>1, <4>3
        <4> QED
          BY <3>5, <4>2, <4>3
      <3>7. s \in [1 .. Cardinality(S) -> S]
        BY <2>3, <3>1, <3>3, LenProperties
      <3>8. \A i, j \in 1 .. Cardinality(S) : i # j => s[i] # s[j]
        <4> SUFFICES ASSUME NEW i \in 1 .. Cardinality(S), NEW j \in 1 .. Cardinality(S),
                            i # j
                     PROVE  s[i] # s[j]
          OBVIOUS
        <4>1. i < j \/ j < i
          BY <3>1, <3>5
        <4>2. i \in DOMAIN s /\ j \in DOMAIN s /\ s[i] \in S /\ s[j] \in S
          BY <3>7
        <4>3. s[i] < s[j] \/ s[j] < s[i]
          BY <3>6, <4>1, <4>2 DEF Ascending
        <4> HIDE DEF Ascending
        <4>4. \A x \in S : x \in Nat
          BY <2>1
        <4>5. s[i] \in Nat /\ s[j] \in Nat
          BY <4>2, <4>4
        <4> QED
          BY <4>3, <4>5
      <3> QED
        BY <3>6, <3>7, <3>8 DEF SetToSeqs
    <2> QED
      BY <2>4, <2>5
  <1>3. \A n \in Nat : n \in Sortable
    BY <1>1, <1>2, NaturalInduction
  <1> QED
    BY <1>3

\* So that is what OldestFirst gives.
LEMMA OldestFirstSorts ==
  ASSUME NEW n \in Nat, NEW S \in SUBSET (1 .. n)
  PROVE  /\ OldestFirst(S) \in Seq(S)
         /\ ToSet(OldestFirst(S)) = S
         /\ Ascending(OldestFirst(S))
  <1>1. OldestFirst(S) \in SetToSeqs(S) /\ Ascending(OldestFirst(S))
    BY SortingExists DEF OldestFirst
  <1> QED
    BY <1>1, Enumerates

----------------------------------------------------------------------------
(* Remembering a page row by row: the fold, unfolded.                      *)

\* The greatest of some alerts is the newest, if it is there.
LEMMA NewestIsMax ==
  ASSUME NEW n \in Nat, NEW S \in SUBSET (1 .. n), n \in S
  PROVE  Max(S) = n
  <1>1. \A y \in S : n >= y
    OBVIOUS
  <1>2. ASSUME NEW x \in S, \A y \in S : x >= y
        PROVE  x = n
    <2>1. x \in 1 .. n /\ x >= n
      BY <1>2
    <2> QED
      BY <2>1
  <1> QED
    BY <1>1, <1>2 DEF Max

\* h is the recursive function behind the fold of a page of n rows: what is
\* remembered after the rows at the positions s.
IsFold(h, ids, page, n) ==
    h = [s \in SUBSET (1 .. n) |->
            IF s = {} THEN ids ELSE Remember(h[s \ {Max(s)}], page[Max(s)])]

\* There is one.
LEMMA FoldExists ==
  ASSUME NEW ids, NEW page
  PROVE  \A n \in Nat : \E h : IsFold(h, ids, page, n)
  <1> DEFINE Foldable == {n \in Nat : \E h : IsFold(h, ids, page, n)}
  <1>1. 0 \in Foldable
    <2>1. IsFold([s \in SUBSET (1 .. 0) |-> ids], ids, page, 0)
      <3>1. \A s \in SUBSET (1 .. 0) : s = {}
        OBVIOUS
      <3> QED
        BY <3>1 DEF IsFold
    <2> QED
      BY <2>1
  <1>2. ASSUME NEW n \in Foldable
        PROVE  n + 1 \in Foldable
    <2>1. n \in Nat
      OBVIOUS
    <2>2. PICK h : IsFold(h, ids, page, n)
      OBVIOUS
    <2> DEFINE g == [s \in SUBSET (1 .. n + 1) |->
                        IF n + 1 \in s THEN Remember(h[s \ {n + 1}], page[n + 1]) ELSE h[s]]
    <2> HIDE DEF Foldable
    <2>3. ASSUME NEW s \in SUBSET (1 .. n + 1)
          PROVE  g[s] = IF s = {} THEN ids ELSE Remember(g[s \ {Max(s)}], page[Max(s)])
      <3>1. CASE n + 1 \in s
        <4>1. Max(s) = n + 1
          BY <2>1, <3>1, NewestIsMax
        <4>2. s \ {n + 1} \in SUBSET (1 .. n + 1) /\ n + 1 \notin s \ {n + 1}
          OBVIOUS
        <4>3. g[s \ {n + 1}] = h[s \ {n + 1}]
          BY <4>2
        <4> QED
          BY <3>1, <4>1, <4>3
      <3>2. CASE n + 1 \notin s
        <4>1. s \in SUBSET (1 .. n) /\ s \ {Max(s)} \in SUBSET (1 .. n + 1)
          <5>1. \A x \in s : x \in 1 .. n
            BY <2>1, <3>2
          <5> QED
            BY <5>1
        <4>2. h[s] = IF s = {} THEN ids ELSE Remember(h[s \ {Max(s)}], page[Max(s)])
          BY <2>2, <4>1 DEF IsFold
        <4>3. g[s] = h[s] /\ g[s \ {Max(s)}] = h[s \ {Max(s)}]
          BY <3>2, <4>1
        <4> QED
          BY <4>2, <4>3
      <3> QED
        BY <3>1, <3>2
    <2>4. IsFold(g, ids, page, n + 1)
      BY <2>3, Zenon DEF IsFold
    <2> HIDE DEF g
    <2>5. \E f : IsFold(f, ids, page, n + 1)
      BY <2>4
    <2> QED
      BY <2>1, <2>5 DEF Foldable
  <1>3. \A n \in Nat : n \in Foldable
    BY <1>1, <1>2, NaturalInduction
  <1> QED
    BY <1>3

\* The memories that a page goes through, row by row.
LEMMA RowByRow ==
  ASSUME NEW ids, NEW page \in Seq(Alerts)
  PROVE  \E m : /\ m[0] = ids
                /\ \A k \in 1 .. Len(page) : m[k] = Remember(m[k - 1], page[k])
                /\ RememberRows(ids, page) = m[Len(page)]
  <1> DEFINE n == Len(page)
             D == 1 .. n
             g == CHOOSE h : IsFold(h, ids, page, n)
             m == [k \in 0 .. n |-> g[1 .. k]]
  <1>1. n \in Nat /\ DOMAIN page = D
    BY LenProperties
  <1>2. RememberRows(ids, page) = g[D]
    BY <1>1, Zenon DEF RememberRows, FoldLeft, MapThenFoldSet, IsFold
  <1>3. IsFold(g, ids, page, n)
    BY <1>1, FoldExists
  <1> HIDE DEF g
  <1>4. m[0] = ids
    <2>1. {} \in SUBSET D /\ 1 .. 0 = {}
      OBVIOUS
    <2>2. g[{}] = ids
      BY <1>3, <2>1 DEF IsFold
    <2> QED
      BY <1>1, <2>1, <2>2
  <1>5. ASSUME NEW k \in 1 .. n
        PROVE  m[k] = Remember(m[k - 1], page[k])
    <2>1. /\ 1 .. k \in SUBSET D /\ 1 .. k # {}
          /\ (1 .. k) \ {k} = 1 .. k - 1
      <3>1. k \in Nat /\ k >= 1 /\ k <= n
        BY <1>1
      <3>2. \A x \in 1 .. k : x \in 1 .. n
        BY <1>1, <3>1
      <3>3. k \in 1 .. k
        BY <3>1
      <3>4. (1 .. k) \ {k} = 1 .. k - 1
        BY <3>1
      <3> QED
        BY <1>1, <3>2, <3>3, <3>4
    <2>2. Max(1 .. k) = k
      BY <1>1 DEF Max
    <2>3. g[1 .. k] = Remember(g[1 .. k - 1], page[k])
      BY <1>3, <2>1, <2>2 DEF IsFold
    <2> QED
      BY <1>1, <2>3
  <1>6. RememberRows(ids, page) = m[n]
    BY <1>1, <1>2
  <1> QED
    BY <1>4, <1>5, <1>6

----------------------------------------------------------------------------
(* The memory.                                                             *)

\* The rows that are on the page when n alerts were raised.
NewestRows(n) == {i \in 1 .. n : i + Page > n}

\* A memory: what was on a first page, in whatever order, and then the later
\* alerts in theirs.
MemoryOK(ids) ==
    /\ ids \in Seq(Alerts)
    /\ Len(ids) <= MaxRemembered
    /\ IsInjective(ids)
    /\ \A i, j \in DOMAIN ids : i < j /\ Page < j => ids[i] < ids[j]

\* The constants.
LEMMA Bounds ==
  /\ Page \in Nat /\ Page >= 1
  /\ MaxRemembered \in Nat /\ MaxRemembered >= 2 * Page
  /\ MaxAlerts \in Nat
  /\ Watched \in Bowls /\ Event \in Platforms /\ FirstReadEmpty \in BOOLEAN
  <1>1. MaxRemembered \in Nat /\ MaxAlerts \in Nat
    BY AlertAssumption DEF AlertAssumption
  <1> QED
    BY <1>1, AlertAssumption DEF AlertAssumption

\* What is in a sequence.
LEMMA InSequence ==
  ASSUME NEW T, NEW s \in Seq(T)
  PROVE  /\ \A x : x \in ToSet(s) <=> \E i \in 1 .. Len(s) : s[i] = x
         /\ ToSet(s) \subseteq T
  <1>1. DOMAIN s = 1 .. Len(s)
    BY LenProperties
  <1>2. \A x : x \in ToSet(s) <=> \E i \in 1 .. Len(s) : s[i] = x
    BY <1>1 DEF ToSet
  <1> QED
    BY <1>2, ElementOfSeq

\* What a memory is, position by position.
LEMMA MemoryFacts ==
  ASSUME NEW ids, MemoryOK(ids)
  PROVE  /\ ids \in Seq(Alerts) /\ Len(ids) \in Nat /\ DOMAIN ids = 1 .. Len(ids)
         /\ Len(ids) <= MaxRemembered
         /\ \A i \in 1 .. Len(ids) : ids[i] \in Nat /\ ids[i] \in ToSet(ids)
         /\ \A i, j \in 1 .. Len(ids) : i # j => ids[i] # ids[j]
         /\ \A i, j \in 1 .. Len(ids) : i < j /\ Page < j => ids[i] < ids[j]
         /\ \A x : x \in ToSet(ids) <=> \E i \in 1 .. Len(ids) : ids[i] = x
  <1>1. ids \in Seq(Alerts) /\ Len(ids) <= MaxRemembered
    BY DEF MemoryOK
  <1>2. Len(ids) \in Nat /\ DOMAIN ids = 1 .. Len(ids)
    BY <1>1, LenProperties
  <1>3. \A x : x \in ToSet(ids) <=> \E i \in 1 .. Len(ids) : ids[i] = x
    BY <1>1, InSequence
  <1>4. \A i \in 1 .. Len(ids) : ids[i] \in Nat /\ ids[i] \in ToSet(ids)
    <2>1. \A i \in 1 .. Len(ids) : ids[i] \in Alerts
      BY <1>1, ElementOfSeq
    <2> QED
      BY <1>3, <2>1, Bounds DEF Alerts
  <1>5. \A i, j \in 1 .. Len(ids) : i # j => ids[i] # ids[j]
    BY <1>2 DEF MemoryOK, IsInjective
  <1>6. \A i, j \in 1 .. Len(ids) : i < j /\ Page < j => ids[i] < ids[j]
    BY <1>2 DEF MemoryOK
  <1> QED
    BY <1>1, <1>2, <1>3, <1>4, <1>5, <1>6

\* The alerts behind the first page are as far apart as they are remembered.
LEMMA MemorySpreads ==
  ASSUME NEW ids, MemoryOK(ids)
  PROVE  \A k \in Nat : k >= 1 /\ Page + k <= Len(ids) => ids[Page + k] >= ids[1] + k
  <1> DEFINE Spread == {k \in Nat :
                k >= 1 /\ Page + k <= Len(ids) => ids[Page + k] >= ids[1] + k}
  <1>1. /\ Page \in Nat /\ Page >= 1
        /\ Len(ids) \in Nat /\ DOMAIN ids = 1 .. Len(ids)
        /\ \A i \in 1 .. Len(ids) : ids[i] \in Nat
        /\ \A i, j \in 1 .. Len(ids) : i < j /\ Page < j => ids[i] < ids[j]
    BY MemoryFacts, Bounds
  <1>2. 0 \in Spread
    OBVIOUS
  <1>3. ASSUME NEW k \in Spread
        PROVE  k + 1 \in Spread
    <2> SUFFICES ASSUME Page + (k + 1) <= Len(ids)
                 PROVE  ids[Page + (k + 1)] >= ids[1] + (k + 1)
      OBVIOUS
    <2>1. k \in Nat
      OBVIOUS
    <2>2. CASE k = 0
      <3>1. ids[1] < ids[Page + 1] /\ ids[1] \in Nat /\ ids[Page + 1] \in Nat
        BY <1>1, <2>2
      <3> QED
        BY <2>2, <3>1
    <2>3. CASE k >= 1
      <3>1. ids[Page + k] >= ids[1] + k
        BY <1>1, <2>1, <2>3
      <3> HIDE DEF Spread
      <3>2. ids[Page + k] < ids[Page + (k + 1)] /\ ids[1] \in Nat
            /\ ids[Page + k] \in Nat /\ ids[Page + (k + 1)] \in Nat
        BY <1>1, <2>1, <2>3
      <3> QED
        BY <2>1, <3>1, <3>2
    <2> QED
      BY <2>1, <2>2, <2>3
  <1>4. \A k \in Nat : k \in Spread
    BY <1>2, <1>3, NaturalInduction
  <1> QED
    BY <1>4

\* A later alert is remembered, and what makes room for it is off the page.
LEMMA RememberLater ==
  ASSUME NEW ids, MemoryOK(ids), NEW id \in Alerts, \A i \in ToSet(ids) : i < id
  PROVE  /\ MemoryOK(Remember(ids, id))
         /\ ToSet(Remember(ids, id)) \subseteq ToSet(ids) \cup {id}
         /\ \A i \in ToSet(ids) \cup {id} : i + Page > id => i \in ToSet(Remember(ids, id))
  <1>1. /\ Page \in Nat /\ Page >= 1 /\ MaxRemembered \in Nat /\ MaxRemembered >= 2 * Page
        /\ ids \in Seq(Alerts) /\ Len(ids) \in Nat /\ DOMAIN ids = 1 .. Len(ids)
        /\ id \in Nat /\ \A i \in 1 .. Len(ids) : ids[i] \in Nat /\ ids[i] < id
        /\ Len(ids) <= MaxRemembered
        /\ \A i, j \in 1 .. Len(ids) : i # j => ids[i] # ids[j]
        /\ \A i, j \in 1 .. Len(ids) : i < j /\ Page < j => ids[i] < ids[j]
        /\ \A x : x \in ToSet(ids) <=> \E i \in 1 .. Len(ids) : ids[i] = x
    <2>1. id \in Nat
      BY Bounds DEF Alerts
    <2> QED
      BY <2>1, MemoryFacts, Bounds
  <1>2. id \notin ToSet(ids)
    BY <1>1
  <1>3. CASE Len(ids) < MaxRemembered
    <2> DEFINE new == Append(ids, id)
    <2>1. Remember(ids, id) = new
      BY <1>2, <1>3 DEF Remember
    <2>2. /\ new \in Seq(Alerts) /\ Len(new) = Len(ids) + 1
          /\ DOMAIN new = 1 .. Len(ids) + 1
          /\ \A i \in 1 .. Len(ids) : new[i] = ids[i]
          /\ new[Len(ids) + 1] = id
      BY <1>1, AppendProperties, LenProperties
    <2> HIDE DEF new
    <2>3. ToSet(new) = ToSet(ids) \cup {id}
      <3>1. \A x : x \in ToSet(new) <=> \E i \in 1 .. Len(ids) + 1 : new[i] = x
        BY <2>2, InSequence
      <3>2. \A x \in ToSet(new) : x \in ToSet(ids) \cup {id}
        BY <1>1, <2>2, <3>1
      <3>3. \A x \in ToSet(ids) \cup {id} : x \in ToSet(new)
        BY <1>1, <2>2, <3>1
      <3> QED
        BY <3>2, <3>3
    <2>4. IsInjective(new)
      BY <1>1, <2>2 DEF IsInjective
    <2>5. \A i, j \in DOMAIN new : i < j /\ Page < j => new[i] < new[j]
      BY <1>1, <2>2
    <2>6. MemoryOK(new)
      BY <1>1, <1>3, <2>2, <2>4, <2>5 DEF MemoryOK
    <2> QED
      BY <2>1, <2>3, <2>6
  <1>4. CASE Len(ids) = MaxRemembered
    <2> DEFINE rest == Tail(ids)
               new == Append(rest, id)
    <2>1. Remember(ids, id) = new
      BY <1>1, <1>2, <1>4 DEF Remember
    <2>2. Len(ids) >= 1 /\ ids # << >>
      BY <1>1, <1>4, EmptySeq
    <2>3. Len(ids) \in Nat
      BY <1>1
    <2>4. /\ rest \in Seq(Alerts) /\ Len(rest) = Len(ids) - 1
          /\ \A i \in 1 .. Len(ids) - 1 : rest[i] = ids[i + 1]
      BY <1>1, <2>2, HeadTailProperties
    <2> HIDE DEF rest
    <2>5. /\ new \in Seq(Alerts) /\ Len(new) = Len(ids)
          /\ DOMAIN new = 1 .. Len(ids)
          /\ \A i \in 1 .. Len(ids) - 1 : new[i] = ids[i + 1]
          /\ new[Len(ids)] = id
      <3>1. /\ new \in Seq(Alerts) /\ Len(new) = Len(rest) + 1
            /\ \A i \in 1 .. Len(rest) : new[i] = rest[i]
            /\ new[Len(rest) + 1] = id
        BY <2>4, AppendProperties
      <3>2. DOMAIN new = 1 .. Len(new)
        BY <3>1, LenProperties
      <3> HIDE DEF new
      <3> QED
        BY <1>1, <2>2, <2>4, <3>1, <3>2
    <2> HIDE DEF new
    <2>6. \A x : x \in ToSet(new) <=> \E i \in 1 .. Len(ids) : new[i] = x
      BY <2>5, InSequence
    <2>7. ToSet(new) \subseteq ToSet(ids) \cup {id}
      <3> SUFFICES ASSUME NEW i \in 1 .. Len(ids)
                   PROVE  new[i] \in ToSet(ids) \cup {id}
        BY <2>6
      <3>1. CASE i = Len(ids)
        BY <2>5, <3>1
      <3>2. CASE i # Len(ids)
        <4>1. i \in 1 .. Len(ids) - 1 /\ i + 1 \in 1 .. Len(ids)
          BY <2>3, <3>2
        <4> QED
          BY <1>1, <2>5, <4>1
      <3> QED
        BY <3>1, <3>2
    <2>8. IsInjective(new)
      BY <1>1, <2>2, <2>5 DEF IsInjective
    <2>9. \A i, j \in DOMAIN new : i < j /\ Page < j => new[i] < new[j]
      <3> SUFFICES ASSUME NEW i \in 1 .. Len(ids), NEW j \in 1 .. Len(ids), i < j, Page < j
                   PROVE  new[i] < new[j]
        BY <2>5
      <3>1. i \in 1 .. Len(ids) - 1 /\ i + 1 \in 1 .. Len(ids) /\ new[i] = ids[i + 1]
        BY <1>1, <2>5
      <3>2. CASE j = Len(ids)
        BY <1>1, <2>5, <3>1, <3>2
      <3>3. CASE j # Len(ids)
        <4>1. j \in 1 .. Len(ids) - 1 /\ j + 1 \in 1 .. Len(ids)
          BY <2>3, <3>3
        <4>2. new[j] = ids[j + 1]
          BY <2>5, <4>1
        <4> QED
          BY <1>1, <3>1, <4>1, <4>2
      <3> QED
        BY <3>2, <3>3
    <2>10. MemoryOK(new)
      BY <1>1, <2>5, <2>8, <2>9 DEF MemoryOK
    <2>11. \A i \in ToSet(ids) \cup {id} : i # ids[1] => i \in ToSet(new)
      <3>1. id \in ToSet(new)
        BY <1>1, <2>2, <2>5, <2>6
      <3>2. ASSUME NEW j \in 1 .. Len(ids), ids[j] # ids[1]
            PROVE  ids[j] \in ToSet(new)
        <4>1. j # 1 /\ j - 1 \in 1 .. Len(ids) - 1 /\ j - 1 \in 1 .. Len(ids)
          BY <1>1, <3>2
        <4>2. new[j - 1] = ids[j]
          BY <1>1, <2>5, <4>1
        <4> QED
          BY <2>6, <4>1, <4>2
      <3> QED
        BY <1>1, <3>1, <3>2
    <2>12. ids[1] + Page < id
      <3>1. MaxRemembered - Page \in Nat /\ MaxRemembered - Page >= Page
        BY <1>1
      <3>2. ids[Page + (MaxRemembered - Page)] >= ids[1] + (MaxRemembered - Page)
        BY <1>1, <1>4, <3>1, MemorySpreads
      <3>3. ids[MaxRemembered] < id /\ ids[1] \in Nat /\ ids[MaxRemembered] \in Nat
        BY <1>1, <1>4, <2>2
      <3>4. Page + (MaxRemembered - Page) = MaxRemembered
        BY <1>1
      <3> QED
        BY <1>1, <3>1, <3>2, <3>3, <3>4
    <2>13. \A i \in ToSet(ids) \cup {id} : i + Page > id => i # ids[1]
      BY <1>1, <2>2, <2>12
    <2>14. \A i \in ToSet(ids) \cup {id} : i + Page > id => i \in ToSet(new)
      BY <2>11, <2>13
    <2> QED
      BY <2>1, <2>7, <2>10, <2>14
  <1>5. Len(ids) < MaxRemembered \/ Len(ids) = MaxRemembered
    <2>1. Len(ids) \in Nat /\ MaxRemembered \in Nat /\ Len(ids) <= MaxRemembered
      BY <1>1
    <2> QED
      BY <2>1
  <1> QED
    BY <1>3, <1>4, <1>5

\* A batch of later alerts, oldest first: none that is still on the page
\* when it ends is forgotten.
LEMMA RememberBatch ==
  ASSUME NEW ids, MemoryOK(ids), NEW page \in Seq(Alerts), Ascending(page),
         \A i \in ToSet(ids), k \in 1 .. Len(page) : i < page[k],
         NEW top \in Nat, \A k \in 1 .. Len(page) : page[k] <= top
  PROVE  /\ MemoryOK(RememberRows(ids, page))
         /\ ToSet(RememberRows(ids, page)) \subseteq ToSet(ids) \cup ToSet(page)
         /\ \A i \in ToSet(ids) \cup ToSet(page) :
               i + Page > top => i \in ToSet(RememberRows(ids, page))
  <1> DEFINE n == Len(page)
             Seen(k) == ToSet(ids) \cup {page[j] : j \in 1 .. k}
  <1>1. PICK m : /\ m[0] = ids
                 /\ \A k \in 1 .. n : m[k] = Remember(m[k - 1], page[k])
                 /\ RememberRows(ids, page) = m[n]
    BY RowByRow
  <1>2. /\ n \in Nat /\ Page \in Nat
        /\ \A k \in 1 .. n : page[k] \in Alerts /\ page[k] \in Nat
        /\ \A j, k \in 1 .. n : j < k => page[j] < page[k]
    <2>1. n \in Nat /\ DOMAIN page = 1 .. n
      BY LenProperties
    <2>2. \A k \in 1 .. n : page[k] \in Alerts
      BY ElementOfSeq
    <2>3. \A k \in 1 .. n : page[k] \in Nat
      BY <2>2, Bounds DEF Alerts
    <2>4. \A j, k \in 1 .. n : j < k => page[j] < page[k]
      BY <2>1 DEF Ascending
    <2> QED
      BY <2>1, <2>2, <2>3, <2>4, Bounds
  <1>3. \A i \in ToSet(ids) : i \in Nat
    BY MemoryFacts
  <1> DEFINE Good(k) == /\ MemoryOK(m[k])
                        /\ ToSet(m[k]) \subseteq Seen(k)
                        /\ \A i \in Seen(k) : i + Page > top => i \in ToSet(m[k])
             Done == {k \in Nat : k <= n => Good(k)}
  <1>4. 0 \in Done
    <2>1. Seen(0) = ToSet(ids)
      OBVIOUS
    <2> QED
      BY <1>1, <2>1
  <1>5. ASSUME NEW k \in Done
        PROVE  k + 1 \in Done
    <2> SUFFICES ASSUME k + 1 <= n
                 PROVE  Good(k + 1)
      OBVIOUS
    <2>1. k \in Nat /\ k + 1 \in 1 .. n /\ (k + 1) - 1 = k
      BY <1>2
    <2>2. Good(k)
      BY <1>2, <2>1
    <2> HIDE DEF Done
    <2> DEFINE id == page[k + 1]
    <2>3. id \in Alerts /\ id \in Nat /\ id <= top
      BY <1>2, <2>1
    <2>4. \A i \in Seen(k) : i \in Nat /\ i < id
      <3>1. \A i \in ToSet(ids) : i < id
        BY <2>1
      <3>2. \A j \in 1 .. k : page[j] < id /\ page[j] \in Nat
        BY <1>2, <2>1
      <3> QED
        BY <1>3, <3>1, <3>2
    <2>5. m[k + 1] = Remember(m[k], id)
      BY <1>1, <2>1
    <2>6. Seen(k + 1) = Seen(k) \cup {id}
      <3>1. 1 .. k + 1 = (1 .. k) \cup {k + 1}
        BY <2>1
      <3> QED
        BY <3>1
    <2> HIDE DEF id, Seen
    <2>7. /\ MemoryOK(Remember(m[k], id))
          /\ ToSet(Remember(m[k], id)) \subseteq ToSet(m[k]) \cup {id}
          /\ \A i \in ToSet(m[k]) \cup {id} :
                i + Page > id => i \in ToSet(Remember(m[k], id))
      BY <2>2, <2>3, <2>4, RememberLater
    <2>8. \A i \in Seen(k) \cup {id} : i + Page > top => i + Page > id
      BY <1>2, <2>3, <2>4
    <2> QED
      BY <2>2, <2>5, <2>6, <2>7, <2>8
  <1>6. \A k \in Nat : k \in Done
    BY <1>4, <1>5, NaturalInduction
  <1>7. Good(n)
    BY <1>2, <1>6
  <1>8. Seen(n) = ToSet(ids) \cup ToSet(page)
    <2>1. \A x : x \in ToSet(page) <=> \E k \in 1 .. n : page[k] = x
      BY InSequence
    <2> QED
      BY <2>1
  <1> QED
    BY <1>1, <1>7, <1>8

\* A first page is remembered as it is.
LEMMA RememberFirstPage ==
  ASSUME NEW page \in Seq(Alerts), IsInjective(page), Len(page) <= Page
  PROVE  /\ MemoryOK(RememberRows(<< >>, page))
         /\ ToSet(RememberRows(<< >>, page)) = ToSet(page)
  <1> DEFINE n == Len(page)
  <1>1. PICK m : /\ m[0] = << >>
                 /\ \A k \in 1 .. n : m[k] = Remember(m[k - 1], page[k])
                 /\ RememberRows(<< >>, page) = m[n]
    BY RowByRow
  <1>2. /\ n \in Nat /\ DOMAIN page = 1 .. n /\ n <= MaxRemembered
        /\ \A k \in 1 .. n : page[k] \in Alerts
        /\ \A j, k \in 1 .. n : j # k => page[j] # page[k]
    <2>1. n \in Nat /\ DOMAIN page = 1 .. n
      BY LenProperties
    <2>2. \A k \in 1 .. n : page[k] \in Alerts
      BY ElementOfSeq
    <2>3. n <= MaxRemembered
      BY <2>1, Bounds
    <2> QED
      BY <2>1, <2>2, <2>3 DEF IsInjective
  <1> DEFINE Good(k) == /\ m[k] \in Seq(Alerts) /\ Len(m[k]) = k
                        /\ \A j \in 1 .. k : m[k][j] = page[j]
             Done == {k \in Nat : k <= n => Good(k)}
  <1>3. 0 \in Done
    <2>1. m[0] \in Seq(Alerts) /\ Len(m[0]) = 0
      BY <1>1, EmptySeq
    <2> QED
      BY <2>1
  <1>4. ASSUME NEW k \in Done
        PROVE  k + 1 \in Done
    <2> SUFFICES ASSUME k + 1 <= n
                 PROVE  Good(k + 1)
      OBVIOUS
    <2>1. k \in Nat /\ k + 1 \in 1 .. n /\ (k + 1) - 1 = k
      BY <1>2
    <2>2. Good(k)
      BY <1>2, <2>1
    <2> HIDE DEF Done
    <2> DEFINE id == page[k + 1]
    <2>3. id \in Alerts /\ id \notin ToSet(m[k])
      <3>1. \A x : x \in ToSet(m[k]) <=> \E j \in 1 .. k : m[k][j] = x
        BY <2>2, InSequence
      <3>2. \A j \in 1 .. k : page[j] # id
        BY <1>2, <2>1
      <3> QED
        BY <1>2, <2>1, <2>2, <3>1, <3>2
    <2>4. Len(m[k]) < MaxRemembered
      <3>1. MaxRemembered \in Nat
        BY Bounds
      <3> QED
        BY <1>2, <2>1, <2>2, <3>1
    <2>5. m[k + 1] = Append(m[k], id)
      BY <1>1, <2>1, <2>3, <2>4 DEF Remember
    <2>6. /\ m[k + 1] \in Seq(Alerts) /\ Len(m[k + 1]) = k + 1
          /\ \A j \in 1 .. k : m[k + 1][j] = m[k][j]
          /\ m[k + 1][k + 1] = id
      BY <2>2, <2>3, <2>5, AppendProperties
    <2> QED
      BY <2>1, <2>2, <2>6
  <1>5. \A k \in Nat : k \in Done
    BY <1>3, <1>4, NaturalInduction
  <1>6. Good(n)
    BY <1>2, <1>5
  <1>7. m[n] = page
    BY <1>6, SeqEqual
  <1>8. MemoryOK(page)
    BY <1>2, Bounds DEF MemoryOK
  <1> QED
    BY <1>1, <1>7, <1>8

----------------------------------------------------------------------------
(* A page in hand, and what is new on it.                                  *)

\* A page of the log: its newest rows, each of them once.
LEMMA PageOfLog ==
  ASSUME NEW n \in 0 .. MaxAlerts, NEW page \in SetToSeqs(NewestRows(n))
  PROVE  /\ page \in Seq(Alerts) /\ Len(page) <= Page
         /\ IsInjective(page) /\ ToSet(page) = NewestRows(n)
  <1> DEFINE S == NewestRows(n)
  <1>1. n \in Nat /\ S \in SUBSET (1 .. n) /\ S \in SUBSET Alerts
    BY Bounds DEF NewestRows, Alerts
  <1>2. page \in Seq(S) /\ ToSet(page) = S /\ IsInjective(page) /\ Len(page) = Cardinality(S)
    BY <1>1, Enumerates
  <1>3. Cardinality(S) <= Page
    <2> DEFINE I == n - Page + 1 .. n
    <2>1. n - Page + 1 \in Int /\ n \in Int /\ ~ (n - Page + 1 > n) /\ n - (n - Page + 1) + 1 = Page
      BY <1>1, Bounds
    <2>2. IsFiniteSet(I) /\ Cardinality(I) = Page
      BY <2>1, FS_Interval
    <2>3. S \in SUBSET I
      BY <1>1, Bounds DEF NewestRows
    <2> QED
      BY <2>2, <2>3, FS_Subset
  <1>4. page \in Seq(Alerts)
    BY <1>1, <1>2, SeqMonotonic
  <1> QED
    BY <1>2, <1>3, <1>4

\* It is empty just when the log is, and the newest alert heads it.
LEMMA NewestOnPage ==
  ASSUME NEW n \in Nat
  PROVE  /\ n >= 1 => n \in NewestRows(n) /\ Max(NewestRows(n)) = n
         /\ n = 0 => NewestRows(n) = {}
  <1>1. n = 0 => NewestRows(n) = {}
    BY DEF NewestRows
  <1>2. ASSUME n >= 1
        PROVE  n \in NewestRows(n) /\ Max(NewestRows(n)) = n
    <2>1. n \in NewestRows(n) /\ NewestRows(n) \in SUBSET (1 .. n)
      BY <1>2, Bounds DEF NewestRows
    <2> QED
      BY <2>1, NewestIsMax
  <1> QED
    BY <1>1, <1>2

\* A sequence has no members just when it is empty.
LEMMA EmptyOrNot ==
  ASSUME NEW T, NEW s \in Seq(T)
  PROVE  /\ s = << >> <=> ToSet(s) = {}
         /\ s # << >> => Len(s) >= 1
         /\ ToSet(<< >>) = {}
  <1>1. ToSet(<< >>) = {}
    BY DEF ToSet
  <1>2. s # << >> => Len(s) \in Nat /\ Len(s) >= 1
    BY EmptySeq
  <1>3. s # << >> => s[1] \in ToSet(s)
    BY <1>2, InSequence
  <1> QED
    BY <1>1, <1>2, <1>3

\* A sequence is one over any set that has its members.
LEMMA SeqOfMembers ==
  ASSUME NEW T, NEW U, NEW s \in Seq(T), ToSet(s) \subseteq U
  PROVE  s \in Seq(U)
  <1>1. Len(s) \in Nat /\ s \in [1 .. Len(s) -> T]
    BY LenProperties
  <1>2. \A k \in 1 .. Len(s) : s[k] \in U
    BY InSequence
  <1>3. s \in [1 .. Len(s) -> U]
    BY <1>1, <1>2
  <1> QED
    BY <1>1, <1>3

\* An ascending sequence ends with its greatest.
LEMMA LastIsNewest ==
  ASSUME NEW T, NEW s \in Seq(T), Ascending(s), NEW top \in Nat, top \in ToSet(s),
         \A k \in 1 .. Len(s) : s[k] \in Nat /\ s[k] <= top
  PROVE  Last(s) = top
  <1>1. DOMAIN s = 1 .. Len(s)
    BY LenProperties
  <1>2. PICK k \in 1 .. Len(s) : s[k] = top
    BY InSequence
  <1>3. k < Len(s) => s[k] < s[Len(s)]
    BY <1>1 DEF Ascending
  <1>4. ~ (k < Len(s))
    BY <1>2, <1>3
  <1>5. k = Len(s)
    <2>1. Len(s) \in Nat
      BY LenProperties
    <2> QED
      BY <1>4, <2>1
  <1> QED
    BY <1>2, <1>5 DEF Last

\* An empty page, or none, brings nothing.
LEMMA NothingNew ==
  ASSUME NEW ids
  PROVE  OldestFirst({}) = << >> /\ RememberRows(ids, << >>) = ids
  <1>1. OldestFirst({}) \in Seq({}) /\ ToSet(OldestFirst({})) = {}
    <2>1. 0 \in Nat /\ {} \in SUBSET (1 .. 0)
      OBVIOUS
    <2> QED
      BY <2>1, OldestFirstSorts
  <1>2. << >> \in Seq(Alerts) /\ Len(<< >>) = 0
    BY EmptySeq
  <1>3. PICK m : /\ m[0] = ids
                 /\ \A k \in 1 .. Len(<< >>) : m[k] = Remember(m[k - 1], << >>[k])
                 /\ RememberRows(ids, << >>) = m[Len(<< >>)]
    BY <1>2, RowByRow, Zenon
  <1> QED
    BY <1>1, <1>2, <1>3, EmptyOrNot

\* The batch fresh takes a memory of the rows of r alerts to those of top:
\* all later, up to the newest, and remembered as long as they are listed.
BringsUpTo(top, r, ids, fresh) ==
    /\ fresh \in Seq(Alerts) /\ Ascending(fresh)
    /\ \A k \in 1 .. Len(fresh) : fresh[k] > r /\ fresh[k] <= top
    /\ fresh # << >> => Last(fresh) = top
    /\ fresh = << >> => r = top
    /\ MemoryOK(RememberRows(ids, fresh))
    /\ ToSet(RememberRows(ids, fresh)) \subseteq ToSet(ids) \cup ToSet(fresh)
    /\ ToSet(RememberRows(ids, fresh)) \subseteq 1 .. top
    /\ NewestRows(top) \subseteq ToSet(RememberRows(ids, fresh))

\* What a page brings to an entity that remembers the page of r alerts.
LEMMA PageBringsLater ==
  ASSUME NEW r \in Nat, NEW top \in 1 .. MaxAlerts, r <= top,
         NEW ids, MemoryOK(ids), ToSet(ids) \subseteq 1 .. r, NewestRows(r) \subseteq ToSet(ids),
         NEW fresh, fresh = OldestFirst(NewestRows(top) \ ToSet(ids))
  PROVE  BringsUpTo(top, r, ids, fresh)
  <1> DEFINE S == NewestRows(top) \ ToSet(ids)
  <1>1. /\ top \in Nat /\ S \in SUBSET (1 .. top) /\ S \in SUBSET Alerts
        /\ Page \in Nat /\ Page >= 1
    BY Bounds DEF NewestRows, Alerts
  <1>2. fresh \in Seq(S) /\ ToSet(fresh) = S /\ Ascending(fresh)
    BY <1>1, OldestFirstSorts
  <1>3. fresh \in Seq(Alerts) /\ Len(fresh) \in Nat /\ DOMAIN fresh = 1 .. Len(fresh)
    BY <1>1, <1>2, SeqMonotonic, LenProperties
  <1>4. \A i \in S : i \in Nat /\ i > r /\ i <= top
    BY <1>1 DEF NewestRows
  <1>5. \A k \in 1 .. Len(fresh) : fresh[k] \in Nat /\ fresh[k] > r /\ fresh[k] <= top
    BY <1>2, <1>4, ElementOfSeq
  <1>6. top \in NewestRows(top)
    BY <1>1, NewestOnPage
  <1>7. top \in S \/ r = top
    BY <1>1, <1>6
  <1> HIDE DEF S
  <1>8. fresh = << >> => r = top
    BY <1>2, <1>3, <1>7, EmptyOrNot
  <1>9. ASSUME fresh # << >>
        PROVE  Last(fresh) = top
    <2>1. Len(fresh) >= 1
      BY <1>3, <1>9, EmptyOrNot
    <2>2. 1 \in 1 .. Len(fresh)
      BY <1>3, <2>1
    <2>3. top \in S
      <3>1. fresh[1] \in Nat /\ fresh[1] > r /\ fresh[1] <= top
        BY <1>5, <2>2
      <3>2. r # top
        BY <1>1, <3>1
      <3> QED
        BY <1>7, <3>2
    <2> QED
      BY <1>1, <1>2, <1>3, <1>5, <2>3, LastIsNewest
  <1>10. \A i \in ToSet(ids) : i \in Nat /\ i <= r
    OBVIOUS
  <1>11. \A i \in ToSet(ids), k \in 1 .. Len(fresh) : i < fresh[k]
    <2> SUFFICES ASSUME NEW i \in ToSet(ids), NEW k \in 1 .. Len(fresh)
                 PROVE  i < fresh[k]
      OBVIOUS
    <2>1. i \in Nat /\ i <= r
      BY <1>10
    <2>2. fresh[k] \in Nat /\ fresh[k] > r
      BY <1>5
    <2> QED
      BY <2>1, <2>2
  <1>12. /\ MemoryOK(RememberRows(ids, fresh))
         /\ ToSet(RememberRows(ids, fresh)) \subseteq ToSet(ids) \cup ToSet(fresh)
         /\ \A i \in ToSet(ids) \cup ToSet(fresh) :
               i + Page > top => i \in ToSet(RememberRows(ids, fresh))
    BY <1>1, <1>2, <1>3, <1>5, <1>11, RememberBatch
  <1>13. NewestRows(top) \subseteq ToSet(ids) \cup ToSet(fresh)
    BY <1>2 DEF S
  <1>14. \A i \in NewestRows(top) : i + Page > top
    BY DEF NewestRows
  <1>15. \A i \in ToSet(ids) \cup ToSet(fresh) : i \in 1 .. top
    <2>1. \A i \in ToSet(ids) : i \in 1 .. top
      BY <1>1
    <2>2. \A i \in ToSet(fresh) : i \in 1 .. top
      BY <1>1, <1>2, <1>4
    <2> QED
      BY <2>1, <2>2
  <1> QED
    BY <1>2, <1>3, <1>5, <1>8, <1>9, <1>12, <1>13, <1>14, <1>15 DEF BringsUpTo

----------------------------------------------------------------------------
(* The inductive invariant.                                                *)

\* An entity that remembers ids, has page in hand, which was read when upTo
\* alerts were raised, and fired out, all but since.fired of it itself, last
\* took in the rows of r alerts.
TookIn(r, ids, page, upTo, out, since) ==
    /\ MemoryOK(ids)
    /\ ToSet(ids) \subseteq 1 .. r
    /\ NewestRows(r) \subseteq ToSet(ids)
    /\ page # << >> => r = upTo
    /\ \A i \in ToSet(ids) : i > since.from => i \in ToSet(out)
    /\ since.fired <= Len(out)
    /\ Len(out) > since.fired => Last(out) = r
    /\ ~ FirstReadEmpty => since.from <= r /\ ToSet(out) \subseteq 1 .. r

EntityUpToDate ==
    Live => \E r \in 0 .. readUpTo : TookIn(r, seenIds, rows, readUpTo, fired, watch)

\* What is in hand is the page of the log as it was when it was read.
PageInHand ==
    /\ readUpTo <= raised
    /\ IsInjective(rows)
    /\ rows # << >> => ToSet(rows) = NewestRows(readUpTo)
    /\ ~ FirstReadEmpty /\ ~ Live /\ Watched \in data => ToSet(rows) = NewestRows(readUpTo)

\* Of what is in out, the entity that was added at since fired each alert
\* after the older ones.
OwnInOrder(out, since) ==
    \A i, j \in since.fired + 1 .. Len(out) : i < j => out[i] < out[j]

\* What was fired had been read; each entity fires in order, and if no first
\* read is empty so do all of them together.
FiredInOrder ==
    /\ ToSet(fired) \subseteq 1 .. readUpTo
    /\ Live => OwnInOrder(fired, watch)
    /\ ~ FirstReadEmpty => Ascending(fired)

AlertInv ==
    /\ TypeOK
    /\ BowlInv
    /\ PageInHand
    /\ FiredInOrder
    /\ EntityUpToDate

\* The types, as the provers need them.
LEMMA Types ==
  ASSUME TypeOK
  PROVE  /\ raised \in Nat /\ raised <= MaxAlerts /\ readUpTo \in Nat /\ readUpTo <= MaxAlerts
         /\ rows \in Seq(Alerts) /\ Len(rows) <= Page
         /\ seenIds \in Seq(Alerts) /\ Len(seenIds) <= MaxRemembered
         /\ fired \in Seq(Alerts) /\ Len(fired) \in Nat
         /\ watch \in [from : 0 .. MaxAlerts, fired : Nat]
         /\ watch.from \in Nat /\ watch.fired \in Nat
  <1>1. raised \in 0 .. MaxAlerts /\ readUpTo \in 0 .. MaxAlerts
    BY DEF TypeOK
  <1>2. Len(fired) \in Nat
    BY LenProperties DEF TypeOK
  <1> QED
    BY <1>1, <1>2, Bounds DEF TypeOK

\* One sequence after another.
LEMMA OneAfterAnother ==
  ASSUME NEW s \in Seq(Alerts), NEW t \in Seq(Alerts)
  PROVE  /\ s \o t \in Seq(Alerts)
         /\ Len(s) \in Nat /\ Len(t) \in Nat /\ Len(s \o t) = Len(s) + Len(t)
         /\ \A k \in 1 .. Len(s) : (s \o t)[k] = s[k]
         /\ \A k \in Len(s) + 1 .. Len(s) + Len(t) :
               k - Len(s) \in 1 .. Len(t) /\ (s \o t)[k] = t[k - Len(s)]
         /\ ToSet(s \o t) = ToSet(s) \cup ToSet(t)
         /\ t # << >> => Last(s \o t) = Last(t) /\ Len(t) >= 1
         /\ t = << >> => s \o t = s
  <1>1. /\ s \o t \in Seq(Alerts)
        /\ Len(s) \in Nat /\ Len(t) \in Nat /\ Len(s \o t) = Len(s) + Len(t)
    BY ConcatProperties, LenProperties
  <1>2. \A k \in 1 .. Len(s) + Len(t) :
           (s \o t)[k] = IF k <= Len(s) THEN s[k] ELSE t[k - Len(s)]
    BY ConcatProperties
  <1>3. \A k \in 1 .. Len(s) : (s \o t)[k] = s[k]
    BY <1>1, <1>2
  <1>4. \A k \in Len(s) + 1 .. Len(s) + Len(t) :
           k - Len(s) \in 1 .. Len(t) /\ (s \o t)[k] = t[k - Len(s)]
    BY <1>1, <1>2
  <1>5. ToSet(s \o t) = ToSet(s) \cup ToSet(t)
    <2>1. /\ \A x : x \in ToSet(s) <=> \E k \in 1 .. Len(s) : s[k] = x
          /\ \A x : x \in ToSet(t) <=> \E k \in 1 .. Len(t) : t[k] = x
          /\ \A x : x \in ToSet(s \o t) <=> \E k \in 1 .. Len(s) + Len(t) : (s \o t)[k] = x
      BY <1>1, InSequence
    <2>2. ASSUME NEW x \in ToSet(s)
          PROVE  x \in ToSet(s \o t)
      BY <1>1, <1>3, <2>1
    <2>3. ASSUME NEW x \in ToSet(t)
          PROVE  x \in ToSet(s \o t)
      <3>1. PICK k \in 1 .. Len(t) : t[k] = x
        BY <2>1
      <3>2. /\ Len(s) + k \in Len(s) + 1 .. Len(s) + Len(t)
            /\ Len(s) + k \in 1 .. Len(s) + Len(t)
            /\ (Len(s) + k) - Len(s) = k
        BY <1>1
      <3>3. (s \o t)[Len(s) + k] = t[k]
        BY <1>4, <3>2
      <3> QED
        BY <2>1, <3>1, <3>2, <3>3
    <2>4. ASSUME NEW x \in ToSet(s \o t)
          PROVE  x \in ToSet(s) \cup ToSet(t)
      <3>1. PICK k \in 1 .. Len(s) + Len(t) : (s \o t)[k] = x
        BY <2>1
      <3>2. CASE k <= Len(s)
        BY <1>1, <1>3, <2>1, <3>1, <3>2
      <3>3. CASE k > Len(s)
        BY <1>1, <1>4, <2>1, <3>1, <3>3
      <3> QED
        BY <1>1, <3>2, <3>3
    <2> QED
      BY <2>2, <2>3, <2>4
  <1>6. ASSUME t # << >>
        PROVE  Last(s \o t) = Last(t) /\ Len(t) >= 1
    <2>1. Len(t) >= 1
      BY <1>6, EmptyOrNot
    <2>2. Len(s) + Len(t) \in Len(s) + 1 .. Len(s) + Len(t)
      BY <1>1, <2>1
    <2>3. (Len(s) + Len(t)) - Len(s) = Len(t)
      BY <1>1
    <2> QED
      BY <1>1, <1>4, <2>1, <2>2, <2>3 DEF Last
  <1>7. t = << >> => s \o t = s
    BY ConcatEmptySeq
  <1> QED
    BY <1>1, <1>3, <1>4, <1>5, <1>6, <1>7

\* What the entity told the state machine before stays told, and what it
\* adds is newer, than all before and than what it was added with.
HandsOver ==
    /\ IsPrefix(fired, fired')
    /\ ~ FirstReadEmpty =>
          \A k \in Len(fired) + 1 .. Len(fired') :
             fired'[k] > watch.from /\ \A i \in 1 .. k - 1 : fired'[i] < fired'[k]

\* Nothing was fired.
LEMMA FiresNothing ==
  ASSUME TypeOK, fired' = fired
  PROVE  HandsOver
  <1>1. Len(fired) \in Nat
    BY Types
  <1> QED
    BY <1>1 DEF HandsOver, IsPrefix

\* The entity's listener runs on what is in hand now.
LEMMA UpdateKeepsInv ==
  ASSUME AlertInv, Live, CoordinatorUpdate(rows'),
         rows' \in Seq(Alerts),
         rows' # << >> => ToSet(rows') = NewestRows(readUpTo'),
         readUpTo' \in 0 .. MaxAlerts, readUpTo <= readUpTo'
  PROVE  /\ \E r \in 0 .. readUpTo' : TookIn(r, seenIds', rows', readUpTo', fired', watch')
         /\ FiredInOrder'
         /\ seenIds' \in Seq(Alerts) /\ Len(seenIds') <= MaxRemembered
         /\ fired' \in Seq(Alerts) /\ watch' = watch
         /\ HandsOver
  <1> DEFINE fresh == UnseenRows(rows')
             top == readUpTo'
  <1>1. /\ TypeOK /\ FiredInOrder
        /\ fired' = fired \o fresh /\ seenIds' = RememberRows(seenIds, fresh) /\ watch' = watch
        /\ fresh = OldestFirst(ToSet(rows') \ ToSet(seenIds))
    BY DEF AlertInv, CoordinatorUpdate, UnseenRows
  <1> HIDE DEF fresh
  <1>2. PICK r \in 0 .. readUpTo : TookIn(r, seenIds, rows, readUpTo, fired, watch)
    BY DEF AlertInv, EntityUpToDate
  <1>3. readUpTo \in Nat /\ r \in Nat /\ r <= readUpTo /\ top \in Nat /\ r <= top
    BY <1>1, Types
  <1>4. CASE rows' = << >>
    <2>1. ToSet(rows') \ ToSet(seenIds) = {}
      BY <1>4, EmptyOrNot
    <2>2. fresh = << >> /\ seenIds' = seenIds
      BY <1>1, <2>1, NothingNew
    <2>3. fired' = fired
      BY <1>1, <2>2, ConcatEmptySeq, Types
    <2>4. TookIn(r, seenIds', rows', readUpTo', fired', watch')
      BY <1>1, <1>2, <1>4, <2>2, <2>3 DEF TookIn
    <2>5. FiredInOrder'
      <3>1. ToSet(fired') \subseteq 1 .. readUpTo'
        <4>1. ToSet(fired) \subseteq 1 .. readUpTo
          BY <1>1 DEF FiredInOrder
        <4>2. 1 .. readUpTo \subseteq 1 .. readUpTo'
          BY <1>3
        <4> QED
          BY <2>3, <4>1, <4>2
      <3>2. /\ ~ FirstReadEmpty => Ascending(fired')
            /\ OwnInOrder(fired', watch')
        BY <1>1, <2>3 DEF FiredInOrder
      <3> QED
        BY <3>1, <3>2 DEF FiredInOrder
    <2> QED
      <3>1. /\ seenIds' \in Seq(Alerts) /\ Len(seenIds') <= MaxRemembered
            /\ fired' \in Seq(Alerts) /\ HandsOver
        BY <1>1, <2>2, <2>3, Types, FiresNothing
      <3>2. r \in 0 .. readUpTo'
        BY <1>3
      <3> QED
        BY <1>1, <2>4, <2>5, <3>1, <3>2
  <1>5. CASE rows' # << >>
    <2>1. top \in 1 .. MaxAlerts
      BY <1>3, <1>5, EmptyOrNot, NewestOnPage
    <2>2. /\ MemoryOK(seenIds) /\ ToSet(seenIds) \subseteq 1 .. r
          /\ NewestRows(r) \subseteq ToSet(seenIds)
          /\ fresh = OldestFirst(NewestRows(top) \ ToSet(seenIds))
      BY <1>1, <1>2, <1>5 DEF TookIn
    <2>3. /\ fresh \in Seq(Alerts) /\ Ascending(fresh)
          /\ \A k \in 1 .. Len(fresh) : fresh[k] > r /\ fresh[k] <= top
          /\ fresh # << >> => Last(fresh) = top
          /\ fresh = << >> => r = top
          /\ MemoryOK(seenIds')
          /\ ToSet(seenIds') \subseteq ToSet(seenIds) \cup ToSet(fresh)
          /\ ToSet(seenIds') \subseteq 1 .. top
          /\ NewestRows(top) \subseteq ToSet(seenIds')
      <3>1. BringsUpTo(top, r, seenIds, fresh)
        <4> HIDE DEF top
        <4> QED
          BY <1>3, <2>1, <2>2, PageBringsLater
      <3> QED
        BY <1>1, <3>1 DEF BringsUpTo
    <2>4. /\ fired \in Seq(Alerts) /\ Len(fired) \in Nat
          /\ watch.from \in Nat /\ watch.fired \in Nat
      BY <1>1, Types
    <2>5. /\ fired' \in Seq(Alerts)
          /\ Len(fresh) \in Nat /\ Len(fired') = Len(fired) + Len(fresh)
          /\ \A k \in 1 .. Len(fired) : fired'[k] = fired[k]
          /\ \A k \in Len(fired) + 1 .. Len(fired) + Len(fresh) :
                k - Len(fired) \in 1 .. Len(fresh) /\ fired'[k] = fresh[k - Len(fired)]
          /\ ToSet(fired') = ToSet(fired) \cup ToSet(fresh)
          /\ fresh # << >> => Last(fired') = Last(fresh) /\ Len(fresh) >= 1
          /\ fresh = << >> => fired' = fired
      <3>1. fired' = fired \o fresh
        BY <1>1
      <3>2. fired \in Seq(Alerts) /\ fresh \in Seq(Alerts)
        BY <2>3, <2>4
      <3> HIDE DEF top
      <3> QED
        BY <3>1, <3>2, OneAfterAnother
    <2>15. \A k \in 1 .. Len(fresh) : fresh[k] \in Nat
      <3>1. \A k \in 1 .. Len(fresh) : fresh[k] \in Alerts
        BY <2>3, ElementOfSeq
      <3> QED
        BY <3>1, Bounds DEF Alerts
    <2>6. ToSet(fresh) \subseteq 1 .. top
      <3>1. \A x \in ToSet(fresh) : \E k \in 1 .. Len(fresh) : fresh[k] = x
        BY <2>3, InSequence
      <3> QED
        BY <1>3, <2>3, <2>15, <3>1
    <2>7. ToSet(fired') \subseteq 1 .. top
      <3>1. ToSet(fired) \subseteq 1 .. top
        BY <1>1, <1>3 DEF FiredInOrder
      <3> QED
        BY <2>5, <2>6, <3>1
    <2>8. TookIn(top, seenIds', rows', readUpTo', fired', watch')
      <3>1. \A i \in ToSet(seenIds') : i > watch.from => i \in ToSet(fired')
        BY <1>2, <2>3, <2>5 DEF TookIn
      <3>2. watch.fired <= Len(fired')
        BY <1>2, <2>4, <2>5 DEF TookIn
      <3>3. Len(fired') > watch.fired => Last(fired') = top
        <4>1. CASE fresh = << >>
          BY <1>2, <2>3, <2>5, <4>1 DEF TookIn
        <4>2. CASE fresh # << >>
          BY <2>3, <2>5, <4>2
        <4> QED
          BY <4>1, <4>2
      <3>4. ~ FirstReadEmpty => watch.from <= top
        BY <1>2, <1>3, <2>4 DEF TookIn
      <3> QED
        BY <1>1, <2>3, <2>7, <3>1, <3>2, <3>3, <3>4 DEF TookIn
    <2>9. ASSUME ~ FirstReadEmpty,
                 NEW k \in Len(fired) + 1 .. Len(fired')
          PROVE  fired'[k] > watch.from /\ \A i \in 1 .. k - 1 : fired'[i] < fired'[k]
      <3>1. /\ k \in Nat /\ k - Len(fired) \in 1 .. Len(fresh)
            /\ fired'[k] = fresh[k - Len(fired)]
        BY <2>4, <2>5, <2>9
      <3>2. fired'[k] > r /\ fired'[k] \in Nat
        BY <2>3, <2>15, <3>1
      <3>3. watch.from <= r /\ ToSet(fired) \subseteq 1 .. r
        BY <1>2, <2>9 DEF TookIn
      <3>4. fired'[k] > watch.from
        BY <1>3, <2>4, <3>2, <3>3
      <3>5. ASSUME NEW i \in 1 .. k - 1
            PROVE  fired'[i] < fired'[k]
        <4>1. CASE i <= Len(fired)
          <5>1. i \in 1 .. Len(fired)
            BY <2>4, <3>1, <4>1
          <5>2. fired[i] \in ToSet(fired) /\ fired'[i] = fired[i]
            BY <2>4, <2>5, <5>1, InSequence
          <5>3. fired'[i] \in Nat /\ fired'[i] <= r
            BY <1>3, <3>3, <5>2
          <5> QED
            BY <1>3, <3>2, <5>3
        <4>2. CASE i > Len(fired)
          <5>1. i \in Len(fired) + 1 .. Len(fired) + Len(fresh) /\ i - Len(fired) < k - Len(fired)
            BY <2>4, <2>5, <3>1, <4>2
          <5>2. fired'[i] = fresh[i - Len(fired)] /\ i - Len(fired) \in 1 .. Len(fresh)
            BY <2>5, <5>1
          <5>3. DOMAIN fresh = 1 .. Len(fresh)
            BY <2>3, LenProperties
          <5> QED
            BY <2>3, <3>1, <5>1, <5>2, <5>3 DEF Ascending
        <4> QED
          BY <2>4, <3>1, <4>1, <4>2
      <3> QED
        BY <3>4, <3>5
    <2>10. IsPrefix(fired, fired')
      <3>1. Len(fired) <= Len(fired')
        BY <2>4, <2>5
      <3>2. SubSeq(fired, 1, Len(fired)) = SubSeq(fired', 1, Len(fired))
        BY <1>1, <2>3, <2>4, SubSeqOfConcat1, SubSeqFull
      <3> QED
        BY <3>1, <3>2 DEF IsPrefix
    <2>11. HandsOver
      BY <2>9, <2>10 DEF HandsOver
    <2>12. ~ FirstReadEmpty => Ascending(fired')
      <3> SUFFICES ASSUME ~ FirstReadEmpty,
                          NEW i \in 1 .. Len(fired'), NEW j \in 1 .. Len(fired'), i < j
                   PROVE  fired'[i] < fired'[j]
        <4>1. DOMAIN fired' = 1 .. Len(fired')
          BY <2>5, LenProperties
        <4> QED
          BY <4>1 DEF Ascending
      <3>1. CASE j <= Len(fired)
        <4>1. i \in 1 .. Len(fired) /\ j \in 1 .. Len(fired)
          BY <2>4, <2>5, <3>1
        <4>2. DOMAIN fired = 1 .. Len(fired) /\ Ascending(fired)
          BY <1>1, <2>4, LenProperties DEF FiredInOrder
        <4> QED
          BY <2>5, <4>1, <4>2 DEF Ascending
      <3>2. CASE j > Len(fired)
        <4>1. j \in Len(fired) + 1 .. Len(fired') /\ i \in 1 .. j - 1
          BY <2>4, <2>5, <3>2
        <4> QED
          BY <2>9, <4>1
      <3> QED
        BY <2>4, <2>5, <3>1, <3>2
    <2>16. OwnInOrder(fired', watch')
      <3>1. OwnInOrder(fired, watch) /\ (Len(fired) > watch.fired => Last(fired) = r)
        BY <1>1, <1>2 DEF FiredInOrder, TookIn
      <3>2. ASSUME NEW k \in watch.fired + 1 .. Len(fired)
            PROVE  fired[k] \in Nat /\ fired[k] <= r
        <4>1. k \in 1 .. Len(fired) /\ Len(fired) > watch.fired /\ fired # << >>
          BY <2>4, EmptyOrNot
        <4>2. fired[Len(fired)] = r
          BY <3>1, <4>1 DEF Last
        <4>3. k = Len(fired) \/ fired[k] < fired[Len(fired)]
          BY <2>4, <3>1, <4>1 DEF OwnInOrder
        <4>4. fired[k] \in Nat
          <5>1. fired[k] \in Alerts
            BY <2>4, <4>1, ElementOfSeq
          <5> QED
            BY <5>1, Bounds DEF Alerts
        <4> QED
          BY <1>3, <4>2, <4>3, <4>4
      <3> SUFFICES ASSUME NEW i \in watch.fired + 1 .. Len(fired'),
                          NEW j \in watch.fired + 1 .. Len(fired'), i < j
                   PROVE  fired'[i] < fired'[j]
        BY <1>1 DEF OwnInOrder
      <3>3. CASE j <= Len(fired)
        <4>1. /\ i \in watch.fired + 1 .. Len(fired) /\ j \in watch.fired + 1 .. Len(fired)
              /\ i \in 1 .. Len(fired) /\ j \in 1 .. Len(fired)
          BY <2>4, <2>5, <3>3
        <4> QED
          BY <2>5, <3>1, <4>1 DEF OwnInOrder
      <3>4. CASE j > Len(fired)
        <4>1. /\ j - Len(fired) \in 1 .. Len(fresh)
              /\ fired'[j] = fresh[j - Len(fired)]
          BY <2>4, <2>5, <3>4
        <4>2. fired'[j] \in Nat /\ fired'[j] > r
          BY <2>3, <2>15, <4>1
        <4>3. CASE i <= Len(fired)
          <5>1. i \in watch.fired + 1 .. Len(fired) /\ i \in 1 .. Len(fired)
            BY <2>4, <2>5, <4>3
          <5>2. fired'[i] = fired[i]
            BY <2>5, <5>1
          <5>3. fired'[i] \in Nat /\ fired'[i] <= r
            BY <3>2, <5>1, <5>2
          <5> QED
            BY <1>3, <4>2, <5>3
        <4>4. CASE i > Len(fired)
          <5>1. /\ i - Len(fired) \in 1 .. Len(fresh) /\ i - Len(fired) < j - Len(fired)
                /\ fired'[i] = fresh[i - Len(fired)]
            BY <2>4, <2>5, <4>4
          <5>2. DOMAIN fresh = 1 .. Len(fresh)
            BY <2>3, LenProperties
          <5> QED
            BY <2>3, <4>1, <5>1, <5>2 DEF Ascending
        <4> QED
          BY <2>4, <4>3, <4>4
      <3> QED
        BY <2>4, <2>5, <3>3, <3>4
    <2>13. FiredInOrder'
      BY <2>7, <2>12, <2>16 DEF FiredInOrder
    <2>14. top \in 0 .. readUpTo' /\ Len(seenIds') <= MaxRemembered /\ seenIds' \in Seq(Alerts)
      BY <1>3, <2>3 DEF MemoryOK
    <2> QED
      BY <1>1, <2>5, <2>8, <2>11, <2>13, <2>14
  <1> QED
    BY <1>4, <1>5

\* What every step does to the entity.
KeepsUp ==
    /\ EntityUpToDate'
    /\ FiredInOrder'
    /\ seenIds' \in Seq(Alerts) /\ Len(seenIds') <= MaxRemembered
    /\ fired' \in Seq(Alerts)
    /\ watch' \in [from : 0 .. MaxAlerts, fired : Nat]
    /\ HandsOver

\* The entity is added, with the page in hand.
LEMMA AddKeepsInv ==
  ASSUME AlertInv, AddEntity(rows'),
         rows' \in Seq(Alerts), Len(rows') <= Page, IsInjective(rows'),
         rows' # << >> \/ ~ FirstReadEmpty => ToSet(rows') = NewestRows(readUpTo'),
         readUpTo' \in 0 .. MaxAlerts, readUpTo <= readUpTo'
  PROVE  KeepsUp
  <1> DEFINE top == readUpTo'
             r == IF rows' = << >> THEN 0 ELSE top
  <1>1. /\ TypeOK /\ FiredInOrder
        /\ watch' = [from |-> top, fired |-> Len(fired)]
        /\ seenIds' = RememberRows(<< >>, rows') /\ fired' = fired
    BY DEF AlertInv, AddEntity
  <1>2. /\ readUpTo \in Nat /\ top \in Nat /\ r \in 0 .. top
        /\ fired \in Seq(Alerts) /\ Len(fired) \in Nat
    BY <1>1, Types
  <1>3. MemoryOK(seenIds') /\ ToSet(seenIds') = ToSet(rows')
    BY <1>1, RememberFirstPage
  <1>4. ToSet(rows') = NewestRows(r)
    <2>1. CASE rows' = << >>
      BY <2>1, EmptyOrNot, NewestOnPage
    <2>2. CASE rows' # << >>
      BY <2>2
    <2> QED
      BY <2>1, <2>2
  <1>5. NewestRows(r) \subseteq 1 .. r
    BY DEF NewestRows
  <1>6. ~ FirstReadEmpty => top = r
    <2>1. CASE rows' = << >> /\ ~ FirstReadEmpty
      <3>1. NewestRows(top) = {}
        BY <2>1, EmptyOrNot
      <3>2. ~ (top >= 1)
        BY <1>2, <3>1, NewestOnPage
      <3> QED
        BY <1>2, <2>1, <3>2
    <2> QED
      BY <2>1
  <1>7. ToSet(fired') \subseteq 1 .. top
    <2>1. ToSet(fired) \subseteq 1 .. readUpTo
      BY <1>1 DEF FiredInOrder
    <2>2. 1 .. readUpTo \subseteq 1 .. top
      BY <1>2
    <2> QED
      BY <1>1, <2>1, <2>2
  <1>8. watch'.from = top /\ watch'.fired = Len(fired')
    BY <1>1
  <1>9. \A i \in ToSet(seenIds') : ~ (i > watch'.from)
    BY <1>2, <1>3, <1>4, <1>5, <1>8
  <1>10. TookIn(r, seenIds', rows', readUpTo', fired', watch')
    <2>1. rows' # << >> => r = top
      OBVIOUS
    <2>2. ~ FirstReadEmpty => watch'.from <= r /\ ToSet(fired') \subseteq 1 .. r
      BY <1>2, <1>6, <1>7, <1>8
    <2>3. watch'.fired <= Len(fired') /\ ~ (Len(fired') > watch'.fired)
      BY <1>1, <1>2, <1>8
    <2> HIDE DEF r
    <2> QED
      BY <1>3, <1>4, <1>5, <1>9, <2>1, <2>2, <2>3 DEF TookIn
  <1>11. FiredInOrder'
    <2>1. watch'.fired + 1 .. Len(fired') = {}
      BY <1>1, <1>2
    <2> QED
      BY <1>1, <1>7, <2>1 DEF FiredInOrder, OwnInOrder
  <1>12. watch' \in [from : 0 .. MaxAlerts, fired : Nat]
    BY <1>1, <1>2
  <1> HIDE DEF r
  <1>13. EntityUpToDate'
    BY <1>2, <1>10 DEF EntityUpToDate
  <1>14. seenIds' \in Seq(Alerts) /\ Len(seenIds') <= MaxRemembered
    BY <1>3 DEF MemoryOK
  <1> QED
    BY <1>1, <1>2, <1>11, <1>12, <1>13, <1>14, FiresNothing DEF KeepsUp

\* Nothing happens to the entity: it is not there, or was woken for nothing.
LEMMA IdleKeepsInv ==
  ASSUME AlertInv, seenIds' = seenIds, fired' = fired, watch' = watch,
         readUpTo' \in 0 .. MaxAlerts, readUpTo <= readUpTo',
         Live' => Live /\ rows' = rows /\ readUpTo' = readUpTo
  PROVE  KeepsUp
  <1>1. TypeOK /\ FiredInOrder /\ EntityUpToDate
    BY DEF AlertInv
  <1>2. readUpTo \in Nat /\ readUpTo' \in Nat
    BY <1>1, Types
  <1>3. FiredInOrder'
    <2>1. ToSet(fired) \subseteq 1 .. readUpTo
      BY <1>1 DEF FiredInOrder
    <2>2. 1 .. readUpTo \subseteq 1 .. readUpTo'
      BY <1>2
    <2>3. ToSet(fired') \subseteq 1 .. readUpTo'
      BY <2>1, <2>2
    <2>4. /\ ~ FirstReadEmpty => Ascending(fired')
          /\ Live' => OwnInOrder(fired', watch')
      BY <1>1 DEF FiredInOrder
    <2> QED
      BY <2>3, <2>4 DEF FiredInOrder
  <1>4. EntityUpToDate'
    BY <1>1 DEF EntityUpToDate
  <1> QED
    BY <1>1, <1>3, <1>4, Types, FiresNothing DEF KeepsUp

\* The step of a coordinator that has a new page, or has none.
LEMMA EntityStepKeepsInv ==
  ASSUME AlertInv, EntityStep(rows'), Live => Live',
         rows' \in Seq(Alerts), Len(rows') <= Page, IsInjective(rows'),
         rows' # << >> => ToSet(rows') = NewestRows(readUpTo'),
         ~ Live /\ Live' /\ ~ FirstReadEmpty => ToSet(rows') = NewestRows(readUpTo'),
         readUpTo' \in 0 .. MaxAlerts, readUpTo <= readUpTo'
  PROVE  KeepsUp
  <1>1. CASE Live
    <2>1. CoordinatorUpdate(rows')
      BY <1>1 DEF EntityStep
    <2>2. /\ \E r \in 0 .. readUpTo' : TookIn(r, seenIds', rows', readUpTo', fired', watch')
          /\ FiredInOrder'
          /\ seenIds' \in Seq(Alerts) /\ Len(seenIds') <= MaxRemembered
          /\ fired' \in Seq(Alerts) /\ watch' = watch
          /\ HandsOver
      BY <1>1, <2>1, UpdateKeepsInv
    <2>3. watch' \in [from : 0 .. MaxAlerts, fired : Nat]
      BY <2>2, Types DEF AlertInv
    <2> QED
      BY <2>2, <2>3 DEF KeepsUp, EntityUpToDate
  <1>2. CASE ~ Live /\ Live'
    <2>1. AddEntity(rows')
      BY <1>2 DEF EntityStep
    <2> QED
      BY <1>2, <2>1, AddKeepsInv
  <1>3. CASE ~ Live /\ ~ Live'
    <2>1. seenIds' = seenIds /\ fired' = fired /\ watch' = watch
      BY <1>3 DEF EntityStep
    <2> QED
      BY <1>3, <2>1, IdleKeepsInv
  <1> QED
    BY <1>1, <1>2, <1>3

\* The entity stays, and comes only with a bowl that is listed.
LEMMA LiveWhenListed ==
  ASSUME BowlInv, NEW ps \in SUBSET Platforms, NEW listed \in SUBSET Bowls,
         AddNewBowls(ps, listed)
  PROVE  /\ Live => Live'
         /\ ~ Live /\ Live' => Watched \in listed
  <1>1. entities'[Event][Watched] =
           IF Event \in ps /\ Watched \in listed \ added[Event]
           THEN entities[Event][Watched] + 1 ELSE entities[Event][Watched]
    BY Bounds DEF AddNewBowls, NewBowls
  <1>2. entities[Event][Watched] \in Nat
    BY Bounds DEF BowlInv, BowlTypeOK
  <1> QED
    BY <1>1, <1>2 DEF Live

----------------------------------------------------------------------------
(* Every step keeps the invariant.                                         *)

\* The parts together.
LEMMA InvAfterStep ==
  ASSUME AlertInv, [BowlNext]_bowlVars, KeepsUp, PageInHand',
         raised' \in 0 .. MaxAlerts, readUpTo' \in 0 .. MaxAlerts,
         rows' \in Seq(Alerts), Len(rows') <= Page
  PROVE  AlertInv' /\ HandsOver
  <1>1. BowlInv'
    BY BowlAssumption, BowlInvInductive DEF AlertInv
  <1>2. TypeOK'
    BY <1>1 DEF KeepsUp, TypeOK, BowlInv
  <1> QED
    BY <1>1, <1>2 DEF AlertInv, KeepsUp

\* Initially there is nothing.
LEMMA InitEstablishesAlertInv == Init => AlertInv
  <1> SUFFICES ASSUME Init
               PROVE  AlertInv
    OBVIOUS
  <1>1. BowlInv
    BY BowlAssumption, InitEstablishesBowlInv DEF Init
  <1>2. /\ raised = 0 /\ readUpTo = 0 /\ 0 \in 0 .. MaxAlerts
        /\ rows = << >> /\ seenIds = << >> /\ fired = << >>
        /\ watch = [from |-> 0, fired |-> 0]
    BY Bounds DEF Init
  <1>3. << >> \in Seq(Alerts) /\ Len(<< >>) = 0 /\ ToSet(<< >>) = {}
    BY EmptySeq, EmptyOrNot
  <1>4. TypeOK
    BY <1>1, <1>2, <1>3, Bounds DEF TypeOK, BowlInv
  <1>5. ~ Live
    BY Bounds DEF Init, BowlInit, NoEntities, Live
  <1>6. PageInHand
    <2>1. NewestRows(0) = {}
      BY NewestOnPage
    <2>2. IsInjective(<< >>)
      BY DEF IsInjective
    <2>3. ToSet(rows) = NewestRows(readUpTo) /\ IsInjective(rows)
      BY <1>2, <1>3, <2>1, <2>2
    <2>4. readUpTo <= raised
      BY <1>2
    <2> QED
      BY <2>3, <2>4 DEF PageInHand
  <1>7. FiredInOrder
    BY <1>2, <1>3, <1>5 DEF FiredInOrder, Ascending
  <1> QED
    BY <1>1, <1>4, <1>5, <1>6, <1>7 DEF AlertInv, EntityUpToDate

\* The vendor raises an alert.
LEMMA RaiseKeepsInv ==
  ASSUME AlertInv, RaiseAlert
  PROVE  AlertInv' /\ HandsOver
  <1>1. /\ TypeOK /\ PageInHand /\ bowlVars' = bowlVars
        /\ raised' = raised + 1 /\ raised < MaxAlerts
        /\ rows' = rows /\ readUpTo' = readUpTo
        /\ seenIds' = seenIds /\ fired' = fired /\ watch' = watch
        /\ Live' = Live /\ data' = data
    BY DEF AlertInv, RaiseAlert, bowlVars, Live
  <1>2. /\ raised \in Nat /\ readUpTo \in 0 .. MaxAlerts /\ readUpTo <= raised
        /\ rows \in Seq(Alerts) /\ Len(rows) <= Page
    BY <1>1, Types DEF PageInHand
  <1>3. raised' \in 0 .. MaxAlerts /\ readUpTo' \in 0 .. MaxAlerts /\ readUpTo' <= raised'
    BY <1>1, <1>2, Bounds
  <1>4. KeepsUp
    BY <1>1, <1>2, <1>3, IdleKeepsInv
  <1>5. PageInHand'
    BY <1>1, <1>3 DEF PageInHand
  <1> QED
    BY <1>1, <1>2, <1>3, <1>4, <1>5, InvAfterStep

\* A poll reads the bowls and a page of the log, or none.
LEMMA PollKeepsInv ==
  ASSUME AlertInv, Poll
  PROVE  AlertInv' /\ HandsOver
  <1>1. /\ TypeOK /\ BowlInv /\ PageInHand
        /\ raised' = raised /\ readUpTo' = raised /\ EntityStep(rows')
    BY DEF AlertInv, Poll
  <1>2. PICK listed \in SUBSET Bowls :
          /\ PublishBowls(listed)
          /\ IF Watched \in listed
             THEN \/ rows' \in Pages
                  \/ rows' = << >> /\ (Live \/ FirstReadEmpty)
             ELSE rows' = << >>
    BY DEF Poll
  <1>3. /\ data' = listed
        /\ Live => Live'
        /\ ~ Live /\ Live' => Watched \in listed
    <2>1. data' = listed /\ AddNewBowls(ready, listed) /\ ready \in SUBSET Platforms
      BY <1>1, <1>2 DEF PublishBowls, BowlInv, BowlTypeOK
    <2> QED
      BY <1>1, <2>1, LiveWhenListed
  <1>4. raised \in 0 .. MaxAlerts /\ readUpTo <= readUpTo' /\ readUpTo' \in 0 .. MaxAlerts
    BY <1>1, Types DEF PageInHand
  <1>5. rows' \in Pages => /\ rows' \in Seq(Alerts) /\ Len(rows') <= Page
                           /\ IsInjective(rows') /\ ToSet(rows') = NewestRows(readUpTo')
    BY <1>1, <1>4, PageOfLog DEF Pages, NewestRows
  <1>6. /\ rows' \in Seq(Alerts) /\ Len(rows') <= Page /\ IsInjective(rows')
        /\ rows' # << >> => ToSet(rows') = NewestRows(readUpTo')
    <2>1. /\ << >> \in Seq(Alerts) /\ Len(<< >>) <= Page /\ IsInjective(<< >>)
      BY EmptySeq, Bounds DEF IsInjective
    <2> QED
      BY <1>2, <1>5, <2>1
  <1>7. ~ Live /\ ~ FirstReadEmpty /\ Watched \in listed => ToSet(rows') = NewestRows(readUpTo')
    BY <1>2, <1>5
  <1>8. KeepsUp
    BY <1>1, <1>3, <1>4, <1>6, <1>7, EntityStepKeepsInv
  <1>9. PageInHand'
    BY <1>1, <1>3, <1>4, <1>6, <1>7 DEF PageInHand
  <1>10. [BowlNext]_bowlVars
    BY <1>2 DEF BowlNext
  <1> QED
    BY <1>1, <1>4, <1>6, <1>8, <1>9, <1>10, InvAfterStep

\* A platform is set up between two polls.
LEMMA PlatformKeepsInv ==
  ASSUME AlertInv, PlatformAdded
  PROVE  AlertInv' /\ HandsOver
  <1>1. /\ TypeOK /\ BowlInv /\ PageInHand
        /\ raised' = raised /\ rows' = rows /\ readUpTo' = readUpTo
    BY DEF AlertInv, PlatformAdded
  <1>2. PICK p \in Platforms : SetUpPlatform(p)
    BY DEF PlatformAdded
  <1>3. /\ data' = data
        /\ Live => Live'
        /\ ~ Live /\ Live' => Watched \in data
    <2>1. /\ data' = data /\ AddNewBowls({p}, data)
          /\ {p} \in SUBSET Platforms /\ data \in SUBSET Bowls
      BY <1>1, <1>2 DEF SetUpPlatform, BowlInv, BowlTypeOK
    <2> QED
      BY <1>1, <2>1, LiveWhenListed
  <1>4. /\ raised \in 0 .. MaxAlerts /\ readUpTo <= readUpTo' /\ readUpTo' \in 0 .. MaxAlerts
        /\ rows' \in Seq(Alerts) /\ Len(rows') <= Page /\ IsInjective(rows')
    BY <1>1, Types DEF PageInHand
  <1>5. CASE ~ Live /\ Live'
    <2>1. AddEntity(rows')
      BY <1>1, <1>5 DEF PlatformAdded
    <2>2. rows' # << >> \/ ~ FirstReadEmpty => ToSet(rows') = NewestRows(readUpTo')
      BY <1>1, <1>3, <1>5 DEF PageInHand
    <2> QED
      BY <1>1, <1>2, <1>4, <2>1, <2>2, AddKeepsInv, InvAfterStep DEF BowlNext, PageInHand
  <1>6. CASE ~ (~ Live /\ Live')
    <2>1. seenIds' = seenIds /\ fired' = fired /\ watch' = watch
      BY <1>6 DEF PlatformAdded
    <2>2. KeepsUp
      BY <1>1, <1>4, <1>6, <2>1, IdleKeepsInv
    <2>3. PageInHand'
      BY <1>1, <1>3 DEF PageInHand
    <2> QED
      BY <1>1, <1>2, <1>4, <2>2, <2>3, InvAfterStep DEF BowlNext
  <1> QED
    BY <1>5, <1>6

\* The listeners are woken with the rows in hand.
LEMMA WriteKeepsInv ==
  ASSUME AlertInv, WriteHappened
  PROVE  AlertInv' /\ HandsOver
  <1>1. /\ TypeOK /\ PageInHand /\ Live /\ CoordinatorUpdate(rows')
        /\ bowlVars' = bowlVars
        /\ raised' = raised /\ rows' = rows /\ readUpTo' = readUpTo
        /\ Live' = Live /\ data' = data
    BY DEF AlertInv, WriteHappened, bowlVars, Live
  <1>2. /\ raised' \in 0 .. MaxAlerts /\ readUpTo <= readUpTo' /\ readUpTo' \in 0 .. MaxAlerts
        /\ rows' \in Seq(Alerts) /\ Len(rows') <= Page /\ IsInjective(rows')
        /\ rows' # << >> => ToSet(rows') = NewestRows(readUpTo')
    BY <1>1, Types DEF PageInHand
  <1>3. EntityStep(rows')
    BY <1>1 DEF EntityStep
  <1>4. KeepsUp
    BY <1>1, <1>2, <1>3, EntityStepKeepsInv
  <1>5. PageInHand'
    BY <1>1 DEF PageInHand
  <1> QED
    BY <1>1, <1>2, <1>4, <1>5, InvAfterStep

\* Home Assistant restarts, or reloads the entry.
LEMMA RestartKeepsInv ==
  ASSUME AlertInv, Restart
  PROVE  AlertInv' /\ HandsOver
  <1>1. /\ TypeOK /\ PageInHand /\ FiredInOrder /\ ReloadEntry
        /\ raised' = raised /\ rows' = << >> /\ readUpTo' = readUpTo
        /\ seenIds' = << >> /\ fired' = fired /\ watch' = watch
    BY DEF AlertInv, Restart
  <1>2. ~ Live' /\ data' = {}
    BY <1>1, Bounds DEF ReloadEntry, NoEntities, Live
  <1>3. << >> \in Seq(Alerts) /\ Len(<< >>) = 0
    BY EmptySeq
  <1>4. KeepsUp
    <2>1. EntityUpToDate'
      BY <1>2 DEF EntityUpToDate
    <2>2. FiredInOrder'
      BY <1>1, <1>2 DEF FiredInOrder
    <2>3. seenIds' \in Seq(Alerts) /\ Len(seenIds') <= MaxRemembered
      BY <1>1, <1>3, Bounds
    <2>4. /\ fired' \in Seq(Alerts)
          /\ watch' \in [from : 0 .. MaxAlerts, fired : Nat]
      BY <1>1, Types
    <2>5. HandsOver
      BY <1>1, FiresNothing
    <2> QED
      BY <2>1, <2>2, <2>3, <2>4, <2>5 DEF KeepsUp
  <1>5. PageInHand'
    BY <1>1, <1>2 DEF PageInHand, IsInjective
  <1>6. /\ raised' \in 0 .. MaxAlerts /\ readUpTo' \in 0 .. MaxAlerts
        /\ rows' \in Seq(Alerts) /\ Len(rows') <= Page
    BY <1>1, <1>3, Types, Bounds
  <1>7. [BowlNext]_bowlVars
    BY <1>1 DEF BowlNext
  <1> QED
    BY <1>4, <1>5, <1>6, <1>7, InvAfterStep

\* Every step, stuttering included.
LEMMA AlertInvInductive ==
  ASSUME AlertInv, [Next]_vars
  PROVE  AlertInv' /\ HandsOver
  <1>1. CASE UNCHANGED vars
    <2>1. bowlVars' = bowlVars /\ alertVars' = alertVars
      BY <1>1 DEF vars
    <2>2. AlertInv'
      BY <2>1 DEF bowlVars, alertVars, AlertInv, TypeOK, BowlInv, BowlTypeOK,
         AddedIsWhatWasAdded, ReadyIsUpToDate, WarnsByCount, PageInHand, FiredInOrder,
         EntityUpToDate, Live
    <2> QED
      BY <2>1, <2>2, FiresNothing DEF alertVars, AlertInv
  <1> QED
    BY <1>1, RaiseKeepsInv, PollKeepsInv, PlatformKeepsInv, WriteKeepsInv, RestartKeepsInv
       DEF Next

LEMMA AlertInvHolds == Spec => []AlertInv
  <1>1. AlertInv /\ [Next]_vars => AlertInv'
    BY AlertInvInductive
  <1> QED
    BY <1>1, InitEstablishesAlertInv, PTL DEF Spec

----------------------------------------------------------------------------
(* What follows.                                                           *)

\* Every variable keeps its type: the memory stays within its bound, and so
\* does the page in hand.
THEOREM AlertTypes == Spec => []TypeOK
  <1>1. AlertInv => TypeOK
    BY DEF AlertInv
  <1> QED
    BY <1>1, AlertInvHolds, PTL

\* No alert is fired twice, for every memory of at least two pages, if no
\* first read is empty.
THEOREM AlertsFireOnce ==
  ASSUME ~ FirstReadEmpty
  PROVE  Spec => []FiredOnce
  <1>1. AlertInv => FiredOnce
    <2> SUFFICES ASSUME AlertInv,
                        NEW i \in DOMAIN fired, NEW j \in DOMAIN fired, fired[i] = fired[j]
                 PROVE  i = j
      BY DEF FiredOnce, IsInjective
    <2>1. fired \in Seq(Alerts) /\ Ascending(fired)
      BY Types DEF AlertInv, FiredInOrder
    <2>2. i \in Nat /\ j \in Nat /\ fired[i] \in Nat
      <3>1. i \in 1 .. Len(fired) /\ j \in 1 .. Len(fired)
        BY <2>1, LenProperties
      <3>2. fired[i] \in Alerts
        BY <2>1, <3>1, ElementOfSeq
      <3> QED
        BY <3>1, <3>2, Bounds DEF Alerts
    <2>3. ~ (i < j) /\ ~ (j < i)
      BY <2>1, <2>2 DEF Ascending
    <2> QED
      BY <2>2, <2>3
  <1> QED
    BY <1>1, AlertInvHolds, PTL

\* The alerts of the entity that is there, since it was added.
OwnAlerts == {k \in DOMAIN fired : k > watch.fired}

\* Whatever is read, no entity fires an alert twice, or after a newer one: it
\* takes a restart that meets an empty log read to fire one again.
THEOREM EntityFiresOnceInOrder ==
  Spec => [](Live => \A i, j \in OwnAlerts : i < j => fired[i] < fired[j])
  <1>1. AlertInv => (Live => \A i, j \in OwnAlerts : i < j => fired[i] < fired[j])
    <2> SUFFICES ASSUME AlertInv, Live
                 PROVE  \A i, j \in OwnAlerts : i < j => fired[i] < fired[j]
      OBVIOUS
    <2>1. OwnInOrder(fired, watch) /\ watch.fired \in Nat /\ DOMAIN fired = 1 .. Len(fired)
      BY Types, LenProperties DEF AlertInv, FiredInOrder
    <2>2. Len(fired) \in Nat
      BY Types DEF AlertInv
    <2>3. OwnAlerts \subseteq watch.fired + 1 .. Len(fired)
      BY <2>1, <2>2 DEF OwnAlerts
    <2> QED
      BY <2>1, <2>3 DEF OwnInOrder
  <1> QED
    BY <1>1, AlertInvHolds, PTL

\* A restart replays nothing, if no first read is empty.
THEOREM HistoryIsNotReplayed ==
  ASSUME ~ FirstReadEmpty
  PROVE  Spec => NothingReplayed
  <1>1. AlertInv /\ [Next]_vars =>
           [\A k \in Len(fired) + 1 .. Len(fired') : fired'[k] > watch.from]_vars
    BY AlertInvInductive DEF HandsOver
  <1> QED
    BY <1>1, AlertInvHolds, PTL DEF Spec, NothingReplayed

\* Every alert on the page in hand that was raised since the entity was
\* added has been fired, whatever the first read was.
THEOREM NoAlertIsSwallowed == Spec => []NoVisibleAlertSwallowed
  <1>1. AlertInv => NoVisibleAlertSwallowed
    <2> SUFFICES ASSUME AlertInv, Live, NEW i \in ToSet(rows), i > watch.from
                 PROVE  i \in ToSet(fired)
      BY DEF NoVisibleAlertSwallowed
    <2>1. PICK r \in 0 .. readUpTo : TookIn(r, seenIds, rows, readUpTo, fired, watch)
      BY DEF AlertInv, EntityUpToDate
    <2>2. rows # << >>
      BY EmptyOrNot, Types DEF AlertInv
    <2>3. i \in NewestRows(r)
      BY <2>1, <2>2 DEF TookIn, AlertInv, PageInHand
    <2> QED
      BY <2>1, <2>3 DEF TookIn
  <1> QED
    BY <1>1, AlertInvHolds, PTL

\* The alert the entity rests on is the newest row in hand, whatever order
\* the page has, and whatever the first read was.
THEOREM EntityRestsOnNewest == Spec => []RestsOnNewest
  <1>1. AlertInv => RestsOnNewest
    <2> SUFFICES ASSUME AlertInv, Live, rows # << >>, Len(fired) > watch.fired
                 PROVE  Last(fired) = Max(ToSet(rows))
      BY DEF RestsOnNewest
    <2>1. PICK r \in 0 .. readUpTo : TookIn(r, seenIds, rows, readUpTo, fired, watch)
      BY DEF AlertInv, EntityUpToDate
    <2>2. Last(fired) = r /\ r \in Nat /\ ToSet(rows) = NewestRows(r)
      BY <2>1, Types DEF TookIn, AlertInv, PageInHand
    <2>3. r >= 1
      BY <2>2, EmptyOrNot, NewestOnPage, Types DEF AlertInv
    <2> QED
      BY <2>2, <2>3, NewestOnPage
  <1> QED
    BY <1>1, AlertInvHolds, PTL

\* The alert entity leaves the bowls and the platforms to BowlEntities.
THEOREM AlertsKeepBowlSpec == Spec => BowlSpec
  <1>1. Init => BowlInit
    BY DEF Init
  <1>2. [Next]_vars => [BowlNext]_bowlVars
    BY DEF Next, RaiseAlert, Poll, PlatformAdded, WriteHappened, Restart, vars, BowlNext
  <1> QED
    BY <1>1, <1>2, PTL DEF Spec, BowlSpec

\* To its automations the entity is an at-most-once feed in order, if no
\* first read is empty: every step raises an alert, hands a batch over or
\* does nothing to the feed.
THEOREM AlertsAreAFeed ==
  ASSUME ~ FirstReadEmpty
  PROVE  Spec => KeepsFeed
  <1>1. Init => Feed!Init
    BY DEF Init, Feed!Init
  <1>2. AlertInv /\ [Next]_vars => [Feed!Next]_(Feed!feedVars)
    <2> SUFFICES ASSUME AlertInv, [Next]_vars
                 PROVE  Feed!Next \/ UNCHANGED Feed!feedVars
      OBVIOUS
    <2>1. AlertInv' /\ HandsOver
      BY AlertInvInductive
    <2>2. CASE RaiseAlert
      BY <2>2 DEF RaiseAlert, Feed!Next, Feed!Raise
    <2>3. CASE raised' = raised
      <3>1. fired' \in Seq(1 .. raised)
        <4>1. /\ fired' \in Seq(Alerts) /\ ToSet(fired') \subseteq 1 .. readUpTo'
              /\ readUpTo' \in Nat /\ raised' \in Nat /\ readUpTo' <= raised'
          <5>1. TypeOK' /\ FiredInOrder' /\ PageInHand'
            BY <2>1 DEF AlertInv
          <5> QED
            BY <5>1, Bounds DEF TypeOK, FiredInOrder, PageInHand
        <4>2. 1 .. readUpTo' \subseteq 1 .. raised
          BY <2>3, <4>1
        <4> QED
          BY <4>1, <4>2, SeqOfMembers
      <3>2. IsPrefix(fired, fired')
        BY <2>1 DEF HandsOver
      <3>3. \A k \in Len(fired) + 1 .. Len(fired') : \A i \in 1 .. k - 1 : fired'[i] < fired'[k]
        BY <2>1 DEF HandsOver
      <3>4. Feed!HandOver
        BY <2>3, <3>1, <3>2, <3>3 DEF Feed!HandOver, IsPrefix, Feed!IsPrefix
      <3> QED
        BY <3>4 DEF Feed!Next
    <2>4. RaiseAlert \/ raised' = raised
      BY DEF Next, Poll, PlatformAdded, WriteHappened, Restart, vars, alertVars
    <2> QED
      BY <2>2, <2>3, <2>4
  <1> QED
    BY <1>1, <1>2, AlertInvHolds, PTL DEF Spec, KeepsFeed, Feed!Spec

\* So the bowls keep what BowlEntities promises while alerts come and go.
THEOREM AlertsKeepBowls ==
  Spec => [](AddedOnce /\ ListedBowlsHaveEntities /\ EmptyAccountWarned)
  BY AlertsKeepBowlSpec, BowlsAreAddedOnce, ListedBowlsAreAdded, EmptyAccountIsWarned, PTL

============================================================================
