------------------------- MODULE BowlEntitiesProofs -------------------------
(***************************************************************************)
(* What holds of the bowls' entities for every set of bowls and platforms. *)
(***************************************************************************)
EXTENDS BowlEntities, SequenceTheorems, FiniteSetTheorems, TLAPS

\* A platform's closure remembers just the bowls whose entities it added,
\* once each, and a platform that listens has added all the listed bowls.
AddedIsWhatWasAdded ==
    \A p \in Platforms, b \in Bowls : entities[p][b] = IF b \in added[p] THEN 1 ELSE 0

ReadyIsUpToDate == \A p \in ready : data \subseteq added[p]

\* The reminder goes by the count of the empty polls in a row.
WarnsByCount ==
    /\ empty_polls = Len(emptyRun)
    /\ \A i \in 1 .. Len(emptyRun) : emptyRun[i] = (i % EmptyEveryN = 1)

BowlInv == BowlTypeOK /\ AddedIsWhatWasAdded /\ ReadyIsUpToDate /\ WarnsByCount

\* What a new coordinator starts with: no bowls, no platforms, no warnings.
Fresh ==
    /\ loaded = FALSE /\ setUps \in 0 .. MaxSetUps
    /\ data = {} /\ ready = {}
    /\ added = NoBowls /\ entities = NoEntities
    /\ empty_polls = 0 /\ emptyRun = << >>

\* The invariant holds of it.
LEMMA FreshIsInv == Fresh => BowlInv
  <1> SUFFICES ASSUME Fresh
               PROVE  BowlInv
    OBVIOUS
  <1> USE BowlAssumption DEF Fresh
  <1>1. added \in [Platforms -> SUBSET Bowls] /\ \A p \in Platforms : added[p] = {}
    BY DEF NoBowls
  <1>2. /\ entities \in [Platforms -> [Bowls -> Nat]]
        /\ \A p \in Platforms, b \in Bowls : entities[p][b] = 0
    BY DEF NoEntities
  <1>3. emptyRun \in Seq(BOOLEAN) /\ Len(emptyRun) = 0
    OBVIOUS
  <1>4. empty_polls \in 0 .. MaxEmptyPolls
    BY DEF BowlAssumption
  <1>5. BowlTypeOK
    BY <1>1, <1>2, <1>3, <1>4 DEF BowlTypeOK
  <1>6. AddedIsWhatWasAdded /\ ReadyIsUpToDate
    BY <1>1, <1>2 DEF AddedIsWhatWasAdded, ReadyIsUpToDate
  <1>7. WarnsByCount
    BY <1>3 DEF WarnsByCount
  <1> QED
    BY <1>5, <1>6, <1>7 DEF BowlInv

\* Initially there is nothing.
LEMMA InitEstablishesBowlInv ==
  ASSUME BowlInit, BowlAssumption
  PROVE  BowlInv
  <1>1. setUps \in 0 .. MaxSetUps
    BY DEF BowlInit, BowlAssumption
  <1> QED
    BY <1>1, FreshIsInv DEF BowlInit, Fresh

\* Adding the new bowls of a list to some platforms.
LEMMA AddingKeepsInv ==
  ASSUME BowlInv, NEW ps \in SUBSET Platforms, NEW listed \in SUBSET Bowls,
         AddNewBowls(ps, listed)
  PROVE  /\ added' \in [Platforms -> SUBSET Bowls]
         /\ entities' \in [Platforms -> [Bowls -> Nat]]
         /\ AddedIsWhatWasAdded'
         /\ \A p \in Platforms : added[p] \subseteq added'[p]
         /\ \A p \in ps : listed \subseteq added'[p]
  <1> USE DEF BowlInv, AddNewBowls, NewBowls
  <1>1. added' \in [Platforms -> SUBSET Bowls]
    BY DEF BowlTypeOK
  <1>2. \A p \in Platforms :
           added'[p] = IF p \in ps THEN added[p] \cup (listed \ added[p]) ELSE added[p]
    OBVIOUS
  <1>3. \A p \in Platforms, b \in Bowls :
           entities'[p][b] = IF p \in ps /\ b \in listed \ added[p]
                             THEN entities[p][b] + 1 ELSE entities[p][b]
    OBVIOUS
  <1>4. entities' \in [Platforms -> [Bowls -> Nat]]
    BY DEF BowlTypeOK
  <1>5. AddedIsWhatWasAdded'
    BY <1>2, <1>3 DEF AddedIsWhatWasAdded
  <1> QED
    BY <1>1, <1>2, <1>4, <1>5

\* One more entry in the history of warnings.
LEMMA AppendingWarning ==
  ASSUME NEW run \in Seq(BOOLEAN), NEW warned \in BOOLEAN
  PROVE  /\ Append(run, warned) \in Seq(BOOLEAN)
         /\ Len(Append(run, warned)) = Len(run) + 1
         /\ \A i \in 1 .. Len(run) : Append(run, warned)[i] = run[i]
         /\ Append(run, warned)[Len(run) + 1] = warned
  BY AppendProperties

\* A successful poll.
LEMMA PublishKeepsInv ==
  ASSUME BowlInv, BowlAssumption, NEW listed \in SUBSET Bowls, PublishBowls(listed)
  PROVE  BowlInv'
  <1> USE DEF PublishBowls
  <1>1. ready \in SUBSET Platforms
    BY DEF BowlInv, BowlTypeOK
  <1>2. /\ added' \in [Platforms -> SUBSET Bowls]
        /\ entities' \in [Platforms -> [Bowls -> Nat]]
        /\ AddedIsWhatWasAdded'
        /\ \A p \in ready : listed \subseteq added'[p]
    BY <1>1, AddingKeepsInv
  <1>3. ReadyIsUpToDate'
    BY <1>2 DEF ReadyIsUpToDate
  <1>4. /\ empty_polls' \in 0 .. MaxEmptyPolls
        /\ emptyRun' \in Seq(BOOLEAN)
        /\ WarnsByCount'
    <2> USE DEF BowlInv, BowlTypeOK, WarnIfNoDevices, WarnsByCount, BowlAssumption
    <2>1. CASE listed # {}
      BY <2>1
    <2>2. CASE listed = {}
      <3>1. empty_polls' = empty_polls + 1 /\ empty_polls' \in 0 .. MaxEmptyPolls
        BY <2>2
      <3>2. PICK warned \in BOOLEAN :
              /\ warned = (empty_polls' % EmptyEveryN = 1)
              /\ emptyRun' = Append(emptyRun, warned)
        BY <2>2
      <3> HIDE DEF BowlInv, BowlTypeOK, WarnIfNoDevices, WarnsByCount
      <3>3. /\ emptyRun' \in Seq(BOOLEAN)
            /\ Len(emptyRun') = Len(emptyRun) + 1
            /\ \A i \in 1 .. Len(emptyRun) : emptyRun'[i] = emptyRun[i]
            /\ emptyRun'[Len(emptyRun) + 1] = warned
        <4>1. emptyRun \in Seq(BOOLEAN)
          BY DEF BowlInv, BowlTypeOK
        <4> QED
          BY <3>2, <4>1, AppendingWarning
      <3> USE DEF BowlInv, BowlTypeOK, WarnIfNoDevices, WarnsByCount
      <3>4. \A i \in 1 .. Len(emptyRun') : emptyRun'[i] = (i % EmptyEveryN = 1)
        <4> SUFFICES ASSUME NEW i \in 1 .. Len(emptyRun')
                     PROVE  emptyRun'[i] = (i % EmptyEveryN = 1)
          OBVIOUS
        <4>1. CASE i \in 1 .. Len(emptyRun)
          BY <3>3, <4>1
        <4>2. CASE i = Len(emptyRun) + 1
          BY <3>1, <3>2, <3>3, <4>2
        <4> QED
          BY <3>3, <4>1, <4>2
      <3> QED
        BY <3>1, <3>2, <3>3, <3>4
    <2> QED
      BY <2>1, <2>2
  <1> QED
    BY <1>2, <1>3, <1>4 DEF BowlInv, BowlTypeOK

\* A platform is set up, whatever was polled since the first refresh.
LEMMA SetUpPlatformKeepsInv ==
  ASSUME BowlInv, NEW p \in Platforms, SetUpPlatform(p)
  PROVE  BowlInv'
  <1> USE DEF SetUpPlatform
  <1>1. {p} \in SUBSET Platforms /\ data \in SUBSET Bowls
    BY DEF BowlInv, BowlTypeOK
  <1>2. /\ added' \in [Platforms -> SUBSET Bowls]
        /\ entities' \in [Platforms -> [Bowls -> Nat]]
        /\ AddedIsWhatWasAdded'
        /\ \A q \in Platforms : added[q] \subseteq added'[q]
        /\ data \subseteq added'[p]
    BY <1>1, AddingKeepsInv
  <1>3. ReadyIsUpToDate'
    BY <1>2 DEF ReadyIsUpToDate, BowlInv, BowlTypeOK
  <1> QED
    BY <1>2, <1>3 DEF BowlInv, BowlTypeOK, WarnsByCount

\* Every step keeps the invariant.
LEMMA BowlInvInductive ==
  ASSUME BowlInv, BowlAssumption, [BowlNext]_bowlVars
  PROVE  BowlInv'
  <1>1. CASE \E listed \in SUBSET Bowls : PublishBowls(listed)
    BY <1>1, PublishKeepsInv
  <1>2. CASE \E p \in Platforms : SetUpPlatform(p)
    BY <1>2, SetUpPlatformKeepsInv
  <1>3. CASE ReloadEntry
    <2>1. Fresh'
      BY <1>3 DEF ReloadEntry, Fresh, BowlInv, BowlTypeOK, BowlAssumption, NoBowls, NoEntities
    <2> QED
      BY <2>1, FreshIsInv, PTL
  <1>4. CASE UNCHANGED bowlVars
    BY <1>4 DEF bowlVars, BowlInv, BowlTypeOK, AddedIsWhatWasAdded, ReadyIsUpToDate,
         WarnsByCount
  <1> QED
    BY <1>1, <1>2, <1>3, <1>4 DEF BowlNext

\* So it always holds.
LEMMA BowlInvHolds == BowlSpec => []BowlInv
  <1>1. BowlInit => BowlInv
    BY BowlAssumption, InitEstablishesBowlInv
  <1>2. BowlInv /\ [BowlNext]_bowlVars => BowlInv'
    BY BowlAssumption, BowlInvInductive
  <1> QED
    BY <1>1, <1>2, PTL DEF BowlSpec

\* No bowl gets its entities twice on a platform, however often it drops
\* out of the list and comes back, and whenever the platform was set up.
THEOREM BowlsAreAddedOnce == BowlSpec => []AddedOnce
  <1>1. BowlInv => AddedOnce
    BY DEF BowlInv, AddedIsWhatWasAdded, AddedOnce
  <1> QED
    BY <1>1, BowlInvHolds, PTL

\* Every bowl in the data has its entities on every platform that is set up.
THEOREM ListedBowlsAreAdded == BowlSpec => []ListedBowlsHaveEntities
  <1>1. BowlInv => ListedBowlsHaveEntities
    BY DEF BowlInv, BowlTypeOK, AddedIsWhatWasAdded, ReadyIsUpToDate, ListedBowlsHaveEntities
  <1> QED
    BY <1>1, BowlInvHolds, PTL

----------------------------------------------------------------------------
(* The warnings of an empty account.                                       *)

\* Two multiples are a whole divisor apart.
LEMMA LaterMultiple ==
  ASSUME NEW n \in Nat, NEW p \in Nat, NEW q \in Nat, p < q
  PROVE  n * p + n <= n * q
  <1>1. PICK d \in Nat : q = p + 1 + d
    <2>1. q - p - 1 \in Nat /\ q = p + 1 + (q - p - 1)
      OBVIOUS
    <2> QED
      BY <2>1
  <1>2. n * q = n * p + n + n * d /\ n * d \in Nat
    BY <1>1
  <1> QED
    BY <1>2

\* The numbers that leave one.
LEMMA OneMore ==
  ASSUME NEW n \in Nat, n >= 2, NEW j \in Nat
  PROVE  (j % n = 1) <=> \E q \in Nat : j = n * q + 1
  <1>1. PICK p \in Nat, a \in 0 .. n - 1 : j = n * p + a /\ j % n = a
    OBVIOUS
  <1>2. ASSUME NEW q \in Nat, j = n * q + 1
        PROVE  a = 1
    <2>1. n * p \in Nat /\ n * q \in Nat
      OBVIOUS
    <2>2. CASE p < q
      <3>1. n * p + n <= n * q
        BY <2>2, LaterMultiple
      <3> QED
        BY <1>1, <1>2, <3>1, <2>1
    <2>3. CASE q < p
      <3>1. n * q + n <= n * p
        BY <2>3, LaterMultiple
      <3> QED
        BY <1>1, <1>2, <3>1, <2>1
    <2>4. CASE p = q
      BY <1>1, <1>2, <2>4, <2>1
    <2> QED
      BY <2>2, <2>3, <2>4
  <1> QED
    BY <1>1, <1>2

\* Among any n consecutive numbers one leaves one, and no other does.
LEMMA OneInAWindow ==
  ASSUME NEW n \in Nat, n >= 2, NEW i \in Nat
  PROVE  \E j \in i .. i + n - 1 : 
           /\ j % n = 1 
           /\ \A k \in i .. i + n - 1 : k % n = 1 => k = j
  <1>1. PICK p \in Nat, a \in 0 .. n - 1 : i = n * p + a /\ i % n = a
    OBVIOUS
  <1>2. n * p \in Nat /\ n * (p + 1) = n * p + n
    OBVIOUS
  <1>3. \E q \in Nat : n * q + 1 \in i .. i + n - 1
    <2>1. CASE a <= 1
      BY <1>1, <1>2, <2>1
    <2>2. CASE a > 1
      <3>1. n * (p + 1) + 1 \in i .. i + n - 1
        BY <1>1, <1>2, <2>2
      <3>2. p + 1 \in Nat
        OBVIOUS
      <3> QED
        BY <3>1, <3>2
    <2> QED
      BY <1>1, <2>1, <2>2
  <1>4. PICK q \in Nat : n * q + 1 \in i .. i + n - 1
    BY <1>3
  <1>5. (n * q + 1) % n = 1
    BY <1>4, OneMore
  <1>6. ASSUME NEW k \in i .. i + n - 1, k % n = 1
        PROVE  k = n * q + 1
    <2>1. PICK r \in Nat : k = n * r + 1
      <3>1. k \in Nat
        OBVIOUS
      <3> QED
        BY <1>6, <3>1, OneMore
    <2>2. n * r \in Nat /\ n * q \in Nat
      OBVIOUS
    <2>3. CASE r < q
      <3>1. n * r + n <= n * q
        BY <2>3, LaterMultiple
      <3> QED
        BY <1>4, <2>1, <2>2, <3>1
    <2>4. CASE q < r
      <3>1. n * q + n <= n * r
        BY <2>4, LaterMultiple
      <3> QED
        BY <1>4, <2>1, <2>2, <3>1
    <2>5. CASE r = q
      BY <2>1, <2>5
    <2> QED
      BY <2>3, <2>4, <2>5
  <1> QED
    BY <1>4, <1>5, <1>6

\* The transition to an empty account gives a warning, and then any
\* EmptyEveryN empty polls in a row give just one, for every period.
THEOREM EmptyAccountIsWarned == BowlSpec => []EmptyAccountWarned
  <1>1. BowlInv => EmptyAccountWarned
    <2> SUFFICES ASSUME BowlInv, emptyRun # << >>
                 PROVE  /\ emptyRun[1]
                        /\ \A i \in 1 .. Len(emptyRun) + 1 - EmptyEveryN :
                             Cardinality({j \in i .. i + EmptyEveryN - 1 : emptyRun[j]}) = 1
      BY DEF EmptyAccountWarned
    <2>1. /\ EmptyEveryN \in Nat /\ EmptyEveryN >= 2
          /\ emptyRun \in Seq(BOOLEAN)
          /\ \A i \in 1 .. Len(emptyRun) : emptyRun[i] = (i % EmptyEveryN = 1)
      BY BowlAssumption DEF BowlInv, BowlTypeOK, WarnsByCount
    <2>2. Len(emptyRun) \in Nat /\ Len(emptyRun) >= 1
      BY <2>1, EmptySeq
    <2>3. emptyRun[1]
      <3>1. 1 = EmptyEveryN * 0 + 1
        BY <2>1
      <3>2. 1 % EmptyEveryN = 1
        BY <2>1, <3>1, OneMore
      <3> QED
        BY <2>1, <2>2, <3>2
    <2>4. ASSUME NEW i \in 1 .. Len(emptyRun) + 1 - EmptyEveryN
          PROVE  Cardinality({j \in i .. i + EmptyEveryN - 1 : emptyRun[j]}) = 1
      <3>1. i \in Nat /\ i .. i + EmptyEveryN - 1 \subseteq 1 .. Len(emptyRun)
        BY <2>1, <2>2
      <3>2. PICK j \in i .. i + EmptyEveryN - 1 :
              /\ j % EmptyEveryN = 1
              /\ \A k \in i .. i + EmptyEveryN - 1 : k % EmptyEveryN = 1 => k = j
        BY <2>1, <3>1, OneInAWindow
      <3>3. {k \in i .. i + EmptyEveryN - 1 : emptyRun[k]} = {j}
        <4>1. \A k \in i .. i + EmptyEveryN - 1 : emptyRun[k] <=> k % EmptyEveryN = 1
          BY <2>1, <3>1
        <4> QED
          BY <3>2, <4>1
      <3> QED
        BY <3>3, FS_Singleton
    <2> QED
      BY <2>3, <2>4
  <1> QED
    BY <1>1, BowlInvHolds, PTL

=============================================================================
