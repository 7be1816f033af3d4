---------------------------- MODULE BowlEntities ----------------------------
(***************************************************************************)
(* Which bowls have entities.  Every per-bowl platform calls               *)
(* async_add_bowl_entities when it is set up: it adds the bowls listed by  *)
(* then, and a listener adds the others as later polls list them.  The     *)
(* first listener starts the poll timer, so polls come between the         *)
(* platforms' set-ups.  An empty device list is a successful poll, and     *)
(* _warn_if_no_devices says so in the log, now and again.                  *)
(*                                                                         *)
(* Home Assistant runs an entity's addition to its end in the step that    *)
(* asks for it.  A poll that fails, the first one included, changes        *)
(* nothing here: it is a stutter.                                          *)
(***************************************************************************)
EXTENDS Naturals, Sequences, FiniteSets

CONSTANTS
    Bowls,          \* the bowls of the account
    Platforms,      \* the per-bowl platforms
    EmptyEveryN,    \* EMPTY_DEVICE_LIST_EVERY_N_POLLS
    MaxEmptyPolls,  \* bound: empty polls in a row
    MaxSetUps       \* bound: set-ups of the entry

ASSUME BowlAssumption ==
    /\ EmptyEveryN \in Nat /\ EmptyEveryN >= 2
    /\ {MaxEmptyPolls, MaxSetUps} \subseteq Nat

VARIABLES
    loaded,         \* the first refresh is over
    data,           \* the keys of coordinator.data
    ready,          \* the platforms that are set up and listen
    added,          \* added[p]: the closure variable of p's listener
    entities,       \* entities[p][b]: how often b's entities were added to p
    empty_polls,    \* coordinator._empty_polls
    setUps,         \* history: what MaxSetUps bounds
    emptyRun        \* history: of the empty polls in a row, which gave a warning

bowlVars == <<loaded, data, ready, added, entities, empty_polls, setUps, emptyRun>>

BowlTypeOK ==
    /\ loaded \in BOOLEAN
    /\ data \subseteq Bowls
    /\ ready \subseteq Platforms
    /\ added \in [Platforms -> SUBSET Bowls]
    /\ entities \in [Platforms -> [Bowls -> Nat]]
    /\ empty_polls \in 0 .. MaxEmptyPolls
    /\ setUps \in 0 .. MaxSetUps
    /\ emptyRun \in Seq(BOOLEAN)

NoBowls == [p \in Platforms |-> {}]

NoEntities == [p \in Platforms |-> [b \in Bowls |-> 0]]

BowlInit ==
    /\ loaded = FALSE
    /\ data = {}
    /\ ready = {}
    /\ added = NoBowls
    /\ entities = NoEntities
    /\ empty_polls = 0
    /\ setUps = 0
    /\ emptyRun = << >>

----------------------------------------------------------------------------

\* Faulty variants: a bowl that comes back is new again; one set for all
\* the platforms.
NewBowlsSinceLastPoll(p, listed) == listed \ data

NewBowlsAnywhere(p, listed) == listed \ UNION {added[q] : q \in Platforms}

\* What _add_new_bowls finds.
NewBowls(p, listed) == listed \ added[p]

\* _add_new_bowls, run for the platforms ps.
AddNewBowls(ps, listed) ==
    /\ added' = [p \in Platforms |->
                    IF p \in ps THEN added[p] \cup NewBowls(p, listed) ELSE added[p]]
    /\ entities' = [p \in Platforms |-> [b \in Bowls |->
                    IF p \in ps /\ b \in NewBowls(p, listed)
                    THEN entities[p][b] + 1 ELSE entities[p][b]]]

\* Faulty variant: a list that fills does not re-arm the warning.
WarnNeverRearmed(listed) ==
    /\ empty_polls' = IF listed # {} THEN empty_polls ELSE empty_polls + 1
    /\ emptyRun' = IF listed # {} THEN << >>
                   ELSE Append(emptyRun, empty_polls' % EmptyEveryN = 1)

WarnIfNoDevices(listed) ==
    /\ empty_polls' = IF listed # {} THEN 0 ELSE empty_polls + 1
    /\ emptyRun' = IF listed # {} THEN << >>
                   ELSE Append(emptyRun, empty_polls' % EmptyEveryN = 1)

\* A successful poll: the first refresh, or one that wakes the listeners.
PublishBowls(listed) ==
    /\ loaded => ready # {}
    /\ listed = {} => empty_polls < MaxEmptyPolls
    /\ loaded' = TRUE
    /\ data' = listed
    /\ AddNewBowls(ready, listed)
    /\ WarnIfNoDevices(listed)
    /\ UNCHANGED <<ready, setUps>>

\* async_add_bowl_entities, called by the platform's async_setup_entry.
SetUpPlatform(p) ==
    /\ loaded
    /\ p \notin ready
    /\ ready' = ready \cup {p}
    /\ AddNewBowls({p}, data)
    /\ UNCHANGED <<loaded, data, empty_polls, setUps, emptyRun>>

\* Unloading removes the listeners and the entities; the next set-up has a
\* new coordinator and new closures.
ReloadEntry ==
    /\ setUps < MaxSetUps
    /\ setUps' = setUps + 1
    /\ loaded' = FALSE
    /\ data' = {}
    /\ ready' = {}
    /\ added' = NoBowls
    /\ entities' = NoEntities
    /\ empty_polls' = 0
    /\ emptyRun' = << >>

BowlNext ==
    \/ \E listed \in SUBSET Bowls : PublishBowls(listed)
    \/ \E p \in Platforms : SetUpPlatform(p)
    \/ ReloadEntry

BowlSpec == BowlInit /\ [][BowlNext]_bowlVars

----------------------------------------------------------------------------

\* entity.py: "A bowl that drops out of one poll and comes back must not be
\* added twice", whichever platforms were set up before or after it was
\* first listed.
AddedOnce == \A p \in Platforms, b \in Bowls : entities[p][b] <= 1

\* "the next poll is what has to be able to add the entities": every bowl
\* in the data has its entities on every platform that is set up, though
\* the first list was empty, or a poll fell between two set-ups.
ListedBowlsHaveEntities == \A p \in ready, b \in data : entities[p][b] > 0

\* const.py, of the empty-account warning: it "always fires on the
\* transition to zero", and then once in every EmptyEveryN polls.
EmptyAccountWarned ==
    emptyRun # << >> =>
        /\ emptyRun[1]
        /\ \A i \in 1 .. Len(emptyRun) + 1 - EmptyEveryN :
              Cardinality({j \in i .. i + EmptyEveryN - 1 : emptyRun[j]}) = 1

============================================================================
