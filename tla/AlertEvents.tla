---------------------------- MODULE AlertEvents ----------------------------
(***************************************************************************)
(* The alert event entity of one bowl, one of those BowlEntities adds.     *)
(* The vendor keeps a log of alerts and a poll reads its first page; the   *)
(* entity fires every alert on the page whose id it does not remember,     *)
(* oldest first, and remembers a bounded number of ids.  When it is added  *)
(* it remembers what is on the page in hand without firing it.             *)
(*                                                                         *)
(* Alerts are numbered in the order in which they are raised, which is the *)
(* order alert_sort_key gives them (their createTime, then their numeric   *)
(* id).  A poll that fails leaves the data in hand and wakes the listeners *)
(* like any other publication: WriteHappened.                              *)
(***************************************************************************)
EXTENDS BowlEntities, SequencesExt, FiniteSetsExt, Functions

CONSTANTS
    Watched,            \* the bowl
    Event,              \* the event platform
    Page,               \* rows in a page of notify/log
    MaxRemembered,      \* MAX_REMEMBERED_ALERT_IDS
    FirstReadEmpty,     \* whether the log read that meets a new entity may be empty
    MaxAlerts           \* bound: alerts raised

ASSUME AlertAssumption ==
    /\ Watched \in Bowls
    /\ Event \in Platforms
    /\ Page \in Nat \ {0}
    /\ {MaxRemembered, MaxAlerts} \subseteq Nat
    /\ MaxRemembered >= 2 * Page
    /\ FirstReadEmpty \in BOOLEAN

VARIABLES
    raised,     \* alerts in the vendor's log
    rows,       \* the page in the coordinator's data, empty if the bowl is not
    seenIds,    \* _seen_ids, the oldest entry first
    fired,      \* history: the alerts the state machine has been told of
    readUpTo,   \* history: raised when the rows in hand were read
    watch       \* history: readUpTo and Len(fired) when the entity was added

alertVars == <<raised, rows, seenIds, fired, readUpTo, watch>>
vars == <<bowlVars, alertVars>>

Alerts == 1 .. MaxAlerts

TypeOK ==
    /\ BowlTypeOK
    /\ {raised, readUpTo} \subseteq 0 .. MaxAlerts
    /\ rows \in Seq(Alerts) /\ Len(rows) <= Page
    /\ seenIds \in Seq(Alerts) /\ Len(seenIds) <= MaxRemembered
    /\ fired \in Seq(Alerts)
    /\ watch \in [from : 0 .. MaxAlerts, fired : Nat]

Init ==
    /\ BowlInit
    /\ raised = 0
    /\ rows = <<>>
    /\ seenIds = <<>>
    /\ fired = <<>>
    /\ readUpTo = 0
    /\ watch = [from |-> 0, fired |-> 0]

\* The entity is added and listens.
Live == entities[Event][Watched] > 0

----------------------------------------------------------------------------
(* The entity.                                                             *)

\* Faulty variant: a full memory takes no more ids.
RememberUntilFull(ids, id) ==
    IF id \in ToSet(ids) \/ Len(ids) = MaxRemembered THEN ids ELSE Append(ids, id)

\* Faulty variant: the bound is never enforced.
RememberAll(ids, id) == IF id \in ToSet(ids) THEN ids ELSE Append(ids, id)

\* A new id goes last, a known one stays where it is, the oldest makes room.
Remember(ids, id) ==
    IF id \in ToSet(ids) THEN ids
    ELSE IF Len(ids) < MaxRemembered THEN Append(ids, id) ELSE Append(Tail(ids), id)

RememberRows(ids, page) == FoldLeft(Remember, ids, page)

\* Faulty variants: the unseen rows as the page has them; the newest only.
UnseenRowsInPageOrder(page) == SelectSeq(page, LAMBDA id : id \notin ToSet(seenIds))

UnseenRowsNewest(page) ==
    LET unseen == ToSet(page) \ ToSet(seenIds)
    IN  IF unseen = {} THEN <<>> ELSE <<Max(unseen)>>

\* The sorted enumeration of a set of alerts: the oldest first.
Ascending(s) == \A i, j \in DOMAIN s : i < j => s[i] < s[j]

OldestFirst(S) == CHOOSE s \in SetToSeqs(S) : Ascending(s)

UnseenRows(page) == OldestFirst(ToSet(page) \ ToSet(seenIds))

\* A publication of page reaches the entity's listener.
CoordinatorUpdate(page) ==
    LET fresh == UnseenRows(page)
    IN  /\ fired' = fired \o fresh
        /\ seenIds' = RememberRows(seenIds, fresh)
        /\ UNCHANGED watch

\* Faulty variant: a new entity fires what it finds.
AddEntityFires(page) ==
    /\ watch' = [from |-> readUpTo', fired |-> Len(fired)]
    /\ fired' = fired \o UnseenRows(page)
    /\ seenIds' = RememberRows(<<>>, page)

\* The entity is built, and added in the same step of the event loop.
AddEntity(page) ==
    /\ watch' = [from |-> readUpTo', fired |-> Len(fired)]
    /\ seenIds' = RememberRows(<<>>, page)
    /\ UNCHANGED fired

\* What a step of the coordinator or of a platform means to the entity.
EntityStep(page) ==
    IF Live THEN CoordinatorUpdate(page)
    ELSE IF Live' THEN AddEntity(page)
    ELSE UNCHANGED <<seenIds, fired, watch>>

----------------------------------------------------------------------------
(* The vendor, the coordinator and Home Assistant.                         *)

RaiseAlert ==
    /\ raised < MaxAlerts
    /\ raised' = raised + 1
    /\ UNCHANGED <<bowlVars, rows, seenIds, fired, readUpTo, watch>>

\* The newest alerts, in whatever order the page has them.
Pages == SetToSeqs({i \in 1 .. raised : i + Page > raised})

Poll ==
    /\ \E listed \in SUBSET Bowls :
          /\ PublishBowls(listed)
          /\ IF Watched \in listed
             THEN \/ rows' \in Pages
                  \/ rows' = <<>> /\ (Live \/ FirstReadEmpty)
             ELSE rows' = <<>>
    /\ readUpTo' = raised
    /\ EntityStep(rows')
    /\ UNCHANGED raised

\* A platform is set up; the event platform's brings the entity.
PlatformAdded ==
    /\ UNCHANGED <<raised, rows, readUpTo>>
    /\ \E p \in Platforms : SetUpPlatform(p)
    /\ IF ~ Live /\ Live' THEN AddEntity(rows) ELSE UNCHANGED <<seenIds, fired, watch>>

\* The listeners run again on the rows in hand: a write was published, or a
\* poll failed.
WriteHappened ==
    /\ Live
    /\ CoordinatorUpdate(rows)
    /\ UNCHANGED <<bowlVars, raised, rows, readUpTo>>

\* Home Assistant restarts or reloads the entry; ids are not persisted.
Restart ==
    /\ ReloadEntry
    /\ rows' = <<>>
    /\ seenIds' = <<>>
    /\ UNCHANGED <<raised, fired, readUpTo, watch>>

Next == RaiseAlert \/ Poll \/ PlatformAdded \/ WriteHappened \/ Restart

Spec == Init /\ [][Next]_vars

----------------------------------------------------------------------------
(* Properties.                                                             *)

\* An alert pages its owner once, however long it stays on the page,
\* whatever is published in between and across restarts: no id is forgotten
\* while its row is still visible.
FiredOnce == IsInjective(fired)

\* "This is what stops a Home Assistant restart from replaying history":
\* what was in the log when the rows the entity was built on were read is
\* never fired.
NothingReplayed ==
    [][\A k \in Len(fired) + 1 .. Len(fired') : fired'[k] > watch.from]_vars

\* Every alert in hand that was raised since the entity was added has been
\* fired, though it shared a poll with others, the bowl vanished for a
\* while or a log read came back empty.
NoVisibleAlertSwallowed ==
    Live => \A i \in ToSet(rows) : i > watch.from => i \in ToSet(fired)

\* Once the entity has fired, it rests on the alert that the last_alert
\* sensor shows: the newest row in hand.
RestsOnNewest ==
    Live /\ rows # <<>> /\ Len(fired) > watch.fired =>
        Last(fired) = Max(ToSet(rows))

\* To its automations the entity is one feed, at most once and in order,
\* over every bowl that goes and comes, empty read and restart (alert ids are
\* not persisted; async_added_to_hass remembers the page it finds).
Feed == INSTANCE AlertFeed

KeepsFeed == Feed!Spec

============================================================================
