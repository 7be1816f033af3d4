---------------------------- MODULE ConfigWrite ----------------------------
(***************************************************************************)
(* The settings of one bowl: the vendor's object, the coordinator's cached *)
(* copy of it (BowlData.config), and the whole-group writes built from     *)
(* that copy (AlwaysFullWriteEntity.async_write_config and async_write).   *)
(*                                                                         *)
(* The vendor replaces every field of the group it is sent, so a write     *)
(* carries the cached values of the fields the user did not touch.  They   *)
(* are read before the write waits for the lock, polls publish into the    *)
(* same cache meanwhile, and the vendor's reads lag behind its writes.     *)
(*                                                                         *)
(* A setting may be stored in a finer unit than it is shown in, the two    *)
(* thresholds of the water group have a rule of their own, and the fields  *)
(* of the device row (select) are written one at a time, without a copy.   *)
(*                                                                         *)
(* Sessions and re-logins are Session's business: a request here succeeds  *)
(* or fails.  Within one platform Home Assistant runs one service call at  *)
(* a time (PARALLEL_UPDATES = 1), so a platform is a process.              *)
(***************************************************************************)
EXTENDS Conversions, Sequences

CONSTANTS
    Platforms,      \* the write platforms
    Fields,         \* the fields of BowlConfig, and of the device row
    RowFields,      \* the fields of the device row
    Group,          \* Group[f]: the config group (vendor endpoint) f is sent in
    WrittenBy,      \* WrittenBy[f]: the platform whose entity sets f
    ZeroDefault,    \* the fields BowlConfig.from_api reads as 0 when absent
    Scale,          \* Scale[f]: how many of f's stored units are one that is shown
    Thresholds,     \* the <<minimum, maximum>> fields that WaterPair ties
    Asked,          \* Asked[f]: what a user asks for, in the unit shown
    Initial,        \* Initial[f]: what the vendor holds to begin with
    VendorLags,     \* whether reads may return the state before a write
    MaxWrites,      \* bound: writes started
    MaxFaults       \* bound: answers that are not a plain success

Values == Nat

ASSUME ConfigAssumption ==
    /\ WrittenBy \in [Fields -> Platforms]
    /\ Group \in [Fields -> {Group[f] : f \in Fields}]
    /\ RowFields \subseteq Fields
    /\ \A f \in RowFields, g \in Fields : Group[g] = Group[f] => g = f
    /\ ZeroDefault \subseteq Fields
    /\ Scale \in [Fields -> Nat \ {0}]
    /\ \A f \in RowFields : Scale[f] = 1
    /\ Thresholds \subseteq Fields \X Fields
    /\ \A pair \in Thresholds : Group[pair[1]] = Group[pair[2]]
    /\ Asked \in [Fields -> SUBSET Values]
    /\ Initial \in [Fields -> Values]
    /\ \A pair \in Thresholds : WaterPair(Initial[pair[1]], Initial[pair[2]])
    /\ None \notin Values
    /\ VendorLags \in BOOLEAN
    /\ {MaxWrites, MaxFaults} \subseteq Nat

VARIABLES
    vendor,         \* the vendor: the settings the bowl follows
    served,         \* the vendor: what /app/device/config answers with
    late,           \* the vendor: writes it answered with an error and will apply
    cache,          \* coordinator.data[id].config
    known,          \* the bowl is in coordinator.data
    available,      \* coordinator.last_update_success
    poll,           \* the poll under way and what it has read
    refreshDue,     \* a requested refresh waits for the debouncer
    op,             \* op[p]: the write platform p is busy with
    lockQueue,      \* the write lock: its holder, then its waiters
    asked,          \* history: asked[f], every value a user chose for f
    held,           \* history: held[f], every value the vendor took for f
    count           \* history: what the bounds count

vendorVars == <<vendor, served, late>>
pollVars == <<cache, known, available, poll, refreshDue>>
writeVars == <<op, lockQueue>>
vars == <<vendorVars, pollVars, writeVars, asked, held, count>>

Config == [Fields -> Values \cup {None}]

\* BowlConfig.from_api({}): some fields default to 0, the others to None.
Unread == [f \in Fields |-> IF f \in ZeroDefault THEN 0 ELSE None]

Poll(pc) == [pc |-> pc, listed |-> TRUE, config |-> Unread]

NoPoll == Poll("idle")

NoWrite == [pc |-> "idle"]

Write == [pc : {"queued", "sent", "reconcile"}, field : Fields, config : Config]

TypeOK ==
    /\ {vendor, served, cache} \subseteq Config
    /\ late \subseteq Write
    /\ {known, available, refreshDue} \subseteq BOOLEAN
    /\ poll \in [pc : {"idle", "reading", "read"}, listed : BOOLEAN, config : Config]
    /\ op \in [Platforms -> Write \cup {NoWrite}]
    /\ lockQueue \in Seq(Platforms)
    /\ {asked, held} \subseteq [Fields -> SUBSET (Values \cup {None})]
    /\ count \in [writes : 0 .. MaxWrites, faults : 0 .. MaxFaults]

\* The entry is loaded and its first poll has read everything.
Init ==
    /\ vendor = Initial
    /\ served = vendor
    /\ late = {}
    /\ cache = vendor
    /\ known = TRUE
    /\ available = TRUE
    /\ poll = NoPoll
    /\ refreshDue = FALSE
    /\ op = [p \in Platforms |-> NoWrite]
    /\ lockQueue = << >>
    /\ asked = [f \in Fields |-> {Initial[f]}]
    /\ held = asked
    /\ count = [writes |-> 0, faults |-> 0]

Fault == count.faults < MaxFaults /\ count' = [count EXCEPT !.faults = @ + 1]

----------------------------------------------------------------------------
(* The vendor.                                                             *)

\* The group is replaced as a whole; a None was stripped from the body, so
\* the field it stood for is blanked.
Stored(w, config) ==
    [f \in Fields |-> IF Group[f] = Group[w.field] THEN w.config[f] ELSE config[f]]

\* What the vendor stored, or said it did.
Hold(w) ==
    held' = [f \in Fields |->
                IF Group[f] = Group[w.field] THEN held[f] \cup {w.config[f]} ELSE held[f]]

Apply(w) ==
    /\ vendor' = Stored(w, vendor)
    /\ served' = IF VendorLags THEN served ELSE vendor'

\* Reads catch up about twenty seconds after a write.
VendorCatchesUp ==
    /\ served # vendor
    /\ served' = vendor
    /\ UNCHANGED <<vendor, late, pollVars, writeVars, asked, held, count>>

\* A write that was answered with an error takes effect seconds later.
VendorAppliesLate ==
    /\ \E w \in late : Apply(w) /\ late' = late \ {w}
    /\ UNCHANGED <<pollVars, writeVars, asked, held, count>>

----------------------------------------------------------------------------
(* The write.                                                              *)

\* Faulty variant: no guard against a group that was read in part.
WholeGroupUnchecked(w) == TRUE

\* _reject_partial_group raises, with nothing changed, unless this holds.
WholeGroup(w) == \A f \in Fields : Group[f] = Group[w.field] => w.config[f] # None

\* Faulty variant: the vendor is left to reject the pair.
RuleUnchecked(w) == TRUE

\* to_water_payload raises unless this holds.
RuleKept(w) ==
    \A pair \in Thresholds :
        Group[pair[1]] = Group[w.field] => WaterPair(w.config[pair[1]], w.config[pair[2]])

\* What the entity shows.
Displayed(f) == IF cache[f] = None THEN None ELSE Shown(Scale[f], cache[f])

\* Faulty variant: the value on display is converted as any other.
SetValueAlways(f, v) == SetAlways(Scale[f], cache[f], v)

\* set_fn, on a copy of the cached value.
SetValue(f, v) == IF cache[f] = None THEN v * Scale[f] ELSE SetShown(Scale[f], cache[f], v)

\* What select sends: its field of the device row, alone.
RowWrite(f, v) == [Unread EXCEPT ![f] = v]

\* async_write_config's copy of the config, with one field set.
Mutated(f, v) ==
    IF f \in RowFields THEN RowWrite(f, v) ELSE [cache EXCEPT ![f] = SetValue(f, v)]

\* async_set_native_value and its kind, up to the lock: the cached config is
\* copied, the copy is changed and the payload built from it.  Of a field,
\* a user who asks for what is on display asks for nothing.
StartWrite(p) ==
    /\ op[p].pc = "idle"
    /\ known /\ available
    /\ count.writes < MaxWrites
    /\ \E f \in Fields : \E v \in Asked[f] :
          LET w == [pc |-> "queued", field |-> f, config |-> Mutated(f, v)]
          IN  /\ WrittenBy[f] = p
              /\ RuleKept(w) /\ WholeGroup(w)
              /\ op' = [op EXCEPT ![p] = w]
              /\ asked' = IF Displayed(f) = v THEN asked
                          ELSE [asked EXCEPT ![f] = @ \cup {v * Scale[f]}]
    /\ lockQueue' = Append(lockQueue, p)
    /\ count' = [count EXCEPT !.writes = @ + 1]
    /\ UNCHANGED <<vendorVars, pollVars, held>>

TakeLock(p) ==
    /\ op[p].pc = "queued"
    /\ lockQueue # << >> /\ Head(lockQueue) = p
    /\ op' = [op EXCEPT ![p].pc = "sent"]
    /\ UNCHANGED <<vendorVars, pollVars, lockQueue, asked, held, count>>

EndWrite(p) ==
    /\ op' = [op EXCEPT ![p] = NoWrite]
    /\ lockQueue' = Tail(lockQueue)

\* async_request_refresh, awaited with the lock held: the debouncer runs the
\* poll now, or has one running or cooling down and runs it later.
RequestRefresh(p) ==
    \/ /\ poll.pc = "idle"
       /\ poll' = Poll("reading")
       /\ op' = [op EXCEPT ![p].pc = "reconcile"]
       /\ UNCHANGED <<lockQueue, refreshDue>>
    \/ /\ refreshDue' = TRUE
       /\ EndWrite(p)
       /\ UNCHANGED poll

\* The credentials were rejected, or the body was malformed (ValueError is
\* not one of WRITE_FAILURES): no reconciliation.
GiveUp(p) == EndWrite(p) /\ UNCHANGED <<poll, refreshDue>>

\* Faulty variant: only the group that was sent is cached.
PublishedGroupOnly(w) ==
    [f \in {g \in Fields : Group[g] = Group[w.field]} |-> w.config[f]]

\* The config async_refresh_after_write caches: the whole mutated copy.
Published(w) == w.config

\* async_refresh_after_write: a field of the row has no config to cache.
Publish(p) ==
    \/ /\ known /\ op[p].field \notin RowFields
       /\ cache' = Published(op[p])
       /\ EndWrite(p)
       /\ UNCHANGED <<poll, refreshDue>>
    \/ /\ ~ known \/ op[p].field \in RowFields
       /\ RequestRefresh(p)
       /\ UNCHANGED cache

\* The vendor answers with success.  It has been known to do so, and to
\* apply nothing.
WriteAccepted(p) ==
    /\ op[p].pc = "sent"
    /\ \/ Apply(op[p]) /\ UNCHANGED count
       \/ Fault /\ UNCHANGED <<vendor, served>>
    /\ Hold(op[p])
    /\ Publish(p)
    /\ UNCHANGED <<late, known, available, asked>>

\* Faulty variant: the value the user asked for is shown all the same.
WriteFailsOptimistically(p) ==
    /\ op[p].pc = "sent"
    /\ Fault
    /\ cache' = op[p].config
    /\ RequestRefresh(p)
    /\ UNCHANGED <<vendorVars, known, available, asked, held>>

\* An error, a timeout or a lost answer: the vendor refused the write, took
\* it, or will take it later.  The cache keeps its old value.
WriteFails(p) ==
    /\ op[p].pc = "sent"
    /\ Fault
    /\ \/ UNCHANGED <<vendorVars, held>>
       \/ Apply(op[p]) /\ Hold(op[p]) /\ UNCHANGED late
       \/ late' = late \cup {op[p]} /\ Hold(op[p]) /\ UNCHANGED <<vendor, served>>
    /\ RequestRefresh(p) \/ GiveUp(p)
    /\ UNCHANGED <<cache, known, available, asked>>

----------------------------------------------------------------------------
(* The poll.                                                               *)

StartPoll ==
    /\ poll.pc = "idle"
    /\ poll' = Poll("reading")
    /\ refreshDue' = FALSE
    /\ UNCHANGED <<vendorVars, cache, known, available, writeVars, asked, held, count>>

\* The device's row is there and its config comes back as null.
RowOnly == [f \in Fields |-> IF f \in RowFields THEN served[f] ELSE Unread[f]]

\* device/list and device/config are answered.  The bowl may be missing from
\* the list, and the config may come back as null.
PollReads ==
    /\ poll.pc = "reading"
    /\ \/ poll' = [pc |-> "read", listed |-> TRUE, config |-> served] /\ UNCHANGED count
       \/ Fault /\ poll' = [pc |-> "read", listed |-> TRUE, config |-> RowOnly]
       \/ Fault /\ poll' = [pc |-> "read", listed |-> FALSE, config |-> Unread]
    /\ UNCHANGED <<vendorVars, cache, known, available, refreshDue, writeVars, asked, held>>

\* A write that awaited this poll raises and frees the lock.
EndPoll ==
    /\ poll' = NoPoll
    /\ op' = [p \in Platforms |-> IF op[p].pc = "reconcile" THEN NoWrite ELSE op[p]]
    /\ lockQueue' = IF \E p \in Platforms : op[p].pc = "reconcile"
                    THEN Tail(lockQueue) ELSE lockQueue
    /\ UNCHANGED <<vendorVars, refreshDue, asked, held>>

\* Faulty variant: a poll keeps the config of a bowl it knew already.
PollPublishesNewBowlsOnly ==
    /\ poll.pc = "read"
    /\ known' = poll.listed
    /\ cache' = IF known THEN cache ELSE poll.config
    /\ available' = TRUE
    /\ EndPoll
    /\ UNCHANGED count

\* coordinator.data is replaced by what the poll read, whatever was written
\* since.
PollPublishes ==
    /\ poll.pc = "read"
    /\ known' = poll.listed
    /\ cache' = poll.config
    /\ available' = TRUE
    /\ EndPoll
    /\ UNCHANGED count

\* UpdateFailed: Home Assistant keeps the last data.
PollFails ==
    /\ poll.pc # "idle"
    /\ Fault
    /\ available' = FALSE
    /\ EndPoll
    /\ UNCHANGED <<cache, known>>

----------------------------------------------------------------------------

PollStep == StartPoll \/ PollReads \/ PollPublishes \/ PollFails

WriteStep(p) == TakeLock(p) \/ WriteAccepted(p) \/ WriteFails(p)

Next ==
    \/ VendorCatchesUp \/ VendorAppliesLate
    \/ \E p \in Platforms : StartWrite(p) \/ WriteStep(p)
    \/ PollStep

Spec == Init /\ [][Next]_vars

\* The poll timer fires and requests end (with an answer or a timeout), the
\* vendor settles.  Nobody is made to write.
Fairness ==
    /\ WF_vars(PollStep)
    /\ \A p \in Platforms : WF_vars(WriteStep(p))
    /\ WF_vars(VendorCatchesUp)
    /\ WF_vars(VendorAppliesLate)

FairSpec == Spec /\ Fairness

----------------------------------------------------------------------------
(* Properties.                                                             *)

\* No write blanks a setting at the vendor, however short or stale the read
\* its group was rebuilt from (_reject_partial_group).
NothingBlanked == \A f \in Fields : vendor[f] # None

\* The cache never shows a value the vendor has neither held nor accepted:
\* what a failed write asked for is not shown, and what is shown of an
\* unread field is only what from_api makes of an absent one.
CacheShowsOnlyHeld == \A f \in Fields : cache[f] \in held[f] \cup {Unread[f]}

\* A setting drifts by nobody's wish: whatever the vendor is sent is what was
\* first there, what a user asked for who saw something else, or the 0 an
\* absent field is read as -- never the rounding of a value that is only shown
\* (_unchanged_keeps_raw).
NoDrift == \A f \in Fields : held[f] \subseteq asked[f] \cup {Unread[f]}

\* The vendor never holds a pair of thresholds that turns its own rule down,
\* although each write is built from a copy that others outdate, and may take
\* effect long after the next one (to_water_payload).
ThresholdsHeld ==
    \A pair \in Thresholds : WaterPair(vendor[pair[1]], vendor[pair[2]])

\* Whatever was written, lost, applied late or read stale, the polls bring
\* the cache back to the vendor's state in the end, and it stays there.
EventuallyCoherent == <>[](known /\ available /\ cache = vendor)

\* entity.py, of sending only the field that changed: it "blanks the others,
\* so every write goes through a builder that reconstructs the whole group",
\* under a lock that keeps the next write from starting before this one is
\* published.  A write changes at the vendor the field it is for, no other.
SiblingsKept ==
    [][\A p \in Platforms :
        op[p].pc = "sent" /\ op'[p] # op[p] =>
            \A f \in Fields \ {op[p].field} : vendor'[f] = vendor[f]]_vars

\* entity.py, of refusing a partial group: "the only outcome that never
\* loses a setting".  The vendor only ever holds values a user chose.
VendorHoldsOnlyChosen == \A f \in Fields : vendor[f] \in asked[f]

============================================================================
