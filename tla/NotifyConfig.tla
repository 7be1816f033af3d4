---------------------------- MODULE NotifyConfig ----------------------------
(***************************************************************************)
(* The account's notification settings: one object at the vendor, a cached *)
(* copy (coordinator.notify_config) that a poll fetches only every         *)
(* NOTIFY_CONFIG_EVERY_N_POLLS polls, and saves that send the whole cached *)
(* object back with one flag changed (async_save_notify_config) and then   *)
(* re-read it (async_refresh_notify_config).                               *)
(*                                                                         *)
(* All twelve switches belong to the switch platform, which Home Assistant *)
(* runs one service call at a time, so one save is under way at most; it   *)
(* may wait for the account's write lock as long as other writes hold it.  *)
(* A flag stands for an account flag or for an alert type, whose rows in   *)
(* notifyItems and notifyList are always changed together.                 *)
(***************************************************************************)
EXTENDS Naturals

CONSTANTS
    Flags,          \* the account's notification flags
    EveryNPolls,    \* NOTIFY_CONFIG_EVERY_N_POLLS
    None,           \* a notification config that has not been read
    MaxSaves,       \* bound: saves started
    MaxFaults,      \* bound: requests that fail
    MaxPhone        \* bound: changes made in the phone app

ASSUME NotifyAssumption ==
    /\ EveryNPolls \in Nat \ {0}
    /\ None \notin [Flags -> BOOLEAN]
    /\ {MaxSaves, MaxFaults, MaxPhone} \subseteq Nat

VARIABLES
    vendor,         \* the vendor's notification object
    late,           \* saves the vendor answered with an error and will store
    cache,          \* coordinator.notify_config
    pollCount,      \* coordinator._poll_count, modulo EveryNPolls
    poll,           \* the poll under way and the object it has fetched
    save,           \* the save under way, its object, and what it re-read
    since,          \* history: polls completed since the settings last moved
    unseen,         \* history: unseen[c], what moved since the copy c was served
    count           \* history: what the bounds count

vars == <<vendor, late, cache, pollCount, poll, save, since, unseen, count>>

Config == [Flags -> BOOLEAN]

NoPoll == [pc |-> "idle", read |-> None]

NoSave == [pc |-> "idle"]

\* The copies of the vendor's object: the cache, what a poll has fetched, what
\* a save was made from, and what it has re-read.
Copies == {"cache", "poll", "save", "read"}

TypeOK ==
    /\ vendor \in Config
    /\ late \subseteq [flag : Flags, config : Config, unseen : SUBSET Flags]
    /\ cache \in Config \cup {None}
    /\ pollCount \in 0 .. EveryNPolls - 1
    /\ poll \in [pc : {"idle", "devices", "fetch", "fetched"}, read : Config \cup {None}]
    /\ save \in {NoSave} \cup
                [pc : {"queued", "sent", "reread", "read"}, flag : Flags, config : Config,
                 read : Config \cup {None}]
    /\ since \in 0 .. EveryNPolls + 1
    /\ unseen \in [Copies -> SUBSET Flags]
    /\ count \in [saves : 0 .. MaxSaves, faults : 0 .. MaxFaults, phone : 0 .. MaxPhone]

Init ==
    /\ vendor = [f \in Flags |-> TRUE]
    /\ late = {}
    /\ cache = None
    /\ pollCount = 0
    /\ poll = NoPoll
    /\ save = NoSave
    /\ since = 0
    /\ unseen = [c \in Copies |-> {}]
    /\ count = [saves |-> 0, faults |-> 0, phone |-> 0]

Fault == count.faults < MaxFaults /\ count' = [count EXCEPT !.faults = @ + 1]

\* The vendor's object becomes config, and no copy has seen what moves by it.
VendorHolds(config, lateSaves) ==
    LET moved == {f \in Flags : config[f] # vendor[f]}
    IN  /\ vendor' = config
        /\ unseen' = [c \in Copies |-> unseen[c] \cup moved]
        /\ late' = {[s EXCEPT !.unseen = @ \cup moved] : s \in lateSaves}

\* A copy that the vendor has just served has seen everything.
JustServed(copy) == unseen' = [unseen EXCEPT ![copy] = {}]

\* One copy is taken from another.
Copied(copy, from) == unseen' = [unseen EXCEPT ![copy] = unseen[from]]

----------------------------------------------------------------------------
(* The poll.                                                               *)

StartPoll ==
    /\ poll.pc = "idle"
    /\ poll' = [NoPoll EXCEPT !.pc = "devices"]
    /\ UNCHANGED <<vendor, late, cache, pollCount, save, since, unseen, count>>

\* Faulty variant: the settings are read once and then taken from the saves.
FetchDueOnce == cache = None

\* The poll count moves on only at the end, so a fetch that fails is due
\* again at the next poll.
FetchDue == pollCount = 0

\* Faulty variant: the count skips the poll that fetches.
CountPollFromOne == pollCount' = (pollCount % EveryNPolls) + 1

CountPoll == pollCount' = (pollCount + 1) % EveryNPolls

CompletePoll(read) ==
    /\ poll' = NoPoll
    /\ CountPoll
    /\ cache' = read
    /\ since' = IF poll.pc = "fetched" /\ read = None THEN 0
               ELSE IF since > EveryNPolls THEN since ELSE since + 1

\* The bowls have been read.
DevicesRead ==
    /\ poll.pc = "devices"
    /\ \/ /\ FetchDue
          /\ poll' = [poll EXCEPT !.pc = "fetch"]
          /\ UNCHANGED <<cache, pollCount, since, unseen>>
       \/ ~ FetchDue /\ CompletePoll(cache) /\ UNCHANGED unseen
    /\ UNCHANGED <<vendor, late, save, count>>

\* The vendor answers notify/getConfig, with the object or with null.
Served(config) ==
    \/ config = vendor /\ UNCHANGED count
    \/ config = None /\ Fault

NotifyConfigServed ==
    /\ poll.pc = "fetch"
    /\ \E config \in {vendor, None} :
          Served(config) /\ poll' = [pc |-> "fetched", read |-> config]
    /\ JustServed("poll")
    /\ UNCHANGED <<vendor, late, cache, pollCount, save, since>>

NotifyConfigFetched ==
    /\ poll.pc = "fetched"
    /\ CompletePoll(poll.read)
    /\ Copied("cache", "poll")
    /\ UNCHANGED <<vendor, late, save, count>>

\* Faulty variant: the poll is counted before it is made.
PollFailsCounted ==
    /\ poll.pc # "idle"
    /\ Fault
    /\ poll' = NoPoll
    /\ CountPoll
    /\ UNCHANGED <<vendor, late, cache, save, since, unseen>>

PollFails ==
    /\ poll.pc # "idle"
    /\ Fault
    /\ poll' = NoPoll
    /\ UNCHANGED <<vendor, late, cache, pollCount, save, since, unseen>>

----------------------------------------------------------------------------
(* The save.                                                               *)

\* async_save_notify_config up to the lock: the whole cached object is
\* copied and one flag of the copy is set.
StartSave ==
    /\ save.pc = "idle"
    /\ cache # None
    /\ count.saves < MaxSaves
    /\ \E f \in Flags, on \in BOOLEAN :
          save' = [pc |-> "queued", flag |-> f, config |-> [cache EXCEPT ![f] = on],
                    read |-> None]
    /\ Copied("save", "cache")
    /\ count' = [count EXCEPT !.saves = @ + 1]
    /\ UNCHANGED <<vendor, late, cache, pollCount, poll, since>>

\* The write lock is free for this save.
SendSave ==
    /\ save.pc = "queued"
    /\ save' = [save EXCEPT !.pc = "sent"]
    /\ UNCHANGED <<vendor, late, cache, pollCount, poll, since, unseen, count>>

\* Success or failure, the object is re-read.
SaveAnswered ==
    /\ save.pc = "sent"
    /\ VendorHolds(save.config, late)
    /\ save' = [save EXCEPT !.pc = "reread"]
    /\ since' = 0
    /\ UNCHANGED <<cache, pollCount, poll, count>>

\* An error: the vendor refused the object, stored it, or will store it
\* seconds later.  Rejected credentials and a malformed body (ValueError is
\* not one of WRITE_FAILURES) skip the re-read.
SaveFails ==
    /\ save.pc = "sent"
    /\ Fault
    /\ save' \in {NoSave, [save EXCEPT !.pc = "reread"]}
    /\ \/ UNCHANGED <<vendor, late, unseen>>
       \/ VendorHolds(save.config, late)
       \/ /\ late' = late \cup
                 {[flag |-> save.flag, config |-> save.config, unseen |-> unseen["save"]]}
          /\ UNCHANGED <<vendor, unseen>>
    /\ since' = 0
    /\ UNCHANGED <<cache, pollCount, poll>>

\* The vendor answers the re-read.
RereadServed ==
    /\ save.pc = "reread"
    /\ \E config \in {vendor, None} :
          Served(config) /\ save' = [save EXCEPT !.pc = "read", !.read = config]
    /\ JustServed("read")
    /\ UNCHANGED <<vendor, late, cache, pollCount, poll, since>>

RereadPublished ==
    /\ save.pc = "read"
    /\ cache' = save.read
    /\ Copied("cache", "read")
    /\ save' = NoSave
    /\ since' = 0
    /\ UNCHANGED <<vendor, late, pollCount, poll, count>>

\* Faulty variant: the switches show what was asked for.
RereadFailsOptimistically ==
    /\ save.pc \in {"reread", "read"}
    /\ Fault
    /\ cache' = save.config
    /\ save' = NoSave
    /\ UNCHANGED <<vendor, late, pollCount, poll, since, unseen>>

\* Swallowed: "the switch may lag until the next scheduled fetch".
RereadFails ==
    /\ save.pc \in {"reread", "read"}
    /\ Fault
    /\ save' = NoSave
    /\ UNCHANGED <<vendor, late, cache, pollCount, poll, since, unseen>>

----------------------------------------------------------------------------
(* The vendor.                                                             *)

VendorStoresLate ==
    /\ \E s \in late : VendorHolds(s.config, late \ {s})
    /\ since' = 0
    /\ UNCHANGED <<cache, pollCount, poll, save, count>>

\* The owner changes a flag in the phone app.
PhoneChanges ==
    /\ count.phone < MaxPhone
    /\ \E f \in Flags : VendorHolds([vendor EXCEPT ![f] = ~ @], late)
    /\ count' = [count EXCEPT !.phone = @ + 1]
    /\ since' = 0
    /\ UNCHANGED <<cache, pollCount, poll, save>>

PollStep == StartPoll \/ DevicesRead \/ NotifyConfigServed \/ NotifyConfigFetched \/ PollFails

SaveStep == SendSave \/ SaveAnswered \/ SaveFails \/ RereadServed \/ RereadPublished \/ RereadFails

Next == PollStep \/ StartSave \/ SaveStep \/ VendorStoresLate \/ PhoneChanges

Spec == Init /\ [][Next]_vars

\* Polls come round and requests end; the vendor stores what it will store.
Fairness == WF_vars(PollStep) /\ WF_vars(SaveStep) /\ WF_vars(VendorStoresLate)

FairSpec == Spec /\ Fairness

----------------------------------------------------------------------------
(* Properties.                                                             *)

\* The switches lag by no more than EveryNPolls completed polls behind the
\* last change, save or empty read, whatever failed meanwhile: neither a
\* failed fetch nor a swallowed re-read puts off the next scheduled fetch.
FreshWithinNPolls == since > EveryNPolls => cache = vendor

\* A save changes the flag it is for, and puts back only what moved after the
\* object it was made from was served: a change the switches had read when the
\* user acted is not undone, whatever was refused, lost or stored late before
\* (async_save_notify_config sends the whole object).
SaveKeepsWhatWasRead ==
    [][\A f \in Flags : vendor'[f] # vendor[f] =>
        \/ count'.phone # count.phone
        \/ save.pc = "sent" /\ save' # save /\ f \in {save.flag} \cup unseen["save"]
        \/ \E s \in late : s.config = vendor' /\ f \in {s.flag} \cup s.unseen]_vars

\* In the end the switches show the vendor's settings, and go on doing so.
NotifySettles == <>[](cache = vendor)

============================================================================
