------------------------ MODULE NotifyConfigProofs ------------------------
(***************************************************************************)
(* The account's notification settings lag by a bounded number of polls,   *)
(* and a save puts back only what had moved unseen: for any set of flags,  *)
(* any fetch cadence and any bounds.                                       *)
(***************************************************************************)
EXTENDS NotifyConfig, TLAPS

\* A fetch is under way only when it is due, and what it has fetched is the
\* vendor's object unless that has moved during this very poll.
FetchInv ==
    /\ poll.pc \in {"fetch", "fetched"} => pollCount = 0
    /\ poll.pc = "fetched" => poll.read \in {vendor, None} \/ since = 0

\* The switches lag no longer than the poll count shows: it is back at zero
\* after EveryNPolls polls, and then the settings are fetched.
LagInv == cache # vendor => since <= IF pollCount = 0 THEN EveryNPolls ELSE pollCount

\* What differs from the vendor's object has moved since the copy was served.
Accounted(config, moved) == \A f \in Flags : config[f] # vendor[f] => f \in moved

SeenInv ==
    /\ cache # None => Accounted(cache, unseen["cache"])
    /\ poll.pc = "fetched" /\ poll.read # None => Accounted(poll.read, unseen["poll"])
    /\ save.pc # "idle" => Accounted(save.config, unseen["save"] \cup {save.flag})
    /\ save.pc = "read" /\ save.read # None => Accounted(save.read, unseen["read"])
    /\ \A s \in late : Accounted(s.config, s.unseen \cup {s.flag})

NotifyInv == TypeOK /\ FetchInv /\ LagInv /\ SeenInv

\* The records of a save under way.
LEMMA SaveType ==
  ASSUME TypeOK, save.pc # "idle"
  PROVE  /\ save \in [pc : {"queued", "sent", "reread", "read"}, flag : Flags,
                      config : Config, read : Config \cup {None}]
         /\ save.flag \in Flags /\ save.config \in Config
         /\ save.read \in Config \cup {None}
  BY DEF TypeOK, NoSave

LEMMA InitNotifyInv ==
  ASSUME NotifyAssumption, Init
  PROVE  NotifyInv
  <1>1. TypeOK
    BY DEF NotifyAssumption, Init, TypeOK, Config, Copies, NoPoll, NoSave
  <1>2. FetchInv /\ LagInv
    BY DEF NotifyAssumption, Init, FetchInv, LagInv, NoPoll
  <1>3. SeenInv
    BY DEF Init, SeenInv, NoPoll, NoSave
  <1> QED
    BY <1>1, <1>2, <1>3 DEF NotifyInv

----------------------------------------------------------------------------
(* The poll.                                                               *)

\* Completing a poll moves the count round.
LEMMA CountPollType ==
  ASSUME NotifyAssumption, NEW p \in 0 .. EveryNPolls - 1
  PROVE  (p + 1) % EveryNPolls = IF p + 1 = EveryNPolls THEN 0 ELSE p + 1
  BY DEF NotifyAssumption

LEMMA CompletePollKeepsType ==
  ASSUME NotifyAssumption, TypeOK, NEW read \in Config \cup {None}, CompletePoll(read)
  PROVE  /\ poll' = NoPoll
         /\ poll' \in [pc : {"idle", "devices", "fetch", "fetched"}, read : Config \cup {None}]
         /\ pollCount' \in 0 .. EveryNPolls - 1
         /\ pollCount' = IF pollCount + 1 = EveryNPolls THEN 0 ELSE pollCount + 1
         /\ cache' \in Config \cup {None}
         /\ since' \in 0 .. EveryNPolls + 1
  <1>1. pollCount \in 0 .. EveryNPolls - 1 /\ since \in 0 .. EveryNPolls + 1
    BY DEF TypeOK
  <1>2. pollCount' = IF pollCount + 1 = EveryNPolls THEN 0 ELSE pollCount + 1
    BY <1>1, CountPollType DEF CompletePoll, CountPoll
  <1>3. since' \in 0 .. EveryNPolls + 1
    BY <1>1 DEF CompletePoll, NotifyAssumption
  <1> QED
    BY <1>1, <1>2, <1>3 DEF CompletePoll, NoPoll, NotifyAssumption

LEMMA StartPollKeepsInv ==
  ASSUME NotifyAssumption, NotifyInv, StartPoll
  PROVE  NotifyInv'
  <1>1. poll'.pc = "devices" /\ poll' = [pc |-> "devices", read |-> None]
    BY DEF StartPoll, NoPoll
  <1>2. UNCHANGED <<vendor, late, cache, pollCount, save, since, unseen, count>>
    BY DEF StartPoll
  <1>3. TypeOK'
    BY <1>1, <1>2 DEF NotifyInv, TypeOK
  <1>4. FetchInv' /\ LagInv' /\ SeenInv'
    BY <1>1, <1>2 DEF NotifyInv, FetchInv, LagInv, SeenInv, Accounted
  <1> QED
    BY <1>3, <1>4 DEF NotifyInv

LEMMA PollFailsKeepsInv ==
  ASSUME NotifyAssumption, NotifyInv, PollFails
  PROVE  NotifyInv'
  <1>1. poll' = [pc |-> "idle", read |-> None]
    BY DEF PollFails, NoPoll
  <1>2. UNCHANGED <<vendor, late, cache, pollCount, save, since, unseen>>
    BY DEF PollFails
  <1>3. count' \in [saves : 0 .. MaxSaves, faults : 0 .. MaxFaults, phone : 0 .. MaxPhone]
    BY DEF PollFails, Fault, NotifyInv, TypeOK, NotifyAssumption
  <1>4. TypeOK'
    BY <1>1, <1>2, <1>3 DEF NotifyInv, TypeOK
  <1>5. FetchInv' /\ LagInv' /\ SeenInv'
    BY <1>1, <1>2 DEF NotifyInv, FetchInv, LagInv, SeenInv, Accounted
  <1> QED
    BY <1>4, <1>5 DEF NotifyInv

LEMMA DevicesReadKeepsInv ==
  ASSUME NotifyAssumption, NotifyInv, DevicesRead
  PROVE  NotifyInv'
  <1>1. UNCHANGED <<vendor, late, save, unseen, count>>
    BY DEF DevicesRead
  <1>2. CASE FetchDue /\ poll' = [poll EXCEPT !.pc = "fetch"]
             /\ UNCHANGED <<cache, pollCount, since>>
    <2>1. poll'.pc = "fetch" /\ pollCount = 0
      BY <1>2 DEF FetchDue, NotifyInv, TypeOK
    <2>2. TypeOK'
      BY <1>1, <1>2 DEF NotifyInv, TypeOK
    <2>3. FetchInv' /\ LagInv' /\ SeenInv'
      BY <1>1, <1>2, <2>1 DEF NotifyInv, FetchInv, LagInv, SeenInv, Accounted
    <2> QED
      BY <2>2, <2>3 DEF NotifyInv
  <1>3. CASE ~ FetchDue /\ CompletePoll(cache)
    <2>1. /\ pollCount # 0 /\ cache' = cache /\ poll.pc = "devices"
          /\ poll' = [pc |-> "idle", read |-> None]
      BY <1>3 DEF FetchDue, DevicesRead, CompletePoll, NoPoll
    <2>2. /\ pollCount' = IF pollCount + 1 = EveryNPolls THEN 0 ELSE pollCount + 1
          /\ TypeOK'
      BY <1>1, <1>3, CompletePollKeepsType DEF NotifyInv, TypeOK
    <2>3. since' = IF since > EveryNPolls THEN since ELSE since + 1
      BY <1>3, <2>1 DEF CompletePoll
    <2>4. LagInv'
      BY <1>1, <2>1, <2>2, <2>3 DEF LagInv, NotifyInv, TypeOK, NotifyAssumption
    <2>5. FetchInv' /\ SeenInv'
      BY <1>1, <2>1 DEF NotifyInv, FetchInv, SeenInv, Accounted
    <2> QED
      BY <2>2, <2>4, <2>5 DEF NotifyInv
  <1> QED
    BY <1>2, <1>3 DEF DevicesRead

LEMMA NotifyConfigServedKeepsInv ==
  ASSUME NotifyAssumption, NotifyInv, NotifyConfigServed
  PROVE  NotifyInv'
  <1>1. UNCHANGED <<vendor, late, cache, pollCount, save, since>>
    BY DEF NotifyConfigServed
  <1>2. PICK config \in {vendor, None} :
          Served(config) /\ poll' = [pc |-> "fetched", read |-> config]
    BY DEF NotifyConfigServed
  <1>3. count' \in [saves : 0 .. MaxSaves, faults : 0 .. MaxFaults, phone : 0 .. MaxPhone]
    BY <1>2 DEF Served, Fault, NotifyInv, TypeOK, NotifyAssumption
  <1>4. /\ unseen' \in [Copies -> SUBSET Flags]
        /\ \A c \in Copies \ {"poll"} : unseen'[c] = unseen[c]
    BY DEF NotifyConfigServed, JustServed, NotifyInv, TypeOK
  <1>5. TypeOK'
    BY <1>1, <1>2, <1>3, <1>4 DEF NotifyInv, TypeOK
  <1>6. FetchInv' /\ LagInv'
    BY <1>1, <1>2 DEF NotifyInv, FetchInv, LagInv, NotifyConfigServed
  <1>7. SeenInv'
    BY <1>1, <1>2, <1>4 DEF NotifyInv, SeenInv, Accounted, Copies
  <1> QED
    BY <1>5, <1>6, <1>7 DEF NotifyInv

LEMMA NotifyConfigFetchedKeepsInv ==
  ASSUME NotifyAssumption, NotifyInv, NotifyConfigFetched
  PROVE  NotifyInv'
  <1>1. UNCHANGED <<vendor, late, save, count>> /\ poll.pc = "fetched" /\ pollCount = 0
    BY DEF NotifyConfigFetched, NotifyInv, FetchInv
  <1>2. poll.read \in Config \cup {None} /\ CompletePoll(poll.read)
    BY DEF NotifyConfigFetched, NotifyInv, TypeOK
  <1>3. poll' = [pc |-> "idle", read |-> None] /\ cache' = poll.read
    BY <1>2 DEF CompletePoll, NoPoll
  <1>4. /\ unseen' \in [Copies -> SUBSET Flags] /\ unseen'["cache"] = unseen["poll"]
        /\ \A c \in Copies \ {"cache"} : unseen'[c] = unseen[c]
    BY DEF NotifyConfigFetched, Copied, NotifyInv, TypeOK, Copies
  <1>5. TypeOK' /\ pollCount' = IF 1 = EveryNPolls THEN 0 ELSE 1
    BY <1>1, <1>2, <1>4, CompletePollKeepsType DEF NotifyInv, TypeOK
  <1>6. LagInv'
    <2>1. CASE poll.read = vendor
      BY <1>1, <1>3, <2>1 DEF LagInv
    <2>2. CASE poll.read = None
      <3>1. since' = 0
        BY <1>1, <1>2, <2>2 DEF CompletePoll
      <3> QED
        BY <3>1, <1>5 DEF LagInv, NotifyAssumption
    <2>3. CASE poll.read \notin {vendor, None}
      <3>1. since = 0
        BY <1>1, <2>3 DEF NotifyInv, FetchInv
      <3>2. since' = 1
        BY <1>2, <2>3, <3>1 DEF CompletePoll, NotifyAssumption
      <3> QED
        BY <3>2, <1>5 DEF LagInv, NotifyAssumption
    <2> QED
      BY <2>1, <2>2, <2>3
  <1>7. FetchInv'
    BY <1>3 DEF FetchInv
  <1>8. SeenInv'
    BY <1>1, <1>3, <1>4 DEF NotifyInv, SeenInv, Accounted, Copies
  <1> QED
    BY <1>5, <1>6, <1>7, <1>8 DEF NotifyInv

----------------------------------------------------------------------------
(* The vendor's object moves.                                              *)

\* Whatever a copy had not seen of the vendor's object it has not seen of the
\* next one, and the move is added to it.
LEMMA VendorHoldsKeepsSeen ==
  ASSUME NotifyInv, NEW config \in Config,
         NEW L \in SUBSET late, VendorHolds(config, L),
         UNCHANGED <<cache, poll>>,
         save'.pc # "idle" =>
            /\ save.pc # "idle" /\ save'.pc # "read"
            /\ save'.config = save.config /\ save'.flag = save.flag
         \/ save' = save
  PROVE  /\ vendor' \in Config
         /\ late' \subseteq [flag : Flags, config : Config, unseen : SUBSET Flags]
         /\ unseen' \in [Copies -> SUBSET Flags]
         /\ SeenInv'
  <1> DEFINE moved == {f \in Flags : config[f] # vendor[f]}
  <1>1. vendor' = config /\ late' = {[s EXCEPT !.unseen = @ \cup moved] : s \in L}
    BY DEF VendorHolds
  <1>2. \A c \in Copies : unseen'[c] = unseen[c] \cup moved
    BY DEF VendorHolds
  <1>3. unseen' \in [Copies -> SUBSET Flags]
    BY DEF VendorHolds, NotifyInv, TypeOK
  <1>4. late \subseteq [flag : Flags, config : Config, unseen : SUBSET Flags]
    BY DEF NotifyInv, TypeOK
  <1>5. \A s \in late' : \E z \in late :
          s = [flag |-> z.flag, config |-> z.config, unseen |-> z.unseen \cup moved]
    BY <1>1, <1>4
  <1>6. late' \subseteq [flag : Flags, config : Config, unseen : SUBSET Flags]
    BY <1>4, <1>5
  <1>7. ASSUME NEW c, NEW seen, Accounted(c, seen)
        PROVE  \A f \in Flags : c[f] # vendor'[f] => f \in seen \cup moved
    BY <1>1, <1>7 DEF Accounted
  <1>8. \A s \in late' : \A f \in Flags :
          s.config[f] # vendor'[f] => f \in s.unseen \cup {s.flag}
    <2>1. SUFFICES ASSUME NEW s \in late', NEW f \in Flags, s.config[f] # vendor'[f]
                   PROVE  f \in s.unseen \cup {s.flag}
      OBVIOUS
    <2>2. PICK z \in late :
            s = [flag |-> z.flag, config |-> z.config, unseen |-> z.unseen \cup moved]
      BY <1>5
    <2>3. Accounted(z.config, z.unseen \cup {z.flag})
      BY DEF NotifyInv, SeenInv
    <2> QED
      BY <1>7, <2>1, <2>2, <2>3
  <1>9. (cache # None => \A f \in Flags : cache[f] # vendor'[f] => f \in unseen'["cache"])
    BY <1>2, <1>7 DEF NotifyInv, SeenInv, Copies
  <1>10. poll.pc = "fetched" /\ poll.read # None =>
            \A f \in Flags : poll.read[f] # vendor'[f] => f \in unseen'["poll"]
    BY <1>2, <1>7 DEF NotifyInv, SeenInv, Copies
  <1>11. save.pc # "idle" =>
            \A f \in Flags : save.config[f] # vendor'[f] => f \in unseen'["save"] \cup {save.flag}
    <2>1. SUFFICES ASSUME save.pc # "idle", NEW f \in Flags, save.config[f] # vendor'[f]
                   PROVE  f \in unseen["save"] \cup moved \cup {save.flag}
      BY <1>2 DEF Copies
    <2>2. Accounted(save.config, unseen["save"] \cup {save.flag})
      BY <2>1 DEF NotifyInv, SeenInv
    <2> QED
      BY <1>7, <2>1, <2>2
  <1>12. save.pc = "read" /\ save.read # None =>
            \A f \in Flags : save.read[f] # vendor'[f] => f \in unseen'["read"]
    BY <1>2, <1>7 DEF NotifyInv, SeenInv, Copies
  <1>13. SeenInv'
    BY <1>8, <1>9, <1>10, <1>11, <1>12 DEF SeenInv, Accounted
  <1> QED
    BY <1>1, <1>3, <1>6, <1>13

\* A save, the late storing of one and a change in the phone app all put the
\* lag back to nothing.
LEMMA LagIsReset ==
  ASSUME NotifyAssumption, NotifyInv, since' = 0, UNCHANGED <<pollCount, poll>>
  PROVE  FetchInv' /\ LagInv'
  BY DEF NotifyInv, TypeOK, FetchInv, LagInv, NotifyAssumption

LEMMA VendorStoresLateKeepsInv ==
  ASSUME NotifyAssumption, NotifyInv, VendorStoresLate
  PROVE  NotifyInv'
  <1>1. UNCHANGED <<cache, pollCount, poll, save, count>> /\ since' = 0
    BY DEF VendorStoresLate
  <1>2. PICK s \in late : VendorHolds(s.config, late \ {s})
    BY DEF VendorStoresLate
  <1>3. s.config \in Config
    BY DEF NotifyInv, TypeOK
  <1>4. /\ vendor' \in Config
        /\ late' \subseteq [flag : Flags, config : Config, unseen : SUBSET Flags]
        /\ unseen' \in [Copies -> SUBSET Flags]
        /\ SeenInv'
    BY <1>1, <1>2, <1>3, VendorHoldsKeepsSeen
  <1>5. TypeOK'
    BY <1>1, <1>4 DEF NotifyInv, TypeOK
  <1> QED
    BY <1>1, <1>4, <1>5, LagIsReset DEF NotifyInv

LEMMA PhoneChangesKeepsInv ==
  ASSUME NotifyAssumption, NotifyInv, PhoneChanges
  PROVE  NotifyInv'
  <1>1. UNCHANGED <<cache, pollCount, poll, save>> /\ since' = 0
    BY DEF PhoneChanges
  <1>2. PICK f \in Flags : VendorHolds([vendor EXCEPT ![f] = ~ @], late)
    BY DEF PhoneChanges
  <1>3. [vendor EXCEPT ![f] = ~ @] \in Config
    BY DEF NotifyInv, TypeOK, Config
  <1>4. /\ vendor' \in Config
        /\ late' \subseteq [flag : Flags, config : Config, unseen : SUBSET Flags]
        /\ unseen' \in [Copies -> SUBSET Flags]
        /\ SeenInv'
    BY <1>1, <1>2, <1>3, VendorHoldsKeepsSeen
  <1>5. count' \in [saves : 0 .. MaxSaves, faults : 0 .. MaxFaults, phone : 0 .. MaxPhone]
    BY DEF PhoneChanges, NotifyInv, TypeOK, NotifyAssumption
  <1>6. TypeOK'
    BY <1>1, <1>4, <1>5 DEF NotifyInv, TypeOK
  <1> QED
    BY <1>1, <1>4, <1>6, LagIsReset DEF NotifyInv

----------------------------------------------------------------------------
(* The save.                                                               *)

LEMMA StartSaveKeepsInv ==
  ASSUME NotifyAssumption, NotifyInv, StartSave
  PROVE  NotifyInv'
  <1>1. UNCHANGED <<vendor, late, cache, pollCount, poll, since>> /\ cache # None
    BY DEF StartSave
  <1>2. PICK f \in Flags, on \in BOOLEAN :
          save' = [pc |-> "queued", flag |-> f, config |-> [cache EXCEPT ![f] = on],
                   read |-> None]
    BY DEF StartSave
  <1>3. cache \in Config /\ [cache EXCEPT ![f] = on] \in Config
    BY <1>1 DEF NotifyInv, TypeOK, Config
  <1>4. count' \in [saves : 0 .. MaxSaves, faults : 0 .. MaxFaults, phone : 0 .. MaxPhone]
    BY DEF StartSave, NotifyInv, TypeOK, NotifyAssumption
  <1>5. /\ unseen' \in [Copies -> SUBSET Flags] /\ unseen'["save"] = unseen["cache"]
        /\ \A c \in Copies \ {"save"} : unseen'[c] = unseen[c]
    BY DEF StartSave, Copied, NotifyInv, TypeOK, Copies
  <1>6. TypeOK'
    BY <1>1, <1>2, <1>3, <1>4, <1>5 DEF NotifyInv, TypeOK
  <1>7. FetchInv' /\ LagInv'
    BY <1>1 DEF NotifyInv, FetchInv, LagInv
  <1>8. Accounted([cache EXCEPT ![f] = on], unseen["cache"] \cup {f})
    BY <1>1, <1>3 DEF NotifyInv, SeenInv, Accounted, Config
  <1>9. SeenInv'
    BY <1>1, <1>2, <1>5, <1>8 DEF NotifyInv, SeenInv, Accounted, Copies
  <1> QED
    BY <1>6, <1>7, <1>9 DEF NotifyInv

LEMMA SendSaveKeepsInv ==
  ASSUME NotifyAssumption, NotifyInv, SendSave
  PROVE  NotifyInv'
  <1>1. UNCHANGED <<vendor, late, cache, pollCount, poll, since, unseen, count>>
    BY DEF SendSave
  <1>2. save.pc = "queued" /\ save' = [save EXCEPT !.pc = "sent"]
    BY DEF SendSave
  <1>3. save'.pc = "sent" /\ save'.config = save.config /\ save'.flag = save.flag
    BY <1>2, SaveType DEF NotifyInv
  <1>4. TypeOK'
    BY <1>1, <1>2, SaveType DEF NotifyInv, TypeOK
  <1>5. FetchInv' /\ LagInv' /\ SeenInv'
    BY <1>1, <1>2, <1>3 DEF NotifyInv, FetchInv, LagInv, SeenInv, Accounted
  <1> QED
    BY <1>4, <1>5 DEF NotifyInv

LEMMA SaveAnsweredKeepsInv ==
  ASSUME NotifyAssumption, NotifyInv, SaveAnswered
  PROVE  NotifyInv'
  <1>1. UNCHANGED <<cache, pollCount, poll, count>> /\ since' = 0
    BY DEF SaveAnswered
  <1>2. save.pc = "sent" /\ save' = [save EXCEPT !.pc = "reread"]
    BY DEF SaveAnswered
  <1>3. save'.pc = "reread" /\ save'.config = save.config /\ save'.flag = save.flag
    BY <1>2, SaveType DEF NotifyInv
  <1>4. /\ vendor' \in Config
        /\ late' \subseteq [flag : Flags, config : Config, unseen : SUBSET Flags]
        /\ unseen' \in [Copies -> SUBSET Flags]
        /\ SeenInv'
    <2>1. VendorHolds(save.config, late) /\ save.config \in Config
      BY <1>2, SaveType DEF SaveAnswered, NotifyInv
    <2> QED
      BY <1>1, <1>2, <1>3, <2>1, VendorHoldsKeepsSeen
  <1>5. TypeOK'
    BY <1>1, <1>2, <1>4, SaveType DEF NotifyInv, TypeOK
  <1> QED
    BY <1>1, <1>4, <1>5, LagIsReset DEF NotifyInv

LEMMA SaveFailsKeepsInv ==
  ASSUME NotifyAssumption, NotifyInv, SaveFails
  PROVE  NotifyInv'
  <1>1. UNCHANGED <<cache, pollCount, poll>> /\ since' = 0
    BY DEF SaveFails
  <1>2. save.pc = "sent" /\ save' \in {NoSave, [save EXCEPT !.pc = "reread"]}
    BY DEF SaveFails
  <1>3. save'.pc # "idle" =>
          save'.pc = "reread" /\ save'.config = save.config /\ save'.flag = save.flag
    BY <1>2, SaveType DEF NotifyInv, NoSave
  <1>4. count' \in [saves : 0 .. MaxSaves, faults : 0 .. MaxFaults, phone : 0 .. MaxPhone]
    BY DEF SaveFails, Fault, NotifyInv, TypeOK, NotifyAssumption
  <1>5. /\ vendor' \in Config
        /\ late' \subseteq [flag : Flags, config : Config, unseen : SUBSET Flags]
        /\ unseen' \in [Copies -> SUBSET Flags]
        /\ SeenInv'
    <2>1. CASE UNCHANGED <<vendor, late, unseen>>
      BY <1>1, <1>2, <1>3, <2>1 DEF NotifyInv, TypeOK, SeenInv, Accounted
    <2>2. CASE VendorHolds(save.config, late)
      <3>1. save.config \in Config
        BY <1>2, SaveType DEF NotifyInv
      <3> QED
        BY <1>1, <1>2, <1>3, <2>2, <3>1, VendorHoldsKeepsSeen
    <2>3. CASE /\ UNCHANGED <<vendor, unseen>>
               /\ late' = late \cup
                    {[flag |-> save.flag, config |-> save.config, unseen |-> unseen["save"]]}
      <3>1. /\ save.flag \in Flags /\ save.config \in Config
            /\ unseen["save"] \in SUBSET Flags
        BY <1>2, SaveType DEF NotifyInv, TypeOK, Copies
      <3>2. Accounted(save.config, unseen["save"] \cup {save.flag})
        BY <1>2 DEF NotifyInv, SeenInv
      <3>3. SeenInv'
        BY <1>1, <1>3, <2>3, <3>2 DEF NotifyInv, SeenInv, Accounted
      <3> QED
        BY <2>3, <3>1, <3>3 DEF NotifyInv, TypeOK
    <2> QED
      BY <2>1, <2>2, <2>3 DEF SaveFails
  <1>6. TypeOK'
    BY <1>1, <1>2, <1>4, <1>5, SaveType DEF NotifyInv, TypeOK
  <1> QED
    BY <1>1, <1>5, <1>6, LagIsReset DEF NotifyInv

LEMMA RereadServedKeepsInv ==
  ASSUME NotifyAssumption, NotifyInv, RereadServed
  PROVE  NotifyInv'
  <1>1. UNCHANGED <<vendor, late, cache, pollCount, poll, since>> /\ save.pc = "reread"
    BY DEF RereadServed
  <1>2. PICK config \in {vendor, None} :
          Served(config) /\ save' = [save EXCEPT !.pc = "read", !.read = config]
    BY DEF RereadServed
  <1>3. /\ save'.pc = "read" /\ save'.read = config
        /\ save'.config = save.config /\ save'.flag = save.flag
    BY <1>1, <1>2, SaveType DEF NotifyInv
  <1>4. count' \in [saves : 0 .. MaxSaves, faults : 0 .. MaxFaults, phone : 0 .. MaxPhone]
    BY <1>2 DEF Served, Fault, NotifyInv, TypeOK, NotifyAssumption
  <1>5. /\ unseen' \in [Copies -> SUBSET Flags]
        /\ \A c \in Copies \ {"read"} : unseen'[c] = unseen[c]
    BY DEF RereadServed, JustServed, NotifyInv, TypeOK
  <1>6. TypeOK'
    <2>1. save' \in [pc : {"queued", "sent", "reread", "read"}, flag : Flags,
                     config : Config, read : Config \cup {None}]
      BY <1>1, <1>2, SaveType DEF NotifyInv, TypeOK
    <2> QED
      BY <1>1, <1>4, <1>5, <2>1 DEF NotifyInv, TypeOK
  <1>7. FetchInv' /\ LagInv'
    BY <1>1 DEF NotifyInv, FetchInv, LagInv
  <1>8. SeenInv'
    BY <1>1, <1>3, <1>5 DEF NotifyInv, SeenInv, Accounted, Copies
  <1> QED
    BY <1>6, <1>7, <1>8 DEF NotifyInv

LEMMA RereadPublishedKeepsInv ==
  ASSUME NotifyAssumption, NotifyInv, RereadPublished
  PROVE  NotifyInv'
  <1>1. UNCHANGED <<vendor, late, pollCount, poll, count>> /\ since' = 0
    BY DEF RereadPublished
  <1>2. save.pc = "read" /\ cache' = save.read /\ save' = NoSave
    BY DEF RereadPublished
  <1>3. /\ unseen' \in [Copies -> SUBSET Flags] /\ unseen'["cache"] = unseen["read"]
        /\ \A c \in Copies \ {"cache"} : unseen'[c] = unseen[c]
    BY DEF RereadPublished, Copied, NotifyInv, TypeOK, Copies
  <1>4. save.read \in Config \cup {None}
    BY <1>2, SaveType DEF NotifyInv
  <1>5. TypeOK'
    BY <1>1, <1>2, <1>3, <1>4 DEF NotifyInv, TypeOK
  <1>6. SeenInv'
    BY <1>1, <1>2, <1>3 DEF NotifyInv, SeenInv, Accounted, Copies, NoSave
  <1> QED
    BY <1>1, <1>5, <1>6, LagIsReset DEF NotifyInv

LEMMA RereadFailsKeepsInv ==
  ASSUME NotifyAssumption, NotifyInv, RereadFails
  PROVE  NotifyInv'
  <1>1. UNCHANGED <<vendor, late, cache, pollCount, poll, since, unseen>> /\ save' = NoSave
    BY DEF RereadFails
  <1>2. count' \in [saves : 0 .. MaxSaves, faults : 0 .. MaxFaults, phone : 0 .. MaxPhone]
    BY DEF RereadFails, Fault, NotifyInv, TypeOK, NotifyAssumption
  <1>3. TypeOK'
    BY <1>1, <1>2 DEF NotifyInv, TypeOK
  <1>4. FetchInv' /\ LagInv' /\ SeenInv'
    BY <1>1 DEF NotifyInv, FetchInv, LagInv, SeenInv, Accounted, NoSave
  <1> QED
    BY <1>3, <1>4 DEF NotifyInv

----------------------------------------------------------------------------
(* The results.                                                            *)

LEMMA NextNotifyInv ==
  ASSUME NotifyAssumption, NotifyInv, [Next]_vars
  PROVE  NotifyInv'
  <1>1. CASE PollStep
    BY <1>1, StartPollKeepsInv, DevicesReadKeepsInv, NotifyConfigServedKeepsInv,
       NotifyConfigFetchedKeepsInv, PollFailsKeepsInv DEF PollStep
  <1>2. CASE StartSave
    BY <1>2, StartSaveKeepsInv
  <1>3. CASE SaveStep
    BY <1>3, SendSaveKeepsInv, SaveAnsweredKeepsInv, SaveFailsKeepsInv,
       RereadServedKeepsInv, RereadPublishedKeepsInv, RereadFailsKeepsInv DEF SaveStep
  <1>4. CASE VendorStoresLate \/ PhoneChanges
    BY <1>4, VendorStoresLateKeepsInv, PhoneChangesKeepsInv
  <1>5. CASE UNCHANGED vars
    BY <1>5 DEF vars, NotifyInv, TypeOK, FetchInv, LagInv, SeenInv, Accounted
  <1> QED
    BY <1>1, <1>2, <1>3, <1>4, <1>5 DEF Next

\* What the whole module rests on.
THEOREM NotifyInvariant == Spec => []NotifyInv
  <1>1. Init => NotifyInv
    BY InitNotifyInv, NotifyAssumption
  <1>2. NotifyInv /\ [Next]_vars => NotifyInv'
    BY NextNotifyInv, NotifyAssumption
  <1> QED
    BY <1>1, <1>2, PTL DEF Spec

\* The settings keep their types, for any flags and any bounds.
THEOREM NotifyTypeCorrect == Spec => []TypeOK
  <1>1. NotifyInv => TypeOK
    BY DEF NotifyInv
  <1> QED
    BY <1>1, NotifyInvariant, PTL

\* Whatever polls, saves and re-reads fail, the switches lag by no more than
\* NOTIFY_CONFIG_EVERY_N_POLLS completed polls, whatever that is set to.
THEOREM SwitchesLagNoLonger == Spec => []FreshWithinNPolls
  <1>1. NotifyInv => FreshWithinNPolls
    BY NotifyAssumption
       DEF NotifyInv, LagInv, FreshWithinNPolls, TypeOK, NotifyAssumption
  <1> QED
    BY <1>1, NotifyInvariant, PTL

\* A save of the whole object puts back, of the flags it is not for, only
\* what moved after the object it was made from was served.
THEOREM SavesKeepWhatWasRead == Spec => SaveKeepsWhatWasRead
  <1> DEFINE Kept ==
        \A f \in Flags : vendor'[f] # vendor[f] =>
          \/ count'.phone # count.phone
          \/ save.pc = "sent" /\ save' # save /\ f \in {save.flag} \cup unseen["save"]
          \/ \E s \in late : s.config = vendor' /\ f \in {s.flag} \cup s.unseen
  <1>1. ASSUME NotifyInv, [Next]_vars
        PROVE  Kept
    <2>1. CASE PollStep \/ StartSave \/ UNCHANGED vars
      BY <2>1 DEF PollStep, StartPoll, DevicesRead, NotifyConfigServed, NotifyConfigFetched,
                  PollFails, StartSave, vars
    <2>2. CASE SendSave \/ RereadServed \/ RereadPublished \/ RereadFails
      BY <2>2 DEF SendSave, RereadServed, RereadPublished, RereadFails
    <2>3. CASE SaveAnswered \/ SaveFails
      <3>1. save.pc = "sent" /\ save' \in {NoSave, [save EXCEPT !.pc = "reread"]}
        BY <2>3 DEF SaveAnswered, SaveFails
      <3>2. vendor' = vendor \/ vendor' = save.config
        BY <2>3 DEF SaveAnswered, SaveFails, VendorHolds
      <3>3. save' # save
        BY <3>1, SaveType, <1>1 DEF NotifyInv, NoSave
      <3>4. Accounted(save.config, unseen["save"] \cup {save.flag})
        BY <1>1, <3>1 DEF NotifyInv, SeenInv
      <3> QED
        BY <3>1, <3>2, <3>3, <3>4 DEF Accounted
    <2>4. CASE VendorStoresLate
      <3>1. PICK s \in late : vendor' = s.config
        BY <2>4 DEF VendorStoresLate, VendorHolds
      <3>2. Accounted(s.config, s.unseen \cup {s.flag})
        BY <1>1 DEF NotifyInv, SeenInv
      <3> QED
        BY <3>1, <3>2 DEF Accounted
    <2>5. CASE PhoneChanges
      BY <2>5, <1>1 DEF PhoneChanges, NotifyInv, TypeOK
    <2> QED
      BY <1>1, <2>1, <2>2, <2>3, <2>4, <2>5 DEF Next, SaveStep
  <1>2. NotifyInv /\ [Next]_vars => [Kept]_vars
    BY <1>1
  <1> QED
    BY <1>2, NotifyInvariant, PTL DEF Spec, SaveKeepsWhatWasRead
============================================================================
