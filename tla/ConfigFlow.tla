----------------------------- MODULE ConfigFlow -----------------------------
(***************************************************************************)
(* The config flows of the integration and the entries they make: adding   *)
(* an account, a reauth prompt, a reconfiguration, and the options form.   *)
(* A flow that has its form back awaits a login with what was typed in,    *)
(* and the other flows, the vendor and the user go on meanwhile: what was  *)
(* checked before the login may have changed after it.                     *)
(*                                                                         *)
(* Home Assistant's part: a flow that sets its unique id ends if another   *)
(* flow in progress or an entry has it; a reauth flow carries its entry's  *)
(* unique id, and is not started while a reauth or a reconfiguration of    *)
(* the entry is in progress; any number of reconfigurations may be.  A     *)
(* flow in progress goes when its dialog is closed, and when Home Assistant*)
(* ends it: a reauth with its entry, any flow when an entry is created     *)
(* with its unique id.  The step of a flow that is gone still gets its     *)
(* login's answer: it makes no entry any more, and still updates the one   *)
(* it is for.  An entry that is gone cannot be updated; an update asks for *)
(* a reload, which comes later.                                            *)
(*                                                                         *)
(* An email is one spelling of an account's address.  The token of a login *)
(* is represented by the account it is for.                                *)
(***************************************************************************)
EXTENDS Integers, FiniteSets

CONSTANTS
    Emails,         \* what may be typed in, stripped
    Account,        \* Account[m]: the account of email m: its lower-cased form
    Passwords,
    Entries,        \* the ids of entries, each used once
    Dialogs,        \* where flows run: each is for one flow at a time
    MinInterval, MaxInterval, DefaultInterval,   \* the SCAN_INTERVALs
    Intervals,      \* what may be stored as, or typed in for, the interval
    None,           \* nothing: no unique id, entry, snapshot or option
    MaxFlows,       \* bound: flows started
    MaxFaults,      \* bound: logins that fail for another reason
    MaxEdits        \* bound: edits of the storage

Accounts == {Account[m] : m \in Emails}

Band == MinInterval .. MaxInterval

EntryData == [email : Emails, unique_id : Accounts, password : Passwords, token : Accounts]

Snapshot == [token : Accounts, interval : Band]

ASSUME FlowAssumption ==
    /\ Account \in [Emails -> Accounts]
    /\ {MinInterval, MaxInterval, DefaultInterval} \subseteq Int
    /\ DefaultInterval \in Band
    /\ None \notin Accounts \cup Int /\ None \notin Entries
    /\ None \notin EntryData /\ None \notin Snapshot
    /\ {MaxFlows, MaxFaults, MaxEdits} \subseteq Nat

VARIABLES
    right,      \* the vendor: right[a], the password of account a
    entry,      \* entry[e]: the data and unique id of entry e
    used,       \* history: the ids of entries that were ever created
    options,    \* options[e]: the stored poll interval
    running,    \* running[e]: what e's coordinator was set up with
    reloadDue,  \* the entries Home Assistant is about to set up again
    flow,       \* flow[d]: the flow of dialog d, and how far it has come
    accepted,   \* history: the <<account, password>> pairs that ever logged in
    crossed,    \* history: the entries a reauth hit after a reconfiguration
    contested,  \* history: the accounts a lapsed reconfiguration wrote
    count       \* history: what the bounds count

entryVars == <<entry, used, options, running, reloadDue>>
historyVars == <<accepted, crossed, contested>>
vars == <<right, entryVars, flow, historyVars, count>>

FlowState ==
    [kind : {"user", "reauth", "reconfigure"}, of : Entries \cup {None},
     pc : {"closed", "form", "validating", "abandoned"}, unique_id : Accounts \cup {None},
     email : Emails \cup {None}, password : Passwords \cup {None}, own : BOOLEAN]

Closed ==
    [kind |-> "user", of |-> None, pc |-> "closed", unique_id |-> None,
     email |-> None, password |-> None, own |-> FALSE]

Form(k, e, uid) ==
    [Closed EXCEPT !.kind = k, !.of = e, !.pc = "form", !.unique_id = uid]

\* Flow r awaits a login; own is whether it skipped the look for duplicates,
\* because the address was its entry's own.
Validating(r, uid, m, pw, own) ==
    [r EXCEPT !.pc = "validating", !.unique_id = uid, !.email = m, !.password = pw,
              !.own = own]

\* Flow r has its form back.
Back(r) == Form(r.kind, r.of, r.unique_id)

\* Flow r is gone, and its unique id with it.  The step that awaits a login
\* for an entry goes on.
Gone(r) ==
    IF r.kind # "user" /\ r.pc \in {"validating", "abandoned"}
    THEN [r EXCEPT !.pc = "abandoned", !.unique_id = None]
    ELSE Closed

TypeOK ==
    /\ right \in [Accounts -> Passwords]
    /\ entry \in [Entries -> EntryData \cup {None}]
    /\ used \subseteq Entries
    /\ options \in [Entries -> Intervals \cup {None}]
    /\ running \in [Entries -> Snapshot \cup {None}]
    /\ reloadDue \subseteq Entries
    /\ flow \in [Dialogs -> FlowState]
    /\ accepted \subseteq Accounts \X Passwords
    /\ crossed \subseteq Entries
    /\ contested \subseteq Accounts
    /\ count \in [flows : 0 .. MaxFlows, faults : 0 .. MaxFaults, edits : 0 .. MaxEdits]

Init ==
    /\ right \in [Accounts -> Passwords]
    /\ entry = [e \in Entries |-> None]
    /\ used = {}
    /\ options = [e \in Entries |-> None]
    /\ running = [e \in Entries |-> None]
    /\ reloadDue = {}
    /\ flow = [d \in Dialogs |-> Closed]
    /\ accepted = {}
    /\ crossed = {}
    /\ contested = {}
    /\ count = [flows |-> 0, faults |-> 0, edits |-> 0]

Configured(e) == entry[e] # None

----------------------------------------------------------------------------
(* The poll interval.                                                      *)

\* Faulty variant: what is stored is trusted.
ScanIntervalTrusted(stored) == IF stored = None THEN DefaultInterval ELSE stored

\* scan_interval_seconds: clamped, and the default for nothing or for junk.
ScanInterval(stored) ==
    IF stored \notin Int THEN DefaultInterval
    ELSE IF stored < MinInterval THEN MinInterval
    ELSE IF stored > MaxInterval THEN MaxInterval
    ELSE stored

\* _as_bounded_seconds: what the options form takes, and gives an int for.
BoundedSeconds(typed) == typed \in Band

----------------------------------------------------------------------------
(* The forms.                                                              *)

\* A flow of dialog d for entry e is in progress.
InProgress(d, e) == flow[d].of = e /\ flow[d].pc \in {"form", "validating"}

\* Home Assistant shows a form, or prompts for a reauth.
OpenFlow(d) ==
    /\ flow[d].pc = "closed"
    /\ count.flows < MaxFlows
    /\ count' = [count EXCEPT !.flows = @ + 1]
    /\ \/ flow' = [flow EXCEPT ![d] = Form("user", None, None)]
       \/ \E e \in Entries :
             /\ Configured(e)
             /\ flow' = [flow EXCEPT ![d] = Form("reconfigure", e, None)]
       \/ \E e \in Entries :
             /\ Configured(e)
             /\ ~ \E g \in Dialogs : InProgress(g, e)
             /\ flow' = [flow EXCEPT ![d] = Form("reauth", e, entry[e].unique_id)]
    /\ UNCHANGED <<right, entryVars, historyVars>>

\* The user closes the dialog, be it while the login is awaited.
CloseDialog(d) ==
    /\ flow[d].pc \in {"form", "validating"}
    /\ flow' = [flow EXCEPT ![d] = Gone(@)]
    /\ UNCHANGED <<right, entryVars, historyVars, count>>

UniqueId(m) == Account[m]

\* async_set_unique_id and _abort_if_unique_id_configured end the flow.
Taken(d, uid) ==
    \/ \E g \in Dialogs \ {d} : flow[g].unique_id = uid
    \/ \E e \in Entries : Configured(e) /\ entry[e].unique_id = uid

\* async_step_user with input, up to the login.
SubmitUser(d) ==
    /\ flow[d].kind = "user" /\ flow[d].pc = "form"
    /\ \E m \in Emails, pw \in Passwords :
          flow' = [flow EXCEPT ![d] = IF Taken(d, UniqueId(m)) THEN Closed
                                      ELSE Validating(@, UniqueId(m), m, pw, FALSE)]
    /\ UNCHANGED <<right, entryVars, historyVars, count>>

\* async_step_reauth_confirm: the email is the entry's, when it is submitted.
SubmitReauth(d) ==
    /\ flow[d].kind = "reauth" /\ flow[d].pc = "form" /\ Configured(flow[d].of)
    /\ \E pw \in Passwords :
          flow' = [flow EXCEPT ![d] =
                      Validating(@, @.unique_id, entry[@.of].email, pw, FALSE)]
    /\ UNCHANGED <<right, entryVars, historyVars, count>>

\* Faulty variant: no duplicate is looked for.
SubmitReconfigureUnchecked(d) ==
    /\ flow[d].kind = "reconfigure" /\ flow[d].pc = "form" /\ Configured(flow[d].of)
    /\ \E m \in Emails, pw \in Passwords :
          flow' = [flow EXCEPT ![d] = Validating(@, UniqueId(m), m, pw, FALSE)]
    /\ UNCHANGED <<right, entryVars, historyVars, count>>

\* async_step_reconfigure: only an address that is not the entry's own is
\* checked, and becomes the flow's unique id.
SubmitReconfigure(d) ==
    /\ flow[d].kind = "reconfigure" /\ flow[d].pc = "form" /\ Configured(flow[d].of)
    /\ \E m \in Emails, pw \in Passwords :
          \/ /\ UniqueId(m) = entry[flow[d].of].unique_id
             /\ flow' = [flow EXCEPT ![d] = Validating(@, @.unique_id, m, pw, TRUE)]
          \/ /\ UniqueId(m) # entry[flow[d].of].unique_id
             /\ flow' = [flow EXCEPT ![d] =
                            IF Taken(d, UniqueId(m)) THEN Closed
                            ELSE Validating(@, UniqueId(m), m, pw, FALSE)]
    /\ UNCHANGED <<right, entryVars, historyVars, count>>

----------------------------------------------------------------------------
(* The login's answer.                                                     *)

\* The account flow d logs in to, and whether it may.
LoginAccount(d) == Account[flow[d].email]

LoginAccepted(d) ==
    /\ flow[d].pc \in {"validating", "abandoned"}
    /\ flow[d].password = right[LoginAccount(d)]
    /\ accepted' = accepted \cup {<<LoginAccount(d), flow[d].password>>}

\* invalid_auth, cannot_connect and unknown bring the form back, if the
\* dialog is still there.
LoginRefused(d) ==
    /\ flow[d].pc \in {"validating", "abandoned"}
    /\ \/ flow[d].password # right[LoginAccount(d)] /\ UNCHANGED count
       \/ count.faults < MaxFaults /\ count' = [count EXCEPT !.faults = @ + 1]
    /\ flow' = [flow EXCEPT ![d] = IF @.pc = "abandoned" THEN Closed ELSE Back(@)]
    /\ UNCHANGED <<right, entryVars, historyVars>>

Holders(a) == {e \in Entries : Configured(e) /\ entry[e].unique_id = a}

\* async_create_entry: the new entry is set up, an entry with its unique id
\* makes room for it, and the other flows with the unique id end.
CreateEntry(d) ==
    /\ flow[d].kind = "user" /\ LoginAccepted(d)
    /\ \E e \in Entries \ used :
       \E h \in IF Holders(flow[d].unique_id) = {} THEN {e} ELSE Holders(flow[d].unique_id) :
          /\ used' = used \cup {e}
          /\ entry' = [entry EXCEPT ![h] = None,
                          ![e] = [email |-> flow[d].email, unique_id |-> flow[d].unique_id,
                                  password |-> flow[d].password, token |-> LoginAccount(d)]]
          /\ options' = [options EXCEPT ![h] = None]
          /\ running' = [running EXCEPT ![h] = None]
          /\ reloadDue' = (reloadDue \ {h}) \cup {e}
          /\ crossed' = crossed \ {h}
          /\ flow' = [g \in Dialogs |->
                         IF g = d THEN Closed
                         ELSE IF \/ flow[g].unique_id = flow[d].unique_id
                                 \/ flow[g].kind = "reauth" /\ flow[g].of = h
                              THEN Gone(flow[g]) ELSE flow[g]]
    /\ UNCHANGED <<right, contested, count>>

\* Faulty variant: the entry is updated and keeps running as it was.
UpdateOnly(e, data) ==
    /\ entry' = [entry EXCEPT ![e] = data]
    /\ UNCHANGED <<used, options, running, reloadDue>>

\* async_update_reload_and_abort.
UpdateReload(e, data) ==
    /\ entry' = [entry EXCEPT ![e] = data]
    /\ reloadDue' = reloadDue \cup {e}
    /\ UNCHANGED <<used, options, running>>

\* The reauth succeeds: the password and the token are updated, the email is
\* left as it is by now.
UpdateFromReauth(d) ==
    LET e == flow[d].of IN
    /\ flow[d].kind = "reauth" /\ LoginAccepted(d) /\ Configured(e)
    /\ UpdateReload(e, [entry[e] EXCEPT !.password = flow[d].password,
                                        !.token = LoginAccount(d)])
    /\ crossed' = IF LoginAccount(d) = entry[e].unique_id
                  THEN crossed \ {e} ELSE crossed \cup {e}
    /\ flow' = [flow EXCEPT ![d] = Closed]
    /\ UNCHANGED <<right, contested, count>>

\* The reconfiguration of dialog d holds no claim to the account it is about
\* to move its entry to: its dialog was closed during the login, or it kept
\* the address its entry had when it was submitted, and the entry has
\* another one by now.
Lapsed(d) ==
    /\ LoginAccount(d) # entry[flow[d].of].unique_id
    /\ flow[d].pc = "abandoned" \/ flow[d].own

\* Faulty variant: the unique id stays the old account's.
UpdateFromReconfigureKeepsId(d) ==
    LET e == flow[d].of IN
    /\ flow[d].kind = "reconfigure" /\ LoginAccepted(d) /\ Configured(e)
    /\ UpdateReload(e, [email |-> flow[d].email, unique_id |-> entry[e].unique_id,
                        password |-> flow[d].password, token |-> LoginAccount(d)])
    /\ crossed' = crossed \ {e}
    /\ contested' = IF Lapsed(d) THEN contested \cup {LoginAccount(d)} ELSE contested
    /\ flow' = [flow EXCEPT ![d] = Closed]
    /\ UNCHANGED <<right, count>>

UpdateFromReconfigure(d) ==
    LET e == flow[d].of IN
    /\ flow[d].kind = "reconfigure" /\ LoginAccepted(d) /\ Configured(e)
    /\ UpdateReload(e, [email |-> flow[d].email, unique_id |-> UniqueId(flow[d].email),
                        password |-> flow[d].password, token |-> LoginAccount(d)])
    /\ crossed' = crossed \ {e}
    /\ contested' = IF Lapsed(d) THEN contested \cup {LoginAccount(d)} ELSE contested
    /\ flow' = [flow EXCEPT ![d] = Closed]
    /\ UNCHANGED <<right, count>>

\* A flow meets an entry that was removed: it ends in an error.
EntryGone(d) ==
    /\ flow[d].kind # "user" /\ ~ Configured(flow[d].of)
    /\ flow' = [flow EXCEPT ![d] = Closed]
    /\ UNCHANGED <<right, entryVars, historyVars, count>>

----------------------------------------------------------------------------
(* The entries.                                                            *)

\* async_setup_entry, with the coordinator's clamped interval.
SetUpEntry(e) ==
    /\ e \in reloadDue
    /\ running' = [running EXCEPT ![e] = [token |-> entry[e].token,
                                          interval |-> ScanInterval(options[e])]]
    /\ reloadDue' = reloadDue \ {e}
    /\ UNCHANGED <<right, entry, used, options, flow, historyVars, count>>

\* The options form is submitted.  A value out of the band brings the form
\* back, and a new one reloads the entry.
SubmitOptions(e) ==
    /\ Configured(e)
    /\ \E typed \in Intervals :
          /\ BoundedSeconds(typed)
          /\ typed # options[e]
          /\ options' = [options EXCEPT ![e] = typed]
    /\ reloadDue' = reloadDue \cup {e}
    /\ UNCHANGED <<right, entry, used, running, flow, historyVars, count>>

\* Home Assistant is stopped, the stored options are edited, and it starts.
EditStorage(e) ==
    /\ Configured(e)
    /\ count.edits < MaxEdits
    /\ count' = [count EXCEPT !.edits = @ + 1]
    /\ \E raw \in Intervals : options' = [options EXCEPT ![e] = raw]
    /\ running' = [d \in Entries |-> None]
    /\ reloadDue' = {d \in Entries : Configured(d)}
    /\ flow' = [d \in Dialogs |-> Closed]
    /\ UNCHANGED <<right, entry, used, historyVars>>

\* The reauth flow goes with the entry.
RemoveEntry(e) ==
    /\ Configured(e)
    /\ entry' = [entry EXCEPT ![e] = None]
    /\ options' = [options EXCEPT ![e] = None]
    /\ running' = [running EXCEPT ![e] = None]
    /\ reloadDue' = reloadDue \ {e}
    /\ flow' = [d \in Dialogs |->
                   IF flow[d].kind = "reauth" /\ flow[d].of = e THEN Gone(flow[d])
                   ELSE flow[d]]
    /\ crossed' = crossed \ {e}
    /\ UNCHANGED <<right, used, accepted, contested, count>>

ChangePassword(a) ==
    /\ \E pw \in Passwords \ {right[a]} : right' = [right EXCEPT ![a] = pw]
    /\ UNCHANGED <<entryVars, flow, historyVars, count>>

----------------------------------------------------------------------------

FlowStep(d) ==
    \/ OpenFlow(d) \/ CloseDialog(d)
    \/ SubmitUser(d) \/ SubmitReauth(d) \/ SubmitReconfigure(d)
    \/ LoginRefused(d) \/ EntryGone(d)
    \/ CreateEntry(d) \/ UpdateFromReauth(d) \/ UpdateFromReconfigure(d)

EntryStep(e) == SetUpEntry(e) \/ SubmitOptions(e) \/ EditStorage(e) \/ RemoveEntry(e)

Next ==
    \/ \E d \in Dialogs : FlowStep(d)
    \/ \E e \in Entries : EntryStep(e)
    \/ \E a \in Accounts : ChangePassword(a)

Spec == Init /\ [][Next]_vars

----------------------------------------------------------------------------
(* Properties.                                                             *)

\* The account an entry's email is an address of.
Owner == [e \in Entries |-> IF Configured(e) THEN Account[entry[e].email] ELSE None]

\* An account that no lapsed reconfiguration wrote has one entry at most,
\* however it is spelled: two dialogs may validate at once, an entry may be
\* pointed at another account or removed while they do, and the account was
\* checked before the awaited login ("Checked BEFORE the login call").  A
\* reconfiguration that lapses writes its account unchecked
\* (async_update_reload_and_abort), and only that makes a second entry
\* possible.
Registry == INSTANCE AccountRegistry WITH owner <- Owner, Nobody <- None

KeepsRegistry == Registry!Spec

\* The unique id follows the address, and the stored token and password were
\* accepted by the vendor for that account -- but for the entry whose reauth
\* was answered for the account it had before a reconfiguration
\* (async_step_reauth_confirm updates the password and the token only).
CredentialsBelong ==
    \A e \in Entries : Configured(e) =>
        /\ entry[e].unique_id = Account[entry[e].email]
        /\ e \notin crossed =>
              /\ entry[e].token = entry[e].unique_id
              /\ <<entry[e].unique_id, entry[e].password>> \in accepted

\* An entry whose reload is not due runs on what is stored, and polls within
\* the supported band whatever was written into the storage
\* (scan_interval_seconds, OptionsFlowWithReload).
RunsOnStoredData ==
    \A e \in Entries : Configured(e) /\ e \notin reloadDue =>
        /\ running[e] # None
        /\ running[e].token = entry[e].token
        /\ running[e].interval \in Band
        /\ BoundedSeconds(options[e]) => running[e].interval = options[e]

============================================================================
