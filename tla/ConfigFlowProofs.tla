-------------------------- MODULE ConfigFlowProofs --------------------------
(***************************************************************************)
(* What holds of the config flows for every set of emails, entries and     *)
(* dialogs.  An account is looked up before the login is awaited and       *)
(* written after it; in between, the unique id of the flow is a claim that *)
(* the other flows respect.  A reconfiguration that lost its claim, or     *)
(* never had one, is the only way to a second entry of an account.         *)
(***************************************************************************)
EXTENDS ConfigFlow, TLAPS

\* A flow that awaits a login has an email and a password.
InputsThere ==
    \A d \in Dialogs : flow[d].pc \in {"validating", "abandoned"} =>
        flow[d].email \in Emails /\ flow[d].password \in Passwords

\* A flow that is not a user flow is for an entry; a user flow that is gone
\* is closed, and always looks for duplicates.
KindsFit ==
    \A d \in Dialogs :
        /\ flow[d].kind # "user" => flow[d].of \in Entries
        /\ flow[d].kind = "user" => flow[d].pc # "abandoned" /\ ~ flow[d].own

\* The unique id is the account of the email.
IdFollowsEmail == \A e \in Entries : Configured(e) => entry[e].unique_id = Account[entry[e].email]

UniqueAccounts ==
    \A e, d \in Entries :
        /\ Configured(e) /\ Configured(d) /\ entry[e].unique_id = entry[d].unique_id
        /\ entry[e].unique_id \notin contested
        => e = d

\* Flow r looked for duplicates and took the account for its unique id.
Claiming(r) == r.pc = "validating" /\ r.kind # "reauth" /\ ~ r.own

Claims(d) == Claiming(flow[d])

\* A claim holds for as long as the login takes: no entry has the account,
\* and no other flow has it for its unique id, unless it is contested.
ClaimsHold ==
    \A d \in Dialogs : Claims(d) =>
        /\ flow[d].unique_id = Account[flow[d].email]
        /\ flow[d].unique_id \notin contested => ~ Taken(d, flow[d].unique_id)

IdsUsed == \A e \in Entries : Configured(e) => e \in used

\* Only an entry that is there is about to be set up.
ReloadsConfigured == \A e \in reloadDue : Configured(e)

FlowsFit == InputsThere /\ KindsFit /\ ClaimsHold

EntriesFit == IdFollowsEmail /\ UniqueAccounts /\ IdsUsed /\ ReloadsConfigured

FlowInv == TypeOK /\ FlowsFit /\ EntriesFit

----------------------------------------------------------------------------
(* Types.                                                                  *)

\* An email's account.
LEMMA AccountType == \A m \in Emails : Account[m] \in Accounts
  BY FlowAssumption

\* What a flow may become.
LEMMA FlowStates ==
  /\ Closed \in FlowState
  /\ \A k \in {"user", "reauth", "reconfigure"}, e \in Entries \cup {None},
        u \in Accounts \cup {None} : Form(k, e, u) \in FlowState
  /\ \A r \in FlowState : Back(r) \in FlowState /\ Gone(r) \in FlowState
  <1>1. Closed \in FlowState
    BY DEF Closed, FlowState
  <1>2. ASSUME NEW k \in {"user", "reauth", "reconfigure"}, NEW e \in Entries \cup {None},
               NEW u \in Accounts \cup {None}
        PROVE  Form(k, e, u) \in FlowState
    BY DEF Closed, Form, FlowState
  <1>3. ASSUME NEW r \in FlowState
        PROVE  Back(r) \in FlowState
    <2>1. /\ r.kind \in {"user", "reauth", "reconfigure"} /\ r.of \in Entries \cup {None}
          /\ r.unique_id \in Accounts \cup {None}
      BY DEF FlowState
    <2> QED
      BY <1>2, <2>1 DEF Back
  <1>4. ASSUME NEW r \in FlowState
        PROVE  Gone(r) \in FlowState
    <2>1. [r EXCEPT !.pc = "abandoned", !.unique_id = None] \in FlowState
      BY DEF FlowState
    <2> QED
      BY <1>1, <2>1 DEF Gone
  <1> QED
    BY <1>1, <1>2, <1>3, <1>4

\* What a flow is while its login is awaited.
LEMMA ValidatingState ==
  ASSUME NEW r \in FlowState, NEW u \in Accounts \cup {None},
         NEW m \in Emails, NEW pw \in Passwords, NEW own \in BOOLEAN
  PROVE  LET v == Validating(r, u, m, pw, own)
         IN  /\ v \in FlowState /\ v.kind = r.kind /\ v.of = r.of /\ v.pc = "validating"
             /\ v.unique_id = u /\ v.email = m /\ v.password = pw /\ v.own = own
  BY DEF Validating, FlowState

\* What is left of a flow that is gone, or has its form back.
LEMMA LeftOver ==
  ASSUME NEW r \in FlowState
  PROVE  /\ Gone(r) = Closed
            \/ /\ r.kind # "user" /\ r.pc \in {"validating", "abandoned"}
               /\ Gone(r).kind = r.kind /\ Gone(r).of = r.of /\ Gone(r).pc = "abandoned"
               /\ Gone(r).unique_id = None
               /\ Gone(r).email = r.email /\ Gone(r).password = r.password
         /\ Closed.kind = "user" /\ Closed.pc = "closed" /\ Closed.unique_id = None
         /\ Closed.own = FALSE
         /\ Back(r).kind = r.kind /\ Back(r).of = r.of /\ Back(r).pc = "form"
         /\ Back(r).unique_id = r.unique_id /\ Back(r).own = FALSE
  <1>1. Closed.kind = "user" /\ Closed.pc = "closed" /\ Closed.unique_id = None
        /\ Closed.own = FALSE
    BY DEF Closed
  <1>2. Back(r).kind = r.kind /\ Back(r).of = r.of /\ Back(r).pc = "form"
        /\ Back(r).unique_id = r.unique_id /\ Back(r).own = FALSE
    BY DEF Back, Form, Closed
  <1>3. CASE r.kind # "user" /\ r.pc \in {"validating", "abandoned"}
    BY <1>1, <1>2, <1>3 DEF Gone, FlowState
  <1>4. CASE ~ (r.kind # "user" /\ r.pc \in {"validating", "abandoned"})
    BY <1>1, <1>2, <1>4 DEF Gone
  <1> QED
    BY <1>3, <1>4

\* The interval is in the band, whatever is stored.
LEMMA ScanIntervalInBand == \A v : ScanInterval(v) \in Band
  BY FlowAssumption DEF ScanInterval, Band

Counts == [flows : 0 .. MaxFlows, faults : 0 .. MaxFaults, edits : 0 .. MaxEdits]

\* A counter that is below its bound may be raised.
LEMMA CountType ==
  ASSUME count \in Counts
  PROVE  /\ count.flows < MaxFlows => [count EXCEPT !.flows = @ + 1] \in Counts
         /\ count.faults < MaxFaults => [count EXCEPT !.faults = @ + 1] \in Counts
         /\ count.edits < MaxEdits => [count EXCEPT !.edits = @ + 1] \in Counts
  <1>1. {MaxFlows, MaxFaults, MaxEdits} \subseteq Nat
    BY FlowAssumption
  <1> QED
    BY <1>1 DEF Counts

\* The types of what is looked up.
LEMMA LookUpTypes ==
  ASSUME TypeOK
  PROVE  /\ \A d \in Dialogs : flow[d] \in FlowState
         /\ \A d \in Dialogs : flow[d].unique_id \in Accounts \cup {None}
         /\ \A e \in Entries : Configured(e) =>
               /\ entry[e] \in EntryData /\ entry[e].email \in Emails
               /\ entry[e].unique_id \in Accounts
         /\ None \notin Accounts
  <1>1. \A d \in Dialogs : flow[d] \in FlowState
    BY DEF TypeOK
  <1>2. \A r \in FlowState : r.unique_id \in Accounts \cup {None}
    BY DEF FlowState
  <1>3. \A e \in Entries : Configured(e) => entry[e] \in EntryData
    BY DEF TypeOK, Configured
  <1>4. \A data \in EntryData : data.email \in Emails /\ data.unique_id \in Accounts
    BY DEF EntryData
  <1> QED
    BY <1>1, <1>2, <1>3, <1>4, FlowAssumption

\* Steps of the forms, and of a login that is refused.
FormStep(d) ==
    \/ OpenFlow(d) \/ CloseDialog(d) \/ EntryGone(d) \/ LoginRefused(d)
    \/ SubmitUser(d) \/ SubmitReauth(d) \/ SubmitReconfigure(d)

\* Steps that write an entry after a login.
SuccessStep(d) == CreateEntry(d) \/ UpdateFromReauth(d) \/ UpdateFromReconfigure(d)

\* What is known of a flow whose login was accepted.
LEMMA AcceptedType ==
  ASSUME TypeOK, InputsThere, NEW d \in Dialogs, LoginAccepted(d)
  PROVE  /\ flow[d].email \in Emails /\ flow[d].password \in Passwords
         /\ LoginAccount(d) \in Accounts
         /\ LoginAccount(d) = Account[flow[d].email]
         /\ accepted' \in SUBSET (Accounts \X Passwords)
  <1>1. flow[d].email \in Emails /\ flow[d].password \in Passwords
    BY DEF LoginAccepted, InputsThere
  <1>2. LoginAccount(d) \in Accounts
    BY <1>1, AccountType DEF LoginAccount
  <1> QED
    BY <1>1, <1>2 DEF LoginAccepted, LoginAccount, TypeOK

----------------------------------------------------------------------------
(* Claims.                                                                 *)

\* No other flow has an uncontested claim to u.
Unclaimed(d, u) ==
    \A g \in Dialogs \ {d} :
        Claims(g) /\ flow[g].unique_id \notin contested => u # flow[g].unique_id

\* Dialog d may become r: r claims only what is free, and takes up no unique
\* id that another flow has claimed.
CanBecome(d, r) ==
    /\ r.pc \in {"validating", "abandoned"} => r.email \in Emails /\ r.password \in Passwords
    /\ r.kind # "user" => r.of \in Entries
    /\ r.kind = "user" => r.pc # "abandoned" /\ ~ r.own
    /\ Claiming(r) =>
          /\ r.unique_id = Account[r.email]
          /\ r.unique_id \notin contested => ~ Taken(d, r.unique_id)
    /\ Unclaimed(d, r.unique_id)

\* What is claimed stays claimed.
LEMMA FlowBecomes ==
  ASSUME FlowInv,
         NEW d \in Dialogs, NEW r \in FlowState,
         flow' = [flow EXCEPT ![d] = r],
         UNCHANGED <<entry, contested>>,
         CanBecome(d, r)
  PROVE  FlowsFit'
  <1>1. flow'[d] = r /\ \A g \in Dialogs \ {d} : flow'[g] = flow[g]
    BY DEF FlowInv, TypeOK
  <1>2. InputsThere'
    BY <1>1 DEF FlowInv, FlowsFit, CanBecome, InputsThere
  <1>3. KindsFit'
    BY <1>1 DEF FlowInv, FlowsFit, CanBecome, KindsFit
  <1>4. ClaimsHold'
    <2>1. SUFFICES ASSUME NEW g \in Dialogs, Claiming(flow'[g])
                   PROVE  /\ flow'[g].unique_id = Account[flow'[g].email]
                          /\ flow'[g].unique_id \notin contested' =>
                                ~ Taken(g, flow[g].unique_id)'
      BY DEF ClaimsHold, Claims
    <2>2. CASE g = d
      <3>1. /\ r.unique_id = Account[r.email]
            /\ r.unique_id \notin contested => ~ Taken(d, r.unique_id)
        BY <2>1, <2>2, <1>1 DEF CanBecome
      <3> QED
        BY <2>2, <3>1, <1>1 DEF Taken, Configured
    <2>3. CASE g # d
      <3>1. flow'[g] = flow[g] /\ Claims(g)
        BY <2>1, <2>3, <1>1 DEF Claims
      <3>2. /\ flow[g].unique_id = Account[flow[g].email]
            /\ flow[g].unique_id \notin contested => ~ Taken(g, flow[g].unique_id)
        BY <3>1 DEF FlowInv, FlowsFit, ClaimsHold
      <3>3. flow[g].unique_id \notin contested => r.unique_id # flow[g].unique_id
        BY <2>3, <3>1 DEF CanBecome, Unclaimed
      <3> QED
        BY <3>1, <3>2, <3>3, <1>1 DEF Taken, Configured
    <2> QED
      BY <2>2, <2>3
  <1> QED
    BY <1>2, <1>3, <1>4 DEF FlowsFit

\* Flows end and entries change, and no entry comes to have an account that
\* a flow goes on claiming.
LEMMA FlowsEnd ==
  ASSUME FlowInv,
         \A g \in Dialogs : flow'[g] \in {flow[g], Gone(flow[g]), Closed},
         contested \subseteq contested',
         \A g \in Dialogs, e \in Entries :
            /\ Claims(g) /\ flow'[g] = flow[g] /\ flow[g].unique_id \notin contested'
            /\ entry'[e] # None
            => entry'[e].unique_id # flow[g].unique_id
  PROVE  FlowsFit'
  <1>1. ASSUME NEW g \in Dialogs
        PROVE  \/ flow'[g] = flow[g]
               \/ /\ flow'[g].pc # "validating" /\ flow'[g].unique_id = None
                  /\ flow'[g].kind = "user" => flow'[g].pc = "closed" /\ ~ flow'[g].own
                  /\ flow'[g].kind # "user" => flow'[g].kind = flow[g].kind
                                               /\ flow'[g].of = flow[g].of
                  /\ flow'[g].pc = "abandoned" =>
                        /\ flow[g].pc \in {"validating", "abandoned"}
                        /\ flow'[g].email = flow[g].email
                        /\ flow'[g].password = flow[g].password
    <2>1. flow[g] \in FlowState
      BY LookUpTypes DEF FlowInv
    <2>2. CASE flow'[g] = Closed
      BY <2>1, <2>2, LeftOver
    <2>3. CASE flow'[g] = Gone(flow[g]) /\ Gone(flow[g]) # Closed
      <3> DEFINE r == flow[g]
                 s == Gone(r)
      <3>1. /\ r.kind # "user" /\ r.pc \in {"validating", "abandoned"}
            /\ s.kind = r.kind /\ s.of = r.of /\ s.pc = "abandoned" /\ s.unique_id = None
            /\ s.email = r.email /\ s.password = r.password
        BY <2>1, <2>3, LeftOver
      <3> HIDE DEF r, s
      <3>2. flow'[g] = s /\ flow[g] = r
        BY <2>3 DEF r, s
      <3> QED
        BY <3>1, <3>2
    <2> QED
      BY <2>2, <2>3
  <1>2. InputsThere'
    BY <1>1 DEF FlowInv, FlowsFit, InputsThere
  <1>3. KindsFit'
    BY <1>1 DEF FlowInv, FlowsFit, KindsFit
  <1>4. ClaimsHold'
    <2>1. SUFFICES ASSUME NEW g \in Dialogs, Claiming(flow'[g])
                   PROVE  /\ flow'[g].unique_id = Account[flow'[g].email]
                          /\ flow'[g].unique_id \notin contested' =>
                                ~ Taken(g, flow[g].unique_id)'
      BY DEF ClaimsHold, Claims
    <2>2. flow'[g] = flow[g] /\ Claims(g)
      BY <2>1, <1>1 DEF Claims, Claiming
    <2>3. /\ flow[g].unique_id = Account[flow[g].email]
          /\ flow[g].unique_id \notin contested' => ~ Taken(g, flow[g].unique_id)
      BY <2>2 DEF FlowInv, FlowsFit, ClaimsHold
    <2>4. flow[g].unique_id # None
      <3>1. flow[g].email \in Emails
        BY <2>2 DEF FlowInv, FlowsFit, InputsThere, Claims, Claiming
      <3> QED
        BY <2>3, <3>1, AccountType, FlowAssumption
    <2>5. \A h \in Dialogs \ {g} : flow'[h].unique_id \in {flow[h].unique_id, None}
      BY <1>1
    <2> QED
      BY <2>2, <2>3, <2>4, <2>5 DEF Taken, Configured
  <1> QED
    BY <1>2, <1>3, <1>4 DEF FlowsFit

----------------------------------------------------------------------------
(* The forms: a unique id that a flow takes up is one that is free, and a  *)
(* unique id it had already was not claimed by another flow.               *)

LEMMA FormBecomes ==
  ASSUME FlowInv, NEW d \in Dialogs, FormStep(d)
  PROVE  \E r \in FlowState : flow' = [flow EXCEPT ![d] = r] /\ CanBecome(d, r)
  <1>1. /\ flow[d] \in FlowState
        /\ flow[d].unique_id \in Accounts \cup {None} /\ None \notin Accounts
        /\ \A e \in Entries : Configured(e) =>
              entry[e].email \in Emails /\ entry[e].unique_id \in Accounts
    BY LookUpTypes DEF FlowInv
  <1>2. /\ flow[d].kind # "user" => flow[d].of \in Entries
        /\ flow[d].kind \in {"user", "reauth", "reconfigure"}
        /\ flow[d].of \in Entries \cup {None}
    BY <1>1 DEF FlowInv, FlowsFit, KindsFit, FlowState
  <1>3. ASSUME NEW g \in Dialogs \ {d}, Claims(g), flow[g].unique_id \notin contested
        PROVE  flow[g].unique_id \in Accounts /\ ~ Taken(g, flow[g].unique_id)
    <2>1. flow[g].email \in Emails
      BY <1>3 DEF Claims, Claiming, FlowInv, FlowsFit, InputsThere
    <2> QED
      BY <1>3, <2>1, AccountType DEF FlowInv, FlowsFit, ClaimsHold
  <1>4. /\ Unclaimed(d, None) /\ Unclaimed(d, flow[d].unique_id)
        /\ \A e \in Entries : Configured(e) => Unclaimed(d, entry[e].unique_id)
        /\ \A u : ~ Taken(d, u) => Unclaimed(d, u)
    BY <1>1, <1>3 DEF Unclaimed, Taken
  <1>5. CanBecome(d, Closed)
    BY <1>1, <1>4, LeftOver DEF CanBecome, Claiming
  <1>6. CanBecome(d, Gone(flow[d]))
    <2>1. CASE Gone(flow[d]) = Closed
      BY <2>1, <1>5
    <2>2. CASE Gone(flow[d]) # Closed
      <3>1. /\ flow[d].kind # "user" /\ flow[d].pc \in {"validating", "abandoned"}
            /\ Gone(flow[d]).kind = flow[d].kind /\ Gone(flow[d]).of = flow[d].of
            /\ Gone(flow[d]).pc = "abandoned" /\ Gone(flow[d]).unique_id = None
            /\ Gone(flow[d]).email = flow[d].email
            /\ Gone(flow[d]).password = flow[d].password
        BY <1>1, <2>2, LeftOver
      <3>2. flow[d].email \in Emails /\ flow[d].password \in Passwords
        BY <3>1 DEF FlowInv, FlowsFit, InputsThere
      <3> QED
        BY <1>2, <1>4, <3>1, <3>2 DEF CanBecome, Claiming
    <2> QED
      BY <2>1, <2>2
  <1>7. CanBecome(d, Back(flow[d]))
    BY <1>1, <1>2, <1>4, LeftOver DEF CanBecome, Claiming
  <1>8. ASSUME NEW k \in {"user", "reauth", "reconfigure"}, NEW e \in Entries \cup {None},
               NEW u \in Accounts \cup {None},
               k # "user" => e \in Entries, Unclaimed(d, u)
        PROVE  CanBecome(d, Form(k, e, u))
    <2>1. LET r == Form(k, e, u)
          IN  r.kind = k /\ r.of = e /\ r.pc = "form" /\ r.unique_id = u /\ r.own = FALSE
      BY DEF Form, Closed
    <2> QED
      BY <1>8, <2>1 DEF CanBecome, Claiming
  <1>9. ASSUME NEW u \in Accounts \cup {None}, NEW m \in Emails, NEW pw \in Passwords,
               NEW own \in BOOLEAN, Unclaimed(d, u),
               flow[d].kind = "user" => ~ own,
               flow[d].kind = "reauth" \/ own \/ (u = Account[m] /\ ~ Taken(d, u))
        PROVE  /\ Validating(flow[d], u, m, pw, own) \in FlowState
               /\ CanBecome(d, Validating(flow[d], u, m, pw, own))
    <2> DEFINE v == Validating(flow[d], u, m, pw, own)
    <2>1. /\ v \in FlowState /\ v.kind = flow[d].kind /\ v.of = flow[d].of
          /\ v.pc = "validating" /\ v.unique_id = u /\ v.email = m /\ v.password = pw
          /\ v.own = own
      BY <1>1, ValidatingState
    <2> HIDE DEF v
    <2> QED
      BY <1>2, <1>9, <2>1 DEF CanBecome, Claiming, v
  <1>10. CASE OpenFlow(d)
    <2>1. CASE flow' = [flow EXCEPT ![d] = Form("user", None, None)]
      <3>1. CanBecome(d, Form("user", None, None)) /\ Form("user", None, None) \in FlowState
        BY <1>4, <1>8, FlowStates
      <3> QED
        BY <2>1, <3>1
    <2>2. ASSUME NEW e \in Entries, flow' = [flow EXCEPT ![d] = Form("reconfigure", e, None)]
          PROVE  \E r \in FlowState : flow' = [flow EXCEPT ![d] = r] /\ CanBecome(d, r)
      <3>1. /\ CanBecome(d, Form("reconfigure", e, None))
            /\ Form("reconfigure", e, None) \in FlowState
        BY <1>4, <1>8, FlowStates
      <3> QED
        BY <2>2, <3>1
    <2>3. ASSUME NEW e \in Entries, Configured(e),
                 flow' = [flow EXCEPT ![d] = Form("reauth", e, entry[e].unique_id)]
          PROVE  \E r \in FlowState : flow' = [flow EXCEPT ![d] = r] /\ CanBecome(d, r)
      <3>1. entry[e].unique_id \in Accounts /\ Unclaimed(d, entry[e].unique_id)
        BY <2>3, <1>1, <1>4
      <3>2. /\ CanBecome(d, Form("reauth", e, entry[e].unique_id))
            /\ Form("reauth", e, entry[e].unique_id) \in FlowState
        BY <3>1, <1>8, FlowStates
      <3> QED
        BY <2>3, <3>2
    <2> QED
      BY <1>10, <2>1, <2>2, <2>3 DEF OpenFlow
  <1>11. CASE CloseDialog(d)
    BY <1>1, <1>6, <1>11, FlowStates DEF CloseDialog
  <1>12. CASE EntryGone(d)
    BY <1>5, <1>12, FlowStates DEF EntryGone
  <1>13. CASE LoginRefused(d)
    <2>1. \/ flow' = [flow EXCEPT ![d] = Closed]
          \/ flow' = [flow EXCEPT ![d] = Back(flow[d])]
      BY <1>13 DEF LoginRefused
    <2> QED
      BY <2>1, <1>1, <1>5, <1>7, FlowStates
  <1>14. CASE SubmitUser(d)
    <2>1. PICK m \in Emails, pw \in Passwords :
            flow' = [flow EXCEPT ![d] =
                        IF Taken(d, UniqueId(m)) THEN Closed
                        ELSE Validating(flow[d], UniqueId(m), m, pw, FALSE)]
      BY <1>14 DEF SubmitUser
    <2>2. UniqueId(m) = Account[m] /\ UniqueId(m) \in Accounts
      BY AccountType DEF UniqueId
    <2>3. CASE Taken(d, UniqueId(m))
      BY <2>1, <2>3, <1>5, FlowStates
    <2>4. CASE ~ Taken(d, UniqueId(m))
      <3>1. LET v == Validating(flow[d], UniqueId(m), m, pw, FALSE)
            IN  v \in FlowState /\ CanBecome(d, v)
        BY <2>2, <2>4, <1>4, <1>9
      <3> QED
        BY <2>1, <2>4, <3>1
    <2> QED
      BY <2>3, <2>4
  <1>15. CASE SubmitReauth(d)
    <2>1. PICK pw \in Passwords :
            flow' = [flow EXCEPT ![d] =
                        Validating(flow[d], flow[d].unique_id, entry[flow[d].of].email,
                                   pw, FALSE)]
      BY <1>15 DEF SubmitReauth
    <2>2. flow[d].kind = "reauth" /\ entry[flow[d].of].email \in Emails
      BY <1>1, <1>2, <1>15 DEF SubmitReauth
    <2>3. LET v == Validating(flow[d], flow[d].unique_id, entry[flow[d].of].email, pw, FALSE)
          IN  v \in FlowState /\ CanBecome(d, v)
      BY <2>2, <1>1, <1>4, <1>9
    <2> QED
      BY <2>1, <2>3
  <1>16. CASE SubmitReconfigure(d)
    <2>1. PICK m \in Emails, pw \in Passwords :
            \/ flow' = [flow EXCEPT ![d] =
                           Validating(flow[d], flow[d].unique_id, m, pw, TRUE)]
            \/ flow' = [flow EXCEPT ![d] =
                           IF Taken(d, UniqueId(m)) THEN Closed
                           ELSE Validating(flow[d], UniqueId(m), m, pw, FALSE)]
      BY <1>16 DEF SubmitReconfigure
    <2>2. UniqueId(m) = Account[m] /\ UniqueId(m) \in Accounts
      BY AccountType DEF UniqueId
    <2>3. flow[d].kind = "reconfigure"
      BY <1>16 DEF SubmitReconfigure
    <2>4. LET v == Validating(flow[d], flow[d].unique_id, m, pw, TRUE)
          IN  v \in FlowState /\ CanBecome(d, v)
      BY <2>3, <1>1, <1>4, <1>9
    <2>5. ~ Taken(d, UniqueId(m)) =>
             LET v == Validating(flow[d], UniqueId(m), m, pw, FALSE)
             IN  v \in FlowState /\ CanBecome(d, v)
      BY <2>2, <2>3, <1>4, <1>9
    <2> QED
      BY <2>1, <2>4, <2>5, <1>5, FlowStates
  <1> QED
    BY <1>10, <1>11, <1>12, <1>13, <1>14, <1>15, <1>16 DEF FormStep

LEMMA FormsKeepInv ==
  ASSUME FlowInv, NEW d \in Dialogs, FormStep(d)
  PROVE  FlowInv'
  <1>1. UNCHANGED <<right, entryVars, historyVars>>
    BY DEF FormStep, OpenFlow, CloseDialog, EntryGone, LoginRefused, SubmitUser,
       SubmitReauth, SubmitReconfigure
  <1>2. PICK r \in FlowState : flow' = [flow EXCEPT ![d] = r] /\ CanBecome(d, r)
    BY FormBecomes
  <1>3. count' \in Counts
    <2>1. count \in Counts
      BY DEF FlowInv, TypeOK, Counts
    <2> QED
      BY <2>1, CountType DEF FormStep, OpenFlow, CloseDialog, EntryGone, LoginRefused,
         SubmitUser, SubmitReauth, SubmitReconfigure
  <1>4. TypeOK'
    BY <1>1, <1>2, <1>3 DEF FlowInv, TypeOK, entryVars, historyVars, Counts
  <1>5. FlowsFit'
    BY <1>1, <1>2, FlowBecomes DEF entryVars, historyVars
  <1>6. EntriesFit'
    BY <1>1 DEF FlowInv, EntriesFit, IdFollowsEmail, UniqueAccounts, IdsUsed,
       ReloadsConfigured, Configured, entryVars, historyVars
  <1> QED
    BY <1>4, <1>5, <1>6 DEF FlowInv

----------------------------------------------------------------------------
(* The success of a login.                                                 *)

\* The account of a flow with a claim has no entry, unless it is contested.
LEMMA ClaimedAccountFree ==
  ASSUME FlowInv, NEW d \in Dialogs, Claims(d)
  PROVE  /\ flow[d].unique_id = Account[flow[d].email] /\ flow[d].unique_id \in Accounts
         /\ flow[d].unique_id \notin contested =>
               /\ Holders(flow[d].unique_id) = {}
               /\ \A g \in Dialogs \ {d} : flow[g].unique_id # flow[d].unique_id
  <1>1. flow[d].email \in Emails
    BY DEF Claims, Claiming, FlowInv, FlowsFit, InputsThere
  <1>2. /\ flow[d].unique_id = Account[flow[d].email]
        /\ flow[d].unique_id \notin contested => ~ Taken(d, flow[d].unique_id)
    BY DEF FlowInv, FlowsFit, ClaimsHold
  <1> QED
    BY <1>1, <1>2, AccountType DEF Taken, Holders

\* What the entries and the flows are after a new entry was made.
LEMMA Created ==
  ASSUME FlowInv, NEW d \in Dialogs, CreateEntry(d)
  PROVE  \E e \in Entries, h \in Entries, data \in EntryData :
            /\ e \notin used /\ ~ Configured(e) /\ used' = used \cup {e}
            /\ data.unique_id = LoginAccount(d) /\ data.token = LoginAccount(d)
            /\ data.unique_id = Account[data.email]
            /\ data.password = flow[d].password
            /\ entry' = [entry EXCEPT ![h] = None, ![e] = data]
            /\ options' = [options EXCEPT ![h] = None]
            /\ running' = [running EXCEPT ![h] = None]
            /\ reloadDue' = (reloadDue \ {h}) \cup {e}
            /\ crossed' = crossed \ {h}
            /\ \/ h = e /\ Holders(data.unique_id) = {}
               \/ h # e /\ h \in Holders(data.unique_id) /\ data.unique_id \in contested
            /\ \A g \in Dialogs :
                  /\ flow'[g] \in {flow[g], Gone(flow[g]), Closed}
                  /\ flow'[g] = flow[g] =>
                        g = d \/ flow[g].unique_id # data.unique_id
                               \/ Gone(flow[g]) = flow[g]
            /\ flow'[d] = Closed
  <1>1. /\ flow[d].email \in Emails /\ flow[d].password \in Passwords
        /\ LoginAccount(d) \in Accounts /\ LoginAccount(d) = Account[flow[d].email]
    BY AcceptedType DEF FlowInv, FlowsFit, CreateEntry
  <1>2. Claims(d)
    BY DEF CreateEntry, LoginAccepted, Claims, Claiming, FlowInv, FlowsFit, KindsFit
  <1>3. flow[d].unique_id = LoginAccount(d)
    BY <1>1, <1>2, ClaimedAccountFree
  <1> DEFINE data == [email |-> flow[d].email, unique_id |-> flow[d].unique_id,
                      password |-> flow[d].password, token |-> LoginAccount(d)]
  <1>4. /\ data \in EntryData /\ data.email = flow[d].email
        /\ data.unique_id = LoginAccount(d) /\ data.token = LoginAccount(d)
        /\ data.password = flow[d].password
    BY <1>1, <1>3 DEF EntryData
  <1>5. PICK e \in Entries \ used :
        \E h \in IF Holders(flow[d].unique_id) = {} THEN {e} ELSE Holders(flow[d].unique_id) :
          /\ used' = used \cup {e}
          /\ entry' = [entry EXCEPT ![h] = None, ![e] = data]
          /\ options' = [options EXCEPT ![h] = None]
          /\ running' = [running EXCEPT ![h] = None]
          /\ reloadDue' = (reloadDue \ {h}) \cup {e}
          /\ crossed' = crossed \ {h}
          /\ flow' = [g \in Dialogs |->
                         IF g = d THEN Closed
                         ELSE IF \/ flow[g].unique_id = flow[d].unique_id
                                 \/ flow[g].kind = "reauth" /\ flow[g].of = h
                              THEN Gone(flow[g]) ELSE flow[g]]
    BY DEF CreateEntry
  <1>6. PICK h \in IF Holders(flow[d].unique_id) = {} THEN {e}
                   ELSE Holders(flow[d].unique_id) :
          /\ used' = used \cup {e}
          /\ entry' = [entry EXCEPT ![h] = None, ![e] = data]
          /\ options' = [options EXCEPT ![h] = None]
          /\ running' = [running EXCEPT ![h] = None]
          /\ reloadDue' = (reloadDue \ {h}) \cup {e}
          /\ crossed' = crossed \ {h}
          /\ flow' = [g \in Dialogs |->
                         IF g = d THEN Closed
                         ELSE IF \/ flow[g].unique_id = flow[d].unique_id
                                 \/ flow[g].kind = "reauth" /\ flow[g].of = h
                              THEN Gone(flow[g]) ELSE flow[g]]
    BY <1>5
  <1>7. ~ Configured(e)
    BY DEF FlowInv, EntriesFit, IdsUsed
  <1>8. h \in Entries
    BY <1>6 DEF Holders
  <1>9. \/ h = e /\ Holders(data.unique_id) = {}
        \/ h # e /\ h \in Holders(data.unique_id) /\ data.unique_id \in contested
    <2>1. CASE Holders(flow[d].unique_id) = {}
      BY <2>1, <1>3, <1>4
    <2>2. CASE Holders(flow[d].unique_id) # {}
      <3>1. h \in Holders(flow[d].unique_id) /\ flow[d].unique_id \in contested
        BY <2>2, <1>2, ClaimedAccountFree
      <3>2. h # e
        BY <3>1, <1>7 DEF Holders
      <3> QED
        BY <3>1, <3>2, <1>3, <1>4
    <2> QED
      BY <2>1, <2>2
  <1> HIDE DEF data
  <1>10. \A g \in Dialogs :
           flow'[g] = IF g = d THEN Closed
                      ELSE IF \/ flow[g].unique_id = data.unique_id
                              \/ flow[g].kind = "reauth" /\ flow[g].of = h
                           THEN Gone(flow[g]) ELSE flow[g]
    BY <1>3, <1>4, <1>6
  <1>11. flow'[d] = Closed
    BY <1>10
  <1>12. \A g \in Dialogs :
           /\ flow'[g] \in {flow[g], Gone(flow[g]), Closed}
           /\ flow'[g] = flow[g] =>
                 g = d \/ flow[g].unique_id # data.unique_id \/ Gone(flow[g]) = flow[g]
    BY <1>10
  <1>13. data.unique_id = Account[data.email]
    BY <1>1, <1>4
  <1> QED
    BY <1>4, <1>6, <1>7, <1>8, <1>9, <1>11, <1>12, <1>13

LEMMA CreateKeepsInv ==
  ASSUME FlowInv, NEW d \in Dialogs, CreateEntry(d)
  PROVE  FlowInv'
  <1>1. PICK e \in Entries, h \in Entries, data \in EntryData :
            /\ e \notin used /\ ~ Configured(e) /\ used' = used \cup {e}
            /\ data.unique_id = LoginAccount(d) /\ data.token = LoginAccount(d)
            /\ data.unique_id = Account[data.email]
            /\ data.password = flow[d].password
            /\ entry' = [entry EXCEPT ![h] = None, ![e] = data]
            /\ options' = [options EXCEPT ![h] = None]
            /\ running' = [running EXCEPT ![h] = None]
            /\ reloadDue' = (reloadDue \ {h}) \cup {e}
            /\ crossed' = crossed \ {h}
            /\ \/ h = e /\ Holders(data.unique_id) = {}
               \/ h # e /\ h \in Holders(data.unique_id) /\ data.unique_id \in contested
            /\ \A g \in Dialogs :
                  /\ flow'[g] \in {flow[g], Gone(flow[g]), Closed}
                  /\ flow'[g] = flow[g] =>
                        g = d \/ flow[g].unique_id # data.unique_id
                               \/ Gone(flow[g]) = flow[g]
            /\ flow'[d] = Closed
    BY Created
  <1>2. /\ entry'[e] = data /\ data # None
        /\ h # e => entry'[h] = None
        /\ \A c \in Entries \ {e, h} : entry'[c] = entry[c]
    BY <1>1, FlowAssumption DEF FlowInv, TypeOK
  <1>3. UNCHANGED <<right, contested, count>> /\ accepted' \in SUBSET (Accounts \X Passwords)
    BY AcceptedType DEF CreateEntry, FlowInv, FlowsFit
  <1>4. TypeOK'
    <2>1. /\ entry' \in [Entries -> EntryData \cup {None}]
          /\ used' \subseteq Entries /\ reloadDue' \subseteq Entries
          /\ options' \in [Entries -> Intervals \cup {None}]
          /\ running' \in [Entries -> Snapshot \cup {None}]
          /\ crossed' \subseteq Entries
      BY <1>1 DEF FlowInv, TypeOK
    <2>2. \A g \in Dialogs : flow'[g] \in FlowState
      BY <1>1, LookUpTypes, FlowStates DEF FlowInv
    <2>3. flow' \in [Dialogs -> FlowState]
      <3>1. \E f : flow' = [g \in Dialogs |-> f[g]]
        BY DEF CreateEntry
      <3> QED
        BY <2>2, <3>1
    <2> QED
      BY <1>3, <2>1, <2>3 DEF FlowInv, TypeOK
  <1>5. FlowsFit'
    <2>1. ASSUME NEW g \in Dialogs, NEW c \in Entries, Claims(g), flow'[g] = flow[g],
                 flow[g].unique_id \notin contested', entry'[c] # None
          PROVE  entry'[c].unique_id # flow[g].unique_id
      <3>1. flow[g].unique_id \notin contested /\ Holders(flow[g].unique_id) = {}
        BY <2>1, <1>3, ClaimedAccountFree
      <3>2. flow[g].pc = "validating"
        BY <2>1 DEF Claims, Claiming
      <3>3. Gone(flow[g]).pc # "validating" /\ Closed.pc # "validating"
        BY LeftOver, LookUpTypes DEF FlowInv
      <3>4. flow[g].unique_id # data.unique_id
        BY <2>1, <3>2, <3>3, <1>1
      <3>5. CASE c = e
        BY <3>4, <3>5, <1>2
      <3>6. CASE c # e
        <4>1. c # h /\ entry'[c] = entry[c]
          BY <2>1, <3>6, <1>2
        <4> QED
          BY <4>1, <3>1, <2>1 DEF Holders, Configured
      <3> QED
        BY <3>5, <3>6
    <2>2. \A g \in Dialogs : flow'[g] \in {flow[g], Gone(flow[g]), Closed}
      BY <1>1
    <2> QED
      BY <2>1, <2>2, <1>3, FlowsEnd
  <1>6. IdFollowsEmail'
    BY <1>1, <1>2 DEF FlowInv, EntriesFit, IdFollowsEmail, Configured
  <1>7. UniqueAccounts'
    <2>1. SUFFICES ASSUME NEW b \in Entries, NEW c \in Entries, entry'[b] # None,
                          entry'[c] # None, entry'[b].unique_id = entry'[c].unique_id,
                          entry'[b].unique_id \notin contested
                   PROVE  b = c
      BY <1>3 DEF UniqueAccounts, Configured
    <2>2. ASSUME NEW x \in Entries \ {e}, entry'[x] # None,
                 entry'[x].unique_id \notin contested
          PROVE  entry'[x] = entry[x] /\ entry[x].unique_id # data.unique_id
      <3>1. x # h /\ entry'[x] = entry[x]
        BY <2>2, <1>2
      <3> QED
        BY <2>2, <3>1, <1>1 DEF Holders, Configured
    <2>3. CASE b # e /\ c # e
      BY <2>1, <2>2, <2>3 DEF FlowInv, EntriesFit, UniqueAccounts, Configured
    <2>4. CASE b = e \/ c = e
      BY <2>1, <2>2, <2>4, <1>2
    <2> QED
      BY <2>3, <2>4
  <1>8. IdsUsed'
    BY <1>1, <1>2 DEF FlowInv, EntriesFit, IdsUsed, Configured
  <1>9. ReloadsConfigured'
    BY <1>1, <1>2 DEF FlowInv, EntriesFit, ReloadsConfigured, Configured, TypeOK
  <1> QED
    BY <1>4, <1>5, <1>6, <1>7, <1>8, <1>9 DEF FlowInv, EntriesFit

\* The account that flow d writes to entry e was claimed, is the one e has,
\* or is contested by now.
MayWrite(d, e, a) ==
    \/ a = entry[e].unique_id
    \/ a \in contested'
    \/ Claims(d) /\ flow[d].unique_id = a

\* What a reauth or a reconfiguration writes.
LEMMA Updated ==
  ASSUME FlowInv, NEW d \in Dialogs, UpdateFromReauth(d) \/ UpdateFromReconfigure(d)
  PROVE  /\ LoginAccepted(d) /\ flow[d].of \in Entries /\ Configured(flow[d].of)
         /\ UNCHANGED <<right, count>> /\ flow' = [flow EXCEPT ![d] = Closed]
         /\ crossed \ {flow[d].of} \subseteq crossed' /\ crossed' \subseteq Entries
         /\ contested \subseteq contested' /\ contested' \subseteq Accounts
         /\ \E data \in EntryData :
               /\ UpdateReload(flow[d].of, data)
               /\ data.password = flow[d].password /\ data.token = LoginAccount(d)
               /\ data.unique_id = Account[data.email]
               /\ data.token = data.unique_id \/ flow[d].of \in crossed'
               /\ MayWrite(d, flow[d].of, data.unique_id)
               /\ \/ contested' = contested
                  \/ contested' = contested \cup {data.unique_id}
  <1> DEFINE e == flow[d].of
  <1>1. LoginAccepted(d) /\ e \in Entries /\ Configured(e)
        /\ UNCHANGED <<right, count>> /\ flow' = [flow EXCEPT ![d] = Closed]
    BY DEF UpdateFromReauth, UpdateFromReconfigure, FlowInv, FlowsFit, KindsFit
  <1>2. /\ flow[d].email \in Emails /\ flow[d].password \in Passwords
        /\ LoginAccount(d) \in Accounts /\ LoginAccount(d) = Account[flow[d].email]
    BY <1>1, AcceptedType DEF FlowInv, FlowsFit
  <1>3. /\ crossed \ {e} \subseteq crossed' /\ crossed' \subseteq Entries
        /\ contested \subseteq contested' /\ contested' \subseteq Accounts
        /\ contested' \in {contested, contested \cup {LoginAccount(d)}}
    BY <1>1, <1>2 DEF UpdateFromReauth, UpdateFromReconfigure, FlowInv, TypeOK
  <1>4. CASE UpdateFromReauth(d)
    <2> DEFINE data == [entry[e] EXCEPT !.password = flow[d].password,
                                        !.token = LoginAccount(d)]
    <2>1. entry[e] \in EntryData /\ entry[e].unique_id = Account[entry[e].email]
      BY <1>1, LookUpTypes DEF FlowInv, EntriesFit, IdFollowsEmail
    <2>2. /\ data \in EntryData /\ data.email = entry[e].email
          /\ data.unique_id = entry[e].unique_id
          /\ data.password = flow[d].password /\ data.token = LoginAccount(d)
      BY <1>2, <2>1 DEF EntryData
    <2>3. UpdateReload(e, data) /\ contested' = contested
      BY <1>4 DEF UpdateFromReauth
    <2>4. data.token = data.unique_id \/ e \in crossed'
      BY <1>4, <2>2 DEF UpdateFromReauth
    <2>5. MayWrite(d, e, data.unique_id)
      BY <2>2 DEF MayWrite
    <2>6. data.unique_id = Account[data.email]
      BY <2>1, <2>2
    <2> HIDE DEF data, e
    <2>7. /\ LoginAccepted(d) /\ e \in Entries /\ Configured(e)
          /\ UNCHANGED <<right, count>> /\ flow' = [flow EXCEPT ![d] = Closed]
      BY <1>1
    <2> QED
      BY <1>3, <2>2, <2>3, <2>4, <2>5, <2>6, <2>7 DEF e
  <1>5. CASE UpdateFromReconfigure(d)
    <2> DEFINE data == [email |-> flow[d].email, unique_id |-> UniqueId(flow[d].email),
                        password |-> flow[d].password, token |-> LoginAccount(d)]
    <2>1. UniqueId(flow[d].email) = LoginAccount(d)
      BY <1>2 DEF UniqueId
    <2>2. /\ data \in EntryData /\ data.email = flow[d].email
          /\ data.unique_id = LoginAccount(d)
          /\ data.password = flow[d].password /\ data.token = LoginAccount(d)
      BY <1>2, <2>1 DEF EntryData
    <2>3. UpdateReload(e, data)
      BY <1>5 DEF UpdateFromReconfigure
    <2>4. contested' = IF Lapsed(d) THEN contested \cup {LoginAccount(d)} ELSE contested
      BY <1>5 DEF UpdateFromReconfigure
    <2>5. MayWrite(d, e, data.unique_id)
      <3>1. CASE Lapsed(d)
        BY <2>2, <2>4, <3>1 DEF MayWrite
      <3>2. CASE ~ Lapsed(d) /\ LoginAccount(d) # entry[e].unique_id
        <4>1. Claims(d)
          BY <1>1, <1>5, <3>2 DEF Lapsed, Claims, Claiming, LoginAccepted,
             UpdateFromReconfigure
        <4>2. flow[d].unique_id = LoginAccount(d)
          BY <4>1, <1>2, ClaimedAccountFree
        <4> QED
          BY <4>1, <4>2, <2>2 DEF MayWrite
      <3>3. CASE LoginAccount(d) = entry[e].unique_id
        BY <2>2, <3>3 DEF MayWrite
      <3> QED
        BY <3>1, <3>2, <3>3
    <2>6. data.unique_id = Account[data.email] /\ data.token = data.unique_id
      BY <1>2, <2>2
    <2>7. contested' = contested \/ contested' = contested \cup {data.unique_id}
      BY <2>2, <2>4
    <2> HIDE DEF data, e
    <2>8. /\ LoginAccepted(d) /\ e \in Entries /\ Configured(e)
          /\ UNCHANGED <<right, count>> /\ flow' = [flow EXCEPT ![d] = Closed]
      BY <1>1
    <2> QED
      BY <1>3, <2>2, <2>3, <2>5, <2>6, <2>7, <2>8 DEF e
  <1> QED
    BY <1>4, <1>5

LEMMA UpdatesKeepInv ==
  ASSUME FlowInv, NEW d \in Dialogs, UpdateFromReauth(d) \/ UpdateFromReconfigure(d)
  PROVE  FlowInv'
  <1> DEFINE e == flow[d].of
  <1>1. /\ LoginAccepted(d) /\ e \in Entries /\ Configured(e)
        /\ UNCHANGED <<right, count>> /\ flow' = [flow EXCEPT ![d] = Closed]
        /\ crossed' \subseteq Entries
        /\ contested \subseteq contested' /\ contested' \subseteq Accounts
    BY Updated
  <1>2. PICK data \in EntryData :
          /\ UpdateReload(e, data) /\ data.unique_id = Account[data.email]
          /\ MayWrite(d, e, data.unique_id)
    BY Updated
  <1> HIDE DEF e
  <1>3. /\ entry'[e] = data /\ data # None /\ \A c \in Entries \ {e} : entry'[c] = entry[c]
        /\ reloadDue' = reloadDue \cup {e} /\ UNCHANGED <<used, options, running>>
    BY <1>1, <1>2, FlowAssumption DEF UpdateReload, FlowInv, TypeOK
  <1>4. flow'[d] = Closed /\ \A g \in Dialogs \ {d} : flow'[g] = flow[g]
    BY <1>1 DEF FlowInv, TypeOK
  <1>5. TypeOK'
    <2>1. accepted' \in SUBSET (Accounts \X Passwords)
      BY <1>1, AcceptedType DEF FlowInv, FlowsFit
    <2>2. entry' \in [Entries -> EntryData \cup {None}] /\ reloadDue' \subseteq Entries
      BY <1>1, <1>2, <1>3 DEF UpdateReload, FlowInv, TypeOK
    <2>3. flow' \in [Dialogs -> FlowState]
      BY <1>1, FlowStates DEF FlowInv, TypeOK
    <2> QED
      BY <1>1, <1>3, <2>1, <2>2, <2>3 DEF FlowInv, TypeOK
  \* The account that is written is free, or contested.
  <1>6. data.unique_id \notin contested' /\ data.unique_id # entry[e].unique_id =>
          /\ Holders(data.unique_id) = {}
          /\ \A g \in Dialogs \ {d} : flow[g].unique_id # data.unique_id
    BY <1>1, <1>2, ClaimedAccountFree DEF MayWrite
  <1>7. FlowsFit'
    <2>1. ASSUME NEW g \in Dialogs, NEW c \in Entries, Claims(g), flow'[g] = flow[g],
                 flow[g].unique_id \notin contested', entry'[c] # None
          PROVE  entry'[c].unique_id # flow[g].unique_id
      <3>1. Holders(flow[g].unique_id) = {}
        BY <2>1, <1>1, ClaimedAccountFree
      <3>2. CASE c # e
        BY <2>1, <3>1, <3>2, <1>3 DEF Holders, Configured
      <3>3. CASE c = e /\ data.unique_id = entry[e].unique_id
        BY <3>1, <3>3, <1>1, <1>3 DEF Holders
      <3>4. CASE c = e /\ data.unique_id # entry[e].unique_id
        <4>1. g # d
          BY <2>1, <1>4 DEF Claims, Claiming, Closed
        <4> QED
          BY <2>1, <3>4, <4>1, <1>3, <1>6
      <3> QED
        BY <3>2, <3>3, <3>4
    <2>2. \A g \in Dialogs : flow'[g] \in {flow[g], Gone(flow[g]), Closed}
      BY <1>4
    <2> QED
      BY <2>1, <2>2, <1>1, FlowsEnd
  <1>8. IdFollowsEmail'
    BY <1>2, <1>3 DEF FlowInv, EntriesFit, IdFollowsEmail, Configured
  <1>9. UniqueAccounts'
    <2>1. SUFFICES ASSUME NEW b \in Entries, NEW c \in Entries, entry'[b] # None,
                          entry'[c] # None, entry'[b].unique_id = entry'[c].unique_id,
                          entry'[b].unique_id \notin contested'
                   PROVE  b = c
      BY DEF UniqueAccounts, Configured
    <2>2. \A x, y \in Entries :
            /\ Configured(x) /\ Configured(y) /\ entry[x].unique_id = entry[y].unique_id
            /\ entry[x].unique_id \notin contested'
            => x = y
      BY <1>1 DEF FlowInv, EntriesFit, UniqueAccounts
    <2>3. CASE data.unique_id = entry[e].unique_id
      BY <2>1, <2>2, <2>3, <1>1, <1>3 DEF Configured
    <2>4. CASE data.unique_id # entry[e].unique_id
      <3>1. ASSUME NEW x \in Entries \ {e}, entry'[x] # None,
                   data.unique_id \notin contested'
            PROVE  entry'[x].unique_id # data.unique_id
        BY <3>1, <2>4, <1>3, <1>6 DEF Holders, Configured
      <3> QED
        BY <2>1, <2>2, <3>1, <1>3 DEF Configured
    <2> QED
      BY <2>3, <2>4
  <1>10. IdsUsed'
    BY <1>1, <1>3 DEF FlowInv, EntriesFit, IdsUsed, Configured
  <1>11. ReloadsConfigured'
    BY <1>3 DEF FlowInv, EntriesFit, ReloadsConfigured, Configured, TypeOK
  <1> QED
    BY <1>5, <1>7, <1>8, <1>9, <1>10, <1>11 DEF FlowInv, EntriesFit

----------------------------------------------------------------------------
(* Home Assistant's, the user's and the vendor's own steps.                *)

LEMMA RemoveKeepsInv ==
  ASSUME FlowInv, NEW e \in Entries, RemoveEntry(e)
  PROVE  FlowInv'
  <1>1. /\ entry'[e] = None /\ \A c \in Entries \ {e} : entry'[c] = entry[c]
        /\ used' = used /\ reloadDue' = reloadDue \ {e} /\ contested' = contested
    BY DEF RemoveEntry, FlowInv, TypeOK
  <1>2. \A g \in Dialogs : flow'[g] \in {flow[g], Gone(flow[g]), Closed}
    BY DEF RemoveEntry
  <1>3. TypeOK'
    <2>1. \A g \in Dialogs : flow'[g] \in FlowState
      BY <1>2, LookUpTypes, FlowStates DEF FlowInv
    <2>2. flow' \in [Dialogs -> FlowState]
      <3>1. \E f : flow' = [g \in Dialogs |-> f[g]]
        BY DEF RemoveEntry
      <3> QED
        BY <2>1, <3>1
    <2> QED
      BY <2>2 DEF RemoveEntry, FlowInv, TypeOK
  <1>4. FlowsFit'
    <2>1. \A g \in Dialogs, c \in Entries :
            /\ Claims(g) /\ flow'[g] = flow[g] /\ flow[g].unique_id \notin contested'
            /\ entry'[c] # None
            => entry'[c].unique_id # flow[g].unique_id
      BY <1>1, ClaimedAccountFree DEF Holders, Configured
    <2> QED
      BY <1>1, <1>2, <2>1, FlowsEnd
  <1>5. IdFollowsEmail' /\ UniqueAccounts' /\ IdsUsed'
    BY <1>1 DEF FlowInv, EntriesFit, IdFollowsEmail, UniqueAccounts, IdsUsed, Configured
  <1>6. ReloadsConfigured'
    BY <1>1 DEF FlowInv, EntriesFit, ReloadsConfigured, Configured, TypeOK
  <1> QED
    BY <1>3, <1>4, <1>5, <1>6 DEF FlowInv, EntriesFit

LEMMA OthersKeepInv ==
  ASSUME FlowInv,
         \/ \E e \in Entries : EntryStep(e)
         \/ \E a \in Accounts : ChangePassword(a)
         \/ UNCHANGED vars
  PROVE  FlowInv'
  <1>1. ASSUME UNCHANGED <<entry, used, flow, contested>>,
               \A e \in reloadDue' : Configured(e)
        PROVE  FlowsFit' /\ EntriesFit'
    BY <1>1 DEF FlowInv, FlowsFit, EntriesFit, InputsThere, KindsFit, ClaimsHold, Claims,
       Taken, IdFollowsEmail, UniqueAccounts, IdsUsed, ReloadsConfigured, Configured
  <1>2. \A e \in reloadDue : Configured(e)
    BY DEF FlowInv, EntriesFit, ReloadsConfigured
  <1>3. ASSUME NEW e \in Entries, SetUpEntry(e)
        PROVE  FlowInv'
    <2>1. entry[e] \in EntryData
      BY <1>2, <1>3, LookUpTypes DEF SetUpEntry, FlowInv
    <2>2. [token |-> entry[e].token, interval |-> ScanInterval(options[e])] \in Snapshot
      BY <2>1, ScanIntervalInBand DEF EntryData, Snapshot
    <2>3. TypeOK'
      BY <1>3, <2>2 DEF SetUpEntry, FlowInv, TypeOK, historyVars
    <2> QED
      BY <1>1, <1>2, <1>3, <2>3 DEF SetUpEntry, FlowInv, historyVars
  <1>4. ASSUME NEW e \in Entries, SubmitOptions(e)
        PROVE  FlowInv'
    <2>1. TypeOK'
      BY <1>4 DEF SubmitOptions, FlowInv, TypeOK, historyVars
    <2> QED
      BY <1>1, <1>2, <1>4, <2>1 DEF SubmitOptions, FlowInv, historyVars
  <1>5. ASSUME NEW e \in Entries, EditStorage(e)
        PROVE  FlowInv'
    <2>1. UNCHANGED <<right, entry, used, accepted, crossed, contested>>
      BY <1>5 DEF EditStorage, historyVars
    <2>2. flow' = [d \in Dialogs |-> Closed] /\ \A c \in reloadDue' : Configured(c)
      BY <1>5 DEF EditStorage
    <2>3. count' \in Counts
      <3>1. count \in Counts
        BY DEF FlowInv, TypeOK, Counts
      <3> QED
        BY <1>5, <3>1, CountType DEF EditStorage
    <2>4. TypeOK'
      BY <1>5, <2>1, <2>3, FlowStates DEF EditStorage, FlowInv, TypeOK, Counts
    <2>5. FlowsFit'
      <3>1. \A g \in Dialogs : flow'[g] = Closed
        BY <2>2
      <3> QED
        BY <3>1 DEF FlowsFit, InputsThere, KindsFit, ClaimsHold, Claims, Claiming, Closed
    <2>6. EntriesFit'
      BY <2>1, <2>2 DEF FlowInv, EntriesFit, IdFollowsEmail, UniqueAccounts, IdsUsed,
         ReloadsConfigured, Configured
    <2> QED
      BY <2>4, <2>5, <2>6 DEF FlowInv
  <1>6. ASSUME NEW a \in Accounts, ChangePassword(a)
        PROVE  FlowInv'
    <2>1. TypeOK'
      BY <1>6 DEF ChangePassword, FlowInv, TypeOK, entryVars, historyVars
    <2> QED
      BY <1>1, <1>2, <1>6, <2>1 DEF ChangePassword, FlowInv, entryVars, historyVars
  <1>7. CASE UNCHANGED vars
    <2>1. TypeOK'
      BY <1>7 DEF vars, FlowInv, TypeOK, entryVars, historyVars
    <2> QED
      BY <1>1, <1>2, <1>7, <2>1 DEF vars, FlowInv, entryVars, historyVars
  <1> QED
    BY <1>3, <1>4, <1>5, <1>6, <1>7, RemoveKeepsInv DEF EntryStep

----------------------------------------------------------------------------
(* The invariant and what follows from it.                                 *)

LEMMA InitFlowInv == Init => FlowInv
  <1> SUFFICES ASSUME Init
               PROVE  FlowInv
    OBVIOUS
  <1>1. TypeOK
    <2>1. count \in Counts
      BY FlowAssumption DEF Init, Counts
    <2> QED
      BY <2>1, FlowStates DEF Init, TypeOK, Counts
  <1>2. \A d \in Dialogs : flow[d] = Closed
    BY DEF Init
  <1>3. FlowsFit
    BY <1>2 DEF FlowsFit, InputsThere, KindsFit, ClaimsHold, Claims, Claiming, Closed
  <1>4. EntriesFit
    BY DEF Init, Configured, EntriesFit, IdFollowsEmail, UniqueAccounts, IdsUsed,
       ReloadsConfigured
  <1> QED
    BY <1>1, <1>3, <1>4 DEF FlowInv

\* The steps, sorted by what they do.
LEMMA Steps ==
  ASSUME [Next]_vars
  PROVE  \/ \E d \in Dialogs : FormStep(d) \/ SuccessStep(d)
         \/ \E e \in Entries : EntryStep(e)
         \/ \E a \in Accounts : ChangePassword(a)
         \/ UNCHANGED vars
  BY DEF Next, FlowStep, FormStep, SuccessStep

LEMMA NextFlowInv == FlowInv /\ [Next]_vars => FlowInv'
  <1> SUFFICES ASSUME FlowInv, [Next]_vars
               PROVE  FlowInv'
    OBVIOUS
  <1>1. CASE \E d \in Dialogs : FormStep(d)
    BY <1>1, FormsKeepInv
  <1>2. CASE \E d \in Dialogs : SuccessStep(d)
    BY <1>2, CreateKeepsInv, UpdatesKeepInv DEF SuccessStep
  <1>3. CASE \/ \E e \in Entries : EntryStep(e)
             \/ \E a \in Accounts : ChangePassword(a)
             \/ UNCHANGED vars
    BY <1>3, OthersKeepInv
  <1> QED
    BY <1>1, <1>2, <1>3, Steps

\* FlowInv holds in every state.
THEOREM FlowInvariant == Spec => []FlowInv
  BY InitFlowInv, NextFlowInv, PTL DEF Spec

\* Every variable keeps its type: what is set up polls within the band.
THEOREM FlowTypeCorrect == Spec => []TypeOK
  <1>1. FlowInv => TypeOK
    BY DEF FlowInv
  <1> QED
    BY <1>1, FlowInvariant, PTL

\* Steps that write no entry.
LEMMA QuietSteps ==
  ASSUME \/ \E d \in Dialogs : FormStep(d)
         \/ \E e \in Entries : EntryStep(e) /\ ~ RemoveEntry(e)
         \/ \E a \in Accounts : ChangePassword(a)
         \/ UNCHANGED vars
  PROVE  UNCHANGED <<entry, historyVars>>
  BY DEF FormStep, OpenFlow, CloseDialog, EntryGone, LoginRefused, SubmitUser, SubmitReauth,
     SubmitReconfigure, EntryStep, SetUpEntry, SubmitOptions, EditStorage, ChangePassword,
     entryVars, vars

\* Every step is a step of the registry, or leaves it alone.
LEMMA NextKeepsRegistry ==
  FlowInv /\ [Next]_vars => [Registry!Next]_<<Owner, contested>>
  <1> SUFFICES ASSUME FlowInv, [Next]_vars
               PROVE  Registry!Next \/ (Owner' = Owner /\ contested' = contested)
    BY DEF Registry!Next
  <1>1. ASSUME UNCHANGED <<entry, historyVars>>
        PROVE  Owner' = Owner /\ contested' = contested
    BY <1>1 DEF Owner, Configured, historyVars
  <1>2. /\ \A c \in Entries : Configured(c) => Owner[c] = entry[c].unique_id
        /\ \A c \in Entries : ~ Configured(c) => Owner[c] = None
        /\ \A c \in Entries : Configured(c) => Owner[c] # None
        /\ None \notin Accounts
        /\ Owner = [c \in Entries |-> Owner[c]]
    BY LookUpTypes DEF Owner, FlowInv, EntriesFit, IdFollowsEmail
  <1>3. \A a \in Accounts : Holders(a) = {} => Registry!Free(a)
    BY <1>2 DEF Holders, Registry!Free
  <1>4. ASSUME NEW d \in Dialogs, CreateEntry(d)
        PROVE  Registry!Next
    <2>1. PICK e \in Entries, h \in Entries, data \in EntryData :
            /\ ~ Configured(e)
            /\ data.unique_id = Account[data.email]
            /\ entry' = [entry EXCEPT ![h] = None, ![e] = data]
            /\ \/ h = e /\ Holders(data.unique_id) = {}
               \/ h # e /\ h \in Holders(data.unique_id) /\ data.unique_id \in contested
      BY <1>4, Created
    <2>2. data # None /\ data.unique_id \in Accounts
      BY FlowAssumption DEF EntryData
    <2>3. contested' = contested
      BY <1>4 DEF CreateEntry
    <2>6. data.unique_id = Account[data.email]
      BY <2>1
    <2>4. CASE h = e /\ Holders(data.unique_id) = {}
      <3>1. entry'[e] = data /\ \A c \in Entries \ {e} : entry'[c] = entry[c]
        BY <2>1, <2>4 DEF FlowInv, TypeOK
      <3>2. Owner' = [Owner EXCEPT ![e] = data.unique_id]
        BY <2>6, <2>2, <3>1 DEF Owner, Configured
      <3>3. Owner[e] = None /\ Registry!Free(data.unique_id)
        BY <2>1, <2>2, <2>4, <1>2, <1>3
      <3>4. Registry!Register(e, data.unique_id)
        BY <2>3, <3>2, <3>3 DEF Registry!Register
      <3> QED
        BY <2>2, <3>4 DEF Registry!Next
    <2>5. CASE h # e /\ h \in Holders(data.unique_id) /\ data.unique_id \in contested
      <3>1. /\ entry'[e] = data /\ entry'[h] = None
            /\ \A c \in Entries \ {e, h} : entry'[c] = entry[c]
        BY <2>1, <2>5 DEF FlowInv, TypeOK
      <3>2. Owner' = [Owner EXCEPT ![h] = None, ![e] = data.unique_id]
        BY <2>6, <2>2, <2>5, <3>1 DEF Owner, Configured
      <3>3. Owner[e] = None /\ Owner[h] = data.unique_id
        BY <2>1, <2>5, <1>2 DEF Holders
      <3>4. Registry!Replace(h, e, data.unique_id)
        BY <2>3, <2>5, <3>2, <3>3 DEF Registry!Replace
      <3> QED
        BY <2>2, <3>4 DEF Registry!Next
    <2> QED
      BY <2>1, <2>4, <2>5
  <1>5. ASSUME NEW d \in Dialogs, UpdateFromReauth(d) \/ UpdateFromReconfigure(d)
        PROVE  Registry!Next \/ (Owner' = Owner /\ contested' = contested)
    <2> DEFINE e == flow[d].of
    <2>1. /\ LoginAccepted(d) /\ e \in Entries /\ Configured(e)
          /\ contested \subseteq contested'
      BY <1>5, Updated
    <2>2. PICK data \in EntryData :
            /\ UpdateReload(e, data)
            /\ data.unique_id = Account[data.email]
            /\ MayWrite(d, e, data.unique_id)
            /\ contested' = contested \/ contested' = contested \cup {data.unique_id}
      BY <1>5, Updated
    <2> HIDE DEF e
    <2>3. data # None /\ data.unique_id \in Accounts
      BY FlowAssumption DEF EntryData
    <2>4. entry'[e] = data /\ \A c \in Entries \ {e} : entry'[c] = entry[c]
      BY <2>1, <2>2 DEF UpdateReload, FlowInv, TypeOK
    <2>5. Owner' = [Owner EXCEPT ![e] = data.unique_id]
      BY <2>1, <2>2, <2>3, <2>4 DEF Owner, Configured
    <2>6. Owner[e] # None /\ Owner[e] = entry[e].unique_id
      BY <2>1, <1>2
    <2>7. CASE contested' # contested
      <3>1. Registry!Overrun(e, data.unique_id)
        BY <2>2, <2>5, <2>6, <2>7 DEF Registry!Overrun
      <3> QED
        BY <2>1, <2>3, <3>1 DEF Registry!Next
    <2>8. CASE contested' = contested /\ data.unique_id = entry[e].unique_id
      <3>1. Owner' = Owner
        BY <2>5, <2>6, <2>8, <1>2
      <3> QED
        BY <2>8, <3>1
    <2>9. CASE contested' = contested /\ data.unique_id # entry[e].unique_id
      <3>1. Registry!Free(data.unique_id) \/ data.unique_id \in contested
        BY <2>2, <2>3, <2>9, <1>3, ClaimedAccountFree DEF MayWrite
      <3>2. Registry!Move(e, data.unique_id)
        BY <2>5, <2>6, <2>9, <3>1 DEF Registry!Move
      <3> QED
        BY <2>1, <2>3, <3>2 DEF Registry!Next
    <2> QED
      BY <2>7, <2>8, <2>9
  <1>6. ASSUME NEW e \in Entries, RemoveEntry(e)
        PROVE  Registry!Next
    <2>1. /\ Configured(e) /\ entry' = [entry EXCEPT ![e] = None]
          /\ contested' = contested
      BY <1>6 DEF RemoveEntry
    <2>2. Owner' = [Owner EXCEPT ![e] = None]
      BY <2>1 DEF Owner, Configured, FlowInv, TypeOK
    <2>3. Registry!Release(e)
      BY <2>1, <2>2, <1>2 DEF Registry!Release
    <2> QED
      BY <2>3 DEF Registry!Next
  <1> QED
    BY <1>1, <1>4, <1>5, <1>6, Steps, QuietSteps DEF SuccessStep

\* The config flows implement the registry: an account has a second entry
\* only after a reconfiguration without a claim to it wrote it -- one whose
\* dialog was gone during its login, or one that kept its entry's address
\* while another reconfiguration moved the entry.
THEOREM FlowsKeepRegistry == Spec => KeepsRegistry
  <1>1. Init => Registry!Init
    BY DEF Init, Registry!Init, Owner, Configured
  <1> QED
    BY <1>1, FlowInvariant, NextKeepsRegistry, PTL DEF Spec, KeepsRegistry, Registry!Spec

----------------------------------------------------------------------------
(* What is stored and what runs.                                           *)

\* The credentials of one entry, as CredentialsBelong has them.
Stored(e) ==
    e \notin crossed =>
        /\ entry[e].token = entry[e].unique_id
        /\ <<entry[e].unique_id, entry[e].password>> \in accepted

AllStored == \A e \in Entries : Configured(e) => Stored(e)

LEMMA NextAllStored == FlowInv /\ AllStored /\ [Next]_vars => AllStored'
  <1> SUFFICES ASSUME FlowInv, AllStored, [Next]_vars
               PROVE  AllStored'
    OBVIOUS
  <1>1. ASSUME UNCHANGED <<entry, historyVars>>
        PROVE  AllStored'
    BY <1>1 DEF AllStored, Stored, Configured, historyVars
  <1>2. ASSUME NEW d \in Dialogs, CreateEntry(d)
        PROVE  AllStored'
    <2>1. PICK e \in Entries, h \in Entries, data \in EntryData :
            /\ data.unique_id = LoginAccount(d) /\ data.token = LoginAccount(d)
            /\ data.password = flow[d].password
            /\ entry' = [entry EXCEPT ![h] = None, ![e] = data]
            /\ crossed' = crossed \ {h}
      BY <1>2, Created
    <2>2. accepted' = accepted \cup {<<LoginAccount(d), flow[d].password>>}
      BY <1>2 DEF CreateEntry, LoginAccepted
    <2>3. /\ entry'[e] = data
          /\ h # e => entry'[h] = None
          /\ \A c \in Entries \ {e, h} : entry'[c] = entry[c]
      BY <2>1 DEF FlowInv, TypeOK
    <2>4. Stored(e)'
      <3>1. /\ data.token = data.unique_id
            /\ accepted' = accepted \cup {<<data.unique_id, data.password>>}
        BY <2>1, <2>2
      <3> QED
        BY <2>3, <3>1 DEF Stored
    <2>5. ASSUME NEW c \in Entries \ {e}, Configured(c)'
          PROVE  Stored(c)'
      <3>1. entry'[c] = entry[c] /\ c # h /\ Configured(c)
        BY <2>3, <2>5 DEF Configured
      <3>2. Stored(c) /\ (c \notin crossed' => c \notin crossed)
        BY <2>1, <3>1 DEF AllStored
      <3> QED
        BY <2>2, <3>1, <3>2 DEF Stored
    <2> QED
      BY <2>4, <2>5 DEF AllStored
  <1>3. ASSUME NEW d \in Dialogs, UpdateFromReauth(d) \/ UpdateFromReconfigure(d)
        PROVE  AllStored'
    <2> DEFINE e == flow[d].of
    <2>1. LoginAccepted(d) /\ e \in Entries /\ Configured(e) /\ crossed \ {e} \subseteq crossed'
      BY <1>3, Updated
    <2>2. PICK data \in EntryData :
            /\ UpdateReload(e, data)
            /\ data.password = flow[d].password /\ data.token = LoginAccount(d)
            /\ data.token = data.unique_id \/ e \in crossed'
      BY <1>3, Updated
    <2> HIDE DEF e
    <2>3. entry'[e] = data /\ \A c \in Entries \ {e} : entry'[c] = entry[c]
      BY <2>1, <2>2 DEF UpdateReload, FlowInv, TypeOK
    <2>4. accepted' = accepted \cup {<<data.token, data.password>>}
      BY <2>1, <2>2 DEF LoginAccepted
    <2> QED
      BY <2>1, <2>2, <2>3, <2>4 DEF AllStored, Stored, Configured
  <1>4. ASSUME NEW e \in Entries, RemoveEntry(e)
        PROVE  AllStored'
    BY <1>4 DEF RemoveEntry, AllStored, Stored, Configured, FlowInv, TypeOK
  <1> QED
    BY <1>1, <1>2, <1>3, <1>4, Steps, QuietSteps DEF SuccessStep

\* The unique id, the token and the password of an entry are those of its
\* account, but for the one crossing of a reauth and a reconfiguration.
THEOREM CredentialsAreTheAccounts == Spec => []CredentialsBelong
  <1>1. Init => AllStored
    BY DEF Init, AllStored, Configured
  <1>2. FlowInv /\ AllStored => CredentialsBelong
    BY DEF FlowInv, EntriesFit, IdFollowsEmail, AllStored, Stored, CredentialsBelong
  <1> QED
    BY <1>1, <1>2, FlowInvariant, NextAllStored, PTL DEF Spec

LEMMA NextRunsOnStoredData == FlowInv /\ RunsOnStoredData /\ [Next]_vars => RunsOnStoredData'
  <1> SUFFICES ASSUME FlowInv, RunsOnStoredData, [Next]_vars
               PROVE  RunsOnStoredData'
    OBVIOUS
  <1>1. ASSUME UNCHANGED entryVars
        PROVE  RunsOnStoredData'
    BY <1>1 DEF entryVars, RunsOnStoredData, Configured
  <1>2. ASSUME NEW e \in Entries, e \in reloadDue', reloadDue \subseteq reloadDue',
               UNCHANGED running,
               \A d \in Entries \ {e} : entry'[d] = entry[d] /\ options'[d] = options[d]
        PROVE  RunsOnStoredData'
    BY <1>2 DEF RunsOnStoredData, Configured
  <1>3. ASSUME NEW d \in Dialogs, CreateEntry(d)
        PROVE  RunsOnStoredData'
    <2>1. PICK e \in Entries, h \in Entries, data \in EntryData :
            /\ entry' = [entry EXCEPT ![h] = None, ![e] = data]
            /\ options' = [options EXCEPT ![h] = None]
            /\ running' = [running EXCEPT ![h] = None]
            /\ reloadDue' = (reloadDue \ {h}) \cup {e}
      BY <1>3, Created
    <2>2. h # e => entry'[h] = None
      BY <2>1 DEF FlowInv, TypeOK
    <2>3. \A c \in Entries \ {e, h} :
            /\ entry'[c] = entry[c] /\ options'[c] = options[c] /\ running'[c] = running[c]
            /\ c \in reloadDue => c \in reloadDue'
      BY <2>1 DEF FlowInv, TypeOK
    <2>4. e \in reloadDue'
      BY <2>1
    <2> QED
      BY <2>2, <2>3, <2>4 DEF RunsOnStoredData, Configured
  <1>4. ASSUME NEW e \in Entries, NEW data, UpdateReload(e, data)
        PROVE  RunsOnStoredData'
    BY <1>2, <1>4 DEF UpdateReload, FlowInv, TypeOK
  <1>5. ASSUME NEW e \in Entries, SubmitOptions(e)
        PROVE  RunsOnStoredData'
    BY <1>2, <1>5 DEF SubmitOptions, FlowInv, TypeOK
  <1>6. ASSUME NEW e \in Entries, EditStorage(e)
        PROVE  RunsOnStoredData'
    BY <1>6 DEF EditStorage, RunsOnStoredData, Configured
  <1>7. ASSUME NEW e \in Entries, RemoveEntry(e)
        PROVE  RunsOnStoredData'
    BY <1>7 DEF RemoveEntry, RunsOnStoredData, Configured, FlowInv, TypeOK
  <1>8. ASSUME NEW e \in Entries, SetUpEntry(e)
        PROVE  RunsOnStoredData'
    <2> DEFINE snapshot == [token |-> entry[e].token, interval |-> ScanInterval(options[e])]
    <2>1. entry[e] \in EntryData
      BY <1>8 DEF SetUpEntry, FlowInv, TypeOK, EntriesFit, ReloadsConfigured, Configured
    <2>2. snapshot \in Snapshot
      BY <2>1, ScanIntervalInBand DEF EntryData, Snapshot
    <2>3. /\ snapshot # None /\ snapshot.token = entry[e].token
          /\ snapshot.interval \in Band /\ snapshot.interval = ScanInterval(options[e])
      BY <2>2, FlowAssumption, ScanIntervalInBand
    <2>4. BoundedSeconds(options[e]) => ScanInterval(options[e]) = options[e]
      BY FlowAssumption DEF BoundedSeconds, ScanInterval, Band
    <2>5. running'[e] = snapshot /\ \A d \in Entries \ {e} : running'[d] = running[d]
      BY <1>8 DEF SetUpEntry, FlowInv, TypeOK
    <2> HIDE DEF snapshot
    <2> QED
      BY <1>8, <2>3, <2>4, <2>5 DEF SetUpEntry, RunsOnStoredData, Configured
  <1>9. ASSUME NEW d \in Dialogs, FormStep(d)
        PROVE  UNCHANGED entryVars
    BY <1>9 DEF FormStep, OpenFlow, CloseDialog, EntryGone, LoginRefused, SubmitUser,
       SubmitReauth, SubmitReconfigure
  <1>10. ASSUME NEW d \in Dialogs, UpdateFromReauth(d) \/ UpdateFromReconfigure(d)
         PROVE  RunsOnStoredData'
    <2>1. flow[d].of \in Entries /\ \E data \in EntryData : UpdateReload(flow[d].of, data)
      BY <1>10, Updated
    <2> QED
      BY <2>1, <1>4
  <1>11. ASSUME NEW a \in Accounts, ChangePassword(a)
         PROVE  UNCHANGED entryVars
    BY <1>11 DEF ChangePassword
  <1>12. CASE UNCHANGED vars
    BY <1>1, <1>12 DEF vars
  <1> QED
    BY <1>1, <1>3, <1>5, <1>6, <1>7, <1>8, <1>9, <1>10, <1>11, <1>12, Steps
    DEF SuccessStep, EntryStep

\* An entry that is not about to be reloaded runs on what is stored, within
\* the supported band.
THEOREM EntriesRunOnStoredData == Spec => []RunsOnStoredData
  <1>1. Init => RunsOnStoredData
    BY DEF Init, RunsOnStoredData, Configured
  <1> QED
    BY <1>1, FlowInvariant, NextRunsOnStoredData, PTL DEF Spec

============================================================================
