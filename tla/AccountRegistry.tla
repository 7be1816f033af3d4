-------------------------- MODULE AccountRegistry --------------------------
(***************************************************************************)
(* What the config flows promise of the accounts: an entry has one         *)
(* account, it changes hands in one step, and a new owner takes an account *)
(* only while nobody has it.  The exception is named: a reconfiguration    *)
(* that lapsed may overrun an account, which is contested from then on,    *)
(* and only a contested account has two entries.  ConfigFlow implements    *)
(* this, and says what a lapsed reconfiguration is.                        *)
(***************************************************************************)
CONSTANTS
    Entries,
    Accounts,
    Nobody          \* the owner of an entry that is not configured: no account

VARIABLES
    owner,          \* owner[e]: the account entry e is for
    contested       \* the accounts that were overrun

Init ==
    /\ owner = [e \in Entries |-> Nobody]
    /\ contested = {}

Free(a) == \A e \in Entries : owner[e] # a

Register(e, a) ==
    /\ owner[e] = Nobody
    /\ Free(a)
    /\ owner' = [owner EXCEPT ![e] = a]
    /\ UNCHANGED contested

\* A new entry for a contested account takes the place of one that has it.
Replace(h, e, a) ==
    /\ a \in contested
    /\ owner[h] = a /\ owner[e] = Nobody
    /\ owner' = [owner EXCEPT ![h] = Nobody, ![e] = a]
    /\ UNCHANGED contested

Move(e, a) ==
    /\ owner[e] # Nobody
    /\ Free(a) \/ a \in contested
    /\ owner' = [owner EXCEPT ![e] = a]
    /\ UNCHANGED contested

\* A lapsed reconfiguration writes account a, whoever has it.
Overrun(e, a) ==
    /\ owner[e] # Nobody
    /\ owner' = [owner EXCEPT ![e] = a]
    /\ contested' = contested \cup {a}

Release(e) ==
    /\ owner[e] # Nobody
    /\ owner' = [owner EXCEPT ![e] = Nobody]
    /\ UNCHANGED contested

Next ==
    \E e \in Entries :
        \/ \E a \in Accounts :
              \/ Register(e, a) \/ Move(e, a) \/ Overrun(e, a)
              \/ \E h \in Entries : Replace(h, e, a)
        \/ Release(e)

Spec == Init /\ [][Next]_<<owner, contested>>

============================================================================
