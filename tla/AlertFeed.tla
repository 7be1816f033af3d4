----------------------------- MODULE AlertFeed -----------------------------
(***************************************************************************)
(* What the alert entity promises its automations: a feed of the vendor's  *)
(* alerts that may leave some out, but hands over each at most once, oldest *)
(* first, and none from behind what it has handed over.  A restart does    *)
(* not start it over.  AlertEvents implements this as long as the log read *)
(* that meets a new entity is complete.                                    *)
(***************************************************************************)
EXTENDS Naturals, SequencesExt

VARIABLES
    raised,     \* how many alerts the vendor has raised: they are numbered
    fired       \* the alerts that were handed over

feedVars == <<raised, fired>>

Init ==
    /\ raised = 0
    /\ fired = << >>

Raise ==
    /\ raised' = raised + 1
    /\ UNCHANGED fired

\* A batch is handed over: alerts that are there, newer than all before.
HandOver ==
    /\ fired' \in Seq(1 .. raised)
    /\ IsPrefix(fired, fired')
    /\ \A k \in Len(fired) + 1 .. Len(fired') :
          \A i \in 1 .. k - 1 : fired'[i] < fired'[k]
    /\ UNCHANGED raised

Next == Raise \/ HandOver

Spec == Init /\ [][Next]_feedVars

============================================================================
