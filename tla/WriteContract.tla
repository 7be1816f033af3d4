--------------------------- MODULE WriteContract ---------------------------
(***************************************************************************)
(* What a write promises the one who calls it, whatever the recovery       *)
(* behind it does (entity.async_send_write).  A call gets one answer.  It  *)
(* sends two requests at most, the second only where the first was refused *)
(* for its session, and once it is answered it sends nothing more: all     *)
(* that may still happen is the late effect of a request whose outcome the *)
(* answer left open.  "ok" means that the last request was applied;        *)
(* "unchanged" and "reauth", that it had no effect and never will.         *)
(* Whether a request refused for its session had one is not known, and the *)
(* contract does not say.  Session implements this.                        *)
(***************************************************************************)
EXTENDS Naturals

CONSTANT Writers    \* the callers, one call at a time each

VARIABLES
    pending,    \* the writers with a call under way
    told,       \* told[w]: what the caller was told, or "none" so far
    effect      \* effect[w]: what the call's requests did to the vendor

contractVars == <<pending, told, effect>>

NoEffect == [applied |-> 0, late |-> 0, refused |-> FALSE]

\* A request whose outcome is not known did nothing, was applied, or will
\* be applied later.
Unknown(x) == {x, [x EXCEPT !.applied = @ + 1], [x EXCEPT !.late = @ + 1]}

Refused(x) == [x EXCEPT !.refused = TRUE]

\* What the last request of a call that is answered so may have done.
Outcomes(answer, x) ==
    CASE answer = "ok" -> {[x EXCEPT !.applied = @ + 1]}
      [] answer \in {"unchanged", "reauth"} -> {x}
      [] answer \in {"unknown", "raw"} -> Unknown(x) \cup Unknown(Refused(x))

FinalAnswers == {"ok", "unchanged", "reauth", "unknown", "raw"}

Init ==
    /\ pending = {}
    /\ told = [w \in Writers |-> "none"]
    /\ effect = [w \in Writers |-> NoEffect]

Begin(w) ==
    /\ w \notin pending
    /\ pending' = pending \cup {w}
    /\ told' = [told EXCEPT ![w] = "none"]
    /\ effect' = [effect EXCEPT ![w] = NoEffect]

\* The first request is refused for its session, and will be repeated.
Refuse(w) ==
    /\ w \in pending /\ told[w] = "none"
    /\ ~ effect[w].refused
    /\ \E x \in Unknown(Refused(effect[w])) : effect' = [effect EXCEPT ![w] = x]
    /\ UNCHANGED <<pending, told>>

\* The answer is fixed; the call may still be kept waiting for a re-read.
Answer(w) ==
    /\ w \in pending /\ told[w] = "none"
    /\ \E a \in FinalAnswers :
          /\ told' = [told EXCEPT ![w] = a]
          /\ \E x \in Outcomes(a, effect[w]) : effect' = [effect EXCEPT ![w] = x]
    /\ pending' \in {pending, pending \ {w}}

\* An answered call returns.
Return(w) ==
    /\ w \in pending /\ told[w] # "none"
    /\ pending' = pending \ {w}
    /\ UNCHANGED <<told, effect>>

\* A request whose answer left its outcome open takes effect after all.
LateEffect(w) ==
    /\ effect[w].late > 0
    /\ effect' = [effect EXCEPT ![w].applied = @ + 1, ![w].late = @ - 1]
    /\ UNCHANGED <<pending, told>>

Next == \E w \in Writers : Begin(w) \/ Refuse(w) \/ Answer(w) \/ Return(w) \/ LateEffect(w)

Spec == Init /\ [][Next]_contractVars

============================================================================
