-------------------------- MODULE WorkflowContract --------------------------
(***************************************************************************)
(* What one call of workflow.run promises to the code that persists its    *)
(* result: it reports at most MaxSignals signals, then either returns a    *)
(* result whose status is "completed" or "limited", or raises; nothing     *)
(* more is reported after that, and it does end.                           *)
(***************************************************************************)
EXTENDS Naturals

CONSTANT MaxSignals   \* most signals one run reports

VARIABLES
    phase,     \* "running", "returned" or "raised"
    signals,   \* how many signals the run has reported
    status     \* the result's status; "none" until it is returned

contractVars == <<phase, signals, status>>

Init ==
    /\ phase = "running"
    /\ signals \in {0, 1} \cap (0 .. MaxSignals)
    /\ status = "none"

Report ==
    /\ phase = "running"
    /\ signals < MaxSignals
    /\ signals' = signals + 1
    /\ UNCHANGED <<phase, status>>

Return ==
    /\ phase = "running"
    /\ phase' = "returned"
    /\ status' \in {"completed", "limited"}
    /\ UNCHANGED signals

Raise ==
    /\ phase = "running"
    /\ phase' = "raised"
    /\ UNCHANGED <<signals, status>>

Next == Report \/ Return \/ Raise

Spec == Init /\ [][Next]_contractVars /\ WF_contractVars(Return \/ Raise)
=============================================================================
