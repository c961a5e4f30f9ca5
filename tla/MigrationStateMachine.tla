------------------------ MODULE MigrationStateMachine ------------------------
(***************************************************************************)
(* The transition graph that assurance/state.py declares for a migration:  *)
(* ALLOWED_TRANSITIONS, with no way out of TERMINAL_STATES.  It is the     *)
(* abstract specification of a migration's life; nothing in the pipeline   *)
(* calls MigrationStateMachine.transition, so whether the pipeline follows *)
(* it is a question (EvidencePhases, MigrationPipeline), not a given.      *)
(***************************************************************************)
VARIABLE state

TerminalStates == {"VERIFIED", "FAILED", "BLOCKED", "ERROR"}

AllowedTransitions ==
  [ CREATED             |-> {"ANALYZING", "ERROR"},
    ANALYZING           |-> {"TRANSLATING", "ERROR"},
    TRANSLATING         |-> {"PREFLIGHTING", "FAILED", "ERROR"},
    PREFLIGHTING        |-> {"EXECUTING", "BLOCKED", "ERROR"},
    EXECUTING           |-> {"VALIDATING", "FAILED", "ERROR"},
    VALIDATING          |-> {"VERIFIED", "DISCREPANCIES_FOUND", "ERROR"},
    DISCREPANCIES_FOUND |-> {"DIAGNOSING", "BLOCKED", "ERROR"},
    DIAGNOSING          |-> {"REPAIR_PROPOSED", "BLOCKED", "FAILED", "ERROR"},
    REPAIR_PROPOSED     |-> {"REPAIR_VERIFYING", "ERROR"},
    REPAIR_VERIFYING    |-> {"VERIFIED", "BLOCKED", "FAILED", "ERROR"} ]

Init == state = "CREATED"

Transition(to) ==
  /\ state \notin TerminalStates
  /\ to \in AllowedTransitions[state]
  /\ state' = to

Next == \E to \in TerminalStates \cup DOMAIN AllowedTransitions : Transition(to)

Spec == Init /\ [][Next]_state
==============================================================================
