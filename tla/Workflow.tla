------------------------------ MODULE Workflow ------------------------------
(***************************************************************************)
(* The workflow tables of src/src/harness/orchestrator/machine.py and the  *)
(* tool registry of src/src/harness/tools/registry.py: the named states of *)
(* an investigation, the transitions between them, the case status each    *)
(* terminal state stands for, and which tool each state may call.          *)
(***************************************************************************)
EXTENDS Naturals

(* The states in which the runner still has work to do. *)
ActiveStates ==
  { "RECEIVE_ALERT", "VALIDATE_REQUEST", "AUTHORIZE", "CLASSIFY_ALERT",
    "CREATE_INVESTIGATION_PLAN", "COLLECT_EVIDENCE", "NORMALIZE_EVIDENCE",
    "FORM_HYPOTHESES", "VALIDATE_HYPOTHESES", "PRODUCE_REPORT",
    "VERIFY_OUTPUT" }

TerminalStates ==
  { "COMPLETE", "ACCESS_DENIED", "INCOMPLETE_EVIDENCE", "SOURCE_UNAVAILABLE",
    "POLICY_BLOCKED", "BUDGET_EXCEEDED", "VALIDATION_FAILED", "CANCELLED",
    "SYSTEM_ERROR" }

States == ActiveStates \cup TerminalStates

-----------------------------------------------------------------------------

(* The case status each terminal state is stored as. *)
TerminalStatus ==
  [ COMPLETE            |-> "completed",
    BUDGET_EXCEEDED     |-> "budget_exhausted",
    CANCELLED           |-> "cancelled",
    ACCESS_DENIED       |-> "denied",
    POLICY_BLOCKED      |-> "denied",
    INCOMPLETE_EVIDENCE |-> "partially_completed",
    SOURCE_UNAVAILABLE  |-> "partially_completed",
    VALIDATION_FAILED   |-> "failed_safely",
    SYSTEM_ERROR        |-> "failed_safely" ]

TerminalStatuses ==
  { "completed", "budget_exhausted", "cancelled", "denied",
    "partially_completed", "failed_safely" }

(* The normal path: one successor for every active state. *)
NextState ==
  [ RECEIVE_ALERT             |-> "VALIDATE_REQUEST",
    VALIDATE_REQUEST          |-> "AUTHORIZE",
    AUTHORIZE                 |-> "CLASSIFY_ALERT",
    CLASSIFY_ALERT            |-> "CREATE_INVESTIGATION_PLAN",
    CREATE_INVESTIGATION_PLAN |-> "COLLECT_EVIDENCE",
    COLLECT_EVIDENCE          |-> "NORMALIZE_EVIDENCE",
    NORMALIZE_EVIDENCE        |-> "FORM_HYPOTHESES",
    FORM_HYPOTHESES           |-> "VALIDATE_HYPOTHESES",
    VALIDATE_HYPOTHESES       |-> "PRODUCE_REPORT",
    PRODUCE_REPORT            |-> "VERIFY_OUTPUT",
    VERIFY_OUTPUT             |-> "COMPLETE" ]

(* Where an exception in the body of a state sends the machine. *)
FailureTransition ==
  [ RECEIVE_ALERT             |-> "VALIDATION_FAILED",
    VALIDATE_REQUEST          |-> "VALIDATION_FAILED",
    AUTHORIZE                 |-> "ACCESS_DENIED",
    CLASSIFY_ALERT            |-> "SOURCE_UNAVAILABLE",
    CREATE_INVESTIGATION_PLAN |-> "SYSTEM_ERROR",
    COLLECT_EVIDENCE          |-> "INCOMPLETE_EVIDENCE",
    NORMALIZE_EVIDENCE        |-> "VALIDATION_FAILED",
    FORM_HYPOTHESES           |-> "SYSTEM_ERROR",
    VALIDATE_HYPOTHESES       |-> "SYSTEM_ERROR",
    PRODUCE_REPORT            |-> "VALIDATION_FAILED",
    VERIFY_OUTPUT             |-> "VALIDATION_FAILED" ]

(* StateMachine.transition_to accepts the successor or any terminal state, *)
(* and nothing once a terminal state is reached.                           *)
CanTransition(from, to) ==
  /\ from \in ActiveStates
  /\ to = NextState[from] \/ to \in TerminalStates

-----------------------------------------------------------------------------

(* The registry: five read-only operations of three sources. *)
ToolSource ==
  [ get_alert          |-> "alert_source",
    get_related_events |-> "alert_source",
    get_events         |-> "endpoint_telemetry",
    get_user           |-> "identity_context",
    get_asset          |-> "identity_context" ]

Tools == { "get_alert", "get_related_events", "get_events", "get_user", "get_asset" }

Sources == { "alert_source", "endpoint_telemetry", "identity_context" }

(* The states configured with tools of their own. *)
StateTools ==
  [ CLASSIFY_ALERT     |-> { "get_alert" },
    COLLECT_EVIDENCE   |-> { "get_related_events", "get_events", "get_user", "get_asset" },
    NORMALIZE_EVIDENCE |-> { "get_events", "get_user", "get_asset" } ]

(* Every other state permits none. *)
PermittedTools(state) ==
  IF state \in DOMAIN StateTools THEN StateTools[state] ELSE {}
=============================================================================
