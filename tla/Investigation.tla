--------------------------- MODULE Investigation ----------------------------
(***************************************************************************)
(* One investigation from its committed creation to its end: the runner    *)
(* (run_investigation) drives the workflow and calls tools through the     *)
(* invoker, the policy engine and the budget service, and stores evidence; *)
(* the analyst's cancel requests arrive at any moment; the wall clock      *)
(* moves on its own; the process or its database may fail.                 *)
(*                                                                         *)
(* Everything the runner does happens in one database session that commits *)
(* once, at the end.  The variables below hold that session; `db` holds    *)
(* what other sessions can see.  A step of the runner is as long as the    *)
(* code can run without reading the clock or the cancel flag, without a    *)
(* tool call, and without a commit.                                        *)
(***************************************************************************)
EXTENDS Integers, Sequences, FiniteSets, FiniteSetsExt, Workflow

CONSTANTS
  MaxToolOps,     \* limits.max_tool_operations
  MaxItems,       \* limits.max_evidence_items
  MaxBytes,       \* limits.max_evidence_bytes, in units of size
  MaxModelCalls,  \* limits.max_model_calls
  MaxElapsed,     \* limits.max_elapsed_seconds, in ticks
  ClockBound,     \* the clock stops here: every later value acts as this one
  MaxEvents,      \* bound: the longest event list a tool returns
  MaxEntities,    \* bound: how many endpoints and users the evidence names
  ItemSizes,      \* the sizes an evidence item can have
  Grants,         \* the source sets an analyst's token may authorise
  Cancellers,     \* the cancel requests the analyst may send
  Faults          \* which faults can happen, of FaultKinds

(* exception: a step raises, and its session can go on to commit;          *)
(* data: the database refuses a value that a tool or the model gave;       *)
(* report: persist_report raises, and its session can go on to commit;     *)
(* storage: a write is refused; crash: the process dies.                   *)
FaultKinds == {"exception", "data", "report", "storage", "crash"}

ASSUME LimitsAssumption ==
  /\ MaxToolOps \in Nat \ {0} /\ MaxItems \in Nat \ {0} /\ MaxBytes \in Nat \ {0}
  /\ MaxModelCalls \in Nat \ {0} /\ MaxElapsed \in Nat \ {0}
ASSUME BoundsAssumption ==
  /\ ClockBound \in Nat /\ ClockBound > MaxElapsed
  /\ MaxEvents \in Nat /\ MaxEntities \in Nat
ASSUME ItemSizesAssumption == ItemSizes \subseteq Nat \ {0}
ASSUME GrantsAssumption == Grants \subseteq SUBSET Sources
ASSUME FaultsAssumption == Faults \subseteq FaultKinds

VARIABLES
  pc,          \* where the runner is between two of its steps
  st,          \* machine.current
  trace,       \* the state_transition events the session has appended
  reason,      \* the termination reason handed to _finalize
  ops,         \* the session's ToolOperation rows
  evid,        \* the session's EvidenceItem rows
  ledger,      \* the session's BudgetLedger row
  lims,        \* the sources that `limitations` names
  todo,        \* _enrich_entities: the calls still to make, by entity
  left,        \* items of the tool result not yet stored
  tainted,     \* what the report is built from holds a secret-like value
  db,          \* the case as committed, with everything committed with it
  cancelFlag,  \* the case is in _CANCEL_REQUESTS
  canceller,   \* how far each cancel request has got
  acceptedAt,  \* history: how many transitions the run had made when accepted
  elapsed,     \* time since case.started_at
  origin,      \* case.alert_origin
  sources      \* analyst_sources

control == <<pc, st, trace, reason>>
rows    == <<ops, evid, ledger, lims>>
scratch == <<todo, left, tainted>>
request == <<cancelFlag, canceller, acceptedAt>>
input   == <<origin, sources>>

vars == <<control, rows, scratch, db, request, elapsed, input>>

-----------------------------------------------------------------------------
(* What the variables range over.                                          *)

Origins == {"connected_source", "analyst_submitted"}

Reasons ==
  { "none", "cancelled", "no_sources", "unregistered", "unauthorized_source",
    "source_failure", "max_tool_operations", "max_evidence_items",
    "max_evidence_bytes", "max_model_calls", "system_error",
    "verification_failed" }

Decisions == {"authorized", "unregistered", "unauthorized_source", "budget_exhausted"}

(* "failed" is the invoker's answer to an unavailable source, a connector   *)
(* error and an input that does not validate.  "empty" is a success whose  *)
(* data is empty and whose caller takes that for nothing; the row itself    *)
(* says success.                                                           *)
FailedOutcomes == {"failed", "malformed_result", "oversized_result"}

OpRows ==
  [ tool : Tools, state : States, decision : Decisions,
    outcome : {"pending", "denied", "success", "empty"} \cup FailedOutcomes ]

(* `op` is the index of the operation that retrieved the item, 0 for none. *)
EvidenceRows ==
  [ source : Sources \cup {"analyst_submission"}, op : Nat, size : Nat,
    trust  : {"direct_observation", "analyst_provided"} ]

Ledgers == [tool : Nat, items : Nat, bytes : Nat, model : Nat]

ZeroLedger == [tool |-> 0, items |-> 0, bytes |-> 0, model |-> 0]

Transitions == [from : States, to : States]

Reports ==
  [ kind : {"none", "complete", "partial"}, verified : BOOLEAN,
    lims : SUBSET Sources, tainted : BOOLEAN ]

NoReport == [kind |-> "none", verified |-> FALSE, lims |-> {}, tainted |-> FALSE]

Cases ==
  [ status : TerminalStatuses \cup {"created"}, wf : States, reason : Reasons,
    report : Reports, trace : Seq(Transitions), ops : Seq(OpRows),
    evid : Seq(EvidenceRows), ledger : Ledgers ]

(* The case as create_case committed it, before anything is investigated.  *)
Created ==
  [ status |-> "created", wf |-> "RECEIVE_ALERT", reason |-> "none",
    report |-> NoReport, trace |-> <<>>, ops |-> <<>>, evid |-> <<>>,
    ledger |-> ZeroLedger ]

(* What is left to ask about an entity: an endpoint's telemetry and then    *)
(* its asset record, a user's record.                                      *)
EnrichTool == [endpoint |-> "get_events", asset |-> "get_asset", user |-> "get_user"]

EntityLists == UNION { [1..n -> {"endpoint", "user"}] : n \in 0..MaxEntities }

-----------------------------------------------------------------------------
Init ==
  /\ pc = "created" /\ st = "RECEIVE_ALERT" /\ trace = <<>> /\ reason = "none"
  /\ ops = <<>> /\ evid = <<>> /\ ledger = ZeroLedger /\ lims = {}
  /\ todo = <<>> /\ left = 0 /\ tainted = FALSE
  /\ db = Created
  /\ cancelFlag = FALSE
  /\ canceller = [c \in Cancellers |-> "idle"]
  /\ acceptedAt = [c \in Cancellers |-> 0]
  /\ elapsed = 0
  /\ origin \in Origins
  /\ sources \in Grants

(* What no step of the runner touches before it commits. *)
OnlySession == UNCHANGED <<db, request, elapsed, input>>

-----------------------------------------------------------------------------
(* The state machine.                                                      *)

(* A run that forgets the last of its checkpoints (see CheckedStates). *)
CheckedStatesButLast == {"CLASSIFY_ALERT", "COLLECT_EVIDENCE", "NORMALIZE_EVIDENCE"}

(* run_investigation looks at the cancel flag on entering these states. *)
CheckedStates ==
  {"CLASSIFY_ALERT", "COLLECT_EVIDENCE", "NORMALIZE_EVIDENCE", "FORM_HYPOTHESES"}

(* The callback called with the state read after it was assigned. *)
TransitionRecordedLate(s) ==
  /\ CanTransition(st, s)
  /\ st' = s
  /\ trace' = Append(trace, [from |-> s, to |-> s])

(* transition_to, with the audit event its callback appends. *)
TransitionTo(s) ==
  /\ CanTransition(st, s)
  /\ st' = s
  /\ trace' = Append(trace, [from |-> st, to |-> s])

(* advance along the normal path. *)
Advance ==
  LET next == NextState[st] IN
  /\ TransitionTo(next)
  /\ \/ next \in CheckedStates /\ pc' = "poll"
     \/ next = "COMPLETE" /\ pc' = "complete"
     \/ next \notin CheckedStates \cup {"COMPLETE"} /\ pc' = "work"
  /\ UNCHANGED reason

(* Go to a terminal state and hand the reason to _finalize. *)
Stop(s, why) ==
  /\ TransitionTo(s)
  /\ reason' = why
  /\ pc' = "finalize"

(* An exception that escapes the boundary, with only the finally clause run. *)
FailEscapes == pc' = "unwind" /\ UNCHANGED <<st, trace, reason>>

(* An exception reaches the boundary of run_investigation: machine.fail(). *)
Fail == Stop(FailureTransition[st], "system_error")

(* The services are built, the ledger row is inserted, the machine starts. *)
Setup ==
  /\ pc = "created"
  /\ pc' = "work"
  /\ OnlySession
  /\ UNCHANGED <<st, trace, reason, rows, scratch>>

(* States with no work of their own. *)
PassThrough ==
  /\ pc = "work"
  /\ st \in {"RECEIVE_ALERT", "VALIDATE_REQUEST", "CREATE_INVESTIGATION_PLAN"}
  /\ Advance
  /\ OnlySession
  /\ UNCHANGED <<rows, scratch>>

Authorize ==
  /\ pc = "work" /\ st = "AUTHORIZE"
  /\ IF sources = {} THEN Stop("ACCESS_DENIED", "no_sources") ELSE Advance
  /\ OnlySession
  /\ UNCHANGED <<rows, scratch>>

(* _check_cancel: the flag turns the next advance into CANCELLED. *)
Poll ==
  /\ pc = "poll"
  /\ IF cancelFlag THEN Stop("CANCELLED", "cancelled")
     ELSE pc' = "work" /\ UNCHANGED <<st, trace, reason>>
  /\ OnlySession
  /\ UNCHANGED <<rows, scratch>>

-----------------------------------------------------------------------------
(* Tool calls: ToolInvoker.invoke with the policy engine and the budget.   *)

CanRunTool == ledger.tool < MaxToolOps /\ elapsed <= MaxElapsed

(* PolicyEngine._evaluate with the source rule left out. *)
DecisionIgnoringSources(tool) ==
  IF tool \notin PermittedTools(st) THEN "unregistered"
  ELSE IF ~CanRunTool THEN "budget_exhausted"
  ELSE "authorized"

(* PolicyEngine._evaluate: the first rule that objects decides. *)
Decision(tool) ==
  IF tool \notin PermittedTools(st) THEN "unregistered"
  ELSE IF ToolSource[tool] \notin sources THEN "unauthorized_source"
  ELSE IF ~CanRunTool THEN "budget_exhausted"
  ELSE "authorized"

(* The runner is about to call a tool, and which one. *)
ToolDue ==
  \/ pc = "work" /\ st = "CLASSIFY_ALERT" /\ origin = "connected_source"
  \/ pc = "work" /\ st = "COLLECT_EVIDENCE"
  \/ pc = "enrich" /\ todo # <<>>

NextTool ==
  IF st = "CLASSIFY_ALERT" THEN "get_alert"
  ELSE IF st = "COLLECT_EVIDENCE" THEN "get_related_events"
  ELSE EnrichTool[Head(todo)]

CurrentTool == ops[Len(ops)].tool

(* What the runner does when a call is over and nothing stops it. *)
AfterCall ==
  IF st = "NORMALIZE_EVIDENCE"
  THEN /\ pc' = "enrich"
       /\ todo' = IF Head(todo) = "endpoint" THEN <<"asset">> \o Tail(todo) ELSE Tail(todo)
       /\ UNCHANGED <<st, trace, reason>>
  ELSE Advance /\ UNCHANGED todo

(* A denied call adds no limitation; without the alert there is no case. *)
CallDenied(why) ==
  IF st = "CLASSIFY_ALERT"
  THEN Stop("ACCESS_DENIED", why) /\ UNCHANGED todo
  ELSE AfterCall

(* The policy decision and the operation row are recorded first; only then *)
(* is a denial acted on.  A budget denial is raised as BudgetExceeded.     *)
RequestTool ==
  LET decision == Decision(NextTool) IN
  /\ ToolDue
  /\ ops' = Append(ops,
       [ tool |-> NextTool, state |-> st, decision |-> decision,
         outcome |-> IF decision = "authorized" THEN "pending" ELSE "denied" ])
  /\ \/ /\ decision = "authorized"
        /\ pc' = "allowed" /\ UNCHANGED <<st, trace, reason, todo>>
     \/ /\ decision = "budget_exhausted"
        /\ Stop("BUDGET_EXCEEDED", "max_tool_operations") /\ UNCHANGED todo
     \/ /\ decision \in {"unregistered", "unauthorized_source"}
        /\ CallDenied(decision)
  /\ OnlySession
  /\ UNCHANGED <<evid, ledger, lims, left, tainted>>

(* consume_tool_operation reads the clock a second time; when it objects,   *)
(* the operation row stays pending.                                        *)
BudgetSpentAfterAuthorization ==
  /\ pc = "allowed"
  /\ ~CanRunTool
  /\ Stop("BUDGET_EXCEEDED", "max_tool_operations")
  /\ OnlySession
  /\ UNCHANGED <<rows, scratch>>

SetOutcome(o) == ops' = [ops EXCEPT ![Len(ops)].outcome = o]

ConsumeTool == ledger' = [ledger EXCEPT !.tool = @ + 1]

(* How many evidence items a result is stored as. *)
ResultLengths(tool) ==
  IF tool \in {"get_related_events", "get_events"} THEN 0..MaxEvents ELSE {1}

ToolSucceeds ==
  /\ pc = "allowed"
  /\ CanRunTool
  /\ ConsumeTool
  /\ SetOutcome("success")
  /\ left' \in ResultLengths(CurrentTool)
  /\ pc' = "store"
  /\ OnlySession
  /\ UNCHANGED <<st, trace, reason, evid, lims, todo, tainted>>

(* The related events' own limitation forgotten. *)
NamedWhenMissingButRelated == {"get_alert", "get_events"}

(* Only the alert and the two event lists are named in the limitations. *)
NamedWhenMissing == {"get_alert", "get_related_events", "get_events"}

(* What the caller does with the limitations when it got nothing to store. *)
NothingToStore ==
  lims' = IF CurrentTool \in NamedWhenMissing
          THEN lims \cup {ToolSource[CurrentTool]} ELSE lims

(* The test `res.ok and res.data` of every call but the alert's fails on    *)
(* data that is empty; a list of no events is not.                         *)
ToolAnswersEmpty ==
  /\ pc = "allowed"
  /\ CanRunTool
  /\ CurrentTool # "get_alert"
  /\ ConsumeTool
  /\ SetOutcome("empty")
  /\ NothingToStore
  /\ AfterCall
  /\ OnlySession
  /\ UNCHANGED <<evid, left, tainted>>

ToolFails ==
  /\ pc = "allowed"
  /\ CanRunTool
  /\ ConsumeTool
  /\ \E o \in FailedOutcomes : SetOutcome(o)
  /\ NothingToStore
  /\ IF st = "CLASSIFY_ALERT"
     THEN Stop("SOURCE_UNAVAILABLE", "source_failure") /\ UNCHANGED todo
     ELSE AfterCall
  /\ OnlySession
  /\ UNCHANGED <<evid, left, tainted>>

(* A handler raises what the invoker does not catch: the row stays pending. *)
ToolRaises ==
  /\ "exception" \in Faults
  /\ pc = "allowed"
  /\ CanRunTool
  /\ ConsumeTool
  /\ Fail
  /\ OnlySession
  /\ UNCHANGED <<ops, evid, lims, scratch>>

-----------------------------------------------------------------------------
(* Evidence: EvidenceStore.add, with BudgetService.consume_evidence.       *)

(* Analyst-submitted content is stored as an item like any other. *)
SubmitContent ==
  /\ pc = "work" /\ st = "CLASSIFY_ALERT" /\ origin = "analyst_submitted"
  /\ left' = 1
  /\ pc' = "store"
  /\ OnlySession
  /\ UNCHANGED <<st, trace, reason, rows, todo, tainted>>

(* The item named after the tool instead of its source. *)
NewItemNamedByTool(size) ==
  [ source |-> IF ops = <<>> THEN "analyst_submission" ELSE CurrentTool,
    op |-> Len(ops), size |-> size,
    trust |-> IF ops = <<>> THEN "analyst_provided" ELSE "direct_observation" ]

(* Submitted content trusted like an observation. *)
NewItemTrusting(size) ==
  [ source |-> IF ops = <<>> THEN "analyst_submission" ELSE ToolSource[CurrentTool],
    op |-> Len(ops), size |-> size, trust |-> "direct_observation" ]

NewItem(size) ==
  IF st = "CLASSIFY_ALERT" /\ origin = "analyst_submitted"
  THEN [ source |-> "analyst_submission", op |-> 0, size |-> size,
         trust |-> "analyst_provided" ]
  ELSE [ source |-> ToolSource[CurrentTool], op |-> Len(ops), size |-> size,
         trust |-> "direct_observation" ]

(* The bounds tested against what is used, not against what would be. *)
ItemsSpentLate == ledger.items > MaxItems

ItemsSpent == ledger.items + 1 > MaxItems

(* The limit itself already refused. *)
BytesSpentEarly(size) == ledger.bytes + size >= MaxBytes

BytesSpent(size) == ledger.bytes + size > MaxBytes

ConsumeEvidence(size) ==
  ledger' = [ledger EXCEPT !.items = @ + 1, !.bytes = @ + size]

StoreItem ==
  /\ pc = "store" /\ left > 0
  /\ \E size \in ItemSizes :
       /\ ~ItemsSpent /\ ~BytesSpent(size)
       /\ ConsumeEvidence(size)
       /\ evid' = Append(evid, NewItem(size))
  /\ left' = left - 1
  /\ OnlySession
  /\ UNCHANGED <<control, ops, lims, todo, tainted>>

(* The rest of the result is dropped; what is stored stays stored. *)
EvidenceOverLimit ==
  /\ pc = "store" /\ left > 0
  /\ \/ ItemsSpent /\ Stop("BUDGET_EXCEEDED", "max_evidence_items")
     \/ /\ ~ItemsSpent
        /\ \E size \in ItemSizes : BytesSpent(size)
        /\ Stop("BUDGET_EXCEEDED", "max_evidence_bytes")
  /\ OnlySession
  /\ UNCHANGED <<rows, scratch>>

(* A malformed event breaks the loop over the result: before its budget is  *)
(* consumed, or after it and before its row exists.                        *)
StoreRaises ==
  /\ "exception" \in Faults
  /\ pc = "store" /\ left > 0
  /\ \/ UNCHANGED ledger
     \/ \E size \in ItemSizes :
          ~ItemsSpent /\ ~BytesSpent(size) /\ ConsumeEvidence(size)
  /\ Fail
  /\ OnlySession
  /\ UNCHANGED <<ops, evid, lims, scratch>>

ResultStored ==
  /\ pc = "store" /\ left = 0
  /\ AfterCall
  /\ OnlySession
  /\ UNCHANGED <<rows, left, tainted>>

-----------------------------------------------------------------------------
(* Analysis and report.                                                    *)

(* Timeline, entities and observation claims from the evidence so far; the  *)
(* entities decide which enrichment calls follow.                          *)
Normalize ==
  /\ pc = "work" /\ st = "NORMALIZE_EVIDENCE"
  /\ todo' \in EntityLists
  /\ tainted' \in BOOLEAN
  /\ pc' = "enrich"
  /\ OnlySession
  /\ UNCHANGED <<st, trace, reason, rows, left>>

NormalizeRaises ==
  /\ "exception" \in Faults
  /\ pc = "work" /\ st = "NORMALIZE_EVIDENCE"
  /\ Fail
  /\ OnlySession
  /\ UNCHANGED <<rows, scratch>>

EnrichmentDone ==
  /\ pc = "enrich" /\ todo = <<>>
  /\ Advance
  /\ OnlySession
  /\ UNCHANGED <<rows, scratch>>

ConsumeModelCall == ledger' = [ledger EXCEPT !.model = @ + 1]

(* generate_hypotheses: the model's text becomes statements of the report. *)
FormHypotheses ==
  /\ pc = "work" /\ st = "FORM_HYPOTHESES"
  /\ IF ledger.model >= MaxModelCalls
     THEN Stop("BUDGET_EXCEEDED", "max_model_calls") /\ UNCHANGED <<ledger, tainted>>
     ELSE ConsumeModelCall /\ tainted' \in {tainted, TRUE} /\ Advance
  /\ OnlySession
  /\ UNCHANGED <<ops, evid, lims, todo, left>>

(* The model or what it returned raises after the call was counted. *)
ModelRaises ==
  /\ "exception" \in Faults
  /\ pc = "work" /\ st = "FORM_HYPOTHESES"
  /\ ledger.model < MaxModelCalls
  /\ ConsumeModelCall
  /\ Fail
  /\ OnlySession
  /\ UNCHANGED <<ops, evid, lims, scratch>>

(* The database driver refuses a value a tool or the model gave: an event   *)
(* identifier that is a list, a text that has no encoding.  The flush       *)
(* raises and takes the session with it, as in StorageError.               *)
DataRefused ==
  /\ "data" \in Faults
  /\ \/ /\ pc = "store" /\ left > 0 /\ st # "CLASSIFY_ALERT"
        /\ CurrentTool \in {"get_related_events", "get_events"}
        /\ ~ItemsSpent /\ \E size \in ItemSizes : ~BytesSpent(size)
     \/ pc = "work" /\ st = "NORMALIZE_EVIDENCE"
     \/ pc = "work" /\ st = "FORM_HYPOTHESES" /\ ledger.model < MaxModelCalls
  /\ pc' = "broken"
  /\ OnlySession
  /\ UNCHANGED <<st, trace, reason, rows, scratch>>

(* generate_proposals, then build_report_content and verify_report: no     *)
(* state of this model changes but the machine's.                          *)
ValidateAndProduce ==
  /\ pc = "work" /\ st \in {"VALIDATE_HYPOTHESES", "PRODUCE_REPORT"}
  /\ Advance
  /\ OnlySession
  /\ UNCHANGED <<rows, scratch>>

ProduceRaises ==
  /\ "exception" \in Faults
  /\ pc = "work" /\ st \in {"VALIDATE_HYPOTHESES", "PRODUCE_REPORT"}
  /\ Fail
  /\ OnlySession
  /\ UNCHANGED <<rows, scratch>>

(* The verifier's problems are only logged. *)
VerifyOutputLenient ==
  /\ pc = "work" /\ st = "VERIFY_OUTPUT"
  /\ Advance
  /\ OnlySession
  /\ UNCHANGED <<rows, scratch>>

VerifyOutput ==
  /\ pc = "work" /\ st = "VERIFY_OUTPUT"
  /\ IF tainted THEN Stop("VALIDATION_FAILED", "verification_failed") ELSE Advance
  /\ OnlySession
  /\ UNCHANGED <<rows, scratch>>

-----------------------------------------------------------------------------
(* The end of a run: one commit makes all of it visible, or none of it.    *)

(* Limitations named as the run goes, with every source an operation failed *)
(* to reach added when the report is built.                                *)
ReportLimitations ==
  lims \cup { ToolSource[ops[i].tool] : i \in { j \in DOMAIN ops : ops[j].outcome = "failed" } }

Report(kind, verified) ==
  [kind |-> kind, verified |-> verified, lims |-> ReportLimitations, tainted |-> tainted]

Committed(report) ==
  [ status |-> TerminalStatus[st], wf |-> st, reason |-> reason, report |-> report,
    trace |-> trace, ops |-> ops, evid |-> evid, ledger |-> ledger ]

(* The status committed on its own, before its report. *)
CommitStatusFirst ==
  /\ pc = "complete"
  /\ db' = Committed(IF db.status = "created" THEN NoReport ELSE Report("complete", TRUE))
  /\ pc' = IF db.status = "created" THEN "complete" ELSE "unwind"
  /\ UNCHANGED <<st, trace, reason, rows, scratch, request, elapsed, input>>

CommitComplete ==
  /\ pc = "complete"
  /\ db' = Committed(Report("complete", TRUE))
  /\ pc' = "unwind"
  /\ UNCHANGED <<st, trace, reason, rows, scratch, request, elapsed, input>>

(* persist_report raises after the machine moved to COMPLETE, which it does *)
(* not leave any more: _finalize is called for COMPLETE.                   *)
ReportRaises ==
  /\ "report" \in Faults
  /\ pc = "complete"
  /\ reason' = "system_error"
  /\ pc' = "finalize"
  /\ OnlySession
  /\ UNCHANGED <<st, trace, rows, scratch>>

(* _finalize: the same rows, a partial report nobody verified; a failure to *)
(* make that report is swallowed, and the status committed without it.     *)
Finalize ==
  /\ pc = "finalize"
  /\ \/ db' = Committed(Report("partial", FALSE))
     \/ "report" \in Faults /\ db' = Committed(NoReport)
  /\ pc' = "unwind"
  /\ UNCHANGED <<st, trace, reason, rows, scratch, request, elapsed, input>>

(* The finally clause forgets the cancel flag, after the commit.  With the  *)
(* session lost, case.id may be expired: reading it raises once more and    *)
(* the flag stays.                                                         *)
Unwind ==
  /\ \/ pc = "unwind" /\ cancelFlag' = FALSE /\ pc' = "returned"
     \/ pc = "broken" /\ cancelFlag' \in {cancelFlag, FALSE} /\ pc' = "lost"
  /\ UNCHANGED <<st, trace, reason, rows, scratch, db, canceller, acceptedAt, elapsed, input>>

(* A write is refused (database locked, disk full).  The session cannot be  *)
(* used again, so whatever handler runs, _finalize's commit raises too and  *)
(* nothing of the run is stored.  In Setup this is before the try.         *)
StorageError ==
  /\ "storage" \in Faults
  /\ pc \notin {"unwind", "broken", "returned", "lost", "crashed"}
  /\ pc' = IF pc = "created" THEN "lost" ELSE "broken"
  /\ OnlySession
  /\ UNCHANGED <<st, trace, reason, rows, scratch>>

-----------------------------------------------------------------------------
(* What happens around the runner.                                         *)

(* POST /cases/{id}/cancel, first half: the committed status is read.      *)
CancelRead(c) ==
  /\ canceller[c] = "idle"
  /\ canceller' = [canceller EXCEPT ![c] =
       IF db.status \in {"created", "running"} THEN "read" ELSE "refused"]
  /\ UNCHANGED <<control, rows, scratch, db, cancelFlag, acceptedAt, elapsed, input>>

(* Second half: the flag is set and the analyst is told 202. *)
CancelAccept(c) ==
  /\ canceller[c] = "read"
  /\ canceller' = [canceller EXCEPT ![c] = "accepted"]
  /\ acceptedAt' = [acceptedAt EXCEPT ![c] = Len(trace)]
  /\ cancelFlag' = TRUE
  /\ UNCHANGED <<control, rows, scratch, db, elapsed, input>>

Tick ==
  /\ elapsed < ClockBound
  /\ elapsed' = elapsed + 1
  /\ UNCHANGED <<control, rows, scratch, db, request, input>>

(* The process dies: the session is never committed, the flags and the     *)
(* requests being served are lost.  Nothing resumes the case.              *)
Crash ==
  /\ "crash" \in Faults
  /\ pc # "crashed"
  /\ pc' = "crashed"
  /\ cancelFlag' = FALSE
  /\ canceller' = [c \in Cancellers |->
                    IF canceller[c] = "read" THEN "lost" ELSE canceller[c]]
  /\ UNCHANGED <<st, trace, reason, rows, scratch, db, acceptedAt, elapsed, input>>

(* The run is over.  A step of its own so that TLC reports a runner that   *)
(* can no longer move anywhere else as a deadlock.                         *)
Halted ==
  /\ pc \in {"returned", "lost", "crashed"}
  /\ UNCHANGED vars

Runner ==
  \/ Setup \/ PassThrough \/ Authorize \/ Poll
  \/ RequestTool \/ BudgetSpentAfterAuthorization \/ ToolSucceeds
  \/ ToolAnswersEmpty \/ ToolFails \/ ToolRaises
  \/ SubmitContent \/ StoreItem \/ EvidenceOverLimit \/ StoreRaises \/ ResultStored
  \/ Normalize \/ NormalizeRaises \/ EnrichmentDone
  \/ FormHypotheses \/ ModelRaises \/ DataRefused
  \/ ValidateAndProduce \/ ProduceRaises \/ VerifyOutput
  \/ CommitComplete \/ ReportRaises \/ Finalize \/ Unwind

Next ==
  \/ Runner
  \/ \E c \in Cancellers : CancelRead(c) \/ CancelAccept(c)
  \/ Tick
  \/ StorageError
  \/ Crash
  \/ Halted

Spec == Init /\ [][Next]_vars

(* The runner is a plain function call that the request handler waits for,  *)
(* and a cancel handler that has read the status goes on to set the flag.  *)
Fairness ==
  /\ WF_vars(Runner)
  /\ \A c \in Cancellers : WF_vars(CancelAccept(c))

FairSpec == Spec /\ Fairness

-----------------------------------------------------------------------------
(* Properties.                                                             *)

ControlOK ==
  /\ pc \in {"created", "work", "poll", "allowed", "store", "enrich",
             "complete", "finalize", "unwind", "broken", "returned", "lost", "crashed"}
  /\ st \in States /\ trace \in Seq(Transitions) /\ reason \in Reasons

RowsOK ==
  /\ ops \in Seq(OpRows) /\ evid \in Seq(EvidenceRows)
  /\ ledger \in Ledgers /\ lims \in SUBSET Sources

ScratchOK ==
  /\ todo \in Seq({"endpoint", "asset", "user"})
  /\ left \in Nat
  /\ tainted \in BOOLEAN

RequestOK ==
  /\ cancelFlag \in BOOLEAN
  /\ canceller \in [Cancellers -> {"idle", "read", "accepted", "refused", "lost"}]
  /\ acceptedAt \in [Cancellers -> Nat]

(* Types: every variable of the session, of the store and of the requests  *)
(* keeps to the values the code can give it.                               *)
TypeOK ==
  /\ ControlOK /\ RowsOK /\ ScratchOK /\ RequestOK
  /\ db \in Cases
  /\ elapsed \in 0..ClockBound
  /\ origin \in Origins /\ sources \in Grants

Ended == db.status # "created"

(* The run is over, or will be, with nothing of it stored: its session was  *)
(* lost to a refused write or value, or its process died.                  *)
Lost == ~Ended /\ pc \in {"broken", "lost", "crashed"}

(* A stored case is either as it was created, with nothing of a run visible *)
(* to any other session, or ended: status, workflow state, reason and      *)
(* report then tell one story, and only verified content is complete.      *)
(* Only where making a report may fail by itself can one be missing, or a   *)
(* completed case have another than the complete one, and then its reason  *)
(* says so (run_investigation's two commits, states.py:163-187, 235-249).  *)
CommittedConsistent ==
  \/ db = Created
  \/ /\ db.wf \in TerminalStates
     /\ db.status = TerminalStatus[db.wf]
     /\ \/ /\ db.status = "completed" /\ db.reason = "none"
           /\ db.report.kind = "complete" /\ db.report.verified /\ ~db.report.tainted
        \/ /\ db.status # "completed" \/ "report" \in Faults
           /\ db.reason # "none"
           /\ db.status = "completed" => db.reason = "system_error"
           /\ db.report.kind = "partial" \/ ("report" \in Faults /\ db.report = NoReport)
           /\ ~db.report.verified

(* Replaying the committed state_transition events from RECEIVE_ALERT gives *)
(* a legal run of the machine that ends in the stored workflow state       *)
(* (StateMachine.transition_to and the audit callback, machine.py:160).    *)
TrailReplays ==
  Ended =>
    /\ db.trace # <<>>
    /\ \A i \in DOMAIN db.trace :
         /\ CanTransition(db.trace[i].from, db.trace[i].to)
         /\ db.trace[i].from = IF i = 1 THEN "RECEIVE_ALERT" ELSE db.trace[i-1].to
    /\ db.wf = db.trace[Len(db.trace)].to

(* Every operation that reached a source was allowed in the state it was   *)
(* made in and for a source the analyst holds; a denied one never ran; and *)
(* only the operation that ended the run may lack an outcome               *)
(* (ToolInvoker.invoke, invoker.py:53-154).                                *)
OpsAccounted ==
  \A i \in DOMAIN db.ops :
    LET op == db.ops[i] IN
    /\ op.outcome = "denied" <=> op.decision # "authorized"
    /\ op.decision = "authorized" =>
         op.tool \in PermittedTools(op.state) /\ ToolSource[op.tool] \in sources
    /\ op.outcome = "pending" =>
         i = Len(db.ops) /\ db.reason \in {"max_tool_operations", "system_error"}

(* An observation can be traced to the one successful operation, of its own *)
(* source, that retrieved it; anything else came with the request          *)
(* (EvidenceStore.add and its callers, store.py:35, states.py:107-221).    *)
EvidenceTraceable ==
  \A i \in DOMAIN db.evid :
    LET item == db.evid[i] IN
    IF item.trust = "direct_observation"
    THEN /\ item.op \in DOMAIN db.ops
         /\ db.ops[item.op].outcome = "success"
         /\ item.source = ToolSource[db.ops[item.op].tool]
         /\ item.source \in sources
    ELSE origin = "analyst_submitted" /\ item.op = 0 /\ i = 1

(* The stored ledger counts exactly what the stored rows show and never     *)
(* passes a limit.  Only an exception may leave one item counted that was  *)
(* not stored (BudgetService.consume_*, budget.py:72-91).                  *)
LedgerMatchesRows ==
  LET counted == { i \in DOMAIN db.ops :
                     \/ db.ops[i].outcome \notin {"denied", "pending"}
                     \/ db.ops[i].outcome = "pending" /\ db.reason = "system_error" }
  IN
  /\ db.ledger.tool = Cardinality(counted) /\ db.ledger.tool <= MaxToolOps
  /\ db.ledger.items <= MaxItems /\ db.ledger.bytes <= MaxBytes
  /\ db.ledger.items \in {Len(db.evid), Len(db.evid) + 1}
  /\ db.reason # "system_error" =>
       /\ db.ledger.items = Len(db.evid)
       /\ db.ledger.bytes = MapThenSumSet(LAMBDA i : db.evid[i].size, DOMAIN db.evid)

(* The stored reason is true of the run: a named evidence limit is really  *)
(* used up, a tool limit or the time is, an access denial really lacked    *)
(* the source, and a failed source has its failed operation last           *)
(* (the reasons given to _finalize, states.py:85-187).                     *)
ReasonIsTrue ==
  /\ db.reason = "max_tool_operations" => db.ledger.tool = MaxToolOps \/ elapsed > MaxElapsed
  /\ db.reason = "max_evidence_items" => db.ledger.items = MaxItems
  /\ db.reason = "max_evidence_bytes" =>
       \E size \in ItemSizes : db.ledger.bytes + size > MaxBytes
  /\ db.reason = "no_sources" => sources = {}
  /\ db.reason = "unauthorized_source" =>
       origin = "connected_source" /\ "alert_source" \notin sources /\ db.evid = <<>>
  /\ db.reason = "source_failure" =>
       db.evid = <<>> /\ db.ops[Len(db.ops)].outcome \in FailedOutcomes

(* The gaps of a run that its report names: an operation that failed, and   *)
(* an alert or event call that came back unusable or empty.  An identity   *)
(* answer that is malformed, oversized or empty is not among them.         *)
NamedGap(op) ==
  \/ op.outcome = "failed"
  \/ /\ op.outcome \in FailedOutcomes \cup {"empty"}
     /\ op.tool \in {"get_alert", "get_related_events", "get_events"}

(* The stored report's limitations name the sources of those gaps and no    *)
(* others: each is told by the call site or by the report's own look at    *)
(* the operation rows, two places that do not know of each other, and a    *)
(* denied source never is (states.py:192-226, generator.py:74-79).  What    *)
(* the documents promise beyond it is EveryGapNamed.                       *)
GapsNamed ==
  db.report.kind # "none" =>
    db.report.lims =
      { ToolSource[db.ops[i].tool] : i \in { j \in DOMAIN db.ops : NamedGap(db.ops[j]) } }

(* A cancel request accepted before the run enters a checked state goes no  *)
(* further than that state: the run leaves it only to CANCELLED (FR-005a;  *)
(* _check_cancel, states.py:70-74 and its four calls).                     *)
CancelAtNextCheckpoint ==
  \A c \in Cancellers : canceller[c] = "accepted" =>
    \A i \in 2..Len(trace) :
      i - 1 > acceptedAt[c] /\ trace[i].from \in {"CLASSIFY_ALERT", "COLLECT_EVIDENCE",
                                                  "NORMALIZE_EVIDENCE", "FORM_HYPOTHESES"}
        => trace[i].to = "CANCELLED"

(* The committed record behaves as CaseLifecycle promises. *)
Lifecycle == INSTANCE CaseLifecycle WITH
  ReportsMayFail <- "report" \in Faults,
  status <- db.status,
  report <- db.report.kind,
  asked  <- \E c \in Cancellers : canceller[c] = "accepted",
  lost   <- Lost

LifecycleSpec == Lifecycle!Spec

(* Every case ends, whatever tools, model and report do, but for the ones   *)
(* whose session a refused write or value took, or whose process died; and *)
(* those never end (the handlers of run_investigation, states.py:172-189).  *)
LifecycleFairSpec == Lifecycle!FairSpec

BeforeLastCheckpoint ==
  \/ st \in {"RECEIVE_ALERT", "VALIDATE_REQUEST", "AUTHORIZE", "CLASSIFY_ALERT",
            "CREATE_INVESTIGATION_PLAN", "COLLECT_EVIDENCE", "NORMALIZE_EVIDENCE"}
  \/ st = "FORM_HYPOTHESES" /\ pc = "poll"

(* A cancel flag set while a checkpoint is still ahead keeps the case from  *)
(* completing: it ends early, or its run is lost (states.py:91-139).       *)
EarlyCancelEndsRun ==
  cancelFlag /\ BeforeLastCheckpoint
    ~> Lost \/ db.status \in TerminalStatuses \ {"completed"}

-----------------------------------------------------------------------------
(* What the repository's documents say and the code does not do.           *)

(* spec.md FR-005a: a cancelled running investigation stops and is stored   *)
(* as cancelled.                                                           *)
AcceptedCancelNeverCompletes ==
  db.status = "completed" =>
    \A c \in Cancellers : canceller[c] = "accepted" => acceptedAt[c] = Len(db.trace)

(* docs/architecture.md, verifier.py: content the verifier refuses is       *)
(* withheld.                                                               *)
RefusedContentWithheld == db.reason = "verification_failed" => ~db.report.tainted

(* docs/safety-model.md, operational limits: the report names the exact    *)
(* limit that was reached.                                                 *)
LimitNamedExactly == db.reason = "max_tool_operations" => db.ledger.tool = MaxToolOps

(* docs/workflow.md, failure handling: a gap is named in the limitations    *)
(* of the report.                                                          *)
EveryGapNamed ==
  db.report.kind # "none" =>
    \A i \in DOMAIN db.ops :
      db.ops[i].outcome \in FailedOutcomes => ToolSource[db.ops[i].tool] \in db.report.lims

(* docs/workflow.md, failure handling, and spec.md FR-004: a case is never  *)
(* left in flight.                                                         *)
NeverLeftInFlight == <>Ended
=============================================================================
