------------------------ MODULE InvestigationProofs -------------------------
(***************************************************************************)
(* Proofs about Investigation for every value of its constants.            *)
(***************************************************************************)
EXTENDS Investigation, TLAPS

-----------------------------------------------------------------------------
(* The workflow tables.                                                    *)

(* Every entry of the tables is a state, and a failure transition always   *)
(* ends the run, never in COMPLETE.                                        *)
LEMMA TablesTyped ==
  /\ \A s \in ActiveStates : NextState[s] \in States
  /\ \A s \in ActiveStates : FailureTransition[s] \in TerminalStates \ {"COMPLETE"}
  /\ \A s \in TerminalStates : TerminalStatus[s] \in TerminalStatuses
  /\ \A t \in Tools : ToolSource[t] \in Sources
BY DEF ActiveStates, TerminalStates, States, NextState, FailureTransition,
       TerminalStatus, TerminalStatuses, Tools, ToolSource, Sources

(* Only VERIFY_OUTPUT leads to COMPLETE. *)
LEMMA CompleteFromVerify ==
  \A s \in ActiveStates :
    /\ NextState[s] \in ActiveStates \cup {"COMPLETE"}
    /\ NextState[s] = "COMPLETE" <=> s = "VERIFY_OUTPUT"
BY DEF ActiveStates, NextState

-----------------------------------------------------------------------------
(* Type correctness.                                                       *)

LEMMA TransitionTyped ==
  ASSUME ControlOK, NEW s \in States, TransitionTo(s)
  PROVE  st' \in States /\ trace' \in Seq(Transitions)
BY DEF ControlOK, TransitionTo, Transitions

LEMMA AdvanceTyped ==
  ASSUME ControlOK, Advance
  PROVE  ControlOK'
<1>1. st \in ActiveStates
  BY DEF Advance, TransitionTo, CanTransition
<1>2. NextState[st] \in States
  BY <1>1, TablesTyped
<1>3. st' \in States /\ trace' \in Seq(Transitions)
  BY <1>2, TransitionTyped DEF Advance
<1>4. QED
  BY <1>3 DEF Advance, ControlOK

LEMMA StopTyped ==
  ASSUME ControlOK, NEW s \in States, NEW why \in Reasons, Stop(s, why)
  PROVE  ControlOK'
<1>1. st' \in States /\ trace' \in Seq(Transitions)
  BY TransitionTyped DEF Stop
<1>2. QED
  BY <1>1 DEF Stop, ControlOK

LEMMA FailTyped ==
  ASSUME ControlOK, Fail
  PROVE  ControlOK'
<1>1. st \in ActiveStates
  BY DEF Fail, Stop, TransitionTo, CanTransition
<1>2. FailureTransition[st] \in States
  BY <1>1, TablesTyped DEF States
<1>3. QED
  BY <1>2, StopTyped DEF Fail, Reasons

(* The part of the state a call in progress relies on: the operation it    *)
(* belongs to has a row, and enrichment has an entity in hand.             *)
CallInHand ==
  /\ pc \in {"allowed", "store"} =>
       /\ st \in {"CLASSIFY_ALERT", "COLLECT_EVIDENCE", "NORMALIZE_EVIDENCE"}
       /\ st = "NORMALIZE_EVIDENCE" => todo # <<>>
       /\ ops # <<>> \/ (st = "CLASSIFY_ALERT" /\ origin = "analyst_submitted")
  /\ pc = "allowed" => ops # <<>>
  /\ pc = "enrich" => st = "NORMALIZE_EVIDENCE"

LEMMA AfterCallTyped ==
  ASSUME ControlOK, ScratchOK, AfterCall,
         st = "NORMALIZE_EVIDENCE" => todo # <<>>
  PROVE  ControlOK' /\ todo' \in Seq({"endpoint", "asset", "user"})
<1>1. CASE st = "NORMALIZE_EVIDENCE"
  <2>1. todo \in Seq({"endpoint", "asset", "user"}) /\ todo # <<>>
    BY <1>1 DEF ScratchOK
  <2>2. Tail(todo) \in Seq({"endpoint", "asset", "user"})
    BY <2>1
  <2>3. <<"asset">> \o Tail(todo) \in Seq({"endpoint", "asset", "user"})
    BY <2>2
  <2>4. ControlOK'
    BY <1>1 DEF AfterCall, ControlOK
  <2>5. QED
    BY <1>1, <2>2, <2>3, <2>4 DEF AfterCall
<1>2. CASE st # "NORMALIZE_EVIDENCE"
  BY <1>2, AdvanceTyped DEF AfterCall, ScratchOK
<1>3. QED
  BY <1>1, <1>2

TypeInv == TypeOK /\ CallInHand

(* A step of the runner that commits nothing leaves the rest typed. *)
LEMMA OnlySessionTyped ==
  ASSUME TypeOK, OnlySession
  PROVE  /\ RequestOK' /\ db' \in Cases /\ elapsed' \in 0..ClockBound
         /\ origin' \in Origins /\ sources' \in Grants
BY DEF TypeOK, OnlySession, RequestOK, request, input

LEMMA DecisionTyped ==
  ASSUME NEW tool \in Tools
  PROVE  Decision(tool) \in Decisions
BY DEF Decision, Decisions

LEMMA NextToolTyped ==
  ASSUME TypeInv, ToolDue
  PROVE  NextTool \in Tools
<1>1. CASE pc = "enrich" /\ todo # <<>>
  <2>1. Head(todo) \in {"endpoint", "asset", "user"}
    BY <1>1 DEF TypeInv, TypeOK, ScratchOK
  <2>2. QED
    BY <1>1, <2>1 DEF TypeInv, CallInHand, NextTool, EnrichTool, Tools
<1>2. CASE pc = "work"
  BY <1>2 DEF ToolDue, NextTool, Tools
<1>3. QED
  BY <1>1, <1>2 DEF ToolDue

LEMMA CurrentToolTyped ==
  ASSUME TypeInv, ops # <<>>
  PROVE  Len(ops) \in Nat /\ Len(ops) \in DOMAIN ops /\ CurrentTool \in Tools
<1>1. ops \in Seq(OpRows)
  BY DEF TypeInv, TypeOK, RowsOK
<1>2. Len(ops) \in Nat /\ Len(ops) \in DOMAIN ops
  BY <1>1
<1>3. ops[Len(ops)] \in OpRows
  BY <1>1, <1>2
<1>4. QED
  BY <1>2, <1>3 DEF CurrentTool, OpRows

LEMMA SetOutcomeTyped ==
  ASSUME TypeInv, ops # <<>>, NEW o \in FailedOutcomes \cup {"success", "empty"}, SetOutcome(o)
  PROVE  ops' \in Seq(OpRows) /\ Len(ops') = Len(ops) /\ ops' # <<>>
<1>1. ops \in Seq(OpRows)
  BY DEF TypeInv, TypeOK, RowsOK
<1>2. ops[Len(ops)] \in OpRows
  BY <1>1
<1>3. [ops[Len(ops)] EXCEPT !.outcome = o] \in OpRows
  BY <1>2 DEF OpRows
<1>4. QED
  BY <1>1, <1>3 DEF SetOutcome

LEMMA AddItemTyped ==
  ASSUME TypeInv, pc = "store", NEW size \in ItemSizes, evid' = Append(evid, NewItem(size))
  PROVE  evid' \in Seq(EvidenceRows)
<1>1. size \in Nat
  BY ItemSizesAssumption
<1>2. NewItem(size) \in EvidenceRows
  <2>1. CASE st = "CLASSIFY_ALERT" /\ origin = "analyst_submitted"
    BY <1>1, <2>1 DEF NewItem, EvidenceRows
  <2>2. CASE ~(st = "CLASSIFY_ALERT" /\ origin = "analyst_submitted")
    <3>1. ops # <<>>
      BY <2>2 DEF TypeInv, CallInHand
    <3>2. Len(ops) \in Nat /\ ToolSource[CurrentTool] \in Sources
      BY <3>1, CurrentToolTyped, TablesTyped
    <3>3. QED
      BY <1>1, <2>2, <3>2 DEF NewItem, EvidenceRows
  <2>3. QED
    BY <2>1, <2>2
<1>3. QED
  BY <1>2 DEF TypeInv, TypeOK, RowsOK

LEMMA ConsumeTyped ==
  ASSUME TypeOK
  PROVE  /\ ConsumeTool => ledger' \in Ledgers
         /\ ConsumeModelCall => ledger' \in Ledgers
         /\ \A size \in ItemSizes : ConsumeEvidence(size) => ledger' \in Ledgers
<1>1. ledger \in Ledgers /\ \A size \in ItemSizes : size \in Nat
  BY ItemSizesAssumption DEF TypeOK, RowsOK
<1>2. ConsumeTool => ledger' \in Ledgers
  BY <1>1 DEF Ledgers, ConsumeTool
<1>3. ConsumeModelCall => ledger' \in Ledgers
  BY <1>1 DEF Ledgers, ConsumeModelCall
<1>4. ASSUME NEW size \in ItemSizes, ConsumeEvidence(size)
      PROVE  ledger' \in Ledgers
  <2>1. ledger.items + 1 \in Nat /\ ledger.bytes + size \in Nat
    BY <1>1 DEF Ledgers
  <2>2. QED
    BY <1>1, <1>4, <2>1 DEF Ledgers, ConsumeEvidence
<1>5. QED
  BY <1>2, <1>3, <1>4

LEMMA CommittedTyped ==
  ASSUME TypeOK, st \in TerminalStates,
         NEW kind \in {"complete", "partial"}, NEW verified \in BOOLEAN
  PROVE  Committed(Report(kind, verified)) \in Cases /\ Committed(NoReport) \in Cases
<1>1. ReportLimitations \in SUBSET Sources
  <2>1. \A i \in DOMAIN ops : ToolSource[ops[i].tool] \in Sources
    <3>1. \A i \in DOMAIN ops : ops[i] \in OpRows
      BY DEF TypeOK, RowsOK
    <3>2. QED
      BY <3>1, TablesTyped DEF OpRows
  <2>2. QED
    BY <2>1 DEF ReportLimitations, TypeOK, RowsOK
<1>2. Report(kind, verified) \in Reports /\ NoReport \in Reports
  BY <1>1 DEF Report, NoReport, Reports, TypeOK, ScratchOK
<1>3. TerminalStatus[st] \in TerminalStatuses
  BY TablesTyped
<1>4. QED
  BY <1>2, <1>3 DEF Committed, Cases, TypeOK, ControlOK, RowsOK

-----------------------------------------------------------------------------
LEMMA TypeInit == Init => TypeInv
<1> SUFFICES ASSUME Init PROVE TypeInv
  OBVIOUS
<1>1. ControlOK
  BY DEF Init, ControlOK, States, ActiveStates, Transitions, Reasons
<1>2. RowsOK /\ ScratchOK
  <2>1. ZeroLedger \in Ledgers
    BY DEF ZeroLedger, Ledgers
  <2>2. lims \in SUBSET Sources
    BY DEF Init
  <2>3. ops \in Seq(OpRows) /\ evid \in Seq(EvidenceRows) /\ ledger \in Ledgers
    BY <2>1 DEF Init
  <2>4. ScratchOK
    <3>1. tainted \in BOOLEAN
      BY DEF Init
    <3>2. todo \in Seq({"endpoint", "asset", "user"}) /\ left \in Nat
      BY DEF Init
    <3>3. QED
      BY <3>1, <3>2 DEF ScratchOK
  <2>5. QED
    BY <2>2, <2>3, <2>4 DEF RowsOK
<1>3. RequestOK
  BY DEF Init, RequestOK
<1>4. db \in Cases
  BY DEF Init, Created, Cases, NoReport, Reports, ZeroLedger, Ledgers, Reasons,
         States, ActiveStates
<1>5. elapsed \in 0..ClockBound /\ origin \in Origins /\ sources \in Grants
  BY BoundsAssumption DEF Init
<1>6. CallInHand
  BY DEF Init, CallInHand
<1>7. QED
  BY <1>1, <1>2, <1>3, <1>4, <1>5, <1>6 DEF TypeInv, TypeOK

(* The states a runner step leaves: nowhere inside a call. *)
LEMMA AdvanceOutsideCall ==
  ASSUME Advance
  PROVE  CallInHand'
BY DEF Advance, CallInHand

LEMMA StopOutsideCall ==
  ASSUME NEW s, NEW why, Stop(s, why)
  PROVE  CallInHand'
BY DEF Stop, CallInHand

LEMMA AfterCallOutsideCall ==
  ASSUME AfterCall
  PROVE  CallInHand'
BY AdvanceOutsideCall DEF AfterCall, CallInHand

LEMMA WorkflowStepsTyped ==
  ASSUME TypeInv, Setup \/ PassThrough \/ Authorize \/ Poll \/ SubmitContent
                  \/ Normalize \/ NormalizeRaises \/ EnrichmentDone
                  \/ FormHypotheses \/ ModelRaises \/ ValidateAndProduce \/ ProduceRaises
                  \/ VerifyOutput
  PROVE  TypeInv'
<1> USE DEF TypeInv, TypeOK
<1>0. /\ "CANCELLED" \in States /\ "ACCESS_DENIED" \in States
      /\ "BUDGET_EXCEEDED" \in States /\ "VALIDATION_FAILED" \in States
  BY DEF States, TerminalStates
<1>1. CASE Setup
  BY <1>1, OnlySessionTyped DEF Setup, ControlOK, RowsOK, ScratchOK, CallInHand, rows, scratch
<1>2. CASE PassThrough
  BY <1>2, OnlySessionTyped, AdvanceTyped, AdvanceOutsideCall
     DEF PassThrough, RowsOK, ScratchOK, rows, scratch
<1>3. CASE Authorize
  BY <1>0, <1>3, OnlySessionTyped, AdvanceTyped, StopTyped, AdvanceOutsideCall, StopOutsideCall
     DEF Authorize, RowsOK, ScratchOK, rows, scratch, Reasons
<1>4. CASE Poll
  <2>1. CASE Stop("CANCELLED", "cancelled")
    BY <1>0, <1>4, <2>1, OnlySessionTyped, StopTyped, StopOutsideCall
       DEF Poll, RowsOK, ScratchOK, rows, scratch, Reasons
  <2>2. CASE pc' = "work" /\ UNCHANGED <<st, trace, reason>>
    BY <1>4, <2>2, OnlySessionTyped
       DEF Poll, ControlOK, RowsOK, ScratchOK, CallInHand, rows, scratch
  <2>3. QED
    BY <1>4, <2>1, <2>2 DEF Poll
<1>5. CASE SubmitContent
  BY <1>5, OnlySessionTyped 
     DEF SubmitContent, OnlySession, input, ControlOK, RowsOK, ScratchOK, CallInHand, rows
<1>6. CASE Normalize
  <2>1. EntityLists \subseteq Seq({"endpoint", "asset", "user"})
    BY BoundsAssumption DEF EntityLists
  <2>2. QED
    BY <1>6, <2>1, OnlySessionTyped DEF Normalize, ControlOK, RowsOK, ScratchOK, CallInHand, rows
<1>7. CASE NormalizeRaises
  BY <1>7, OnlySessionTyped, FailTyped, StopOutsideCall
     DEF NormalizeRaises, Fail, RowsOK, ScratchOK, rows, scratch
<1>8. CASE EnrichmentDone
  BY <1>8, OnlySessionTyped, AdvanceTyped, AdvanceOutsideCall
     DEF EnrichmentDone, RowsOK, ScratchOK, rows, scratch
<1>9. CASE FormHypotheses
  <2>1. CASE ledger.model >= MaxModelCalls
    BY <1>0, <1>9, <2>1, OnlySessionTyped, StopTyped, StopOutsideCall
       DEF FormHypotheses, RowsOK, ScratchOK, Reasons
  <2>2. CASE ~(ledger.model >= MaxModelCalls)
    BY <1>9, <2>2, OnlySessionTyped, AdvanceTyped, AdvanceOutsideCall, ConsumeTyped
       DEF FormHypotheses, RowsOK, ScratchOK
  <2>3. QED
    BY <2>1, <2>2
<1>10. CASE ModelRaises
  BY <1>10, OnlySessionTyped, FailTyped, StopOutsideCall, ConsumeTyped
     DEF ModelRaises, Fail, RowsOK, ScratchOK, scratch
<1>11. CASE ValidateAndProduce
  BY <1>11, OnlySessionTyped, AdvanceTyped, AdvanceOutsideCall
     DEF ValidateAndProduce, RowsOK, ScratchOK, rows, scratch
<1>12. CASE VerifyOutput
  BY <1>0, <1>12, OnlySessionTyped, AdvanceTyped, StopTyped, AdvanceOutsideCall, StopOutsideCall
     DEF VerifyOutput, RowsOK, ScratchOK, rows, scratch, Reasons
<1>13. CASE ProduceRaises
  BY <1>13, OnlySessionTyped, FailTyped, StopOutsideCall
     DEF ProduceRaises, Fail, RowsOK, ScratchOK, rows, scratch
<1>14. QED
  BY <1>1, <1>2, <1>3, <1>4, <1>5, <1>6, <1>7, <1>8, <1>9, <1>10, <1>11, <1>12, <1>13

(* Both ways of having nothing to store leave sources in the limitations.  *)
LEMMA NothingToStoreTyped ==
  ASSUME TypeInv, ops # <<>>, NothingToStore
  PROVE  lims' \in SUBSET Sources
<1>1. ToolSource[CurrentTool] \in Sources
  BY CurrentToolTyped, TablesTyped
<1>2. QED
  BY <1>1 DEF NothingToStore, TypeInv, TypeOK, RowsOK

LEMMA CallStepsTyped ==
  ASSUME TypeInv, RequestTool \/ BudgetSpentAfterAuthorization \/ ToolSucceeds
                  \/ ToolAnswersEmpty \/ ToolFails \/ ToolRaises
  PROVE  TypeInv'
<1> USE DEF TypeInv, TypeOK
<1>0. "BUDGET_EXCEEDED" \in States /\ "ACCESS_DENIED" \in States
      /\ "SOURCE_UNAVAILABLE" \in States
  BY DEF States, TerminalStates
<1>1. CASE RequestTool
  <2> DEFINE decision == Decision(NextTool)
             row == [ tool |-> NextTool, state |-> st, decision |-> decision,
                      outcome |-> IF decision = "authorized" THEN "pending" ELSE "denied" ]
  <2>1. ToolDue /\ NextTool \in Tools /\ decision \in Decisions
    BY <1>1, NextToolTyped, DecisionTyped DEF RequestTool
  <2>2. row \in OpRows
    <3> HIDE DEF decision
    <3>1. QED
      BY <2>1 DEF OpRows, ControlOK
  <2>3. ops' = Append(ops, row)
    BY <1>1 DEF RequestTool
  <2>4. ops' \in Seq(OpRows) /\ ops' # <<>>
    BY <2>2, <2>3 DEF RowsOK
  <2>5. RowsOK' /\ left' \in Nat /\ tainted' \in BOOLEAN
    BY <1>1, <2>4 DEF RequestTool, RowsOK, ScratchOK
  <2>6. /\ st \in {"CLASSIFY_ALERT", "COLLECT_EVIDENCE", "NORMALIZE_EVIDENCE"}
        /\ st = "NORMALIZE_EVIDENCE" => todo # <<>>
    BY <2>1 DEF ToolDue, CallInHand
  <2>7. /\ ControlOK' /\ CallInHand'
        /\ todo' \in Seq({"endpoint", "asset", "user"})
    <3>1. CASE pc' = "allowed" /\ UNCHANGED <<st, trace, reason, todo>>
      BY <2>4, <2>6, <3>1 DEF ControlOK, ScratchOK, CallInHand
    <3>2. CASE Stop("BUDGET_EXCEEDED", "max_tool_operations") /\ UNCHANGED todo
      BY <1>0, <3>2, StopTyped, StopOutsideCall DEF ScratchOK, Reasons
    <3>3. CASE /\ decision \in {"unregistered", "unauthorized_source"}
               /\ CallDenied(decision)
      <4>1. CASE Stop("ACCESS_DENIED", decision) /\ UNCHANGED todo
        BY <1>0, <3>3, <4>1, StopTyped, StopOutsideCall DEF ScratchOK, Reasons
      <4>2. CASE AfterCall
        BY <2>6, <4>2, AfterCallTyped, AfterCallOutsideCall
      <4>3. QED
        BY <3>3, <4>1, <4>2 DEF CallDenied
    <3>4. QED
      BY <1>1, <3>1, <3>2, <3>3 DEF RequestTool
  <2>8. QED
    BY <1>1, <2>5, <2>7, OnlySessionTyped DEF RequestTool, ScratchOK
<1>2. CASE BudgetSpentAfterAuthorization
  BY <1>0, <1>2, OnlySessionTyped, StopTyped, StopOutsideCall
     DEF BudgetSpentAfterAuthorization, RowsOK, ScratchOK, rows, scratch, Reasons
<1>3. CASE ToolSucceeds
  <2>1. ops # <<>> /\ SetOutcome("success")
    BY <1>3 DEF ToolSucceeds, CallInHand
  <2>2. ops' \in Seq(OpRows) /\ ops' # <<>>
    BY <2>1, SetOutcomeTyped
  <2>3. left' \in Nat
    BY <1>3, BoundsAssumption DEF ToolSucceeds, ResultLengths
  <2>4. QED
    BY <1>3, <2>2, <2>3, OnlySessionTyped, ConsumeTyped
       DEF ToolSucceeds, ControlOK, RowsOK, ScratchOK, CallInHand
<1>4. CASE ToolFails
  <2>1. ops # <<>>
    BY <1>4 DEF ToolFails, CallInHand
  <2>2. ops' \in Seq(OpRows)
    BY <1>4, <2>1, SetOutcomeTyped DEF ToolFails
  <2>3. lims' \in SUBSET Sources
    BY <1>4, <2>1, NothingToStoreTyped DEF ToolFails
  <2>4. RowsOK' /\ left' \in Nat /\ tainted' \in BOOLEAN
    BY <1>4, <2>2, <2>3, ConsumeTyped DEF ToolFails, RowsOK, ScratchOK
  <2>5. ControlOK' /\ CallInHand' /\ todo' \in Seq({"endpoint", "asset", "user"})
    <3>1. CASE Stop("SOURCE_UNAVAILABLE", "source_failure") /\ UNCHANGED todo
      BY <1>0, <3>1, StopTyped, StopOutsideCall DEF ScratchOK, Reasons
    <3>2. CASE AfterCall
      BY <1>4, <3>2, AfterCallTyped, AfterCallOutsideCall DEF ToolFails, CallInHand
    <3>3. QED
      BY <1>4, <3>1, <3>2 DEF ToolFails
  <2>6. QED
    BY <1>4, <2>4, <2>5, OnlySessionTyped DEF ToolFails, ScratchOK
<1>5. CASE ToolRaises
  BY <1>5, OnlySessionTyped, FailTyped, StopOutsideCall, ConsumeTyped
     DEF ToolRaises, Fail, RowsOK, ScratchOK, scratch
<1>6. CASE ToolAnswersEmpty
  <2>1. ops # <<>>
    BY <1>6 DEF ToolAnswersEmpty, CallInHand
  <2>2. ops' \in Seq(OpRows)
    BY <1>6, <2>1, SetOutcomeTyped DEF ToolAnswersEmpty
  <2>3. lims' \in SUBSET Sources
    BY <1>6, <2>1, NothingToStoreTyped DEF ToolAnswersEmpty
  <2>4. RowsOK' /\ left' \in Nat /\ tainted' \in BOOLEAN
    BY <1>6, <2>2, <2>3, ConsumeTyped DEF ToolAnswersEmpty, RowsOK, ScratchOK
  <2>5. ControlOK' /\ CallInHand' /\ todo' \in Seq({"endpoint", "asset", "user"})
    BY <1>6, AfterCallTyped, AfterCallOutsideCall DEF ToolAnswersEmpty, CallInHand
  <2>6. QED
    BY <1>6, <2>4, <2>5, OnlySessionTyped DEF ToolAnswersEmpty, ScratchOK
<1>7. QED
  BY <1>1, <1>2, <1>3, <1>4, <1>5, <1>6

LEMMA StoreStepsTyped ==
  ASSUME TypeInv, StoreItem \/ EvidenceOverLimit \/ StoreRaises \/ ResultStored
  PROVE  TypeInv'
<1> USE DEF TypeInv, TypeOK
<1>0. "BUDGET_EXCEEDED" \in States
  BY DEF States, TerminalStates
<1>1. CASE StoreItem
  <2>1. PICK size \in ItemSizes : ConsumeEvidence(size) /\ evid' = Append(evid, NewItem(size))
    BY <1>1 DEF StoreItem
  <2>2. evid' \in Seq(EvidenceRows)
    BY <1>1, <2>1, AddItemTyped DEF StoreItem
  <2>3. ledger' \in Ledgers
    BY <2>1, ConsumeTyped
  <2>4. left' \in Nat
    BY <1>1 DEF StoreItem, ScratchOK
  <2>5. QED
    BY <1>1, <2>2, <2>3, <2>4, OnlySessionTyped
       DEF StoreItem, OnlySession, input, control, ControlOK, RowsOK, ScratchOK, CallInHand
<1>2. CASE EvidenceOverLimit
  BY <1>0, <1>2, OnlySessionTyped, StopTyped, StopOutsideCall
     DEF EvidenceOverLimit, RowsOK, ScratchOK, rows, scratch, Reasons
<1>3. CASE StoreRaises
  <2>1. ledger' \in Ledgers
    BY <1>3, ConsumeTyped DEF StoreRaises, RowsOK
  <2>2. QED
    BY <1>3, <2>1, OnlySessionTyped, FailTyped, StopOutsideCall
       DEF StoreRaises, Fail, RowsOK, ScratchOK, scratch
<1>4. CASE ResultStored
  BY <1>4, OnlySessionTyped, AfterCallTyped, AfterCallOutsideCall
     DEF ResultStored, CallInHand, RowsOK, ScratchOK, rows
<1>5. QED
  BY <1>1, <1>2, <1>3, <1>4

(* The state of a run that is about to commit. *)
AtEnd ==
  /\ pc = "complete" => st = "COMPLETE"
  /\ pc = "finalize" => st \in TerminalStates

LEMMA EndStepsTyped ==
  ASSUME TypeInv, AtEnd,
         \/ CommitComplete \/ ReportRaises \/ Finalize \/ Unwind
         \/ StorageError \/ DataRefused
  PROVE  TypeInv'
<1> USE DEF TypeInv, TypeOK
<1>1. CASE CommitComplete
  <2>1. st \in TerminalStates
    BY <1>1 DEF CommitComplete, AtEnd, TerminalStates
  <2>2. db' \in Cases
    BY <1>1, <2>1, CommittedTyped DEF CommitComplete
  <2>3. QED
    BY <1>1, <2>2 DEF CommitComplete, ControlOK, RowsOK, ScratchOK, RequestOK, CallInHand,
       rows, scratch, request, input
<1>2. CASE Finalize
  <2>1. db' \in Cases
    BY <1>2, CommittedTyped DEF Finalize, AtEnd
  <2>2. QED
    BY <1>2, <2>1 DEF Finalize, ControlOK, RowsOK, ScratchOK, RequestOK, CallInHand,
       rows, scratch, request, input
<1>3. CASE Unwind
  BY <1>3 DEF Unwind, ControlOK, RowsOK, ScratchOK, RequestOK, CallInHand, rows, scratch, input
<1>4. CASE StorageError
  BY <1>4, OnlySessionTyped
     DEF StorageError, ControlOK, RowsOK, ScratchOK, CallInHand, rows, scratch
<1>5. CASE DataRefused
  BY <1>5, OnlySessionTyped
     DEF DataRefused, ControlOK, RowsOK, ScratchOK, CallInHand, rows, scratch
<1>6. CASE ReportRaises
  BY <1>6, OnlySessionTyped
     DEF ReportRaises, ControlOK, RowsOK, ScratchOK, CallInHand, rows, scratch, Reasons
<1>7. QED
  BY <1>1, <1>2, <1>3, <1>4, <1>5, <1>6

LEMMA OutsideStepsTyped ==
  ASSUME TypeInv,
         \/ \E c \in Cancellers : CancelRead(c) \/ CancelAccept(c)
         \/ Tick \/ Crash \/ UNCHANGED vars
  PROVE  TypeInv'
<1> USE DEF TypeInv, TypeOK, ControlOK, RowsOK, ScratchOK, RequestOK, CallInHand,
            control, rows, scratch, request, input
<1>1. ASSUME NEW c \in Cancellers, CancelRead(c) PROVE TypeInv'
  BY <1>1 DEF CancelRead
<1>2. ASSUME NEW c \in Cancellers, CancelAccept(c) PROVE TypeInv'
  BY <1>2 DEF CancelAccept
<1>3. CASE Tick
  BY <1>3, BoundsAssumption DEF Tick
<1>4. CASE Crash
  BY <1>4 DEF Crash
<1>5. CASE UNCHANGED vars
  BY <1>5 DEF vars
<1>6. QED
  BY <1>1, <1>2, <1>3, <1>4, <1>5

-----------------------------------------------------------------------------
(* The stage of a run: what the runner's position says about the machine,  *)
(* the reason and the store, and that a cancellation was asked for.        *)

RunningPcs == {"created", "work", "poll", "allowed", "store", "enrich"}

Asked == \E c \in Cancellers : canceller[c] = "accepted"

StageInv ==
  /\ pc \in RunningPcs => st \in ActiveStates /\ reason = "none"
  /\ pc = "complete" => st = "COMPLETE" /\ reason = "none" /\ ~tainted
  /\ pc = "finalize" =>
       /\ st \in TerminalStates /\ reason # "none"
       /\ st = "COMPLETE" => reason = "system_error" /\ "report" \in Faults
  /\ pc \in RunningPcs \cup {"complete", "finalize", "broken", "lost"} => db = Created
  /\ cancelFlag => Asked
  /\ st = "CANCELLED" => Asked

IInv == TypeInv /\ StageInv /\ CommittedConsistent

LEMMA StageInit == Init => IInv
<1> SUFFICES ASSUME Init PROVE IInv
  OBVIOUS
<1>1. TypeInv
  BY TypeInit
<1>2. StageInv
  BY DEF Init, StageInv, RunningPcs, ActiveStates
<1>3. CommittedConsistent
  BY DEF Init, CommittedConsistent
<1>4. QED
  BY <1>1, <1>2, <1>3 DEF IInv

(* A step inside the session keeps the store and the requests as they are. *)
LEMMA SessionKeepsStore ==
  ASSUME StageInv, pc \in RunningPcs, OnlySession
  PROVE  /\ db = Created /\ db' = Created
         /\ CommittedConsistent'
         /\ cancelFlag' => Asked'
         /\ Asked' <=> Asked
BY DEF StageInv, OnlySession, request, CommittedConsistent, Asked

LEMMA StayStage ==
  ASSUME StageInv, pc \in RunningPcs, OnlySession, pc' \in RunningPcs, UNCHANGED <<st, reason>>
  PROVE  StageInv'
BY SessionKeepsStore DEF StageInv, RunningPcs, ActiveStates

LEMMA AdvanceStage ==
  ASSUME StageInv, pc \in RunningPcs, OnlySession, Advance,
         st = "VERIFY_OUTPUT" => ~tainted'
  PROVE  StageInv'
<1>1. st \in ActiveStates /\ reason = "none" /\ reason' = "none" /\ st' = NextState[st]
  BY DEF Advance, TransitionTo, CanTransition, StageInv
<1>2. /\ st' \in ActiveStates \cup {"COMPLETE"}
      /\ st' = "COMPLETE" <=> st = "VERIFY_OUTPUT"
      /\ st' # "CANCELLED"
  BY <1>1, CompleteFromVerify DEF ActiveStates
<1>3. \/ pc' \in RunningPcs /\ st' # "COMPLETE"
      \/ pc' = "complete" /\ st' = "COMPLETE"
  BY <1>1 DEF Advance, RunningPcs, CheckedStates
<1>4. QED
  BY <1>1, <1>2, <1>3, SessionKeepsStore DEF StageInv, RunningPcs

LEMMA StopStage ==
  ASSUME StageInv, pc \in RunningPcs, OnlySession,
         NEW s \in TerminalStates \ {"COMPLETE"}, NEW why, why # "none", Stop(s, why),
         s = "CANCELLED" => Asked
  PROVE  StageInv'
BY SessionKeepsStore DEF Stop, TransitionTo, StageInv, RunningPcs

LEMMA FailStage ==
  ASSUME StageInv, pc \in RunningPcs, OnlySession, Fail
  PROVE  StageInv'
<1>1. st \in ActiveStates
  BY DEF StageInv
<1>2. FailureTransition[st] \in TerminalStates \ {"COMPLETE", "CANCELLED"}
  BY <1>1 DEF ActiveStates, TerminalStates, FailureTransition
<1>3. QED
  BY <1>2, StopStage DEF Fail

LEMMA AfterCallStage ==
  ASSUME StageInv, pc \in RunningPcs, OnlySession, AfterCall,
         st \in {"CLASSIFY_ALERT", "COLLECT_EVIDENCE", "NORMALIZE_EVIDENCE"}
  PROVE  StageInv'
<1>1. CASE st = "NORMALIZE_EVIDENCE"
  BY <1>1, StayStage DEF AfterCall, RunningPcs
<1>2. CASE st # "NORMALIZE_EVIDENCE"
  BY <1>2, AdvanceStage DEF AfterCall
<1>3. QED
  BY <1>1, <1>2

SessionStep ==
  \/ Setup \/ PassThrough \/ Authorize \/ Poll
  \/ RequestTool \/ BudgetSpentAfterAuthorization \/ ToolSucceeds
  \/ ToolAnswersEmpty \/ ToolFails \/ ToolRaises
  \/ SubmitContent \/ StoreItem \/ EvidenceOverLimit \/ StoreRaises \/ ResultStored
  \/ Normalize \/ NormalizeRaises \/ EnrichmentDone
  \/ FormHypotheses \/ ModelRaises \/ ValidateAndProduce \/ ProduceRaises \/ VerifyOutput

LEMMA SessionStepRuns ==
  ASSUME TypeInv, SessionStep
  PROVE  pc \in RunningPcs /\ OnlySession
BY DEF SessionStep, Setup, PassThrough, Authorize, Poll, RequestTool, ToolDue,
       BudgetSpentAfterAuthorization, ToolSucceeds, ToolAnswersEmpty, ToolFails, ToolRaises,
       SubmitContent, StoreItem, EvidenceOverLimit, StoreRaises, ResultStored,
       Normalize, NormalizeRaises, EnrichmentDone, FormHypotheses, ModelRaises,
       ValidateAndProduce, ProduceRaises, VerifyOutput, RunningPcs

LEMMA SessionStepStage ==
  ASSUME TypeInv, StageInv, SessionStep
  PROVE  StageInv'
<1>0. pc \in RunningPcs /\ OnlySession
  BY SessionStepRuns
<1>a. /\ "BUDGET_EXCEEDED" \in TerminalStates \ {"COMPLETE", "CANCELLED"}
      /\ "ACCESS_DENIED" \in TerminalStates \ {"COMPLETE", "CANCELLED"}
      /\ "SOURCE_UNAVAILABLE" \in TerminalStates \ {"COMPLETE", "CANCELLED"}
      /\ "VALIDATION_FAILED" \in TerminalStates \ {"COMPLETE", "CANCELLED"}
      /\ "CANCELLED" \in TerminalStates \ {"COMPLETE"}
  BY DEF TerminalStates
<1>b. pc \in {"allowed", "store"} =>
        st \in {"CLASSIFY_ALERT", "COLLECT_EVIDENCE", "NORMALIZE_EVIDENCE"}
  BY DEF TypeInv, CallInHand
<1>1. CASE Setup \/ SubmitContent \/ StoreItem \/ Normalize \/ ToolSucceeds
  BY <1>0, <1>1, StayStage
     DEF Setup, SubmitContent, StoreItem, Normalize, ToolSucceeds, RunningPcs, control
<1>2. CASE PassThrough \/ ValidateAndProduce
  BY <1>0, <1>2, AdvanceStage DEF PassThrough, ValidateAndProduce
<1>3. CASE Authorize
  BY <1>0, <1>a, <1>3, AdvanceStage, StopStage DEF Authorize
<1>4. CASE Poll
  <2>1. CASE cancelFlag
    <3>1. Asked
      BY <2>1 DEF StageInv
    <3>2. QED
      BY <1>0, <1>a, <1>4, <2>1, <3>1, StopStage DEF Poll
  <2>2. CASE ~cancelFlag
    BY <1>0, <1>4, <2>2, StayStage DEF Poll, RunningPcs
  <2>3. QED
    BY <2>1, <2>2
<1>5. CASE RequestTool
  <2>1. st \in {"CLASSIFY_ALERT", "COLLECT_EVIDENCE", "NORMALIZE_EVIDENCE"}
    BY <1>5 DEF RequestTool, ToolDue, TypeInv, CallInHand
  <2>2. CASE pc' = "allowed" /\ UNCHANGED <<st, trace, reason, todo>>
    BY <1>0, <2>2, StayStage DEF RunningPcs
  <2>3. CASE Stop("BUDGET_EXCEEDED", "max_tool_operations")
    BY <1>0, <1>a, <2>3, StopStage
  <2>4. ASSUME NEW why \in {"unregistered", "unauthorized_source"}, CallDenied(why)
        PROVE  StageInv'
    <3>1. CASE Stop("ACCESS_DENIED", why)
      BY <1>0, <1>a, <3>1, StopStage
    <3>2. CASE AfterCall
      BY <1>0, <2>1, <3>2, AfterCallStage
    <3>3. QED
      BY <2>4, <3>1, <3>2 DEF CallDenied
  <2>5. QED
    BY <1>5, <2>2, <2>3, <2>4 DEF RequestTool
<1>6. CASE BudgetSpentAfterAuthorization \/ EvidenceOverLimit
  BY <1>0, <1>a, <1>6, StopStage DEF BudgetSpentAfterAuthorization, EvidenceOverLimit
<1>7. CASE ToolFails
  <2>1. CASE Stop("SOURCE_UNAVAILABLE", "source_failure")
    BY <1>0, <1>a, <2>1, StopStage
  <2>2. CASE AfterCall
    BY <1>0, <1>b, <1>7, <2>2, AfterCallStage DEF ToolFails
  <2>3. QED
    BY <1>7, <2>1, <2>2 DEF ToolFails
<1>8. CASE ToolRaises \/ StoreRaises \/ NormalizeRaises \/ ModelRaises \/ ProduceRaises
  BY <1>0, <1>8, FailStage
     DEF ToolRaises, StoreRaises, NormalizeRaises, ModelRaises, ProduceRaises
<1>9. CASE ResultStored \/ ToolAnswersEmpty
  BY <1>0, <1>b, <1>9, AfterCallStage DEF ResultStored, ToolAnswersEmpty
<1>10. CASE EnrichmentDone
  BY <1>0, <1>10, AdvanceStage DEF EnrichmentDone, TypeInv, CallInHand
<1>11. CASE FormHypotheses
  <2>1. CASE Stop("BUDGET_EXCEEDED", "max_model_calls")
    BY <1>0, <1>a, <2>1, StopStage
  <2>2. CASE Advance
    BY <1>0, <1>11, <2>2, AdvanceStage DEF FormHypotheses
  <2>3. QED
    BY <1>11, <2>1, <2>2 DEF FormHypotheses
<1>12. CASE VerifyOutput
  <2>1. CASE tainted
    BY <1>0, <1>a, <1>12, <2>1, StopStage DEF VerifyOutput
  <2>2. CASE ~tainted
    BY <1>0, <1>12, <2>2, AdvanceStage DEF VerifyOutput, scratch
  <2>3. QED
    BY <2>1, <2>2
<1>13. QED
  BY <1>1, <1>2, <1>3, <1>4, <1>5, <1>6, <1>7, <1>8, <1>9, <1>10, <1>11, <1>12 DEF SessionStep

(* The report that could not be made sends a completed run to _finalize.   *)
LEMMA ReportRaisesStage ==
  ASSUME IInv, ReportRaises
  PROVE  /\ StageInv' /\ CommittedConsistent' /\ db' = db /\ (Asked' <=> Asked)
         /\ pc = "complete" /\ pc' = "finalize"
<1>1. /\ pc = "complete" /\ st = "COMPLETE" /\ db = Created /\ "report" \in Faults
      /\ pc' = "finalize" /\ st' = st /\ reason' = "system_error"
      /\ db' = db /\ cancelFlag' = cancelFlag /\ canceller' = canceller
  BY DEF IInv, StageInv, ReportRaises, OnlySession, request
<1>2. Asked' <=> Asked
  BY <1>1 DEF Asked
<1>3. CommittedConsistent'
  BY <1>1 DEF CommittedConsistent
<1>4. StageInv'
  BY <1>1, <1>2 DEF IInv, StageInv, RunningPcs, TerminalStates
<1>5. QED
  BY <1>1, <1>2, <1>3, <1>4

(* What the two commits store. *)
LEMMA CommitStores ==
  ASSUME IInv, CommitComplete \/ Finalize
  PROVE  /\ db = Created /\ pc \in {"complete", "finalize"} /\ pc' = "unwind"
         /\ \/ db'.status = "completed" /\ db'.report.kind = "complete"
            \/ /\ db'.report.kind = "partial" \/ ("report" \in Faults /\ db'.report.kind = "none")
               /\ \/ db'.status = "completed" /\ "report" \in Faults
                  \/ /\ db'.status \in TerminalStatuses \ {"completed"}
                     /\ db'.status = "cancelled" => Asked
         /\ StageInv' /\ CommittedConsistent'
         /\ canceller' = canceller
<1> USE DEF IInv
<1>1. CASE CommitComplete
  <2>1. st = "COMPLETE" /\ reason = "none" /\ ~tainted /\ db = Created
    BY <1>1 DEF CommitComplete, StageInv
  <2>2. db' = Committed(Report("complete", TRUE))
    BY <1>1 DEF CommitComplete
  <2>3. /\ db'.status = "completed" /\ db'.wf = "COMPLETE" /\ db'.reason = "none"
        /\ db'.report.kind = "complete" /\ db'.report.verified /\ ~db'.report.tainted
    BY <2>1, <2>2 DEF Committed, Report, TerminalStatus
  <2>4. CommittedConsistent'
    BY <2>3 DEF CommittedConsistent, TerminalStates, TerminalStatus
  <2>5. StageInv' /\ canceller' = canceller /\ pc = "complete" /\ pc' = "unwind"
    BY <1>1, <2>1 DEF CommitComplete, StageInv, RunningPcs, request, Asked
  <2>6. QED
    BY <1>1, <2>1, <2>3, <2>4, <2>5
<1>2. CASE Finalize
  <2>1. /\ st \in TerminalStates /\ reason # "none" /\ db = Created
        /\ st = "COMPLETE" => reason = "system_error" /\ "report" \in Faults
        /\ st = "CANCELLED" => Asked
    BY <1>2 DEF Finalize, StageInv
  <2>2. \/ db' = Committed(Report("partial", FALSE))
        \/ "report" \in Faults /\ db' = Committed(NoReport)
    BY <1>2 DEF Finalize
  <2>3. /\ TerminalStatus[st] \in TerminalStatuses
        /\ TerminalStatus[st] = "cancelled" <=> st = "CANCELLED"
        /\ TerminalStatus[st] = "completed" <=> st = "COMPLETE"
    BY <2>1 DEF TerminalStates, TerminalStatus, TerminalStatuses
  <2>4. /\ db'.status = TerminalStatus[st] /\ db'.wf = st /\ db'.reason = reason
        /\ db'.report.kind = "partial" \/ ("report" \in Faults /\ db'.report = NoReport)
        /\ ~db'.report.verified
    <3>1. CASE db' = Committed(Report("partial", FALSE))
      BY <3>1 DEF Committed, Report
    <3>2. CASE "report" \in Faults /\ db' = Committed(NoReport)
      BY <3>2 DEF Committed, NoReport
    <3>3. QED
      BY <2>2, <3>1, <3>2
  <2>5. db'.report.kind = "partial" \/ ("report" \in Faults /\ db'.report.kind = "none")
    BY <2>4 DEF NoReport
  <2>6. CommittedConsistent'
    BY <2>1, <2>3, <2>4 DEF CommittedConsistent
  <2>7. StageInv' /\ canceller' = canceller /\ pc = "finalize" /\ pc' = "unwind"
    BY <1>2, <2>1 DEF Finalize, StageInv, RunningPcs, request, Asked
  <2>8. QED
    BY <1>2, <2>1, <2>3, <2>4, <2>5, <2>6, <2>7
<1>3. QED
  BY <1>1, <1>2

(* Steps around the runner, and the ends of a run that store nothing, leave *)
(* the store alone; an accepted request stays accepted.                    *)
QuietStep ==
  \/ Unwind \/ StorageError \/ DataRefused \/ Tick \/ Crash \/ UNCHANGED vars
  \/ \E c \in Cancellers : CancelRead(c) \/ CancelAccept(c)

LEMMA QuietStepStage ==
  ASSUME IInv, QuietStep
  PROVE  /\ StageInv' /\ CommittedConsistent' /\ db' = db
         /\ Asked => Asked'
<1> USE DEF IInv
<1>1. db' = db
  BY DEF QuietStep, Unwind, StorageError, DataRefused, OnlySession, Tick, Crash, vars, CancelRead, CancelAccept
<1>2. CommittedConsistent'
  BY <1>1 DEF CommittedConsistent
<1>3. (StageInv /\ Asked => Asked') /\ StageInv'
  <2>1. CASE Unwind
    <3>1. /\ canceller' = canceller /\ st' = st
          /\ cancelFlag' = FALSE \/ cancelFlag' = cancelFlag
      BY <2>1 DEF Unwind
    <3>2. \/ pc = "unwind" /\ pc' = "returned"
          \/ pc = "broken" /\ pc' = "lost"
      BY <2>1 DEF Unwind
    <3>3. QED
      BY <1>1, <3>1, <3>2 DEF StageInv, RunningPcs, Asked
  <2>2. CASE StorageError
    BY <1>1, <2>2 DEF StorageError, OnlySession, request, StageInv, RunningPcs, Asked, TypeInv, TypeOK, ControlOK
  <2>3. CASE Tick
    BY <1>1, <2>3 DEF Tick, control, scratch, request, StageInv, Asked
  <2>4. CASE Crash
    <3>1. Asked => Asked'
      BY <2>4 DEF Crash, Asked
    <3>2. QED
      BY <1>1, <2>4, <3>1 DEF Crash, StageInv, RunningPcs
  <2>5. CASE UNCHANGED vars
    BY <2>5 DEF vars, control, scratch, request, StageInv, Asked
  <2>6. ASSUME NEW c \in Cancellers, CancelRead(c)
        PROVE  (Asked => Asked') /\ StageInv'
    <3>1. Asked => Asked'
      BY <2>6 DEF CancelRead, Asked, TypeInv, TypeOK, RequestOK
    <3>2. QED
      BY <1>1, <2>6, <3>1 DEF CancelRead, control, scratch, StageInv
  <2>7. ASSUME NEW c \in Cancellers, CancelAccept(c)
        PROVE  Asked' /\ StageInv'
    <3>1. Asked'
      BY <2>7 DEF CancelAccept, Asked, TypeInv, TypeOK, RequestOK
    <3>2. QED
      BY <1>1, <2>7, <3>1 DEF CancelAccept, control, scratch, StageInv
  <2>8. CASE DataRefused
    BY <1>1, <2>8 DEF DataRefused, OnlySession, request, StageInv, RunningPcs, Asked
  <2>9. QED
    BY <2>1, <2>2, <2>3, <2>4, <2>5, <2>6, <2>7, <2>8 DEF QuietStep
<1>4. QED
  BY <1>1, <1>2, <1>3

LEMMA NextSplit ==
  [Next]_vars => SessionStep \/ CommitComplete \/ ReportRaises \/ Finalize \/ QuietStep
BY DEF Next, Runner, SessionStep, QuietStep, Halted

LEMMA StepTyped ==
  ASSUME IInv, [Next]_vars
  PROVE  TypeInv'
<1>1. AtEnd
  BY DEF IInv, StageInv, AtEnd, TerminalStates
<1>2. CASE SessionStep
  BY <1>2, WorkflowStepsTyped, CallStepsTyped, StoreStepsTyped DEF IInv, SessionStep
<1>3. CASE CommitComplete \/ ReportRaises \/ Finalize \/ QuietStep
  BY <1>1, <1>3, EndStepsTyped, OutsideStepsTyped DEF IInv, QuietStep
<1>4. QED
  BY <1>2, <1>3, NextSplit

LEMMA StepInductive ==
  ASSUME IInv, [Next]_vars
  PROVE  IInv'
<1>1. TypeInv'
  BY StepTyped
<1>2. CASE SessionStep
  BY <1>1, <1>2, SessionStepStage, SessionStepRuns, SessionKeepsStore DEF IInv
<1>3. CASE CommitComplete \/ Finalize
  BY <1>1, <1>3, CommitStores DEF IInv
<1>4. CASE QuietStep
  BY <1>1, <1>4, QuietStepStage DEF IInv
<1>5. CASE ReportRaises
  BY <1>1, <1>5, ReportRaisesStage DEF IInv
<1>6. QED
  BY <1>2, <1>3, <1>4, <1>5, NextSplit

(* The inductive invariant: types, the operation in hand, where in the     *)
(* workflow each program point can be, and the record.                     *)
THEOREM Inductive == Spec => []IInv
<1>1. Init => IInv
  BY StageInit
<1>2. IInv /\ [Next]_vars => IInv'
  BY StepInductive
<1>3. QED
  BY <1>1, <1>2, PTL DEF Spec

(* Type correctness of the run for every value of the limits and bounds. *)
THEOREM TypeCorrect == Spec => []TypeOK
<1>1. IInv => TypeOK
  BY DEF IInv, TypeInv
<1>2. QED
  BY <1>1, Inductive, PTL

(* Whatever fails and whenever, another session sees the case as created,   *)
(* or ended with status, state, reason and report that agree.              *)
THEOREM CommittedIsConsistent == Spec => []CommittedConsistent
<1>1. IInv => CommittedConsistent
  BY DEF IInv
<1>2. QED
  BY <1>1, Inductive, PTL

(* A run that is lost stays lost, and its case as it was created. *)
LEMMA LostStays ==
  ASSUME IInv, [Next]_vars, Lost
  PROVE  Lost' /\ db' = db
<1>1. pc \in {"broken", "lost", "crashed"}
  BY DEF Lost
<1>2. QuietStep
  BY <1>1, NextSplit, SessionStepRuns, CommitStores, ReportRaisesStage DEF IInv, RunningPcs
<1>3. db' = db
  BY <1>2, QuietStepStage
<1>4. pc' \in {"broken", "lost", "crashed"}
  BY <1>1, <1>2
     DEF QuietStep, Unwind, StorageError, DataRefused, Tick, Crash, CancelRead, CancelAccept,
         vars, control
<1>5. QED
  BY <1>3, <1>4 DEF Lost, Ended

(* A step that stores nothing and accepts no request is a stutter of the   *)
(* lifecycle, or loses the case.                                           *)
LEMMA SilentStep ==
  ASSUME db' = db, Asked' <=> Asked, Lost => Lost'
  PROVE  [Lifecycle!Next]_(Lifecycle!caseVars)
<1>1. CASE Lost' <=> Lost
  BY <1>1 DEF Lifecycle!caseVars, Asked
<1>2. CASE Lost' /\ ~Lost
  <2>1. db.status = "created"
    BY <1>2 DEF Lost, Ended
  <2>2. Lifecycle!Lose
    BY <1>2, <2>1 DEF Lifecycle!Lose, Asked
  <2>3. QED
    BY <2>2 DEF Lifecycle!Next
<1>3. QED
  BY <1>1, <1>2

(* The investigation implements the case lifecycle it promises.            *)
THEOREM ImplementsLifecycle == Spec => LifecycleSpec
<1>1. Init => Lifecycle!Init
  BY DEF Init, Created, NoReport, Lifecycle!Init, Lost
<1>2. IInv /\ [Next]_vars => [Lifecycle!Next]_(Lifecycle!caseVars)
  <2> SUFFICES ASSUME IInv, [Next]_vars
               PROVE  [Lifecycle!Next]_(Lifecycle!caseVars)
    OBVIOUS
  <2>1. CASE SessionStep
    <3>1. db' = db /\ (Asked' <=> Asked)
      BY <2>1, SessionStepRuns, SessionKeepsStore DEF IInv
    <3>2. QED
      BY <3>1, LostStays, SilentStep
  <2>2. CASE ReportRaises
    BY <2>2, ReportRaisesStage, LostStays, SilentStep
  <2>3. CASE CommitComplete \/ Finalize
    <3>1. /\ db.status = "created" /\ ~Lost /\ ~Lost' /\ (Asked' <=> Asked)
      BY <2>3, CommitStores DEF Created, Lost, Asked
    <3>a. (Lost' = Lost) /\ (Lost = FALSE)
      BY <3>1 DEF Lost
    <3>b. (\E c \in Cancellers : canceller[c] = "accepted")'
            = \E c \in Cancellers : canceller[c] = "accepted"
      BY <3>1 DEF Asked
    <3>2. CASE db'.status = "completed" /\ db'.report.kind = "complete"
      BY <3>1, <3>a, <3>b, <3>2 DEF Lifecycle!Complete, Lifecycle!Next, Lifecycle!Finish
    <3>3. CASE /\ db'.report.kind = "partial"
                    \/ ("report" \in Faults /\ db'.report.kind = "none")
               /\ \/ db'.status = "completed" /\ "report" \in Faults
                  \/ /\ db'.status \in TerminalStatuses \ {"completed"}
                     /\ db'.status = "cancelled" => Asked
      <4>1. db'.report.kind \in Lifecycle!EarlyReports
        BY <3>3 DEF Lifecycle!EarlyReports
      <4>2. Lifecycle!CompleteUnreported \/ Lifecycle!StopEarly
        BY <3>1, <3>a, <3>b, <3>3, <4>1
           DEF Lifecycle!CompleteUnreported, Lifecycle!StopEarly, Lifecycle!EarlyStatuses,
               Lifecycle!TerminalStatuses, TerminalStatuses, Asked
      <4>3. QED
        BY <4>2 DEF Lifecycle!Next, Lifecycle!Finish
    <3>4. QED
      BY <2>3, <3>2, <3>3, CommitStores
  <2>4. CASE \E c \in Cancellers : CancelRead(c) \/ CancelAccept(c)
    <3>1. QuietStep
      BY <2>4 DEF QuietStep
    <3>2. db' = db /\ (Asked => Asked')
      BY <3>1, QuietStepStage
    <3>3. Lost' <=> Lost
      BY <2>4, <3>2 DEF CancelRead, CancelAccept, control, Lost, Ended
    <3>4. QED
      BY <3>2, <3>3 DEF Lifecycle!Next, Lifecycle!AskToCancel, Lifecycle!caseVars, Asked
  <2>5. CASE Unwind \/ StorageError \/ DataRefused \/ Tick \/ Crash \/ UNCHANGED vars
    <3>1. QuietStep
      BY <2>5 DEF QuietStep
    <3>2. db' = db /\ (Asked => Asked')
      BY <3>1, QuietStepStage
    <3>3. Asked' => Asked
      BY <2>5 DEF Unwind, StorageError, DataRefused, OnlySession, Tick, Crash, vars, request, Asked
    <3>4. QED
      BY <3>2, <3>3, LostStays, SilentStep
  <2>6. QED
    BY <2>1, <2>2, <2>3, <2>4, <2>5, NextSplit DEF QuietStep
<1>3. QED
  BY <1>1, <1>2, Inductive, PTL DEF Spec, LifecycleSpec, Lifecycle!Spec
=============================================================================
