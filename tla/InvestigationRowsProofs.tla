---------------------- MODULE InvestigationRowsProofs -----------------------
(***************************************************************************)
(* Proofs about the rows an investigation stores - operations, evidence,    *)
(* budget, limitations - and about the reason it stores with them, for      *)
(* every value of the constants.                                           *)
(***************************************************************************)
EXTENDS InvestigationTrailProofs, SizeSumProofs

-----------------------------------------------------------------------------
(* The inductive invariant: what the stored rows promise, said of the rows  *)
(* of the session at every step of the run.                                *)

OpsInv ==
  \A i \in DOMAIN ops :
    /\ ops[i].outcome = "denied" <=> ops[i].decision # "authorized"
    /\ ops[i].decision = "authorized" =>
         ops[i].tool \in PermittedTools(ops[i].state) /\ ToolSource[ops[i].tool] \in sources
    /\ ops[i].outcome = "pending" =>
         /\ i = Len(ops)
         /\ \/ pc \in {"allowed", "unwind", "broken", "returned", "lost", "crashed"}
            \/ reason \in {"max_tool_operations", "system_error"}

(* The row of the call in progress; content submitted by the analyst has    *)
(* none.                                                                   *)
CallInv ==
  /\ pc = "allowed" => ops[Len(ops)].outcome = "pending"
  /\ pc = "allowed" /\ st = "CLASSIFY_ALERT" => origin = "connected_source"
  /\ pc = "store" /\ ~(st = "CLASSIFY_ALERT" /\ origin = "analyst_submitted") =>
       ops[Len(ops)].outcome = "success"

EvidInv ==
  \A i \in DOMAIN evid :
    IF evid[i].trust = "direct_observation"
    THEN /\ evid[i].op \in DOMAIN ops
         /\ ops[evid[i].op].outcome = "success"
         /\ evid[i].source = ToolSource[ops[evid[i].op].tool]
    ELSE origin = "analyst_submitted" /\ evid[i].op = 0 /\ i = 1

(* Nothing is stored before the alert, which is stored once. *)
FreshInv ==
  /\ pc \in RunningPcs /\ st \in {"RECEIVE_ALERT", "VALIDATE_REQUEST", "AUTHORIZE"} => evid = <<>>
  /\ pc \in {"created", "work", "poll", "allowed"} /\ st = "CLASSIFY_ALERT" => evid = <<>>
  /\ pc = "store" /\ st = "CLASSIFY_ALERT" /\ origin = "analyst_submitted" =>
       left \in {0, 1} /\ (left = 1 => evid = <<>>)

ReasonInv ==
  /\ reason = "max_tool_operations" => ledger.tool = MaxToolOps \/ elapsed > MaxElapsed
  /\ reason = "max_evidence_items" => ledger.items = MaxItems
  /\ reason = "max_evidence_bytes" => \E size \in ItemSizes : ledger.bytes + size > MaxBytes
  /\ reason = "no_sources" => sources = {}
  /\ reason = "unauthorized_source" =>
       origin = "connected_source" /\ "alert_source" \notin sources /\ evid = <<>>
  /\ reason = "source_failure" =>
       evid = <<>> /\ ops[Len(ops)].outcome \in FailedOutcomes

Missed == { ToolSource[ops[i].tool] : i \in { j \in DOMAIN ops : NamedGap(ops[j]) } }

GapsInv == ReportLimitations = Missed

(* The operations that used up budget. *)
Spent(op, why) ==
  \/ op.outcome \notin {"denied", "pending"}
  \/ op.outcome = "pending" /\ why = "system_error"

Counted == { i \in DOMAIN ops : Spent(ops[i], reason) }

LedgerInv ==
  /\ ledger.tool = Cardinality(Counted) /\ ledger.tool <= MaxToolOps
  /\ ledger.items <= MaxItems /\ ledger.bytes <= MaxBytes
  /\ ledger.items \in {Len(evid), Len(evid) + 1}
  /\ reason # "system_error" =>
       ledger.items = Len(evid) /\ ledger.bytes = SizeSum(evid, DOMAIN evid)

RowsInv == OpsInv /\ CallInv /\ EvidInv /\ FreshInv /\ ReasonInv /\ GapsInv /\ LedgerInv

Base == TypeInv /\ StageInv

-----------------------------------------------------------------------------
(* How a step may change the rows.                                         *)

LEMMA RowsTyped ==
  ASSUME TypeInv
  PROVE  /\ ops \in Seq(OpRows) /\ Len(ops) \in Nat /\ DOMAIN ops = 1..Len(ops)
         /\ \A i \in DOMAIN ops : ops[i] \in OpRows
         /\ evid \in Seq(EvidenceRows) /\ Len(evid) \in Nat /\ DOMAIN evid = 1..Len(evid)
         /\ ledger.tool \in Nat /\ ledger.items \in Nat /\ ledger.bytes \in Nat
         /\ \A size \in ItemSizes : size \in Nat
BY ItemSizesAssumption DEF TypeInv, TypeOK, RowsOK, Ledgers

(* Only the operation of a call in progress lacks an outcome while the run  *)
(* goes on.                                                                *)
LEMMA NoPending ==
  ASSUME Base, OpsInv, pc \in RunningPcs \ {"allowed"}
  PROVE  /\ \A i \in DOMAIN ops : ops[i].outcome # "pending"
         /\ reason = "none"
BY DEF Base, StageInv, OpsInv, RunningPcs

(* The call in progress is over and has its outcome. *)
CallEnds == ToolSucceeds \/ ToolAnswersEmpty \/ ToolFails

LEMMA OutcomeSet ==
  ASSUME TypeInv, ops # <<>>, NEW o \in FailedOutcomes \cup {"success", "empty"}, SetOutcome(o)
  PROVE  /\ Len(ops) \in DOMAIN ops
         /\ DOMAIN ops' = DOMAIN ops /\ Len(ops') = Len(ops)
         /\ \A i \in DOMAIN ops : i # Len(ops) => ops'[i] = ops[i]
         /\ ops'[Len(ops)] = [ops[Len(ops)] EXCEPT !.outcome = o]
         /\ \A i \in DOMAIN ops : /\ ops'[i].tool = ops[i].tool
                                  /\ ops'[i].state = ops[i].state
                                  /\ ops'[i].decision = ops[i].decision
         /\ ops'[Len(ops)].outcome = o
<1>1. /\ ops \in Seq(OpRows) /\ Len(ops) \in Nat /\ DOMAIN ops = 1..Len(ops)
      /\ \A i \in DOMAIN ops : ops[i] \in OpRows
  BY RowsTyped
<1>2. Len(ops) \in DOMAIN ops
  BY <1>1
<1> DEFINE row == [ops[Len(ops)] EXCEPT !.outcome = o]
<1>3. /\ row.outcome = o /\ row.tool = ops[Len(ops)].tool
      /\ row.state = ops[Len(ops)].state /\ row.decision = ops[Len(ops)].decision
      /\ row \in OpRows
  BY <1>1, <1>2 DEF OpRows
<1>4. ops' = [ops EXCEPT ![Len(ops)] = row]
  BY <1>1, <1>2 DEF SetOutcome
<1> HIDE DEF row
<1>5. /\ ops' \in Seq(OpRows) /\ Len(ops') = Len(ops) /\ DOMAIN ops' = DOMAIN ops
      /\ ops'[Len(ops)] = row
      /\ \A i \in DOMAIN ops : i # Len(ops) => ops'[i] = ops[i]
  BY <1>1, <1>2, <1>3, <1>4
<1>6. QED
  BY <1>2, <1>3, <1>5 DEF row

LEMMA RequestAppends ==
  ASSUME TypeInv, RequestTool
  PROVE  /\ NextTool \in Tools /\ Decision(NextTool) \in Decisions
         /\ DOMAIN ops' = 1..(Len(ops) + 1) /\ Len(ops') = Len(ops) + 1
         /\ \A i \in DOMAIN ops : ops'[i] = ops[i]
         /\ ops'[Len(ops) + 1] =
              [ tool |-> NextTool, state |-> st, decision |-> Decision(NextTool),
                outcome |-> IF Decision(NextTool) = "authorized" THEN "pending" ELSE "denied" ]
<1>1. NextTool \in Tools /\ Decision(NextTool) \in Decisions
  BY NextToolTyped, DecisionTyped DEF RequestTool
<1>2. ops \in Seq(OpRows) /\ Len(ops) \in Nat /\ DOMAIN ops = 1..Len(ops)
  BY RowsTyped
<1> DEFINE row == [ tool |-> NextTool, state |-> st, decision |-> Decision(NextTool),
                    outcome |-> IF Decision(NextTool) = "authorized" THEN "pending" ELSE "denied" ]
<1>3. ops' = Append(ops, row)
  BY DEF RequestTool
<1> HIDE DEF row
<1>4. /\ DOMAIN ops' = 1..(Len(ops) + 1) /\ Len(ops') = Len(ops) + 1
      /\ \A i \in DOMAIN ops : ops'[i] = ops[i]
      /\ ops'[Len(ops) + 1] = row
  BY <1>2, <1>3
<1>5. QED
  BY <1>1, <1>4 DEF row

(* The reason a step of the session leaves behind. *)
LEMMA ReasonAfter ==
  ASSUME Base, SessionStep
  PROVE  reason = "none" /\ input' = input /\ elapsed' = elapsed
BY SessionStepRuns DEF Base, StageInv, OnlySession

(* Every other step keeps the operations, and one that ends a call in      *)
(* progress that way says why.                                             *)
LEMMA OtherStepsKeepOps ==
  ASSUME Base, SessionStep, ~RequestTool, ~CallEnds
  PROVE  /\ ops' = ops /\ pc' # "allowed"
         /\ pc = "allowed" => reason' \in {"max_tool_operations", "system_error"}
         /\ pc' = "store" => pc = "store" \/ SubmitContent
         /\ pc' = "store" => UNCHANGED st
         /\ pc # "allowed" => ~ToolRaises
<1> USE DEF rows, control
<1>1. CASE Setup \/ PassThrough \/ Authorize \/ Poll \/ SubmitContent
  BY <1>1 DEF Setup, PassThrough, Authorize, Poll, SubmitContent, Advance, Stop, ToolRaises
<1>2. CASE BudgetSpentAfterAuthorization \/ ToolRaises \/ StoreItem \/ EvidenceOverLimit
           \/ StoreRaises
  BY <1>2 DEF BudgetSpentAfterAuthorization, ToolRaises, StoreItem, EvidenceOverLimit,
              StoreRaises, Fail, Stop
<1>3. CASE ResultStored
  BY <1>3 DEF ResultStored, AfterCall, Advance, ToolRaises
<1>4. CASE Normalize \/ NormalizeRaises \/ EnrichmentDone \/ FormHypotheses
           \/ ModelRaises \/ ValidateAndProduce \/ ProduceRaises \/ VerifyOutput
  BY <1>4 DEF Normalize, NormalizeRaises, EnrichmentDone, FormHypotheses, ModelRaises,
              ValidateAndProduce, ProduceRaises, VerifyOutput, Advance, Fail, Stop, ToolRaises
<1>5. QED
  BY <1>1, <1>2, <1>3, <1>4 DEF SessionStep, CallEnds

-----------------------------------------------------------------------------
(* Operations.                                                             *)

LEMMA KeptOps ==
  ASSUME Base, OpsInv, SessionStep, ~RequestTool, ~CallEnds
  PROVE  OpsInv'
<1>1. /\ ops' = ops /\ sources' = sources
      /\ pc = "allowed" => reason' \in {"max_tool_operations", "system_error"}
  BY OtherStepsKeepOps, ReasonAfter DEF input
<1>2. pc \in RunningPcs
  BY SessionStepRuns DEF Base
<1>3. CASE pc = "allowed"
  BY <1>1, <1>3 DEF OpsInv
<1>4. CASE pc # "allowed"
  BY <1>1, <1>2, <1>4, NoPending DEF OpsInv
<1>5. QED
  BY <1>3, <1>4

LEMMA RequestKeepsOps ==
  ASSUME Base, OpsInv, RequestTool
  PROVE  OpsInv'
<1>1. pc \in RunningPcs \ {"allowed"} /\ sources' = sources
  BY DEF RequestTool, ToolDue, RunningPcs, OnlySession, input
<1>2. \A i \in DOMAIN ops : ops[i].outcome # "pending"
  BY <1>1, NoPending
<1> DEFINE n == Len(ops) + 1
           d == Decision(NextTool)
<1>3. /\ d \in Decisions /\ DOMAIN ops' = 1..n /\ Len(ops') = n /\ Len(ops) \in Nat
      /\ DOMAIN ops = 1..Len(ops)
      /\ \A i \in DOMAIN ops : ops'[i] = ops[i]
      /\ ops'[n].tool = NextTool /\ ops'[n].state = st /\ ops'[n].decision = d
      /\ ops'[n].outcome = IF d = "authorized" THEN "pending" ELSE "denied"
  BY RequestAppends, RowsTyped DEF Base
<1>4. d = "authorized" => NextTool \in PermittedTools(st) /\ ToolSource[NextTool] \in sources
  BY DEF Decision
<1>5. d = "authorized" => pc' = "allowed"
  BY DEF RequestTool
<1> HIDE DEF d, n
<1>6. ASSUME NEW i \in 1..n
      PROVE  /\ ops'[i].outcome = "denied" <=> ops'[i].decision # "authorized"
             /\ ops'[i].decision = "authorized" =>
                  /\ ops'[i].tool \in PermittedTools(ops'[i].state)
                  /\ ToolSource[ops'[i].tool] \in sources'
             /\ ops'[i].outcome = "pending" => i = n /\ pc' = "allowed"
  <2>1. CASE i = n
    BY <1>1, <1>3, <1>4, <1>5, <2>1
  <2>2. CASE i # n
    <3>1. i \in DOMAIN ops
      BY <1>3, <2>2 DEF n
    <3>2. QED
      BY <1>1, <1>2, <1>3, <3>1 DEF OpsInv
  <2>3. QED
    BY <2>1, <2>2
<1>7. QED
  BY <1>3, <1>6 DEF OpsInv

(* A call is over: its row gets the outcome. *)
LEMMA EndedCallKeepsOps ==
  ASSUME Base, OpsInv, CallInv, CallEnds
  PROVE  OpsInv'
<1>1. pc = "allowed" /\ ops # <<>> /\ ops[Len(ops)].outcome = "pending" /\ sources' = sources
  BY DEF Base, TypeInv, CallInHand, CallInv, CallEnds, ToolSucceeds, ToolAnswersEmpty, ToolFails, OnlySession, input
<1>2. PICK o \in FailedOutcomes \cup {"success", "empty"} : SetOutcome(o)
  BY DEF CallEnds, ToolSucceeds, ToolAnswersEmpty, ToolFails
<1>3. /\ Len(ops) \in DOMAIN ops /\ DOMAIN ops' = DOMAIN ops
      /\ \A i \in DOMAIN ops : i # Len(ops) => ops'[i] = ops[i]
      /\ \A i \in DOMAIN ops : /\ ops'[i].tool = ops[i].tool
                               /\ ops'[i].state = ops[i].state
                               /\ ops'[i].decision = ops[i].decision
      /\ ops'[Len(ops)].outcome = o
  BY <1>1, <1>2, OutcomeSet DEF Base
<1>4. o # "denied" /\ o # "pending" /\ ops[Len(ops)].decision = "authorized"
  BY <1>1, <1>3 DEF OpsInv, FailedOutcomes
<1>5. \A i \in DOMAIN ops : i # Len(ops) => ops[i].outcome # "pending"
  BY DEF OpsInv
<1>6. QED
  BY <1>1, <1>3, <1>4, <1>5 DEF OpsInv

LEMMA SessionStepOps ==
  ASSUME Base, OpsInv, CallInv, SessionStep
  PROVE  OpsInv'
BY KeptOps, RequestKeepsOps, EndedCallKeepsOps

LEMMA SessionStepCall ==
  ASSUME Base, OpsInv, CallInv, SessionStep
  PROVE  CallInv'
<1>0. origin' = origin
  BY ReasonAfter DEF input
<1>1. CASE RequestTool
  <2>1. pc' = "allowed" => ops'[Len(ops')].outcome = "pending"
    <3>1. pc' = "allowed" => Decision(NextTool) = "authorized"
      BY <1>1 DEF RequestTool, CallDenied, AfterCall, Advance, Stop
    <3>2. QED
      BY <1>1, <3>1, RequestAppends DEF Base
  <2>2. pc' = "allowed" /\ st' = "CLASSIFY_ALERT" => origin' = "connected_source"
    <3>1. pc' = "allowed" => UNCHANGED st
      BY <1>1 DEF RequestTool, CallDenied, AfterCall, Advance, Stop
    <3>2. QED
      BY <1>0, <1>1, <3>1 DEF RequestTool, ToolDue, Base, TypeInv, CallInHand
  <2>3. pc' # "store"
    BY <1>1 DEF RequestTool, CallDenied, AfterCall, Advance, Stop
  <2>4. QED
    BY <2>1, <2>2, <2>3 DEF CallInv
<1>2. CASE ToolSucceeds
  <2>1. ops # <<>> /\ SetOutcome("success") /\ pc' = "store"
    BY <1>2 DEF ToolSucceeds, Base, TypeInv, CallInHand
  <2>2. ops'[Len(ops')].outcome = "success"
    BY <2>1, OutcomeSet DEF Base
  <2>3. QED
    BY <2>1, <2>2 DEF CallInv
<1>3. CASE ToolFails \/ ToolAnswersEmpty
  BY <1>3 DEF ToolFails, ToolAnswersEmpty, AfterCall, Advance, Stop, CallInv
<1>4. CASE ~RequestTool /\ ~CallEnds
  <2>1. /\ ops' = ops /\ pc' # "allowed"
        /\ pc' = "store" => UNCHANGED st
        /\ pc' = "store" => pc = "store" \/ SubmitContent
    BY <1>4, OtherStepsKeepOps
  <2>2. SubmitContent => st = "CLASSIFY_ALERT" /\ origin = "analyst_submitted"
    BY DEF SubmitContent
  <2>3. QED
    BY <1>0, <2>1, <2>2 DEF CallInv
<1>5. QED
  BY <1>1, <1>2, <1>3, <1>4 DEF CallEnds

-----------------------------------------------------------------------------
(* Evidence.                                                               *)

(* A successful operation stays one, under the same index. *)
LEMMA SuccessStays ==
  ASSUME Base, OpsInv, CallInv, SessionStep, NEW i \in DOMAIN ops, ops[i].outcome = "success"
  PROVE  i \in DOMAIN ops' /\ ops'[i].outcome = "success" /\ ops'[i].tool = ops[i].tool
<1>1. CASE RequestTool
  BY <1>1, RequestAppends, RowsTyped DEF Base
<1>2. CASE CallEnds
  <2>1. ops # <<>> /\ ops[Len(ops)].outcome = "pending"
    BY <1>2 DEF Base, TypeInv, CallInHand, CallInv, CallEnds, ToolSucceeds, ToolAnswersEmpty, ToolFails
  <2>2. PICK o \in FailedOutcomes \cup {"success", "empty"} : SetOutcome(o)
    BY <1>2 DEF CallEnds, ToolSucceeds, ToolAnswersEmpty, ToolFails
  <2>3. QED
    BY <2>1, <2>2, OutcomeSet DEF Base
<1>3. CASE ~RequestTool /\ ~CallEnds
  BY <1>3, OtherStepsKeepOps
<1>4. QED
  BY <1>1, <1>2, <1>3

LEMMA OnlyStoreItemStores ==
  ASSUME SessionStep, ~StoreItem
  PROVE  evid' = evid
BY DEF SessionStep, Setup, PassThrough, Authorize, Poll, RequestTool,
       BudgetSpentAfterAuthorization, ToolSucceeds, ToolAnswersEmpty, ToolFails, ToolRaises,
       SubmitContent, EvidenceOverLimit, StoreRaises, ResultStored, Normalize, NormalizeRaises,
       EnrichmentDone, FormHypotheses, ModelRaises, ValidateAndProduce, ProduceRaises,
       VerifyOutput, rows

LEMMA StoreItemAppends ==
  ASSUME Base, StoreItem
  PROVE  \E size \in ItemSizes :
           /\ ~ItemsSpent /\ ~BytesSpent(size) /\ ConsumeEvidence(size)
           /\ DOMAIN evid' = 1..(Len(evid) + 1) /\ Len(evid') = Len(evid) + 1
           /\ \A i \in DOMAIN evid : evid'[i] = evid[i]
           /\ evid'[Len(evid) + 1] = NewItem(size)
           /\ SizeSum(evid', DOMAIN evid') = SizeSum(evid, DOMAIN evid) + size
<1>1. PICK size \in ItemSizes : /\ ~ItemsSpent /\ ~BytesSpent(size) /\ ConsumeEvidence(size)
                                /\ evid' = Append(evid, NewItem(size))
  BY DEF StoreItem
<1>2. evid \in Seq(EvidenceRows) /\ evid' \in Seq(EvidenceRows)
  BY <1>1, RowsTyped, AddItemTyped DEF Base, StoreItem
<1>3. NewItem(size) \in EvidenceRows /\ NewItem(size).size = size
  <2>1. evid'[Len(evid')] = NewItem(size) /\ Len(evid') \in DOMAIN evid'
    BY <1>1, <1>2
  <2>2. NewItem(size) \in EvidenceRows
    BY <1>2, <2>1
  <2>3. QED
    BY <2>2 DEF NewItem
<1>4. \A item \in EvidenceRows : item.size \in Nat
  BY DEF EvidenceRows
<1>5. SizeSum(evid', DOMAIN evid') = SizeSum(evid, DOMAIN evid) + size
  BY <1>1, <1>2, <1>3, <1>4, SumAppend
<1>6. QED
  BY <1>1, <1>2, <1>5

LEMMA SessionStepEvid ==
  ASSUME Base, OpsInv, CallInv, EvidInv, FreshInv, SessionStep
  PROVE  EvidInv'
<1>0. origin' = origin
  BY ReasonAfter DEF input
<1>1. ASSUME NEW i \in DOMAIN evid, evid'[i] = evid[i]
      PROVE  IF evid'[i].trust = "direct_observation"
             THEN /\ evid'[i].op \in DOMAIN ops'
                  /\ ops'[evid'[i].op].outcome = "success"
                  /\ evid'[i].source = ToolSource[ops'[evid'[i].op].tool]
             ELSE origin' = "analyst_submitted" /\ evid'[i].op = 0 /\ i = 1
  BY <1>0, <1>1, SuccessStays DEF EvidInv
<1>2. CASE ~StoreItem
  BY <1>1, <1>2, OnlyStoreItemStores DEF EvidInv
<1>3. CASE StoreItem
  <2>1. PICK size \in ItemSizes :
          /\ DOMAIN evid' = 1..(Len(evid) + 1)
          /\ \A i \in DOMAIN evid : evid'[i] = evid[i]
          /\ evid'[Len(evid) + 1] = NewItem(size)
    BY <1>3, StoreItemAppends
  <2> DEFINE n == Len(evid) + 1
  <2>2. DOMAIN evid = 1..Len(evid) /\ Len(evid) \in Nat /\ ops' = ops /\ pc = "store" /\ left > 0
    BY <1>3, RowsTyped DEF Base, StoreItem
  <2>3. CASE st = "CLASSIFY_ALERT" /\ origin = "analyst_submitted"
    <3>1. evid = <<>>
      BY <2>2, <2>3 DEF FreshInv
    <3>2. n = 1 /\ evid'[n].trust = "analyst_provided" /\ evid'[n].op = 0
      BY <2>1, <2>3, <3>1 DEF NewItem
    <3>3. QED
      BY <1>0, <1>1, <2>1, <2>2, <2>3, <3>2 DEF EvidInv
  <2>4. CASE ~(st = "CLASSIFY_ALERT" /\ origin = "analyst_submitted")
    <3>1. /\ ops # <<>> /\ ops[Len(ops)].outcome = "success" /\ Len(ops) \in DOMAIN ops
      BY <2>2, <2>4, RowsTyped DEF Base, TypeInv, CallInHand, CallInv
    <3>2. /\ evid'[n].op = Len(ops) /\ evid'[n].trust = "direct_observation"
          /\ evid'[n].source = ToolSource[CurrentTool]
      BY <2>1, <2>4 DEF NewItem
    <3>3. QED
      BY <1>1, <2>1, <2>2, <3>1, <3>2 DEF EvidInv, CurrentTool
  <2>5. QED
    BY <2>3, <2>4
<1>4. QED
  BY <1>2, <1>3

LEMMA AdvanceKeepsFresh ==
  ASSUME FreshInv, pc \in RunningPcs, Advance, evid' = evid
  PROVE  FreshInv'
<1>1. st \in ActiveStates /\ st' = NextState[st]
  BY DEF Advance, TransitionTo, CanTransition
<1>2. st' \in {"RECEIVE_ALERT", "VALIDATE_REQUEST", "AUTHORIZE", "CLASSIFY_ALERT"} =>
        st \in {"RECEIVE_ALERT", "VALIDATE_REQUEST", "AUTHORIZE"}
  BY <1>1 DEF ActiveStates, NextState
<1>3. pc' \in {"poll", "work", "complete"}
  BY DEF Advance
<1>4. QED
  BY <1>2, <1>3 DEF FreshInv

LEMMA EndedKeepsFresh ==
  ASSUME pc' \in {"finalize", "complete", "unwind", "broken", "returned", "lost", "crashed"}
  PROVE  FreshInv'
BY DEF FreshInv, RunningPcs

LEMMA AfterCallKeepsFresh ==
  ASSUME FreshInv, pc \in RunningPcs, AfterCall, evid' = evid
  PROVE  FreshInv'
<1>1. CASE st = "NORMALIZE_EVIDENCE"
  BY <1>1 DEF AfterCall, FreshInv
<1>2. CASE st # "NORMALIZE_EVIDENCE"
  BY <1>2, AdvanceKeepsFresh DEF AfterCall
<1>3. QED
  BY <1>1, <1>2

LEMMA SessionStepFresh ==
  ASSUME Base, OpsInv, CallInv, FreshInv, SessionStep
  PROVE  FreshInv'
<1>0. pc \in RunningPcs /\ origin' = origin /\ left \in Nat
  BY SessionStepRuns, ReasonAfter DEF input, Base, TypeInv, TypeOK, ScratchOK
<1>1. \A s, why : Stop(s, why) => FreshInv'
  BY EndedKeepsFresh DEF Stop
<1>2. Fail => FreshInv'
  BY <1>1 DEF Fail
<1>3. CASE StoreItem
  <2>1. left' = left - 1 /\ UNCHANGED <<pc, st>> /\ pc = "store" /\ left > 0
    BY <1>3 DEF StoreItem, control
  <2>2. st \notin {"RECEIVE_ALERT", "VALIDATE_REQUEST", "AUTHORIZE"}
    BY <2>1 DEF Base, TypeInv, CallInHand
  <2>3. QED
    BY <1>0, <2>1, <2>2 DEF FreshInv
<1>4. CASE ~StoreItem
  <2>0. evid' = evid
    BY <1>4, OnlyStoreItemStores
  <2>1. CASE Setup
    BY <1>0, <2>0, <2>1 DEF Setup, FreshInv, RunningPcs
  <2>2. CASE PassThrough \/ Authorize \/ EnrichmentDone \/ FormHypotheses
             \/ ValidateAndProduce \/ VerifyOutput
    BY <1>0, <1>1, <2>0, <2>2, AdvanceKeepsFresh
       DEF PassThrough, Authorize, EnrichmentDone, FormHypotheses, ValidateAndProduce, VerifyOutput
  <2>3. CASE Poll
    BY <1>0, <1>1, <2>0, <2>3 DEF Poll, FreshInv, RunningPcs
  <2>4. CASE RequestTool
    <3>1. CASE pc' = "allowed" /\ UNCHANGED <<st, trace, reason, todo>>
      BY <1>0, <2>0, <2>4, <3>1 DEF RequestTool, ToolDue, FreshInv, RunningPcs, Base, TypeInv, CallInHand
    <3>2. CASE Stop("BUDGET_EXCEEDED", "max_tool_operations")
      BY <1>1, <3>2
    <3>3. ASSUME NEW why, CallDenied(why)
          PROVE  FreshInv'
      BY <1>0, <1>1, <2>0, <3>3, AfterCallKeepsFresh DEF CallDenied
    <3>4. QED
      BY <2>4, <3>1, <3>2, <3>3 DEF RequestTool
  <2>5. CASE ToolSucceeds
    <3>1. /\ pc = "allowed" /\ pc' = "store" /\ UNCHANGED st
          /\ st \in {"CLASSIFY_ALERT", "COLLECT_EVIDENCE", "NORMALIZE_EVIDENCE"}
      BY <2>5 DEF ToolSucceeds, Base, TypeInv, CallInHand
    <3>2. QED
      BY <1>0, <3>1 DEF FreshInv, CallInv
  <2>6. CASE ToolFails \/ ToolAnswersEmpty \/ ResultStored
    BY <1>0, <1>1, <2>0, <2>6, AfterCallKeepsFresh DEF ToolFails, ToolAnswersEmpty, ResultStored
  <2>7. CASE SubmitContent
    BY <1>0, <2>0, <2>7 DEF SubmitContent, FreshInv
  <2>8. CASE Normalize
    BY <2>8 DEF Normalize, FreshInv
  <2>9. CASE BudgetSpentAfterAuthorization \/ EvidenceOverLimit \/ ToolRaises \/ StoreRaises
             \/ NormalizeRaises \/ ModelRaises \/ ProduceRaises
    BY <1>1, <1>2, <2>9 DEF BudgetSpentAfterAuthorization, EvidenceOverLimit, ToolRaises,
                            StoreRaises, NormalizeRaises, ModelRaises, ProduceRaises
  <2>10. QED
    BY <1>4, <2>1, <2>2, <2>3, <2>4, <2>5, <2>6, <2>7, <2>8, <2>9 DEF SessionStep
<1>5. QED
  BY <1>3, <1>4

-----------------------------------------------------------------------------
(* The reason handed to _finalize.                                         *)

LEMMA BudgetReason ==
  ASSUME Base, LedgerInv, ~CanRunTool
  PROVE  ledger.tool = MaxToolOps \/ elapsed > MaxElapsed
<1>1. /\ ledger.tool \in Nat /\ elapsed \in Nat /\ MaxToolOps \in Nat /\ MaxElapsed \in Nat
      /\ ledger.tool <= MaxToolOps
  BY RowsTyped, LimitsAssumption, BoundsAssumption DEF Base, TypeInv, TypeOK, LedgerInv
<1>2. QED
  BY <1>1 DEF CanRunTool

(* Reasons no part of the invariant is about. *)
LEMMA OtherReasons ==
  ASSUME reason' \in {"none", "cancelled", "unregistered", "max_model_calls", "system_error",
                      "verification_failed"}
  PROVE  ReasonInv'
BY DEF ReasonInv

LEMMA SessionStepReason ==
  ASSUME Base, OpsInv, CallInv, FreshInv, LedgerInv, SessionStep
  PROVE  ReasonInv'
<1>0. reason = "none" /\ origin' = origin /\ sources' = sources /\ elapsed' = elapsed
  BY ReasonAfter DEF input
<1>1. Advance \/ Fail \/ UNCHANGED reason => ReasonInv'
  BY <1>0, OtherReasons DEF Advance, Fail, Stop
<1>2. AfterCall => ReasonInv'
  BY <1>1 DEF AfterCall
<1>3. CASE Setup \/ PassThrough \/ SubmitContent \/ Normalize \/ EnrichmentDone
           \/ ValidateAndProduce \/ ToolSucceeds \/ StoreItem \/ ResultStored
           \/ NormalizeRaises \/ ModelRaises \/ ToolRaises \/ StoreRaises
           \/ ProduceRaises \/ ToolAnswersEmpty
  BY <1>1, <1>2, <1>3
     DEF Setup, PassThrough, SubmitContent, Normalize, EnrichmentDone, ValidateAndProduce,
         ToolSucceeds, StoreItem, ResultStored, control,
         NormalizeRaises, ModelRaises, ToolRaises, StoreRaises, ProduceRaises, ToolAnswersEmpty
<1>4. CASE Authorize
  BY <1>0, <1>1, <1>4 DEF Authorize, Stop, ReasonInv
<1>5. CASE Poll \/ FormHypotheses \/ VerifyOutput
  BY <1>1, <1>5, OtherReasons DEF Poll, FormHypotheses, VerifyOutput, Stop
<1>6. CASE RequestTool
  <2>0. ledger' = ledger /\ evid' = evid
    BY <1>6 DEF RequestTool
  <2>1. CASE pc' = "allowed" /\ UNCHANGED <<st, trace, reason, todo>>
    BY <1>1, <2>1
  <2>2. CASE Decision(NextTool) = "budget_exhausted" /\ Stop("BUDGET_EXCEEDED", "max_tool_operations")
    <3>1. ~CanRunTool
      BY <2>2 DEF Decision
    <3>2. QED
      BY <1>0, <2>0, <2>2, <3>1, BudgetReason DEF Stop, ReasonInv
  <2>3. CASE /\ Decision(NextTool) \in {"unregistered", "unauthorized_source"}
             /\ CallDenied(Decision(NextTool))
    <3>1. CASE st # "CLASSIFY_ALERT"
      BY <1>2, <2>3, <3>1 DEF CallDenied
    <3>2. CASE st = "CLASSIFY_ALERT"
      <4>1. /\ pc = "work" /\ origin = "connected_source" /\ evid = <<>>
            /\ NextTool = "get_alert"
        BY <1>6, <3>2 DEF RequestTool, ToolDue, Base, TypeInv, CallInHand, FreshInv, NextTool
      <4>2. reason' = Decision(NextTool)
        BY <2>3, <3>2 DEF CallDenied, Stop
      <4>3. Decision(NextTool) = "unauthorized_source" => "alert_source" \notin sources
        BY <4>1 DEF Decision, ToolSource
      <4>4. QED
        BY <1>0, <2>0, <2>3, <4>1, <4>2, <4>3 DEF ReasonInv
    <3>3. QED
      BY <3>1, <3>2
  <2>4. QED
    BY <1>6, <2>1, <2>2, <2>3 DEF RequestTool
<1>7. CASE BudgetSpentAfterAuthorization
  BY <1>0, <1>7, BudgetReason DEF BudgetSpentAfterAuthorization, Stop, rows, ReasonInv
<1>8. CASE ToolFails
  <2>1. CASE st # "CLASSIFY_ALERT"
    BY <1>2, <1>8, <2>1 DEF ToolFails
  <2>2. CASE st = "CLASSIFY_ALERT"
    <3>1. evid' = <<>> /\ ops # <<>> /\ reason' = "source_failure"
      BY <1>8, <2>2 DEF ToolFails, Stop, FreshInv, Base, TypeInv, CallInHand
    <3>2. PICK o \in FailedOutcomes : SetOutcome(o)
      BY <1>8 DEF ToolFails
    <3>3. ops'[Len(ops')].outcome \in FailedOutcomes
      BY <3>1, <3>2, OutcomeSet DEF Base
    <3>4. QED
      BY <3>1, <3>3 DEF ReasonInv
  <2>3. QED
    BY <2>1, <2>2
<1>9. CASE EvidenceOverLimit
  <2>1. ledger' = ledger
    BY <1>9 DEF EvidenceOverLimit, rows
  <2>2. /\ ledger.items \in Nat /\ ledger.items <= MaxItems /\ MaxItems \in Nat
    BY RowsTyped, LimitsAssumption DEF Base, LedgerInv
  <2>3. CASE ItemsSpent /\ reason' = "max_evidence_items"
    BY <2>1, <2>2, <2>3 DEF ItemsSpent, ReasonInv
  <2>4. CASE (\E size \in ItemSizes : BytesSpent(size)) /\ reason' = "max_evidence_bytes"
    BY <2>1, <2>4 DEF BytesSpent, ReasonInv
  <2>5. QED
    BY <1>9, <2>3, <2>4 DEF EvidenceOverLimit, Stop
<1>10. QED
  BY <1>3, <1>4, <1>5, <1>6, <1>7, <1>8, <1>9 DEF SessionStep

-----------------------------------------------------------------------------
(* Limitations.                                                            *)

Failed == { ToolSource[ops[i].tool] : i \in { j \in DOMAIN ops : ops[j].outcome = "failed" } }

LEMMA SameGaps ==
  ASSUME GapsInv, UNCHANGED <<ops, lims>>
  PROVE  GapsInv'
BY DEF GapsInv, ReportLimitations, Missed, NamedGap

(* A row that is pending or denied names no gap. *)
LEMMA RequestKeepsGaps ==
  ASSUME Base, OpsInv, GapsInv, RequestTool
  PROVE  GapsInv'
<1> DEFINE n == Len(ops) + 1
<1>1. /\ DOMAIN ops' = 1..n /\ DOMAIN ops = 1..Len(ops) /\ Len(ops) \in Nat
      /\ \A i \in DOMAIN ops : ops'[i] = ops[i]
      /\ ops'[n].outcome \in {"pending", "denied"}
      /\ lims' = lims
  BY RequestAppends, RowsTyped DEF Base, RequestTool
<1>2. ~NamedGap(ops'[n]) /\ ops'[n].outcome # "failed"
  BY <1>1 DEF NamedGap, FailedOutcomes
<1>3. DOMAIN ops' = DOMAIN ops \cup {n} /\ n \notin DOMAIN ops
  BY <1>1
<1> HIDE DEF n
<1>a. \A i \in DOMAIN ops' : NamedGap(ops'[i]) <=> i \in DOMAIN ops /\ NamedGap(ops[i])
  BY <1>1, <1>2, <1>3
<1>b. { j \in DOMAIN ops' : NamedGap(ops'[j]) } = { j \in DOMAIN ops : NamedGap(ops[j]) }
  BY <1>3, <1>a
<1>c. { j \in DOMAIN ops' : ops'[j].outcome = "failed" } = { j \in DOMAIN ops : ops[j].outcome = "failed" }
  BY <1>1, <1>2, <1>3
<1>4. Missed' = Missed
  BY <1>1, <1>b DEF Missed
<1>5. Failed' = Failed
  BY <1>1, <1>c DEF Failed
<1>6. QED
  BY <1>1, <1>4, <1>5 DEF GapsInv, ReportLimitations, Failed

(* The last row gets its outcome, and the limitations what goes with it. *)
LEMMA EndedCallKeepsGaps ==
  ASSUME Base, OpsInv, CallInv, GapsInv, CallEnds
  PROVE  GapsInv'
<1> DEFINE n == Len(ops)
           s == ToolSource[CurrentTool]
<1>1. ops # <<>> /\ ops[n].outcome = "pending"
  BY DEF Base, TypeInv, CallInHand, CallInv, CallEnds, ToolSucceeds, ToolAnswersEmpty, ToolFails
<1>2. PICK o \in FailedOutcomes \cup {"success", "empty"} :
        /\ SetOutcome(o)
        /\ lims' = IF o # "success" /\ CurrentTool \in NamedWhenMissing
                   THEN lims \cup {s} ELSE lims
  <2>1. CASE ToolSucceeds
    BY <2>1 DEF ToolSucceeds
  <2>2. CASE ToolFails
    <3>1. PICK o \in FailedOutcomes : SetOutcome(o)
      BY <2>2 DEF ToolFails
    <3>2. o # "success"
      BY DEF FailedOutcomes
    <3>3. QED
      BY <2>2, <3>1, <3>2 DEF ToolFails, NothingToStore
  <2>3. CASE ToolAnswersEmpty
    BY <2>3 DEF ToolAnswersEmpty, NothingToStore
  <2>4. QED
    BY <2>1, <2>2, <2>3 DEF CallEnds
<1>3. /\ n \in DOMAIN ops /\ DOMAIN ops' = DOMAIN ops
      /\ \A i \in DOMAIN ops : i # n => ops'[i] = ops[i]
      /\ ops'[n].tool = ops[n].tool /\ ops'[n].outcome = o
  BY <1>1, <1>2, OutcomeSet DEF Base
<1>4. ~NamedGap(ops[n]) /\ ops[n].outcome # "failed"
  BY <1>1 DEF NamedGap, FailedOutcomes
<1>5. CurrentTool = ops[n].tool /\ CurrentTool \in Tools
  BY <1>1, CurrentToolTyped DEF CurrentTool, Base
<1>7. ToolSource[ops'[n].tool] = s
  BY <1>3, <1>5
<1> HIDE DEF n, s
<1>9. Missed' = IF o = "failed" \/ (o # "success" /\ CurrentTool \in NamedWhenMissing)
                THEN Missed \cup {s} ELSE Missed
  <2>1. NamedGap(ops'[n]) <=> o = "failed" \/ (o # "success" /\ CurrentTool \in NamedWhenMissing)
    BY <1>2, <1>3, <1>5 DEF NamedGap, NamedWhenMissing, FailedOutcomes
  <2>2. \A i \in DOMAIN ops : i # n => (NamedGap(ops'[i]) <=> NamedGap(ops[i]))
    BY <1>3
  <2> HIDE DEF NamedGap
  <2>3. QED
    BY <1>3, <1>4, <1>7, <2>1, <2>2 DEF Missed
<1>10. Failed' = IF o = "failed" THEN Failed \cup {s} ELSE Failed
  BY <1>3, <1>4, <1>7 DEF Failed
<1>11. lims \cup Failed = Missed
  BY DEF GapsInv, ReportLimitations, Failed
<1>12. lims' \cup Failed' = Missed'
  BY <1>2, <1>9, <1>10, <1>11
<1>13. QED
  BY <1>12 DEF GapsInv, ReportLimitations, Failed

LEMMA SessionStepGaps ==
  ASSUME Base, OpsInv, CallInv, GapsInv, SessionStep
  PROVE  GapsInv'
<1>1. CASE ~RequestTool /\ ~CallEnds
  <2>1. lims' = lims
    BY <1>1 DEF SessionStep, Setup, PassThrough, Authorize, Poll, BudgetSpentAfterAuthorization,
       ToolRaises, SubmitContent, StoreItem, EvidenceOverLimit, StoreRaises, ResultStored,
       Normalize, NormalizeRaises, EnrichmentDone, FormHypotheses, ModelRaises,
       ValidateAndProduce, ProduceRaises, VerifyOutput, CallEnds, rows
  <2>2. QED
    BY <1>1, <2>1, SameGaps, OtherStepsKeepOps
<1>2. QED
  BY <1>1, RequestKeepsGaps, EndedCallKeepsGaps

-----------------------------------------------------------------------------
(* The budget ledger.                                                      *)

LEMMA CountedFinite ==
  ASSUME TypeInv
  PROVE  IsFiniteSet(Counted) /\ Cardinality(Counted) \in Nat
<1>1. Counted \in SUBSET (1..Len(ops)) /\ Len(ops) \in Nat
  BY RowsTyped DEF Counted
<1>2. IsFiniteSet(1..Len(ops))
  BY <1>1, FS_Interval
<1>3. IsFiniteSet(Counted)
  BY <1>1, <1>2, FS_Subset
<1>4. QED
  BY <1>3, FS_CardinalityType

(* A call that reached its source: one more counted, within the limit. *)
LEMMA OneMoreCounted ==
  ASSUME Base, LedgerInv, CanRunTool, ConsumeTool,
         Counted' = Counted \cup {Len(ops)}, Len(ops) \notin Counted
  PROVE  /\ ledger'.tool = Cardinality(Counted') /\ ledger'.tool <= MaxToolOps
         /\ ledger'.items = ledger.items /\ ledger'.bytes = ledger.bytes
<1>1. /\ ledger'.tool = ledger.tool + 1
      /\ ledger'.items = ledger.items /\ ledger'.bytes = ledger.bytes
  BY DEF ConsumeTool, Base, TypeInv, TypeOK, RowsOK, Ledgers
<1>2. Cardinality(Counted') = Cardinality(Counted) + 1
  BY CountedFinite, FS_AddElement DEF Base
<1>3. ledger.tool \in Nat /\ MaxToolOps \in Nat /\ ledger.tool < MaxToolOps
  BY RowsTyped, LimitsAssumption DEF CanRunTool, Base
<1>4. QED
  BY <1>1, <1>2, <1>3 DEF LedgerInv

(* A call in progress ends: its operation is counted from now on. *)
LEMMA EndedCallKeepsLedger ==
  ASSUME Base, OpsInv, CallInv, LedgerInv, CallEnds \/ ToolRaises
  PROVE  LedgerInv'
<1>1. /\ ops # <<>> /\ ops[Len(ops)].outcome = "pending" /\ pc = "allowed" /\ reason = "none"
      /\ CanRunTool /\ ConsumeTool /\ evid' = evid
  BY DEF Base, TypeInv, CallInHand, CallInv, StageInv, RunningPcs, CallEnds, ToolSucceeds,
         ToolAnswersEmpty, ToolFails, ToolRaises
<1>2. Len(ops) \in DOMAIN ops /\ \A i \in DOMAIN ops : i # Len(ops) => ops[i].outcome # "pending"
  BY <1>1, RowsTyped DEF Base, OpsInv
<1>3. Len(ops) \notin Counted
  BY <1>1 DEF Counted, Spent
<1>4. Counted' = Counted \cup {Len(ops)}
  <2>1. CASE CallEnds
    <3>1. PICK o \in FailedOutcomes \cup {"success", "empty"} : SetOutcome(o)
      BY <2>1 DEF CallEnds, ToolSucceeds, ToolAnswersEmpty, ToolFails
    <3>2. /\ DOMAIN ops' = DOMAIN ops
          /\ \A i \in DOMAIN ops : i # Len(ops) => ops'[i] = ops[i]
          /\ ops'[Len(ops)].outcome = o
      BY <1>1, <3>1, OutcomeSet DEF Base
    <3>3. \A i \in DOMAIN ops : Spent(ops'[i], reason') <=> Spent(ops[i], reason) \/ i = Len(ops)
      BY <1>2, <3>2 DEF Spent, FailedOutcomes
    <3>4. QED
      BY <1>2, <3>2, <3>3 DEF Counted
  <2>2. CASE ToolRaises
    <3>1. ops' = ops /\ reason' = "system_error"
      BY <2>2 DEF ToolRaises, Fail, Stop
    <3>2. \A i \in DOMAIN ops : Spent(ops'[i], reason') <=> Spent(ops[i], reason) \/ i = Len(ops)
      BY <1>1, <1>2, <3>1 DEF Spent
    <3>3. QED
      BY <1>2, <3>1, <3>2 DEF Counted
  <2>3. QED
    BY <2>1, <2>2
<1>5. QED
  BY <1>1, <1>3, <1>4, OneMoreCounted DEF LedgerInv

(* Every other step counts the operations it counted before. *)
LEMMA SameCounted ==
  ASSUME Base, OpsInv, CallInv, SessionStep, ~CallEnds, ~ToolRaises
  PROVE  Counted' = Counted
<1>0. reason = "none" /\ pc \in RunningPcs
  BY ReasonAfter, SessionStepRuns DEF Base
<1>1. CASE RequestTool
  <2> DEFINE n == Len(ops) + 1
  <2>1. /\ DOMAIN ops' = DOMAIN ops \cup {n} /\ n \notin DOMAIN ops
        /\ \A i \in DOMAIN ops : ops'[i] = ops[i] /\ ops[i].outcome # "pending"
        /\ ops'[n].outcome = IF Decision(NextTool) = "authorized" THEN "pending" ELSE "denied"
    <3>1. pc \in RunningPcs \ {"allowed"}
      BY <1>0, <1>1 DEF RequestTool, ToolDue
    <3>2. QED
      BY <1>1, <3>1, NoPending, RequestAppends, RowsTyped DEF Base
  <2>2. ops'[n].outcome = "pending" => reason' # "system_error"
    BY <1>0, <1>1, <2>1 DEF RequestTool
  <2>3. ~Spent(ops'[n], reason')
    BY <2>1, <2>2 DEF Spent
  <2>4. \A i \in DOMAIN ops : Spent(ops'[i], reason') <=> Spent(ops[i], reason)
    BY <2>1 DEF Spent
  <2> HIDE DEF n
  <2>5. QED
    BY <2>1, <2>3, <2>4 DEF Counted
<1>2. CASE ~RequestTool
  <2>1. ops' = ops
    BY <1>2, OtherStepsKeepOps
  <2>2. CASE pc = "allowed"
    <3>1. BudgetSpentAfterAuthorization
      BY <1>2, <2>2 DEF SessionStep, Setup, PassThrough, Authorize, Poll, SubmitContent, StoreItem,
         EvidenceOverLimit, StoreRaises, ResultStored, Normalize, NormalizeRaises, EnrichmentDone,
         FormHypotheses, ModelRaises, ValidateAndProduce, ProduceRaises, VerifyOutput, CallEnds
    <3>2. reason' = "max_tool_operations"
      BY <3>1 DEF BudgetSpentAfterAuthorization, Stop
    <3>3. QED
      BY <1>0, <2>1, <3>2 DEF Counted, Spent
  <2>3. CASE pc # "allowed"
    <3>1. \A i \in DOMAIN ops : ops[i].outcome # "pending"
      BY <1>0, <2>3, NoPending
    <3>2. QED
      BY <2>1, <3>1 DEF Counted, Spent
  <2>4. QED
    BY <2>2, <2>3
<1>3. QED
  BY <1>1, <1>2

LEMMA ConsumedEvidence ==
  ASSUME Base, LedgerInv, NEW size \in ItemSizes,
         ~ItemsSpent, ~BytesSpent(size), ConsumeEvidence(size)
  PROVE  /\ ledger'.tool = ledger.tool
         /\ ledger'.items = ledger.items + 1 /\ ledger'.items <= MaxItems
         /\ ledger'.bytes = ledger.bytes + size /\ ledger'.bytes <= MaxBytes
<1>1. /\ ledger.items \in Nat /\ ledger.bytes \in Nat /\ size \in Nat
      /\ MaxItems \in Nat /\ MaxBytes \in Nat
  BY RowsTyped, LimitsAssumption DEF Base
<1>2. /\ ledger'.tool = ledger.tool /\ ledger'.items = ledger.items + 1
      /\ ledger'.bytes = ledger.bytes + size
  BY DEF ConsumeEvidence, Base, TypeInv, TypeOK, RowsOK, Ledgers
<1>3. QED
  BY <1>1, <1>2 DEF ItemsSpent, BytesSpent

LEMMA SessionStepLedger ==
  ASSUME Base, OpsInv, CallInv, LedgerInv, SessionStep
  PROVE  LedgerInv'
<1>0. /\ reason = "none" /\ ledger.items = Len(evid) /\ Len(evid) \in Nat
      /\ ledger.bytes = SizeSum(evid, DOMAIN evid)
  BY ReasonAfter, RowsTyped DEF LedgerInv, Base
<1>1. CASE CallEnds \/ ToolRaises
  BY <1>1, EndedCallKeepsLedger
<1>2. CASE ~(CallEnds \/ ToolRaises)
  <2>0. Counted' = Counted
    BY <1>2, SameCounted
  <2>1. CASE StoreItem
    <3>1. PICK size \in ItemSizes :
            /\ ~ItemsSpent /\ ~BytesSpent(size) /\ ConsumeEvidence(size)
            /\ Len(evid') = Len(evid) + 1
            /\ SizeSum(evid', DOMAIN evid') = SizeSum(evid, DOMAIN evid) + size
      BY <2>1, StoreItemAppends
    <3>2. /\ ledger'.tool = ledger.tool
          /\ ledger'.items = ledger.items + 1 /\ ledger'.items <= MaxItems
          /\ ledger'.bytes = ledger.bytes + size /\ ledger'.bytes <= MaxBytes
      BY <3>1, ConsumedEvidence
    <3>3. QED
      BY <1>0, <2>0, <3>1, <3>2 DEF LedgerInv
  <2>2. CASE StoreRaises
    <3>1. reason' = "system_error" /\ evid' = evid
      BY <2>2 DEF StoreRaises, Fail, Stop
    <3>2. CASE UNCHANGED ledger
      BY <2>0, <3>1, <3>2 DEF LedgerInv
    <3>3. ASSUME NEW size \in ItemSizes, ~ItemsSpent, ~BytesSpent(size), ConsumeEvidence(size)
          PROVE  LedgerInv'
      <4>1. /\ ledger'.tool = ledger.tool
            /\ ledger'.items = ledger.items + 1 /\ ledger'.items <= MaxItems
            /\ ledger'.bytes <= MaxBytes
        BY <3>3, ConsumedEvidence
      <4>2. QED
        BY <1>0, <2>0, <3>1, <4>1 DEF LedgerInv
    <3>4. QED
      BY <2>2, <3>2, <3>3 DEF StoreRaises
  <2>3. CASE FormHypotheses \/ ModelRaises
    <3>1. /\ ledger'.tool = ledger.tool /\ ledger'.items = ledger.items
          /\ ledger'.bytes = ledger.bytes /\ evid' = evid
      BY <2>3 DEF FormHypotheses, ModelRaises, ConsumeModelCall, Base, TypeInv, TypeOK, RowsOK, Ledgers
    <3>2. QED
      BY <1>0, <2>0, <3>1 DEF LedgerInv
  <2>4. CASE ~(StoreItem \/ StoreRaises \/ FormHypotheses \/ ModelRaises)
    <3>1. ledger' = ledger /\ evid' = evid
      BY <1>2, <2>4 DEF SessionStep, Setup, PassThrough, Authorize, Poll, RequestTool,
         BudgetSpentAfterAuthorization, SubmitContent, EvidenceOverLimit, ResultStored,
         Normalize, NormalizeRaises, EnrichmentDone, ValidateAndProduce, ProduceRaises,
         VerifyOutput, CallEnds, rows
    <3>2. QED
      BY <1>0, <2>0, <3>1 DEF LedgerInv
  <2>5. QED
    BY <2>1, <2>2, <2>3, <2>4
<1>3. QED
  BY <1>1, <1>2

-----------------------------------------------------------------------------
(* The run as a whole.                                                     *)

LEMMA SessionStepRows ==
  ASSUME Base, RowsInv, SessionStep
  PROVE  RowsInv'
<1> USE DEF RowsInv
<1>1. OpsInv' /\ CallInv' /\ EvidInv' /\ FreshInv'
  BY SessionStepOps, SessionStepCall, SessionStepEvid, SessionStepFresh
<1>2. ReasonInv' /\ GapsInv' /\ LedgerInv'
  BY SessionStepReason, SessionStepGaps, SessionStepLedger
<1>3. QED
  BY <1>1, <1>2

(* Outside the session the rows stand still; time does not run backwards.   *)
LEMMA OutsideKeepsRows ==
  ASSUME Base, RowsInv, CommitComplete \/ ReportRaises \/ Finalize \/ QuietStep
  PROVE  RowsInv'
<1>1. /\ UNCHANGED <<st, ops, evid, ledger, lims, left, origin, sources>>
      /\ reason' = reason \/ (ReportRaises /\ reason' = "system_error")
  BY OutsideKeepsSession DEF rows, scratch, input
<1>2. pc' = pc \/ pc' \in {"finalize", "unwind", "broken", "returned", "lost", "crashed"}
  BY DEF CommitComplete, ReportRaises, Finalize, QuietStep, Unwind, StorageError, DataRefused,
         Tick, Crash, CancelRead, CancelAccept, vars, control
<1>3. elapsed' = elapsed \/ elapsed' = elapsed + 1
  BY OutsideKeepsSession DEF Tick
<1>a. ReportRaises => /\ reason = "none" /\ reason' = "system_error"
                      /\ pc \notin {"allowed", "unwind", "broken", "returned", "lost", "crashed"}
  BY DEF ReportRaises, Base, StageInv
<1>4. OpsInv'
  <2>1. CASE ReportRaises
    BY <1>1, <1>a, <2>1 DEF RowsInv, OpsInv
  <2>2. CASE ~ReportRaises
    <3>1. \/ pc' = pc
          \/ pc' \in {"unwind", "broken", "returned", "lost", "crashed"}
      BY <2>2 DEF CommitComplete, Finalize, QuietStep, Unwind, StorageError, DataRefused, Tick,
                  Crash, CancelRead, CancelAccept, vars, control
    <3>2. QED
      BY <1>1, <2>2, <3>1 DEF RowsInv, OpsInv
  <2>3. QED
    BY <2>1, <2>2
<1>5. CallInv' /\ EvidInv' /\ FreshInv'
  BY <1>1, <1>2 DEF RowsInv, CallInv, EvidInv, FreshInv, RunningPcs
<1>6. ReasonInv'
  <2>1. elapsed \in Nat /\ MaxElapsed \in Nat
    BY BoundsAssumption, LimitsAssumption DEF Base, TypeInv, TypeOK
  <2>2. elapsed > MaxElapsed => elapsed' > MaxElapsed
    BY <1>3, <2>1
  <2>3. CASE reason' = reason
    BY <1>1, <2>2, <2>3 DEF RowsInv, ReasonInv
  <2>4. QED
    BY <1>1, <2>3, OtherReasons
<1>7. GapsInv'
  BY <1>1, SameGaps DEF RowsInv
<1>8. LedgerInv'
  <2>1. CASE ReportRaises
    <3>1. \A i \in DOMAIN ops : ops[i].outcome # "pending"
      BY <1>a, <2>1 DEF RowsInv, OpsInv
    <3>2. \A i \in DOMAIN ops : Spent(ops[i], reason') <=> Spent(ops[i], reason)
      BY <3>1 DEF Spent
    <3>3. Counted' = Counted
      BY <1>1, <3>2 DEF Counted
    <3>4. QED
      BY <1>1, <1>a, <2>1, <3>3 DEF RowsInv, LedgerInv
  <2>2. CASE ~ReportRaises
    BY <1>1, <2>2 DEF RowsInv, LedgerInv, Counted
  <2>3. QED
    BY <2>1, <2>2
<1>9. QED
  BY <1>4, <1>5, <1>6, <1>7, <1>8 DEF RowsInv

LEMMA RowsInit == Init => RowsInv
<1> SUFFICES ASSUME Init PROVE RowsInv
  OBVIOUS
<1>1. ops = <<>> /\ evid = <<>> /\ DOMAIN ops = {} /\ DOMAIN evid = {} /\ Len(evid) = 0
  BY DEF Init
<1>2. OpsInv /\ CallInv /\ EvidInv /\ FreshInv /\ ReasonInv
  BY <1>1 DEF Init, OpsInv, CallInv, EvidInv, FreshInv, ReasonInv
<1>3. GapsInv
  BY <1>1 DEF Init, GapsInv, ReportLimitations, Missed
<1>4. LedgerInv
  <2>1. Counted = {}
    BY <1>1 DEF Counted
  <2>2. Cardinality(Counted) = 0
    BY <2>1, FS_EmptySet
  <2>3. ledger.tool = 0 /\ ledger.items = 0 /\ ledger.bytes = 0
    BY DEF Init, ZeroLedger
  <2>4. SizeSum(evid, DOMAIN evid) = 0
    BY <1>1, SumEmpty
  <2>5. QED
    BY <1>1, <2>2, <2>3, <2>4, LimitsAssumption DEF LedgerInv
<1>5. QED
  BY <1>2, <1>3, <1>4 DEF RowsInv

(* LedgerMatchesRows, with the operator the lemmas about sums are about. *)
StoredLedger ==
  LET counted == { i \in DOMAIN db.ops :
                     \/ db.ops[i].outcome \notin {"denied", "pending"}
                     \/ db.ops[i].outcome = "pending" /\ db.reason = "system_error" }
  IN
  /\ db.ledger.tool = Cardinality(counted) /\ db.ledger.tool <= MaxToolOps
  /\ db.ledger.items <= MaxItems /\ db.ledger.bytes <= MaxBytes
  /\ db.ledger.items \in {Len(db.evid), Len(db.evid) + 1}
  /\ db.reason # "system_error" =>
       /\ db.ledger.items = Len(db.evid)
       /\ db.ledger.bytes = SizeSum(db.evid, DOMAIN db.evid)

LEMMA StoredLedgerMatches == StoredLedger => LedgerMatchesRows
BY DEF StoredLedger, LedgerMatchesRows, SizeSum

(* What is true of the stored rows, all at once. *)
StoredTrue ==
  OpsAccounted /\ EvidenceTraceable /\ StoredLedger /\ ReasonIsTrue /\ GapsNamed

LEMMA CommitStoresTrue ==
  ASSUME Base, RowsInv, CommitComplete \/ Finalize
  PROVE  StoredTrue'
<1>1. /\ db'.reason = reason /\ db'.ops = ops /\ db'.evid = evid /\ db'.ledger = ledger
      /\ db'.report.kind # "none" => db'.report.lims = ReportLimitations
      /\ UNCHANGED <<elapsed, origin, sources>>
  BY CommitCopies DEF CommitComplete, Finalize, input
<1>2. pc \notin {"allowed", "unwind", "broken", "returned", "lost", "crashed"}
  BY DEF CommitComplete, Finalize
<1>3. OpsAccounted'
  BY <1>1, <1>2 DEF RowsInv, OpsInv, OpsAccounted
<1>4. EvidenceTraceable'
  <2>1. ASSUME NEW i \in DOMAIN evid
        PROVE  IF evid[i].trust = "direct_observation"
               THEN /\ evid[i].op \in DOMAIN ops
                    /\ ops[evid[i].op].outcome = "success"
                    /\ evid[i].source = ToolSource[ops[evid[i].op].tool]
                    /\ evid[i].source \in sources
               ELSE origin = "analyst_submitted" /\ evid[i].op = 0 /\ i = 1
    BY DEF RowsInv, EvidInv, OpsInv
  <2>2. QED
    BY <1>1, <2>1 DEF EvidenceTraceable
<1>5. StoredLedger'
  BY <1>1 DEF RowsInv, LedgerInv, Counted, Spent, StoredLedger
<1>6. ReasonIsTrue'
  BY <1>1 DEF RowsInv, ReasonInv, ReasonIsTrue
<1>7. GapsNamed'
  BY <1>1 DEF RowsInv, GapsInv, Missed, GapsNamed
<1>8. QED
  BY <1>3, <1>4, <1>5, <1>6, <1>7 DEF StoredTrue

LEMMA StoredStaysTrue ==
  ASSUME Base, StoredTrue, db' = db, input' = input, elapsed' \in {elapsed, elapsed + 1}
  PROVE  StoredTrue'
<1>1. elapsed \in Nat /\ MaxElapsed \in Nat
  BY BoundsAssumption, LimitsAssumption DEF Base, TypeInv, TypeOK
<1>2. elapsed > MaxElapsed => elapsed' > MaxElapsed
  BY <1>1
<1>3. ReasonIsTrue'
  BY <1>2 DEF StoredTrue, ReasonIsTrue, input
<1>4. OpsAccounted' /\ EvidenceTraceable'
  BY DEF StoredTrue, OpsAccounted, EvidenceTraceable, input
<1>5. StoredLedger'
  BY DEF StoredTrue, StoredLedger
<1>6. GapsNamed'
  BY DEF StoredTrue, GapsNamed
<1>7. QED
  BY <1>3, <1>4, <1>5, <1>6 DEF StoredTrue

RowsIInv == IInv /\ RowsInv /\ StoredTrue

LEMMA RowsStep ==
  ASSUME RowsIInv, [Next]_vars
  PROVE  RowsIInv'
<1>0. Base /\ IInv'
  BY StepInductive DEF RowsIInv, IInv, Base
<1>1. CASE SessionStep
  <2>1. db' = db /\ input' = input /\ elapsed' = elapsed
    BY <1>1, SessionStepRuns DEF RowsIInv, IInv, OnlySession
  <2>2. QED
    BY <1>0, <1>1, <2>1, SessionStepRows, StoredStaysTrue DEF RowsIInv
<1>2. CASE CommitComplete \/ Finalize
  BY <1>0, <1>2, OutsideKeepsRows, CommitStoresTrue DEF RowsIInv
<1>3. CASE ReportRaises \/ QuietStep
  <2>1. db' = db /\ input' = input /\ elapsed' \in {elapsed, elapsed + 1}
    BY <1>3, QuietStepStage, ReportRaisesStage, OutsideKeepsSession DEF RowsIInv, Tick
  <2>2. QED
    BY <1>0, <1>3, <2>1, OutsideKeepsRows, StoredStaysTrue DEF RowsIInv
<1>4. QED
  BY <1>1, <1>2, <1>3, NextSplit

LEMMA StoredInit == Init => StoredTrue
<1> SUFFICES ASSUME Init PROVE StoredTrue
  OBVIOUS
<1>1. /\ db.status = "created" /\ db.reason = "none" /\ db.ops = <<>> /\ db.evid = <<>>
      /\ db.ledger.tool = 0 /\ db.ledger.items = 0 /\ db.ledger.bytes = 0
  BY DEF Init, Created, ZeroLedger
<1>a. db.report.kind = "none"
  BY DEF Init, Created, NoReport
<1>2. DOMAIN db.ops = {} /\ DOMAIN db.evid = {} /\ Len(db.evid) = 0
  BY <1>1
<1>3. OpsAccounted /\ EvidenceTraceable /\ GapsNamed /\ ReasonIsTrue
  BY <1>1, <1>2, <1>a DEF OpsAccounted, EvidenceTraceable, GapsNamed, ReasonIsTrue
<1>4. StoredLedger
  <2>1. { i \in DOMAIN db.ops : \/ db.ops[i].outcome \notin {"denied", "pending"}
                                \/ db.ops[i].outcome = "pending" /\ db.reason = "system_error" } = {}
    BY <1>2
  <2>2. SizeSum(db.evid, DOMAIN db.evid) = 0
    BY <1>2, SumEmpty
  <2>3. QED
    BY <1>1, <1>2, <2>1, <2>2, FS_EmptySet, LimitsAssumption DEF StoredLedger
<1>5. QED
  BY <1>3, <1>4 DEF StoredTrue

(* The invariant behind the theorems below. *)
THEOREM RowsInductive == Spec => []RowsIInv
<1>1. Init => RowsIInv
  BY StageInit, RowsInit, StoredInit DEF RowsIInv
<1>2. RowsIInv /\ [Next]_vars => RowsIInv'
  BY RowsStep
<1>3. QED
  BY <1>1, <1>2, PTL DEF Spec

(* Every stored operation that reached a source was allowed in the state it *)
(* was made in, for a source the analyst holds; a denied one never ran;    *)
(* only the last may lack an outcome (ToolInvoker.invoke,                  *)
(* invoker.py:53-154).                                                     *)
THEOREM OperationsAccounted == Spec => []OpsAccounted
<1>1. RowsIInv => OpsAccounted
  BY DEF RowsIInv, StoredTrue
<1>2. QED
  BY <1>1, RowsInductive, PTL

(* Every stored observation points to the successful operation, of its own  *)
(* source and held by the analyst, that retrieved it (store.py:35,         *)
(* states.py:107-221).                                                     *)
THEOREM EvidenceHasOrigin == Spec => []EvidenceTraceable
<1>1. RowsIInv => EvidenceTraceable
  BY DEF RowsIInv, StoredTrue
<1>2. QED
  BY <1>1, RowsInductive, PTL

(* The stored ledger counts the stored operations and items and adds up     *)
(* their sizes, whatever raised and wherever, and stays within the limits  *)
(* (BudgetService.consume_*, budget.py:72-91).                             *)
THEOREM LedgerIsExact == Spec => []LedgerMatchesRows
<1>1. RowsIInv => LedgerMatchesRows
  BY StoredLedgerMatches DEF RowsIInv, StoredTrue
<1>2. QED
  BY <1>1, RowsInductive, PTL

(* The stored reason is true of the stored rows, of the grant and of the    *)
(* clock (states.py:85-187).                                               *)
THEOREM StoredReasonIsTrue == Spec => []ReasonIsTrue
<1>1. RowsIInv => ReasonIsTrue
  BY DEF RowsIInv, StoredTrue
<1>2. QED
  BY <1>1, RowsInductive, PTL

(* The limitations of a stored report are the sources of the operations      *)
(* that failed and of the alert and event calls that came back unusable or  *)
(* empty, and no others: an identity answer that is unusable is not named   *)
(* (states.py:192-226, generator.py:74-79).                                *)
THEOREM ReportNamesItsGaps == Spec => []GapsNamed
<1>1. RowsIInv => GapsNamed
  BY DEF RowsIInv, StoredTrue
<1>2. QED
  BY <1>1, RowsInductive, PTL
=============================================================================
