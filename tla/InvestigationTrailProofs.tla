---------------------- MODULE InvestigationTrailProofs ----------------------
(***************************************************************************)
(* Proofs about the audit trail an investigation leaves and about what a   *)
(* cancel request does to it, for every value of the constants.            *)
(***************************************************************************)
EXTENDS InvestigationProofs

-----------------------------------------------------------------------------
(* How a step may change the machine and its trail.                        *)

(* Where the runner works between two looks at the cancel flag. *)
BusyPcs == {"work", "allowed", "store", "enrich"}

(* A step inside the session makes at most one transition; at a checkpoint  *)
(* the cancel flag decides which way it goes.                              *)
StaysInState == UNCHANGED <<st, trace>> /\ pc' \in BusyPcs

MovesOn == Advance \/ \E s \in States : \E why : Stop(s, why)

LEMMA SessionStepKinds ==
  ASSUME TypeInv, SessionStep
  PROVE  \/ pc \in BusyPcs \cup {"created"} /\ StaysInState
         \/ pc \in BusyPcs /\ MovesOn
         \/ pc = "poll" /\ ~cancelFlag /\ StaysInState
         \/ pc = "poll" /\ Stop("CANCELLED", "cancelled")
<1>0. /\ "BUDGET_EXCEEDED" \in States /\ "ACCESS_DENIED" \in States
      /\ "SOURCE_UNAVAILABLE" \in States /\ "VALIDATION_FAILED" \in States
  BY DEF States, TerminalStates
<1>1. \A s \in States : \A why : Stop(s, why) => MovesOn
  BY DEF MovesOn
<1>2. Advance => MovesOn
  BY DEF MovesOn
<1>3. Fail => MovesOn
  BY <1>1, TablesTyped DEF Fail, Stop, TransitionTo, CanTransition, States
<1>4. AfterCall => MovesOn \/ StaysInState
  BY <1>2 DEF AfterCall, StaysInState, BusyPcs
<1>5. \A why : CallDenied(why) => MovesOn \/ StaysInState
  BY <1>0, <1>1, <1>4 DEF CallDenied
<1>6. CASE Setup
  BY <1>6 DEF Setup, StaysInState, BusyPcs
<1>7. CASE Poll
  BY <1>7 DEF Poll, StaysInState, BusyPcs
<1>8. CASE SubmitContent \/ Normalize \/ ToolSucceeds \/ StoreItem
  BY <1>8 DEF SubmitContent, Normalize, ToolSucceeds, StoreItem, StaysInState, BusyPcs,
              control, TypeInv, TypeOK, ControlOK
<1>9. CASE PassThrough \/ Authorize \/ EnrichmentDone \/ FormHypotheses
           \/ ValidateAndProduce \/ VerifyOutput
  <2>1. pc \in BusyPcs
    BY <1>9 DEF PassThrough, Authorize, EnrichmentDone, FormHypotheses, ValidateAndProduce,
                VerifyOutput, BusyPcs
  <2>2. MovesOn
    BY <1>0, <1>1, <1>2, <1>9
       DEF PassThrough, Authorize, EnrichmentDone, FormHypotheses, ValidateAndProduce, VerifyOutput
  <2>3. QED
    BY <2>1, <2>2
<1>10. CASE NormalizeRaises \/ ModelRaises \/ ProduceRaises \/ ToolRaises \/ StoreRaises
  BY <1>3, <1>10
     DEF NormalizeRaises, ModelRaises, ProduceRaises, ToolRaises, StoreRaises, BusyPcs
<1>11. CASE RequestTool
  <2>1. pc \in BusyPcs
    BY <1>11 DEF RequestTool, ToolDue, BusyPcs
  <2>2. MovesOn \/ StaysInState
    BY <1>0, <1>1, <1>5, <1>11 DEF RequestTool, StaysInState, BusyPcs
  <2>3. QED
    BY <2>1, <2>2
<1>12. CASE ToolFails \/ ToolAnswersEmpty \/ ResultStored
  <2>1. pc \in BusyPcs
    BY <1>12 DEF ToolFails, ToolAnswersEmpty, ResultStored, BusyPcs
  <2>2. MovesOn \/ StaysInState
    BY <1>0, <1>1, <1>4, <1>12 DEF ToolFails, ToolAnswersEmpty, ResultStored
  <2>3. QED
    BY <2>1, <2>2
<1>13. CASE BudgetSpentAfterAuthorization \/ EvidenceOverLimit
  BY <1>0, <1>1, <1>13 DEF BudgetSpentAfterAuthorization, EvidenceOverLimit, BusyPcs
<1>14. QED
  BY <1>6, <1>7, <1>8, <1>9, <1>10, <1>11, <1>12, <1>13 DEF SessionStep

LEMMA SessionStepMoves ==
  ASSUME TypeInv, SessionStep
  PROVE  UNCHANGED <<st, trace>> \/ \E s \in States : TransitionTo(s)
<1>1. MovesOn => \E s \in States : TransitionTo(s)
  BY TablesTyped DEF MovesOn, Advance, Stop, TransitionTo, CanTransition
<1>2. Stop("CANCELLED", "cancelled") => \E s \in States : TransitionTo(s)
  BY DEF Stop, States, TerminalStates
<1>3. QED
  BY <1>1, <1>2, SessionStepKinds DEF StaysInState

(* The ends of a run and what happens around it leave the session alone.    *)
LEMMA OutsideKeepsSession ==
  ASSUME CommitComplete \/ ReportRaises \/ Finalize \/ QuietStep
  PROVE  /\ UNCHANGED <<st, trace, rows, scratch, input>>
         /\ reason' = reason \/ (ReportRaises /\ reason' = "system_error")
         /\ elapsed' = elapsed \/ Tick
<1> USE DEF control, input, vars
<1>1. CASE CommitComplete \/ ReportRaises \/ Finalize
  BY <1>1 DEF CommitComplete, ReportRaises, Finalize, OnlySession
<1>2. CASE QuietStep
  BY <1>2 DEF QuietStep, Unwind, StorageError, DataRefused, OnlySession, Tick, Crash,
              CancelRead, CancelAccept
<1>3. QED
  BY <1>1, <1>2

-----------------------------------------------------------------------------
(* The trail the session keeps is a run of the machine up to its present   *)
(* state; what was committed was such a trail.                             *)

Replays(t) ==
  \A i \in DOMAIN t :
    /\ CanTransition(t[i].from, t[i].to)
    /\ t[i].from = IF i = 1 THEN "RECEIVE_ALERT" ELSE t[i-1].to

TrailInv ==
  /\ Replays(trace)
  /\ st = IF trace = <<>> THEN "RECEIVE_ALERT" ELSE trace[Len(trace)].to

LEMMA TransitionReplays ==
  ASSUME TypeInv, TrailInv, NEW s \in States, TransitionTo(s)
  PROVE  TrailInv'
<1>1. trace \in Seq(Transitions) /\ st \in States
  BY DEF TypeInv, TypeOK, ControlOK
<1> DEFINE last == [from |-> st, to |-> s]
<1>2. /\ trace' = Append(trace, last) /\ st' = s /\ CanTransition(st, s)
      /\ last \in Transitions
  BY <1>1 DEF TransitionTo, Transitions
<1>3. /\ trace' # <<>> /\ Len(trace') = Len(trace) + 1 /\ trace'[Len(trace')] = last
      /\ DOMAIN trace = 1..Len(trace) /\ DOMAIN trace' = 1..(Len(trace) + 1)
      /\ Len(trace) \in Nat
      /\ \A i \in 1..Len(trace) : trace'[i] = trace[i]
  BY <1>1, <1>2
<1>4. trace = <<>> <=> Len(trace) = 0
  BY <1>1
<1>5. ASSUME NEW i \in 1..(Len(trace) + 1)
      PROVE  /\ CanTransition(trace'[i].from, trace'[i].to)
             /\ trace'[i].from = IF i = 1 THEN "RECEIVE_ALERT" ELSE trace'[i-1].to
  <2>1. CASE i = Len(trace) + 1
    <3>1. trace'[i] = last
      BY <1>3, <2>1
    <3>2. CASE Len(trace) = 0
      BY <1>2, <1>3, <1>4, <2>1, <3>1, <3>2 DEF TrailInv
    <3>3. CASE Len(trace) # 0
      <4>1. i # 1 /\ i - 1 = Len(trace) /\ Len(trace) \in 1..Len(trace)
        BY <1>3, <2>1, <3>3
      <4>2. trace'[i-1].to = st
        BY <1>3, <1>4, <3>3, <4>1 DEF TrailInv
      <4>3. QED
        BY <1>2, <3>1, <4>1, <4>2
    <3>4. QED
      BY <3>2, <3>3
  <2>2. CASE i # Len(trace) + 1
    <3>1. i \in 1..Len(trace) /\ (i # 1 => i - 1 \in 1..Len(trace))
      BY <1>3, <2>2
    <3>2. QED
      BY <1>3, <3>1 DEF TrailInv, Replays
  <2>3. QED
    BY <2>1, <2>2
<1>6. Replays(trace')
  BY <1>3, <1>5 DEF Replays
<1>7. QED
  BY <1>2, <1>3, <1>6 DEF TrailInv, Replays

(* What a commit copies from the session. *)
LEMMA CommitCopies ==
  ASSUME CommitComplete \/ Finalize
  PROVE  /\ db'.wf = st /\ db'.reason = reason /\ db'.trace = trace
         /\ db'.ops = ops /\ db'.evid = evid /\ db'.ledger = ledger
         /\ db'.report.kind # "none" => db'.report.lims = ReportLimitations
<1>1. PICK r : /\ db' = Committed(r)
               /\ r = NoReport \/ \E kind, verified : r = Report(kind, verified)
  BY DEF CommitComplete, Finalize
<1>2. r.kind # "none" => r.lims = ReportLimitations
  BY <1>1 DEF Report, NoReport
<1>3. /\ db'.wf = st /\ db'.reason = reason /\ db'.trace = trace
      /\ db'.ops = ops /\ db'.evid = evid /\ db'.ledger = ledger /\ db'.report = r
  BY <1>1 DEF Committed
<1>4. QED
  BY <1>2, <1>3

(* A terminal state is never the one the machine starts in. *)
LEMMA CommitReplays ==
  ASSUME IInv, TrailInv, CommitComplete \/ Finalize
  PROVE  TrailReplays'
<1>1. st \in TerminalStates
  BY DEF IInv, StageInv, CommitComplete, Finalize, TerminalStates
<1>2. trace # <<>>
  BY <1>1 DEF TrailInv, TerminalStates
<1>3. db'.trace = trace /\ db'.wf = st
  BY CommitCopies
<1>4. QED
  BY <1>2, <1>3 DEF TrailReplays, TrailInv, Replays

TIInv == IInv /\ TrailInv /\ TrailReplays

LEMMA TrailStep ==
  ASSUME TIInv, [Next]_vars
  PROVE  TIInv'
<1> USE DEF TIInv
<1>1. IInv'
  BY StepInductive
<1>2. CASE SessionStep
  <2>1. TrailInv'
    <3>1. UNCHANGED <<st, trace>> => TrailInv'
      BY DEF TrailInv, Replays
    <3>2. QED
      BY <1>2, <3>1, SessionStepMoves, TransitionReplays DEF IInv
  <2>2. TrailReplays'
    BY <1>2, SessionStepRuns, SessionKeepsStore DEF IInv, TrailReplays, Ended
  <2>3. QED
    BY <1>1, <2>1, <2>2
<1>3. CASE CommitComplete \/ Finalize
  <2>1. TrailInv'
    BY <1>3, OutsideKeepsSession DEF TrailInv, Replays
  <2>2. QED
    BY <1>1, <1>3, <2>1, CommitReplays
<1>4. CASE ReportRaises \/ QuietStep
  <2>1. TrailInv'
    BY <1>4, OutsideKeepsSession DEF TrailInv, Replays
  <2>2. TrailReplays'
    BY <1>4, QuietStepStage, ReportRaisesStage DEF TrailReplays, Ended
  <2>3. QED
    BY <1>1, <2>1, <2>2
<1>5. QED
  BY <1>2, <1>3, <1>4, NextSplit

LEMMA TrailInit == Init => TIInv
<1> SUFFICES ASSUME Init PROVE TIInv
  OBVIOUS
<1>1. IInv
  BY StageInit
<1>2. TrailInv
  BY DEF Init, TrailInv, Replays
<1>3. TrailReplays
  BY DEF Init, TrailReplays, Ended, Created
<1>4. QED
  BY <1>1, <1>2, <1>3 DEF TIInv

(* Whatever the run met, replaying the state_transition events that were    *)
(* committed is a legal run of the machine that ends in the stored state   *)
(* (StateMachine.transition_to and its audit callback, machine.py:160).    *)
THEOREM CommittedTrailReplays == Spec => []TrailReplays
<1>1. Init => TIInv
  BY TrailInit
<1>2. TIInv /\ [Next]_vars => TIInv'
  BY TrailStep
<1>3. TIInv => TrailReplays
  BY DEF TIInv
<1>4. QED
  BY <1>1, <1>2, <1>3, PTL DEF Spec

-----------------------------------------------------------------------------
(* Cancellation: until the run unwinds an accepted request keeps the flag   *)
(* up, and the runner is past the checkpoint of a checked state only if     *)
(* every accepted request came after that state was entered.               *)

FlagStands == pc \in RunningPcs /\ Asked => cancelFlag

AcceptedSinceEntry ==
  pc \in BusyPcs /\ st \in CheckedStates =>
    \A c \in Cancellers : canceller[c] = "accepted" => acceptedAt[c] = Len(trace)

CancelInv ==
  /\ pc = "created" => st = "RECEIVE_ALERT"
  /\ \A c \in Cancellers : acceptedAt[c] <= Len(trace)
  /\ FlagStands
  /\ AcceptedSinceEntry
  /\ CancelAtNextCheckpoint

CancelIInv == IInv /\ CancelInv

LEMMA CancelInit == Init => CancelIInv
<1> SUFFICES ASSUME Init PROVE CancelIInv
  OBVIOUS
<1>1. Len(trace) = 0 /\ \A c \in Cancellers : acceptedAt[c] <= Len(trace)
  BY DEF Init
<1>2. FlagStands /\ AcceptedSinceEntry /\ CancelAtNextCheckpoint
  BY DEF Init, FlagStands, AcceptedSinceEntry, CancelAtNextCheckpoint, Asked, BusyPcs
<1>3. QED
  BY <1>1, <1>2, StageInit DEF Init, CancelInv, CancelIInv

(* A step that makes no transition. *)
LEMMA StayKeepsCancel ==
  ASSUME CancelIInv, OnlySession, StaysInState,
         pc \in BusyPcs \cup {"created"} \/ ~Asked
  PROVE  CancelInv'
<1>1. UNCHANGED <<st, trace, cancelFlag, canceller, acceptedAt>> /\ pc' \in BusyPcs
  BY DEF OnlySession, request, StaysInState
<1>2. st \in CheckedStates => pc # "created"
  BY DEF CancelIInv, CancelInv, CheckedStates
<1>3. pc \in RunningPcs \/ ~Asked
  BY DEF RunningPcs, BusyPcs
<1>4. FlagStands'
  BY <1>1, <1>3 DEF CancelIInv, CancelInv, FlagStands, Asked
<1>5. AcceptedSinceEntry'
  BY <1>1, <1>2 DEF CancelIInv, CancelInv, AcceptedSinceEntry, Asked
<1>6. CancelAtNextCheckpoint'
  BY <1>1 DEF CancelIInv, CancelInv, CancelAtNextCheckpoint
<1>7. QED
  BY <1>1, <1>4, <1>5, <1>6 DEF CancelIInv, CancelInv, BusyPcs

(* A transition: the runner was past the checkpoint, or it cancels. *)
LEMMA MoveKeepsCancel ==
  ASSUME CancelIInv, OnlySession, NEW s \in States, TransitionTo(s),
         pc \in RunningPcs, pc' # "created",
         pc \in BusyPcs \/ s = "CANCELLED",
         pc' \in BusyPcs => s \notin CheckedStates
  PROVE  CancelInv'
<1>1. /\ trace \in Seq(Transitions) /\ acceptedAt \in [Cancellers -> Nat]
      /\ st \in States
  BY DEF CancelIInv, IInv, TypeInv, TypeOK, ControlOK, RequestOK
<1>2. UNCHANGED <<cancelFlag, canceller, acceptedAt>>
  BY DEF OnlySession, request
<1>3. st' = s /\ trace' = Append(trace, [from |-> st, to |-> s])
  BY DEF TransitionTo
<1>4. /\ Len(trace) \in Nat /\ Len(trace') = Len(trace) + 1
      /\ trace'[Len(trace) + 1] = [from |-> st, to |-> s]
      /\ \A i \in 1..Len(trace) : trace'[i] = trace[i]
  BY <1>1, <1>3
<1>5. FlagStands' /\ AcceptedSinceEntry'
  BY <1>2, <1>3 DEF CancelIInv, CancelInv, FlagStands, AcceptedSinceEntry, Asked
<1>6. \A c \in Cancellers : acceptedAt'[c] <= Len(trace')
  BY <1>1, <1>2, <1>4 DEF CancelIInv, CancelInv
<1>7. ASSUME NEW c \in Cancellers, canceller'[c] = "accepted",
             NEW i \in 2..Len(trace'), i - 1 > acceptedAt'[c],
             trace'[i].from \in {"CLASSIFY_ALERT", "COLLECT_EVIDENCE",
                                 "NORMALIZE_EVIDENCE", "FORM_HYPOTHESES"}
      PROVE  trace'[i].to = "CANCELLED"
  <2>1. CASE i <= Len(trace)
    <3>1. i \in 2..Len(trace) /\ trace'[i] = trace[i]
      BY <1>4, <2>1
    <3>2. QED
      BY <1>2, <1>7, <3>1 DEF CancelIInv, CancelInv, CancelAtNextCheckpoint
  <2>2. CASE i > Len(trace)
    <3>1. i = Len(trace) + 1 /\ trace'[i].from = st /\ trace'[i].to = s
      BY <1>4, <2>2
    <3>2. acceptedAt[c] \in Nat /\ acceptedAt[c] # Len(trace)
      BY <1>1, <1>2, <1>4, <1>7, <3>1
    <3>3. pc \notin BusyPcs
      BY <1>2, <1>7, <3>1, <3>2 DEF CancelIInv, CancelInv, AcceptedSinceEntry, CheckedStates
    <3>4. QED
      BY <3>1, <3>3
  <2>3. QED
    BY <1>4, <2>1, <2>2
<1>8. CancelAtNextCheckpoint'
  BY <1>7 DEF CancelAtNextCheckpoint
<1>9. QED
  BY <1>5, <1>6, <1>8 DEF CancelInv

LEMMA SessionStepCancel ==
  ASSUME CancelIInv, SessionStep
  PROVE  CancelInv'
<1>0. pc \in RunningPcs /\ OnlySession /\ TypeInv
  BY SessionStepRuns DEF CancelIInv, IInv
<1>1. ~cancelFlag => ~Asked
  BY <1>0 DEF CancelIInv, CancelInv, FlagStands
<1>2. CASE Advance /\ pc \in BusyPcs
  <2>1. NextState[st] \in States /\ TransitionTo(NextState[st])
    BY <1>2, TablesTyped DEF Advance, TransitionTo, CanTransition
  <2>2. pc' # "created" /\ (pc' \in BusyPcs => NextState[st] \notin CheckedStates)
    BY <1>2 DEF Advance, BusyPcs
  <2>3. QED
    BY <1>0, <1>2, <2>1, <2>2, MoveKeepsCancel
<1>3. ASSUME NEW s \in States, NEW why, Stop(s, why), pc \in BusyPcs \/ s = "CANCELLED"
      PROVE  CancelInv'
  <2>1. TransitionTo(s) /\ pc' = "finalize"
    BY <1>3 DEF Stop
  <2>2. QED
    BY <1>0, <1>3, <2>1, MoveKeepsCancel DEF BusyPcs
<1>4. "CANCELLED" \in States
  BY DEF States, TerminalStates
<1>5. QED
  BY <1>0, <1>1, <1>2, <1>3, <1>4, SessionStepKinds, StayKeepsCancel DEF MovesOn

(* Outside the session the trail stands still; a request is accepted at the *)
(* present length of the trail, which is never behind an earlier one.      *)
LEMMA OutsideKeepsCancel ==
  ASSUME CancelIInv, CommitComplete \/ ReportRaises \/ Finalize \/ QuietStep
  PROVE  CancelInv'
<1>0. /\ trace \in Seq(Transitions) /\ acceptedAt \in [Cancellers -> Nat]
      /\ canceller \in [Cancellers -> {"idle", "read", "accepted", "refused", "lost"}]
  BY DEF CancelIInv, IInv, TypeInv, TypeOK, ControlOK, RequestOK
<1>1. UNCHANGED <<st, trace>> /\ Len(trace) \in Nat
  BY <1>0, OutsideKeepsSession
<1> USE DEF CancelIInv, CancelInv
<1>2. CASE CommitComplete \/ ReportRaises \/ Finalize \/ Unwind \/ StorageError
           \/ DataRefused \/ Crash
  <2>1. /\ pc' \notin RunningPcs \cup BusyPcs /\ acceptedAt' = acceptedAt
        /\ \A c \in Cancellers : canceller'[c] = "accepted" => canceller[c] = "accepted"
    BY <1>2 DEF CommitComplete, ReportRaises, Finalize, Unwind, StorageError, DataRefused, Crash,
                OnlySession, request, RunningPcs, BusyPcs
  <2>2. CancelAtNextCheckpoint'
    BY <1>1, <2>1 DEF CancelAtNextCheckpoint
  <2>3. QED
    BY <1>1, <2>1, <2>2 DEF FlagStands, AcceptedSinceEntry, RunningPcs
<1>3. CASE Tick \/ UNCHANGED vars
  BY <1>3 DEF Tick, vars, control, request, FlagStands, AcceptedSinceEntry, Asked,
              CancelAtNextCheckpoint
<1>4. ASSUME NEW c \in Cancellers, CancelRead(c)
      PROVE  CancelInv'
  <2>1. /\ UNCHANGED <<pc, acceptedAt, cancelFlag>>
        /\ \A x \in Cancellers : canceller'[x] = "accepted" => canceller[x] = "accepted"
    BY <1>0, <1>4 DEF CancelRead, control
  <2>2. QED
    BY <1>1, <2>1 DEF FlagStands, AcceptedSinceEntry, Asked, CancelAtNextCheckpoint
<1>5. ASSUME NEW c \in Cancellers, CancelAccept(c)
      PROVE  CancelInv'
  <2>1. /\ pc' = pc /\ cancelFlag' = TRUE /\ acceptedAt'[c] = Len(trace)
        /\ \A x \in Cancellers \ {c} : acceptedAt'[x] = acceptedAt[x] /\ canceller'[x] = canceller[x]
    BY <1>0, <1>5 DEF CancelAccept, control
  <2>2. \A x \in Cancellers : acceptedAt'[x] <= Len(trace')
    BY <1>1, <2>1
  <2>3. FlagStands' /\ AcceptedSinceEntry'
    BY <1>1, <2>1 DEF FlagStands, AcceptedSinceEntry
  <2>4. CancelAtNextCheckpoint'
    BY <1>1, <2>1 DEF CancelAtNextCheckpoint
  <2>5. QED
    BY <1>1, <2>1, <2>2, <2>3, <2>4
<1>6. QED
  BY <1>2, <1>3, <1>4, <1>5 DEF QuietStep

(* A cancel request accepted before the run enters a checked state takes    *)
(* effect there: the run leaves that state only to CANCELLED               *)
(* (_check_cancel, states.py:70-74 and its four calls).                    *)
THEOREM CancelTakesEffect == Spec => []CancelAtNextCheckpoint
<1>1. Init => CancelIInv
  BY CancelInit
<1>2. CancelIInv /\ [Next]_vars => CancelIInv'
  <2>1. CancelIInv /\ [Next]_vars => IInv'
    BY StepInductive DEF CancelIInv
  <2>2. CancelIInv /\ [Next]_vars => CancelInv'
    BY NextSplit, SessionStepCancel, OutsideKeepsCancel
  <2>3. QED
    BY <2>1, <2>2 DEF CancelIInv
<1>3. CancelIInv => CancelAtNextCheckpoint
  BY DEF CancelIInv, CancelInv
<1>4. QED
  BY <1>1, <1>2, <1>3, PTL DEF Spec
=============================================================================
