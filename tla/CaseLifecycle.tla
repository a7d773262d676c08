--------------------------- MODULE CaseLifecycle ----------------------------
(***************************************************************************)
(* What a case promises to whoever reads it through the API, and nothing   *)
(* of how an investigation is run: the stored record is created, and at    *)
(* most once, in one step, becomes a terminal status together with the     *)
(* report that belongs to it.  After that it never changes.  A case whose   *)
(* run is lost stays as it was created, and never ends.                    *)
(*                                                                         *)
(* status  the case's stored status                                        *)
(* report  the kind of report stored with it                               *)
(* asked   some cancel request of the analyst has been accepted (202)      *)
(* lost    the run's session or process is gone with all it had not stored *)
(***************************************************************************)
EXTENDS Workflow

CONSTANT ReportsMayFail   \* a report may fail to be made, its case still end

VARIABLES status, report, asked, lost

caseVars == <<status, report, asked, lost>>

EarlyStatuses == TerminalStatuses \ {"completed"}

(* The reports of an ending that the run did not verify. *)
EarlyReports == {"partial"} \cup (IF ReportsMayFail THEN {"none"} ELSE {})

Init ==
  /\ status = "created"
  /\ report = "none"
  /\ asked = FALSE
  /\ lost = FALSE

(* The analyst asks for cancellation and is told "cancelling". *)
AskToCancel ==
  /\ asked' = TRUE
  /\ UNCHANGED <<status, report, lost>>

(* A completed case has a complete report. *)
Complete ==
  /\ status = "created" /\ ~lost
  /\ status' = "completed"
  /\ report' = "complete"
  /\ UNCHANGED <<asked, lost>>

(* The complete report could not be made once the status was decided. *)
CompleteUnreported ==
  /\ ReportsMayFail
  /\ status = "created" /\ ~lost
  /\ status' = "completed"
  /\ report' \in EarlyReports
  /\ UNCHANGED <<asked, lost>>

(* Every other ending has a partial report, and only a case somebody asked  *)
(* to cancel ends cancelled.                                               *)
StopEarly ==
  /\ status = "created" /\ ~lost
  /\ status' \in EarlyStatuses
  /\ status' = "cancelled" => asked
  /\ report' \in EarlyReports
  /\ UNCHANGED <<asked, lost>>

Lose ==
  /\ status = "created" /\ ~lost
  /\ lost' = TRUE
  /\ UNCHANGED <<status, report, asked>>

Finish == Complete \/ CompleteUnreported \/ StopEarly

Next == AskToCancel \/ Finish \/ Lose

Spec == Init /\ [][Next]_caseVars

(* With the further promise that the case does end, unless it is lost. *)
FairSpec == Spec /\ WF_caseVars(Finish \/ Lose)
=============================================================================
