--------------------------- MODULE CaseServiceProofs ---------------------------
(***************************************************************************)
(* Proofs about the case service and its routes, for any number of         *)
(* analysts, cases, handlers and command-line runs, any endings and any    *)
(* faults.                                                                 *)
(***************************************************************************)
EXTENDS CaseService, TLAPS

-----------------------------------------------------------------------------
(* The inductive invariant: what a handler may rely on between what it has  *)
(* read and what it writes.                                                *)

Events ==
  [ type : {"case_created", "report_generated", "feedback_recorded", "case_linked"},
    actor : Analysts \cup {"system"}, other : CaseIds \cup {Nobody} ]

(* The trails keep to their types. *)
AuditTyped == audit \in [CaseIds -> SUBSET Events]

(* A run works on a case its analyst owns, stored as created until the run *)
(* has committed, and has chosen to end cancelled only when asked to.       *)
CreateWork(k) ==
  /\ k.op = "create" /\ k.case \in CaseIds /\ Owns(k.by, k.case)
  /\ k.stage \in {"running", "past", "ending", "ended"}
  /\ k.stage # "ended" => cases[k.case].status = "created"
  /\ k.stage \in {"running", "past"} => k.ending = "none"
  /\ k.stage = "ending" => k.ending \in TerminalStatuses
  /\ k.ending = "cancelled" => k.case \in asked

(* What admitted the other handlers still stands when they write. *)
AdmittedWork(w, k) ==
  /\ w \in Threads
  /\ k.op \in {"cancel", "feedback", "link"}
  /\ k.case \in CaseIds /\ Owns(k.by, k.case)
  /\ k.op = "link" => k.other \in CaseIds /\ Owns(k.by, k.other)
  /\ k.op = "feedback" => Ended(k.case)

WorkOk(w) == work[w] = Idle \/ CreateWork(work[w]) \/ AdmittedWork(w, work[w])

WorkInv == \A w \in Workers : WorkOk(w)

(* Only the handler that created a case runs it. *)
OneRunner ==
  \A u, w \in Workers, c \in CaseIds : Running(u, c) /\ Running(w, c) => u = w

(* Nobody takes up a lost run again, and its case stays created. *)
LostInv ==
  \A c \in lost : cases[c].status = "created" /\ \A w \in Workers : ~Running(w, c)

(* A run whose cancellation came in time is in the API process, has not     *)
(* taken its last look, and the set still names its case until it looks.   *)
InTimeInv ==
  /\ flags \subseteq asked
  /\ \A c \in asked : cases[c] # NoCase
  /\ \A c \in inTime :
       /\ cases[c].status # "completed"
       /\ \A w \in Workers :
            Running(w, c) =>
              /\ w \in Threads
              /\ work[w].stage # "past"
              /\ work[w].ending # "completed"
              /\ work[w].stage = "running" => c \in flags

(* Only a case that has ended has a report, a complete one only if it has  *)
(* completed.                                                              *)
CaseInv ==
  \A c \in CaseIds :
    /\ cases[c].status \in {"none", "created"} => cases[c].report = "none"
    /\ cases[c].report = "complete" => cases[c].status = "completed"

(* Every stored row belongs to a case that exists, and to its owner. *)
RowInv ==
  /\ \A r \in evidence \cup claims : r.id = r.case
  /\ \A s \in supports : s.claim = s.evidence
  /\ \A l \in caseLinks : Owns(l.by, l.a) /\ Owns(l.by, l.b)
  /\ \A f \in feedback : Owns(f.by, f.case)

IInv ==
  /\ TypeOK /\ AuditTyped /\ WorkInv /\ OneRunner /\ LostInv
  /\ InTimeInv /\ CaseInv /\ RowInv /\ TrailMatchesRows

-----------------------------------------------------------------------------
(* Facts about the steps.                                                  *)

LEMMA NoCaseIsNoRow == NoCase \notin CaseRows
BY DEF NoCase, CaseRows, TerminalStatuses

LEMMA ReportKinds ==
  ASSUME NEW s, NEW r \in MadeReports(s)
  PROVE  /\ r \in {"none", "partial", "complete"}
         /\ r = "complete" => s = "completed"
BY DEF MadeReports

LEMMA IdleIsWork == Idle \in Work
BY DEF Idle, Work

(* Handlers that only read, look or give up leave every committed row. *)
Quiet(w) ==
  \/ CheckCancel(w) \/ StopEarly(w) \/ Produce(w) \/ Return(w) \/ RequestCancel(w) \/ Refuse(w)

Reads(t, a, c) ==
  CancelRead(t, a, c) \/ FeedbackRead(t, a, c) \/ \E d \in CaseIds : LinkRead(t, a, c, d)

LEMMA NextSplit ==
  ASSUME Next
  PROVE  \/ \E w \in Workers, a \in Analysts, c \in CaseIds : Create(w, a, c)
         \/ \E w \in Workers : CommitRun(w)
         \/ \E w \in Workers : RecordFeedback(w)
         \/ \E w \in Workers : LinkCases(w)
         \/ \E w \in Workers : Quiet(w)
         \/ \E t \in Threads, a \in Analysts \cup {Anonymous}, c \in CaseIds : Reads(t, a, c)
         \/ \E p \in Processes : Crash(p)
BY DEF Next, Serve, Quiet, Reads

LEMMA QuietKeepsRows ==
  /\ \A w \in Workers : Quiet(w) => UNCHANGED rows
  /\ \A t \in Threads, a \in Analysts \cup {Anonymous}, c \in CaseIds :
       Reads(t, a, c) => UNCHANGED rows
  /\ \A p \in Processes : Crash(p) => UNCHANGED rows
<1>1. \A w \in Workers : Quiet(w) => UNCHANGED rows
  BY DEF Quiet, CheckCancel, StopEarly, Produce, Return, RequestCancel, Refuse, rows
<1>2. \A t \in Threads, a \in Analysts \cup {Anonymous}, c \in CaseIds :
        Reads(t, a, c) => UNCHANGED rows
  BY DEF Reads, CancelRead, FeedbackRead, LinkRead, Admit, rows
<1>3. \A p \in Processes : Crash(p) => UNCHANGED rows
  BY DEF Crash, rows
<1>4. QED
  BY <1>1, <1>2, <1>3

LEMMA RowSteps ==
  ASSUME [Next]_vars
  PROVE  \/ UNCHANGED rows
         \/ \E w \in Workers, a \in Analysts, c \in CaseIds : Create(w, a, c)
         \/ \E w \in Workers : CommitRun(w)
         \/ \E w \in Workers : RecordFeedback(w)
         \/ \E w \in Workers : LinkCases(w)
<1>1. CASE UNCHANGED vars
  BY <1>1 DEF vars
<1>2. CASE Next
  BY <1>2, NextSplit, QuietKeepsRows
<1>3. QED
  BY <1>1, <1>2

(* What a handler that writes has to write about. *)
LEMMA OwnerFacts ==
  ASSUME IInv, NEW a, NEW c \in CaseIds, Owns(a, c)
  PROVE  a \in Analysts /\ cases[c] \in CaseRows /\ cases[c].owner = a
BY DEF IInv, TypeOK, Owns, CaseRows

LEMMA RunnerFacts ==
  ASSUME IInv, NEW w \in Workers, work[w].op = "create"
  PROVE  /\ work[w].case \in CaseIds /\ work[w].by \in Analysts
         /\ cases[work[w].case] \in CaseRows /\ cases[work[w].case].owner = work[w].by
         /\ CreateWork(work[w])
<1>1. CreateWork(work[w])
  BY DEF IInv, WorkInv, WorkOk, Idle, AdmittedWork
<1>2. QED
  BY <1>1, OwnerFacts DEF CreateWork

LEMMA AdmittedFacts ==
  ASSUME IInv, NEW w \in Workers, work[w].op \in {"cancel", "feedback", "link"}
  PROVE  /\ work[w].case \in CaseIds /\ work[w].by \in Analysts
         /\ cases[work[w].case] \in CaseRows /\ cases[work[w].case].owner = work[w].by
         /\ AdmittedWork(w, work[w])
<1>1. AdmittedWork(w, work[w])
  BY DEF IInv, WorkInv, WorkOk, Idle, CreateWork
<1>2. QED
  BY <1>1, OwnerFacts DEF AdmittedWork

LEMMA CommitterRuns ==
  ASSUME NEW w \in Workers, CommitRun(w)
  PROVE  Running(w, work[w].case)
BY DEF CommitRun, RunAt, Running

(* A stored case keeps its owner; only its run's commit moves its status,  *)
(* from created to an ending.                                              *)
LEMMA CasesGrow ==
  ASSUME IInv, [Next]_vars, NEW c \in CaseIds, cases[c] # NoCase
  PROVE  /\ cases'[c] # NoCase /\ cases'[c].owner = cases[c].owner
         /\ \/ cases'[c] = cases[c]
            \/ \E w \in Workers :
                 /\ CommitRun(w) /\ work[w].case = c
                 /\ cases[c].status = "created" /\ cases'[c].status = work[w].ending
                 /\ cases'[c].status \in TerminalStatuses
<1>1. CASE UNCHANGED rows
  BY <1>1 DEF rows
<1>2. CASE \E w \in Workers : RecordFeedback(w) \/ LinkCases(w)
  BY <1>2 DEF RecordFeedback, LinkCases
<1>3. ASSUME NEW w \in Workers, NEW a \in Analysts, NEW d \in CaseIds, Create(w, a, d)
      PROVE  cases'[c] = cases[c]
  BY <1>3 DEF Create, IInv, TypeOK
<1>4. ASSUME NEW w \in Workers, CommitRun(w), cases'[c] # cases[c]
      PROVE  /\ cases'[c] # NoCase /\ cases'[c].owner = cases[c].owner
             /\ CommitRun(w) /\ work[w].case = c
             /\ cases[c].status = "created" /\ cases'[c].status = work[w].ending
             /\ cases'[c].status \in TerminalStatuses
  <2>1. /\ CreateWork(work[w]) /\ work[w].stage = "ending"
        /\ work[w].case \in CaseIds /\ cases[work[w].case] \in CaseRows
    BY <1>4, RunnerFacts DEF CommitRun, RunAt
  <2>2. /\ cases[work[w].case].status = "created" /\ work[w].ending \in TerminalStatuses
    BY <2>1 DEF CreateWork
  <2>3. PICK r \in MadeReports(work[w].ending) :
          cases' = [cases EXCEPT ![work[w].case] =
                      [cases[work[w].case] EXCEPT !.status = work[w].ending, !.report = r]]
    BY <1>4, <2>1 DEF CommitRun, IInv, TypeOK
  <2>4. work[w].case = c
    BY <1>4, <2>3, <2>1 DEF IInv, TypeOK
  <2>5. cases'[c] = [cases[c] EXCEPT !.status = work[w].ending, !.report = r]
    BY <2>3, <2>4 DEF IInv, TypeOK
  <2>6. /\ cases'[c].owner = cases[c].owner /\ cases'[c].status = work[w].ending
    BY <2>5, <2>1, <2>4 DEF CaseRows
  <2>7. cases'[c].status # "none"
    BY <2>6, <2>2 DEF TerminalStatuses
  <2>8. QED
    BY <1>4, <2>2, <2>4, <2>6, <2>7 DEF NoCase
<1>5. QED
  BY <1>1, <1>2, <1>3, <1>4, RowSteps

LEMMA OwnsStays ==
  ASSUME IInv, [Next]_vars, NEW a, NEW c \in CaseIds, Owns(a, c)
  PROVE  Owns(a, c)'
BY CasesGrow DEF Owns

LEMMA EndedStays ==
  ASSUME IInv, [Next]_vars, NEW c \in CaseIds, Ended(c)
  PROVE  Ended(c)' /\ cases'[c] = cases[c]
<1>1. cases[c].status # "created" /\ cases[c] # NoCase
  BY DEF Ended, TerminalStatuses, NoCase
<1>2. QED
  BY <1>1, CasesGrow DEF Ended

(* No step makes a run of a case that somebody else runs already. *)
LEMMA WorkSteps ==
  ASSUME IInv, [Next]_vars, NEW w \in Workers
  PROVE  \/ work'[w] = work[w]
         \/ work'[w] = Idle
         \/ \E a \in Analysts, c \in CaseIds : Create(w, a, c)
         \/ CheckCancel(w) \/ StopEarly(w) \/ Produce(w) \/ CommitRun(w)
         \/ \E a \in Analysts \cup {Anonymous}, c \in CaseIds : w \in Threads /\ Reads(w, a, c)
<1>1. CASE UNCHANGED vars
  BY <1>1 DEF vars
<1>2. ASSUME NEW u \in Workers, NEW a \in Analysts, NEW c \in CaseIds, Create(u, a, c)
      PROVE  u = w \/ work'[w] = work[w]
  BY <1>2 DEF Create, IInv, TypeOK
<1>3. ASSUME NEW u \in Workers, CommitRun(u)
      PROVE  u = w \/ work'[w] = work[w]
  BY <1>3 DEF CommitRun, RunTo, IInv, TypeOK
<1>4. ASSUME NEW u \in Workers, RecordFeedback(u) \/ LinkCases(u) \/ Return(u) \/ RequestCancel(u) \/ Refuse(u)
      PROVE  work'[w] = work[w] \/ work'[w] = Idle
  BY <1>4 DEF RecordFeedback, LinkCases, Return, RequestCancel, Refuse, IInv, TypeOK
<1>5. ASSUME NEW u \in Workers, CheckCancel(u) \/ StopEarly(u) \/ Produce(u)
      PROVE  u = w \/ work'[w] = work[w]
  BY <1>5 DEF CheckCancel, StopEarly, Produce, RunTo, IInv, TypeOK
<1>6. ASSUME NEW u \in Threads, NEW a \in Analysts \cup {Anonymous}, NEW c \in CaseIds, Reads(u, a, c)
      PROVE  u = w \/ work'[w] = work[w]
  <2>1. u \in Workers /\ work \in [Workers -> Work]
    BY DEF Workers, IInv, TypeOK
  <2>2. \E k : work' = [work EXCEPT ![u] = k]
    BY <1>6 DEF Reads, CancelRead, FeedbackRead, LinkRead, Admit
  <2>3. QED
    BY <2>1, <2>2
<1>7. ASSUME NEW p \in Processes, Crash(p)
      PROVE  work'[w] = work[w] \/ work'[w] = Idle
  BY <1>7 DEF Crash
<1>8. QED
  BY <1>1, <1>2, <1>3, <1>4, <1>5, <1>6, <1>7, NextSplit DEF Quiet

-----------------------------------------------------------------------------
(* The invariant holds at first and through every step, part by part.      *)

LEMMA InitIInv == Init => IInv
<1> SUFFICES ASSUME Init PROVE IInv
  OBVIOUS
<1>1. TypeOK
  BY IdleIsWork DEF Init, TypeOK
<1>2. AuditTyped /\ WorkInv /\ LostInv /\ InTimeInv
  BY DEF Init, AuditTyped, WorkInv, WorkOk, LostInv, InTimeInv
<1>3. OneRunner
  BY DEF Init, OneRunner, Running, Idle
<1>4. CaseInv
  BY DEF Init, CaseInv, NoCase
<1>5. RowInv
  BY DEF Init, RowInv
<1>6. TrailMatchesRows
  BY DEF Init, TrailMatchesRows, Ended, NoCase, TerminalStatuses
<1>7. QED
  BY <1>1, <1>2, <1>3, <1>4, <1>5, <1>6 DEF IInv

(* The committed rows keep to their types. *)
RowsTyped ==
  /\ cases \in [CaseIds -> CaseRows \cup {NoCase}]
  /\ evidence \subseteq [id : CaseIds, case : CaseIds]
  /\ claims \subseteq [id : CaseIds, case : CaseIds]
  /\ supports \subseteq [claim : CaseIds, evidence : CaseIds]
  /\ caseLinks \subseteq [a : CaseIds, b : CaseIds, by : Analysts]
  /\ feedback \subseteq [case : CaseIds, by : Analysts]
  /\ \A c \in CaseIds : audit[c] = {} <=> cases[c] = NoCase
  /\ AuditTyped

(* So do the handlers, the cancel set and the history. *)
WorkTyped ==
  /\ flags \subseteq CaseIds
  /\ work \in [Workers -> Work]
  /\ asked \subseteq CaseIds /\ inTime \subseteq asked /\ lost \subseteq CaseIds

LEMMA TypedSplit == TypeOK /\ AuditTyped <=> RowsTyped /\ WorkTyped
BY DEF TypeOK, RowsTyped, WorkTyped

LEMMA RowsTypedStep ==
  ASSUME IInv, [Next]_vars
  PROVE  RowsTyped'
<1>0. RowsTyped
  BY TypedSplit DEF IInv
<1>1. CASE UNCHANGED rows
  BY <1>0, <1>1 DEF rows, RowsTyped, AuditTyped
<1>2. ASSUME NEW w \in Workers, NEW a \in Analysts, NEW c \in CaseIds, Create(w, a, c)
      PROVE  RowsTyped'
  <2>1. [NoCase EXCEPT !.owner = a, !.status = "created"] \in CaseRows
    BY DEF NoCase, CaseRows
  <2>2. Event("case_created", a, Nobody) \in Events
    BY DEF Event, Events
  <2>3. cases' \in [CaseIds -> CaseRows \cup {NoCase}] /\ AuditTyped'
    BY <1>0, <1>2, <2>1, <2>2 DEF Create, RowsTyped, AuditTyped
  <2>4. \A d \in CaseIds : audit'[d] = {} <=> cases'[d] = NoCase
    BY <1>0, <1>2, <2>1, NoCaseIsNoRow DEF Create, RowsTyped, AuditTyped
  <2>5. QED
    BY <1>0, <1>2, <2>3, <2>4 DEF Create, RowsTyped
<1>3. ASSUME NEW w \in Workers, CommitRun(w)
      PROVE  RowsTyped'
  <2> DEFINE c == work[w].case
             s == work[w].ending
  <2>1. /\ work[w].op = "create" /\ work[w].stage = "ending"
        /\ c \in CaseIds /\ cases[c] \in CaseRows /\ s \in TerminalStatuses
    BY <1>3, RunnerFacts DEF CommitRun, RunAt, CreateWork
  <2>2. PICK r \in MadeReports(s) :
          cases' = [cases EXCEPT ![c] = [cases[c] EXCEPT !.status = s, !.report = r]]
    BY <1>0, <1>3, <2>1 DEF CommitRun, RowsTyped
  <2>3. [cases[c] EXCEPT !.status = s, !.report = r] \in CaseRows
    BY <2>1, <2>2, ReportKinds DEF CaseRows
  <2>4. Event("report_generated", "system", Nobody) \in Events
    BY DEF Event, Events
  <2>5. cases' \in [CaseIds -> CaseRows \cup {NoCase}]
    BY <1>0, <2>1, <2>2, <2>3 DEF RowsTyped
  <2>6. audit' = [audit EXCEPT ![c] = @ \cup {Event("report_generated", "system", Nobody)}]
    BY <1>3 DEF CommitRun
  <2>7. AuditTyped'
    BY <1>0, <2>1, <2>4, <2>6 DEF RowsTyped, AuditTyped
  <2>8. \A d \in CaseIds : audit'[d] = {} <=> cases'[d] = NoCase
    BY <1>0, <2>1, <2>2, <2>3, <2>6, NoCaseIsNoRow DEF RowsTyped, AuditTyped
  <2>9. Row(c, c) \in [id : CaseIds, case : CaseIds]
    BY <2>1 DEF Row
  <2>10. /\ evidence' \subseteq [id : CaseIds, case : CaseIds]
         /\ claims' \subseteq [id : CaseIds, case : CaseIds]
    BY <1>0, <1>3, <2>9 DEF CommitRun, RowsTyped
  <2>11. supports' \subseteq [claim : CaseIds, evidence : CaseIds]
    <3>1. supports' = supports \cup { [ claim |-> c, evidence |-> e.id ] : e \in RowsOf(evidence', c) }
      BY <1>3 DEF CommitRun
    <3>2. \A e \in RowsOf(evidence', c) : e.id \in CaseIds
      BY <2>10 DEF RowsOf
    <3>3. QED
      BY <1>0, <2>1, <3>1, <3>2 DEF RowsTyped
  <2>12. UNCHANGED <<caseLinks, feedback>>
    BY <1>3 DEF CommitRun
  <2>13. QED
    BY <1>0, <2>5, <2>7, <2>8, <2>10, <2>11, <2>12 DEF RowsTyped
<1>4. ASSUME NEW w \in Workers, RecordFeedback(w)
      PROVE  RowsTyped'
  <2>1. /\ work[w].case \in CaseIds /\ work[w].by \in Analysts /\ cases[work[w].case] \in CaseRows
    BY <1>4, AdmittedFacts DEF RecordFeedback, At
  <2>2. Event("feedback_recorded", work[w].by, Nobody) \in Events
    BY <2>1 DEF Event, Events
  <2>3. AuditTyped'
    BY <1>0, <1>4, <2>1, <2>2 DEF RecordFeedback, RowsTyped, AuditTyped
  <2>4. feedback' \subseteq [case : CaseIds, by : Analysts]
    BY <1>0, <1>4, <2>1 DEF RecordFeedback, RowsTyped
  <2>5. \A d \in CaseIds : audit'[d] = {} <=> cases'[d] = NoCase
    BY <1>0, <1>4, <2>1, NoCaseIsNoRow DEF RecordFeedback, RowsTyped, AuditTyped
  <2>6. QED
    BY <1>0, <1>4, <2>3, <2>4, <2>5 DEF RecordFeedback, RowsTyped
<1>5. ASSUME NEW w \in Workers, LinkCases(w)
      PROVE  RowsTyped'
  <2>1. /\ work[w].op = "link"
        /\ work[w].case \in CaseIds /\ work[w].by \in Analysts /\ cases[work[w].case] \in CaseRows
        /\ AdmittedWork(w, work[w])
    BY <1>5, AdmittedFacts DEF LinkCases, At
  <2>2. /\ work[w].other \in CaseIds /\ cases[work[w].other] \in CaseRows
    BY <2>1, OwnerFacts DEF AdmittedWork
  <2>3. \A d \in CaseIds : LinkEvents(work[w], d) \in SUBSET Events
    BY <2>1, <2>2 DEF LinkEvents, Event, Events
  <2>4. audit' = [d \in CaseIds |-> audit[d] \cup LinkEvents(work[w], d)]
    BY <1>5 DEF LinkCases
  <2>5. AuditTyped'
    BY <1>0, <2>3, <2>4 DEF RowsTyped, AuditTyped
  <2>6. \A d \in CaseIds : LinkEvents(work[w], d) # {} => cases[d] # NoCase
    BY <2>1, <2>2, NoCaseIsNoRow DEF LinkEvents
  <2>7. UNCHANGED <<cases, evidence, claims, supports, feedback>>
    BY <1>5 DEF LinkCases
  <2>8. \A d \in CaseIds : audit'[d] = {} <=> cases'[d] = NoCase
    BY <1>0, <2>4, <2>6, <2>7 DEF RowsTyped
  <2>9. caseLinks' \subseteq [a : CaseIds, b : CaseIds, by : Analysts]
    BY <1>0, <1>5, <2>1, <2>2 DEF LinkCases, RowsTyped
  <2>10. QED
    BY <1>0, <2>5, <2>7, <2>8, <2>9 DEF RowsTyped
<1>6. QED
  BY <1>1, <1>2, <1>3, <1>4, <1>5, RowSteps

LEMMA WorkTypedStep ==
  ASSUME IInv, [Next]_vars
  PROVE  WorkTyped'
<1>0. WorkTyped
  BY TypedSplit DEF IInv
<1>1. CASE UNCHANGED vars
  BY <1>0, <1>1 DEF vars, history, WorkTyped
<1>2. ASSUME NEW w \in Workers, NEW a \in Analysts, NEW c \in CaseIds, Create(w, a, c)
      PROVE  WorkTyped'
  <2>1. Doing("create", a, c, Nobody, "running") \in Work
    BY DEF Doing, Idle, Work
  <2>2. QED
    BY <1>0, <1>2, <2>1 DEF Create, history, WorkTyped
<1>3. ASSUME NEW w \in Workers, CommitRun(w) \/ CheckCancel(w) \/ StopEarly(w) \/ Produce(w)
      PROVE  WorkTyped'
  <2>1. UNCHANGED <<flags, history>>
    BY <1>3 DEF CommitRun, CheckCancel, StopEarly, Produce
  <2>2. \E s, e : RunTo(w, s, e) /\ s \in {"past", "ending", "ended"} /\ e \in TerminalStatuses \cup {"none"}
    <3>1. CASE CommitRun(w)
      BY <3>1, <1>0, RunnerFacts DEF CommitRun, RunAt, CreateWork
    <3>2. CASE CheckCancel(w)
      BY <3>2 DEF CheckCancel, TerminalStatuses
    <3>3. CASE StopEarly(w) \/ Produce(w)
      BY <3>3, EndingsAssumption DEF StopEarly, Produce
    <3>4. QED
      BY <1>3, <3>1, <3>2, <3>3
  <2>3. PICK s, e : RunTo(w, s, e) /\ s \in {"past", "ending", "ended"} /\ e \in TerminalStatuses \cup {"none"}
    BY <2>2
  <2>4. work' = [work EXCEPT ![w] = [work[w] EXCEPT !.stage = s, !.ending = e]]
    BY <1>0, <2>3 DEF RunTo, WorkTyped
  <2>5. [work[w] EXCEPT !.stage = s, !.ending = e] \in Work
    BY <1>0, <2>3 DEF WorkTyped, Work
  <2>6. QED
    BY <1>0, <2>1, <2>4, <2>5 DEF WorkTyped, history
<1>4. ASSUME NEW w \in Workers, RecordFeedback(w) \/ LinkCases(w) \/ Return(w)
      PROVE  WorkTyped'
  BY <1>0, <1>4, IdleIsWork DEF RecordFeedback, LinkCases, Return, Discard, history, WorkTyped
<1>5. ASSUME NEW w \in Workers, RequestCancel(w)
      PROVE  WorkTyped'
  <2>1. work[w].case \in CaseIds
    BY <1>5, AdmittedFacts DEF RequestCancel, At
  <2>2. /\ inTime' \subseteq inTime \cup {work[w].case} /\ asked' = asked \cup {work[w].case}
        /\ flags' = flags \cup {work[w].case} /\ work' = [work EXCEPT ![w] = Idle] /\ lost' = lost
    BY <1>5 DEF RequestCancel
  <2>3. QED
    BY <1>0, <2>1, <2>2, IdleIsWork DEF WorkTyped
<1>6. ASSUME NEW w \in Workers, Refuse(w)
      PROVE  WorkTyped'
  <2>1. flags' \subseteq flags /\ work' = [work EXCEPT ![w] = Idle] /\ UNCHANGED <<asked, inTime>>
    BY <1>6 DEF Refuse, Discard
  <2>2. lost' \subseteq CaseIds
    BY <1>0, <1>6, RunnerFacts DEF Refuse, Uncommitted, WorkTyped
  <2>3. QED
    BY <1>0, <2>1, <2>2, IdleIsWork DEF WorkTyped
<1>7. ASSUME NEW t \in Threads, NEW a \in Analysts \cup {Anonymous}, NEW c \in CaseIds, Reads(t, a, c)
      PROVE  WorkTyped'
  <2>1. PICK k : work' = [work EXCEPT ![t] = k] /\ a \in Analysts /\ k.by = a /\ k \in Work
    <3>1. CASE CancelRead(t, a, c)
      <4>1. a \in Analysts
        BY <3>1 DEF CancelRead, Admit, CancelCase, ForOwner, Reply
      <4>2. Doing("cancel", a, c, Nobody, "admitted") \in Work /\ Doing("cancel", a, c, Nobody, "admitted").by = a
        BY <4>1 DEF Doing, Idle, Work
      <4>3. QED
        BY <3>1, <4>1, <4>2 DEF CancelRead, Admit
    <3>2. CASE FeedbackRead(t, a, c)
      <4>1. a \in Analysts
        BY <3>2 DEF FeedbackRead, Admit, PostFeedback, ForOwner, Reply
      <4>2. Doing("feedback", a, c, Nobody, "admitted") \in Work /\ Doing("feedback", a, c, Nobody, "admitted").by = a
        BY <4>1 DEF Doing, Idle, Work
      <4>3. QED
        BY <3>2, <4>1, <4>2 DEF FeedbackRead, Admit
    <3>3. ASSUME NEW d \in CaseIds, LinkRead(t, a, c, d)
          PROVE  \E k : work' = [work EXCEPT ![t] = k] /\ a \in Analysts /\ k.by = a /\ k \in Work
      <4>1. a \in Analysts
        BY <3>3 DEF LinkRead, Admit, PostCaseLink, ForOwner, Reply
      <4>2. Doing("link", a, c, d, "admitted") \in Work /\ Doing("link", a, c, d, "admitted").by = a
        BY <4>1 DEF Doing, Idle, Work
      <4>3. QED
        BY <3>3, <4>1, <4>2 DEF LinkRead, Admit
    <3>4. QED
      BY <1>7, <3>1, <3>2, <3>3 DEF Reads
  <2>2. UNCHANGED <<flags, history>>
    BY <1>7 DEF Reads, CancelRead, FeedbackRead, LinkRead, Admit
  <2>3. QED
    BY <1>0, <2>1, <2>2 DEF WorkTyped, history
<1>8. ASSUME NEW p \in Processes, Crash(p)
      PROVE  WorkTyped'
  <2>1. p \subseteq Workers
    BY DEF Processes, Workers
  <2>2. work' \in [Workers -> Work]
    BY <1>0, <1>8, IdleIsWork DEF Crash, WorkTyped
  <2>3. lost' \subseteq CaseIds
    BY <1>0, <1>8, <2>1, RunnerFacts DEF Crash, Uncommitted, WorkTyped
  <2>4. flags' \subseteq flags /\ UNCHANGED <<asked, inTime>>
    BY <1>8 DEF Crash
  <2>5. QED
    BY <1>0, <2>2, <2>3, <2>4 DEF WorkTyped
<1>9. QED
  BY <1>1, <1>2, <1>3, <1>4, <1>5, <1>6, <1>7, <1>8, NextSplit DEF Quiet

(* A handler's work stays right while others act. *)
LEMMA WorkOkStays ==
  ASSUME IInv, [Next]_vars, NEW w \in Workers, work'[w] = work[w], ~CommitRun(w)
  PROVE  WorkOk(w)'
<1>0. asked \subseteq asked'
  <2>1. CASE UNCHANGED vars
    BY <2>1 DEF vars, history
  <2>2. ASSUME NEW u \in Workers, RequestCancel(u) \/ Refuse(u)
        PROVE  asked \subseteq asked'
    BY <2>2 DEF RequestCancel, Refuse
  <2>3. ASSUME NEW u \in Workers, RecordFeedback(u) \/ LinkCases(u) \/ Return(u) \/ CommitRun(u)
                 \/ CheckCancel(u) \/ StopEarly(u) \/ Produce(u)
        PROVE  asked \subseteq asked'
    BY <2>3 DEF RecordFeedback, LinkCases, Return, CommitRun, CheckCancel, StopEarly, Produce, history
  <2>4. ASSUME NEW u, NEW a, NEW c, Create(u, a, c) \/ Reads(u, a, c)
        PROVE  asked \subseteq asked'
    BY <2>4 DEF Create, Reads, CancelRead, FeedbackRead, LinkRead, Admit, history
  <2>5. ASSUME NEW p \in Processes, Crash(p)
        PROVE  asked \subseteq asked'
    BY <2>5 DEF Crash
  <2>6. QED
    BY <2>1, <2>2, <2>3, <2>4, <2>5, NextSplit DEF Quiet
<1>1. WorkOk(w)
  BY DEF IInv, WorkInv
<1>2. CASE work[w] = Idle
  BY <1>2 DEF WorkOk
<1>3. CASE CreateWork(work[w])
  <2> DEFINE c == work[w].case
  <2>1. c \in CaseIds /\ Owns(work[w].by, c) /\ Owns(work[w].by, c)'
    BY <1>3, OwnsStays DEF CreateWork, Owns
  <2>2. work[w].stage # "ended" => cases'[c].status = "created"
    <3> SUFFICES ASSUME work[w].stage # "ended" PROVE cases'[c].status = "created"
      OBVIOUS
    <3>1. cases[c].status = "created"
      BY <1>3 DEF CreateWork
    <3>2. ASSUME NEW u \in Workers, CommitRun(u), work[u].case = c
          PROVE  FALSE
      <4>1. Running(u, c) /\ Running(w, c)
        BY <1>3, <3>2, CommitterRuns DEF CreateWork, Running
      <4>2. u = w
        BY <2>1, <4>1 DEF IInv, OneRunner
      <4>3. QED
        BY <3>2, <4>2
    <3>3. QED
      BY <2>1, <3>1, <3>2, CasesGrow DEF Owns
  <2>3. CreateWork(work[w])'
    BY <1>0, <1>3, <2>1, <2>2 DEF CreateWork, Owns
  <2>4. QED
    BY <2>3 DEF WorkOk
<1>4. CASE AdmittedWork(w, work[w])
  <2>1. AdmittedWork(w, work[w])'
    BY <1>4, OwnsStays, EndedStays DEF AdmittedWork, Owns, Ended
  <2>2. QED
    BY <2>1 DEF WorkOk
<1>5. QED
  BY <1>1, <1>2, <1>3, <1>4 DEF WorkOk

LEMMA WorkInvStep ==
  ASSUME IInv, [Next]_vars
  PROVE  WorkInv'
<1> SUFFICES ASSUME NEW w \in Workers PROVE WorkOk(w)'
  BY DEF WorkInv
<1>0. work \in [Workers -> Work] /\ flags \subseteq asked
  BY DEF IInv, TypeOK, InTimeInv
<1>1. CASE work'[w] = work[w] /\ ~CommitRun(w)
  BY <1>1, WorkOkStays
<1>2. CASE work'[w] = Idle
  BY <1>2 DEF WorkOk
<1>3. ASSUME NEW a \in Analysts, NEW c \in CaseIds, Create(w, a, c)
      PROVE  WorkOk(w)'
  <2>1. work'[w] = Doing("create", a, c, Nobody, "running")
    BY <1>0, <1>3 DEF Create
  <2>2. cases'[c] = [NoCase EXCEPT !.owner = a, !.status = "created"]
    BY <1>3 DEF Create, IInv, TypeOK
  <2>3. cases'[c] = [owner |-> a, status |-> "created", report |-> "none"]
    BY <2>2 DEF NoCase
  <2>4. cases'[c] # NoCase /\ cases'[c].owner = a /\ cases'[c].status = "created"
    BY <2>3 DEF NoCase
  <2>5. CreateWork(work[w])'
    BY <2>1, <2>4 DEF CreateWork, Doing, Idle, Owns
  <2>6. QED
    BY <2>5 DEF WorkOk
<1>4. CASE CheckCancel(w) \/ StopEarly(w) \/ Produce(w)
  <2> DEFINE c == work[w].case
  <2>1. CreateWork(work[w]) /\ work[w].stage \in {"running", "past"}
    BY <1>4, RunnerFacts DEF CheckCancel, StopEarly, Produce, RunAt
  <2>2. UNCHANGED <<rows, flags, history>>
    BY <1>4 DEF CheckCancel, StopEarly, Produce
  <2>3. PICK s, e : /\ RunTo(w, s, e) /\ s \in {"past", "ending"}
                    /\ s = "past" => e = "none"
                    /\ s = "ending" => e \in TerminalStatuses
                    /\ e = "cancelled" => c \in asked
    <3>1. CASE CheckCancel(w) /\ Cancelled(w)
      BY <1>0, <3>1 DEF CheckCancel, Cancelled, TerminalStatuses
    <3>2. CASE CheckCancel(w) /\ ~Cancelled(w)
      BY <3>2 DEF CheckCancel
    <3>3. CASE StopEarly(w) \/ Produce(w)
      BY <3>3, EndingsAssumption DEF StopEarly, Produce
    <3>4. QED
      BY <1>4, <3>1, <3>2, <3>3
  <2>4. work'[w] = [work[w] EXCEPT !.stage = s, !.ending = e]
    BY <1>0, <2>3 DEF RunTo
  <2>5. /\ work'[w].op = work[w].op /\ work'[w].by = work[w].by /\ work'[w].case = c
        /\ work'[w].stage = s /\ work'[w].ending = e
    BY <1>0, <2>4 DEF Work
  <2>6. CreateWork(work[w])'
    BY <2>1, <2>2, <2>3, <2>5 DEF CreateWork, rows, history, Owns
  <2>7. QED
    BY <2>6 DEF WorkOk
<1>5. CASE CommitRun(w)
  <2> DEFINE c == work[w].case
  <2>1. CreateWork(work[w]) /\ work[w].stage = "ending"
    BY <1>5, RunnerFacts DEF CommitRun, RunAt
  <2>2. /\ c \in CaseIds /\ cases[c] # NoCase /\ cases[c].owner = work[w].by
        /\ cases'[c] # NoCase /\ cases'[c].owner = cases[c].owner
    BY <2>1, CasesGrow DEF CreateWork, Owns
  <2>3. work'[w] = [work[w] EXCEPT !.stage = "ended", !.ending = work[w].ending] /\ asked' = asked
    BY <1>0, <1>5 DEF CommitRun, RunTo, history
  <2>4. /\ work'[w].op = work[w].op /\ work'[w].by = work[w].by /\ work'[w].case = c
        /\ work'[w].stage = "ended" /\ work'[w].ending = work[w].ending
    BY <1>0, <2>3 DEF Work
  <2>5. CreateWork(work[w])'
    BY <2>1, <2>2, <2>3, <2>4 DEF CreateWork, Owns
  <2>6. QED
    BY <2>5 DEF WorkOk
<1>6. ASSUME NEW a \in Analysts \cup {Anonymous}, NEW c \in CaseIds, w \in Threads, Reads(w, a, c)
      PROVE  WorkOk(w)'
  <2>1. UNCHANGED <<rows, flags, history>>
    BY <1>6 DEF Reads, CancelRead, FeedbackRead, LinkRead, Admit
  <2>2. CASE CancelRead(w, a, c)
    <3>1. work'[w] = Doing("cancel", a, c, Nobody, "admitted") /\ Owns(a, c)
      BY <1>0, <2>2 DEF CancelRead, Admit, CancelCase, ForOwner, Reply, NotAccessible
    <3>2. AdmittedWork(w, work[w])'
      BY <1>6, <2>1, <3>1 DEF AdmittedWork, Doing, Idle, Owns, rows
    <3>3. QED
      BY <3>2 DEF WorkOk
  <2>3. CASE FeedbackRead(w, a, c)
    <3>1. work'[w] = Doing("feedback", a, c, Nobody, "admitted") /\ Owns(a, c) /\ ~InFlight(c)
      BY <1>0, <2>3 DEF FeedbackRead, Admit, PostFeedback, ForOwner, Reply, NotAccessible
    <3>2. Ended(c)
      BY <3>1, OwnerFacts DEF InFlight, Ended, CaseRows
    <3>3. AdmittedWork(w, work[w])'
      BY <1>6, <2>1, <3>1, <3>2 DEF AdmittedWork, Doing, Idle, Owns, Ended, rows
    <3>4. QED
      BY <3>3 DEF WorkOk
  <2>4. ASSUME NEW d \in CaseIds, LinkRead(w, a, c, d)
        PROVE  WorkOk(w)'
    <3>1. work'[w] = Doing("link", a, c, d, "admitted") /\ Owns(a, c) /\ Owns(a, d)
      BY <1>0, <2>4 DEF LinkRead, Admit, PostCaseLink, ForOwner, Reply, NotAccessible
    <3>2. AdmittedWork(w, work[w])'
      BY <1>6, <2>1, <3>1 DEF AdmittedWork, Doing, Idle, Owns, rows
    <3>3. QED
      BY <3>2 DEF WorkOk
  <2>5. QED
    BY <1>6, <2>2, <2>3, <2>4 DEF Reads
<1>7. QED
  BY <1>1, <1>2, <1>3, <1>4, <1>5, <1>6, WorkSteps

(* Who runs a case after a step: its creator, or who ran it before. *)
LEMMA RunnerStays ==
  ASSUME IInv, [Next]_vars, NEW w \in Workers, NEW c \in CaseIds, Running(w, c)'
  PROVE  \/ Running(w, c)
         \/ \E a \in Analysts : Create(w, a, c)
<1>0. work \in [Workers -> Work]
  BY DEF IInv, TypeOK
<1>1. CASE work'[w] = work[w] \/ work'[w] = Idle
  BY <1>1 DEF Running, Idle
<1>2. ASSUME NEW a \in Analysts, NEW d \in CaseIds, Create(w, a, d)
      PROVE  d = c
  <2>1. work'[w] = Doing("create", a, d, Nobody, "running")
    BY <1>0, <1>2 DEF Create
  <2>2. QED
    BY <2>1 DEF Running, Doing, Idle
<1>3. CASE CheckCancel(w) \/ StopEarly(w) \/ Produce(w) \/ CommitRun(w)
  <2>1. PICK s, e : RunTo(w, s, e)
    BY <1>3 DEF CheckCancel, StopEarly, Produce, CommitRun
  <2>2. work'[w] = [work[w] EXCEPT !.stage = s, !.ending = e]
    BY <1>0, <2>1 DEF RunTo
  <2>3. QED
    BY <1>0, <2>2 DEF Running, Work
<1>4. ASSUME NEW a \in Analysts \cup {Anonymous}, NEW d \in CaseIds, Reads(w, a, d)
      PROVE  FALSE
  <2>1. ASSUME CancelRead(w, a, d)
        PROVE  work'[w].op = "cancel"
    BY <1>0, <2>1 DEF CancelRead, Admit, Doing, Idle
  <2>2. ASSUME FeedbackRead(w, a, d)
        PROVE  work'[w].op = "feedback"
    BY <1>0, <2>2 DEF FeedbackRead, Admit, Doing, Idle
  <2>3. ASSUME NEW e \in CaseIds, LinkRead(w, a, d, e)
        PROVE  work'[w].op = "link"
    BY <1>0, <2>3 DEF LinkRead, Admit, Doing, Idle
  <2>4. QED
    BY <1>4, <2>1, <2>2, <2>3 DEF Reads, Running
<1>5. QED
  BY <1>1, <1>2, <1>3, <1>4, WorkSteps

(* A case that is being run, or was lost, is not drawn again. *)
LEMMA CreateIsFresh ==
  ASSUME IInv, NEW w \in Workers, NEW a \in Analysts, NEW c \in CaseIds, Create(w, a, c)
  PROVE  /\ \A u \in Workers : ~Running(u, c) /\ (u # w => work'[u] = work[u])
         /\ cases[c] = NoCase /\ cases'[c].status = "created"
         /\ c \notin lost /\ c \notin asked /\ c \notin inTime
         /\ UNCHANGED <<flags, history>>
<1>1. cases[c] = NoCase
  BY DEF Create
<1>2. \A u \in Workers : ~Running(u, c)
  BY <1>1, RunnerFacts, NoCaseIsNoRow DEF Running
<1>3. \A u \in Workers : u # w => work'[u] = work[u]
  BY DEF Create, IInv, TypeOK
<1>4. cases'[c] = [NoCase EXCEPT !.owner = a, !.status = "created"]
  BY DEF Create, IInv, TypeOK
<1>5. cases'[c].status = "created"
  BY <1>4 DEF NoCase
<1>6. c \notin lost
  BY <1>1 DEF IInv, LostInv, NoCase
<1>7. c \notin asked /\ c \notin inTime
  BY <1>1 DEF IInv, InTimeInv, TypeOK
<1>8. UNCHANGED <<flags, history>>
  BY DEF Create
<1>9. QED
  BY <1>1, <1>2, <1>3, <1>5, <1>6, <1>7, <1>8

LEMMA OneRunnerStep ==
  ASSUME IInv, [Next]_vars
  PROVE  OneRunner'
<1> SUFFICES ASSUME NEW u \in Workers, NEW w \in Workers, NEW c \in CaseIds,
                    Running(u, c)', Running(w, c)'
             PROVE  u = w
  BY DEF OneRunner
<1>1. CASE Running(u, c) /\ Running(w, c)
  BY <1>1 DEF IInv, OneRunner
<1>2. ASSUME NEW x \in Workers, NEW y \in Workers, NEW a \in Analysts, Create(x, a, c), Running(y, c)'
      PROVE  x = y
  BY <1>2, CreateIsFresh DEF Running
<1>3. QED
  BY <1>1, <1>2, RunnerStays

(* A lost run is one that was under way and is not any more. *)
LEMMA LostSteps ==
  ASSUME IInv, [Next]_vars, NEW c \in lost', c \notin lost
  PROVE  \E w \in Workers : Running(w, c) /\ Uncommitted(w) /\ work'[w] = Idle /\ UNCHANGED rows
<1>0. work \in [Workers -> Work]
  BY DEF IInv, TypeOK
<1>1. ASSUME NEW w \in Workers, Refuse(w)
      PROVE  \E x \in Workers : Running(x, c) /\ Uncommitted(x) /\ work'[x] = Idle /\ UNCHANGED rows
  BY <1>0, <1>1 DEF Refuse, Uncommitted, Running, rows
<1>2. ASSUME NEW p \in Processes, Crash(p)
      PROVE  \E x \in Workers : Running(x, c) /\ Uncommitted(x) /\ work'[x] = Idle /\ UNCHANGED rows
  <2>1. p \subseteq Workers
    BY DEF Processes, Workers
  <2>2. QED
    BY <1>2, <2>1 DEF Crash, Uncommitted, Running, rows
<1>3. ASSUME NEW w \in Workers, RecordFeedback(w) \/ LinkCases(w) \/ Return(w) \/ CommitRun(w)
               \/ CheckCancel(w) \/ StopEarly(w) \/ Produce(w) \/ RequestCancel(w)
      PROVE  FALSE
  BY <1>3 DEF RecordFeedback, LinkCases, Return, CommitRun, CheckCancel, StopEarly, Produce,
              RequestCancel, history
<1>4. ASSUME NEW u, NEW a, NEW d, Create(u, a, d) \/ Reads(u, a, d)
      PROVE  FALSE
  BY <1>4 DEF Create, Reads, CancelRead, FeedbackRead, LinkRead, Admit, history
<1>5. CASE UNCHANGED vars
  BY <1>5 DEF vars, history
<1>6. QED
  BY <1>1, <1>2, <1>3, <1>4, <1>5, NextSplit DEF Quiet

LEMMA LostInvStep ==
  ASSUME IInv, [Next]_vars
  PROVE  LostInv'
<1> SUFFICES ASSUME NEW c \in lost'
             PROVE  cases'[c].status = "created" /\ \A w \in Workers : ~Running(w, c)'
  BY DEF LostInv
<1>1. CASE c \in lost
  <2>1. /\ c \in CaseIds /\ cases[c].status = "created" /\ cases[c] # NoCase
        /\ \A w \in Workers : ~Running(w, c)
    BY <1>1 DEF IInv, TypeOK, LostInv, NoCase
  <2>2. cases'[c] = cases[c]
    BY <2>1, CasesGrow, CommitterRuns
  <2>3. \A w \in Workers : ~Running(w, c)'
    BY <1>1, <2>1, RunnerStays, CreateIsFresh
  <2>4. QED
    BY <2>1, <2>2, <2>3
<1>2. CASE c \notin lost
  <2>1. PICK w \in Workers : Running(w, c) /\ Uncommitted(w) /\ work'[w] = Idle /\ UNCHANGED rows
    BY <1>2, LostSteps
  <2>2. c \in CaseIds /\ cases[c].status = "created"
    BY <2>1, RunnerFacts DEF Running, Uncommitted, CreateWork
  <2>3. ASSUME NEW u \in Workers, Running(u, c)'
        PROVE  FALSE
    <3>1. Running(u, c)
      BY <2>1, <2>2, <2>3, RunnerStays, CreateIsFresh
    <3>2. u = w
      BY <2>1, <2>2, <3>1 DEF IInv, OneRunner
    <3>3. QED
      BY <2>1, <2>3, <3>2 DEF Running, Idle
  <2>4. QED
    BY <2>1, <2>2, <2>3 DEF rows
<1>3. QED
  BY <1>1, <1>2

(* The set keeps the request of a run for as long as that run goes on. *)
LEMMA FlagStays ==
  ASSUME IInv, [Next]_vars, NEW c \in flags, NEW w \in Threads, Running(w, c), Running(w, c)'
  PROVE  c \in flags'
<1>0. w \in Workers /\ work \in [Workers -> Work] /\ c \in CaseIds /\ work'[w] # Idle
  BY DEF Workers, IInv, TypeOK, Running, Idle
<1>1. ASSUME NEW u \in Workers, Return(u) \/ Refuse(u)
      PROVE  c \in flags'
  <2>1. u # w
    BY <1>0, <1>1 DEF Return, Refuse
  <2>2. ~Running(u, c)
    BY <1>0, <2>1 DEF IInv, OneRunner
  <2>3. QED
    BY <1>1, <2>2 DEF Return, Refuse, Discard, RunAt, Uncommitted, Running
<1>2. ASSUME NEW p \in Processes, Crash(p)
      PROVE  c \in flags'
  BY <1>0, <1>2 DEF Crash
<1>3. ASSUME NEW u \in Workers, RecordFeedback(u) \/ LinkCases(u) \/ CommitRun(u)
               \/ CheckCancel(u) \/ StopEarly(u) \/ Produce(u) \/ RequestCancel(u)
      PROVE  c \in flags'
  BY <1>3 DEF RecordFeedback, LinkCases, CommitRun, CheckCancel, StopEarly, Produce, RequestCancel
<1>4. ASSUME NEW u, NEW a, NEW d, Create(u, a, d) \/ Reads(u, a, d)
      PROVE  c \in flags'
  BY <1>4 DEF Create, Reads, CancelRead, FeedbackRead, LinkRead, Admit
<1>5. CASE UNCHANGED vars
  BY <1>5 DEF vars
<1>6. QED
  BY <1>1, <1>2, <1>3, <1>4, <1>5, NextSplit DEF Quiet

(* Only a request changes what was asked for. *)
LEMMA AskedSteps ==
  ASSUME IInv, [Next]_vars
  PROVE  \/ asked' = asked /\ inTime' = inTime /\ flags' \subseteq flags
         \/ \E w \in Workers : RequestCancel(w)
<1>1. ASSUME NEW u \in Workers, Return(u) \/ Refuse(u)
      PROVE  asked' = asked /\ inTime' = inTime /\ flags' \subseteq flags
  BY <1>1 DEF Return, Refuse, Discard, history
<1>2. ASSUME NEW p \in Processes, Crash(p)
      PROVE  asked' = asked /\ inTime' = inTime /\ flags' \subseteq flags
  BY <1>2 DEF Crash
<1>3. ASSUME NEW u \in Workers, RecordFeedback(u) \/ LinkCases(u) \/ CommitRun(u)
               \/ CheckCancel(u) \/ StopEarly(u) \/ Produce(u)
      PROVE  asked' = asked /\ inTime' = inTime /\ flags' \subseteq flags
  BY <1>3 DEF RecordFeedback, LinkCases, CommitRun, CheckCancel, StopEarly, Produce, history
<1>4. ASSUME NEW u, NEW a, NEW d, Create(u, a, d) \/ Reads(u, a, d)
      PROVE  asked' = asked /\ inTime' = inTime /\ flags' \subseteq flags
  BY <1>4 DEF Create, Reads, CancelRead, FeedbackRead, LinkRead, Admit, history
<1>5. CASE UNCHANGED vars
  BY <1>5 DEF vars, history
<1>6. QED
  BY <1>1, <1>2, <1>3, <1>4, <1>5, NextSplit DEF Quiet

(* What InTimeInv says of one worker and one case. *)
StillInTime(w, c) ==
  Running(w, c) =>
    /\ w \in Threads
    /\ work[w].stage # "past"
    /\ work[w].ending # "completed"
    /\ work[w].stage = "running" => c \in flags

LEMMA StillInTimeStep ==
  ASSUME IInv, [Next]_vars, NEW c \in inTime, NEW w \in Workers
  PROVE  StillInTime(w, c)'
<1> SUFFICES ASSUME Running(w, c)' PROVE StillInTime(w, c)'
  BY DEF StillInTime
<1>0. work \in [Workers -> Work] /\ c \in CaseIds
  BY DEF IInv, TypeOK
<1>1. Running(w, c) /\ StillInTime(w, c)
  BY <1>0, RunnerStays, CreateIsFresh DEF IInv, InTimeInv, StillInTime
<1>2. w \in Threads
  BY <1>1 DEF StillInTime
<1>3. c \in flags => c \in flags'
  BY <1>1, <1>2, FlagStays
<1>4. CASE work'[w] = work[w]
  BY <1>1, <1>3, <1>4 DEF StillInTime
<1>5. CASE CheckCancel(w)
  <2>1. Cancelled(w)
    BY <1>1, <1>2, <1>5 DEF CheckCancel, RunAt, Cancelled, StillInTime, Running
  <2>2. work'[w] = [work[w] EXCEPT !.stage = "ending", !.ending = "cancelled"]
    BY <1>0, <1>5, <2>1 DEF CheckCancel, RunTo
  <2>3. QED
    BY <1>0, <1>2, <2>2 DEF Work, StillInTime
<1>6. CASE StopEarly(w)
  <2>1. PICK s \in Endings \ {"completed", "cancelled"} : RunTo(w, "ending", s)
    BY <1>6 DEF StopEarly
  <2>2. work'[w] = [work[w] EXCEPT !.stage = "ending", !.ending = s]
    BY <1>0, <2>1 DEF RunTo
  <2>3. QED
    BY <1>0, <1>2, <2>2 DEF Work, StillInTime
<1>7. CASE Produce(w)
  BY <1>1, <1>7 DEF Produce, RunAt, StillInTime
<1>8. CASE CommitRun(w)
  <2>1. work'[w] = [work[w] EXCEPT !.stage = "ended", !.ending = work[w].ending]
    BY <1>0, <1>8 DEF CommitRun, RunTo
  <2>2. QED
    BY <1>0, <1>1, <1>2, <2>1 DEF Work, StillInTime
<1>9. CASE work'[w] = Idle
  BY <1>9 DEF Running, Idle
<1>10. ASSUME NEW a, NEW d \in CaseIds, Create(w, a, d) \/ Reads(w, a, d)
      PROVE  FALSE
  BY <1>1, <1>10 DEF Create, Reads, CancelRead, FeedbackRead, LinkRead, Admit, Running, Idle
<1>11. QED
  BY <1>4, <1>5, <1>6, <1>7, <1>8, <1>9, <1>10, WorkSteps

LEMMA InTimeInvStep ==
  ASSUME IInv, [Next]_vars
  PROVE  InTimeInv'
<1>0. /\ flags \subseteq asked /\ asked \subseteq CaseIds /\ inTime \subseteq asked
      /\ \A c \in asked : cases[c] # NoCase
      /\ \A c \in inTime : cases[c].status # "completed"
  BY DEF IInv, InTimeInv, TypeOK
<1>1. \A c \in asked : cases'[c] # NoCase
  BY <1>0, CasesGrow
<1>2. ASSUME NEW c \in inTime
      PROVE  cases'[c].status # "completed" /\ \A w \in Workers : StillInTime(w, c)'
  <2>1. ASSUME NEW w \in Workers, CommitRun(w), work[w].case = c
        PROVE  work[w].ending # "completed"
    BY <1>0, <2>1, CommitterRuns DEF IInv, InTimeInv
  <2>2. cases'[c].status # "completed"
    BY <1>0, <2>1, CasesGrow
  <2>3. QED
    BY <2>2, StillInTimeStep
<1>3. CASE asked' = asked /\ inTime' = inTime /\ flags' \subseteq flags
  BY <1>0, <1>1, <1>2, <1>3 DEF InTimeInv, StillInTime
<1>4. ASSUME NEW t \in Workers, RequestCancel(t)
      PROVE  InTimeInv'
  <2>0. PICK c : c = work[t].case
    OBVIOUS
  <2>1. /\ c \in CaseIds /\ cases[c] # NoCase /\ work[t].op = "cancel"
        /\ cases' = cases
    BY <2>0, <1>4, AdmittedFacts, NoCaseIsNoRow DEF RequestCancel, At, rows
  <2>2. /\ flags' = flags \cup {c} /\ asked' = asked \cup {c}
        /\ inTime' = inTime \cup { d \in {c} : \E u \in Threads : Running(u, d) /\ RunAt(u, "running") }
        /\ work' = [work EXCEPT ![t] = Idle]
    BY <2>0, <1>4 DEF RequestCancel
  <2>3. ASSUME NEW u \in Threads, Running(u, c), RunAt(u, "running")
        PROVE  cases'[c].status # "completed" /\ \A w \in Workers : StillInTime(w, c)'
    <3>1. u \in Workers /\ u # t
      BY <2>1, <2>3 DEF Workers, Running
    <3>2. cases[c].status = "created" /\ CreateWork(work[u])
      BY <2>3, <3>1, RunnerFacts DEF Running, RunAt, CreateWork
    <3>3. ASSUME NEW w \in Workers, Running(w, c)'
          PROVE  w = u
      <4>1. Running(w, c)
        BY <2>1, <3>3, RunnerStays DEF Create
      <4>2. QED
        BY <2>1, <2>3, <3>1, <4>1 DEF IInv, OneRunner
    <3>4. work'[u] = work[u] /\ work[u].stage = "running"
      BY <2>2, <2>3, <3>1 DEF IInv, TypeOK, RunAt
    <3>5. work[u].ending # "completed"
      BY <3>2, <3>4 DEF CreateWork
    <3>6. QED
      BY <2>1, <2>2, <2>3, <3>2, <3>3, <3>4, <3>5 DEF StillInTime
  <2>4. \A d \in inTime' : cases'[d].status # "completed" /\ \A w \in Workers : StillInTime(w, d)'
    BY <1>2, <2>2, <2>3
  <2>5. \A d \in asked' : cases'[d] # NoCase
    BY <1>0, <2>1, <2>2
  <2>6. QED
    BY <1>0, <2>2, <2>4, <2>5 DEF InTimeInv, StillInTime
<1>5. QED
  BY <1>3, <1>4, AskedSteps

LEMMA CaseInvStep ==
  ASSUME IInv, [Next]_vars
  PROVE  CaseInv'
<1>0. cases \in [CaseIds -> CaseRows \cup {NoCase}] /\ CaseInv
  BY DEF IInv, TypeOK
<1>1. CASE UNCHANGED cases
  BY <1>0, <1>1 DEF CaseInv
<1>2. ASSUME NEW w \in Workers, NEW a \in Analysts, NEW c \in CaseIds, Create(w, a, c)
      PROVE  CaseInv'
  <2>1. cases' = [cases EXCEPT ![c] = [NoCase EXCEPT !.owner = a, !.status = "created"]]
    BY <1>2 DEF Create
  <2>2. /\ [NoCase EXCEPT !.owner = a, !.status = "created"].report = "none"
        /\ [NoCase EXCEPT !.owner = a, !.status = "created"].status = "created"
    BY DEF NoCase
  <2>3. \A d \in CaseIds : IF d = c THEN cases'[d].report = "none" /\ cases'[d].status = "created"
                                   ELSE cases'[d] = cases[d]
    BY <1>0, <2>1, <2>2
  <2>4. QED
    BY <1>0, <2>3 DEF CaseInv
<1>3. ASSUME NEW w \in Workers, CommitRun(w)
      PROVE  CaseInv'
  <2> DEFINE c == work[w].case
             s == work[w].ending
  <2>1. c \in CaseIds /\ cases[c] \in CaseRows /\ s \in TerminalStatuses
    BY <1>3, RunnerFacts DEF CommitRun, RunAt, CreateWork
  <2>2. PICK r \in MadeReports(s) :
          cases' = [cases EXCEPT ![c] = [cases[c] EXCEPT !.status = s, !.report = r]]
    BY <1>0, <1>3, <2>1 DEF CommitRun
  <2>3. cases'[c].status = s /\ cases'[c].report = r
    BY <1>0, <2>1, <2>2 DEF CaseRows
  <2>4. \A d \in CaseIds : d # c => cases'[d] = cases[d]
    BY <1>0, <2>1, <2>2
  <2>5. s \notin {"none", "created"}
    BY <2>1 DEF TerminalStatuses
  <2>6. QED
    BY <1>0, <2>2, <2>3, <2>4, <2>5, ReportKinds DEF CaseInv
<1>4. QED
  BY <1>1, <1>2, <1>3, RowSteps DEF rows, RecordFeedback, LinkCases

LEMMA RowInvStep ==
  ASSUME IInv, [Next]_vars
  PROVE  RowInv'
<1>0. RowInv /\ RowsTyped
  BY TypedSplit DEF IInv
<1>1. /\ \A l \in caseLinks : Owns(l.by, l.a)' /\ Owns(l.by, l.b)'
      /\ \A f \in feedback : Owns(f.by, f.case)'
  <2>1. \A l \in caseLinks : l.a \in CaseIds /\ l.b \in CaseIds
    BY <1>0 DEF RowsTyped
  <2>2. \A f \in feedback : f.case \in CaseIds
    BY <1>0 DEF RowsTyped
  <2>3. \A a : \A c \in CaseIds : Owns(a, c) => Owns(a, c)'
    BY OwnsStays
  <2>4. QED
    BY <1>0, <2>1, <2>2, <2>3 DEF RowInv
<1>2. CASE UNCHANGED <<evidence, claims, supports, caseLinks, feedback>>
  BY <1>0, <1>1, <1>2 DEF RowInv
<1>3. ASSUME NEW w \in Workers, CommitRun(w)
      PROVE  RowInv'
  <2> DEFINE c == work[w].case
  <2>1. \A r \in evidence' \cup claims' : r.id = r.case
    BY <1>0, <1>3 DEF CommitRun, Row, RowInv
  <2>2. \A r \in RowsOf(evidence', c) : r.id = c
    BY <2>1 DEF RowsOf
  <2>3. supports' = supports \cup { [ claim |-> c, evidence |-> r.id ] : r \in RowsOf(evidence', c) }
    BY <1>3 DEF CommitRun
  <2>4. \A s \in supports' : s.claim = s.evidence
    BY <1>0, <2>2, <2>3 DEF RowInv
  <2>5. UNCHANGED <<caseLinks, feedback>>
    BY <1>3 DEF CommitRun
  <2>6. QED
    BY <1>1, <2>1, <2>4, <2>5 DEF RowInv
<1>4. ASSUME NEW w \in Workers, RecordFeedback(w)
      PROVE  RowInv'
  <2>1. Owns(work[w].by, work[w].case) /\ cases' = cases
    BY <1>4, AdmittedFacts DEF RecordFeedback, At, AdmittedWork
  <2>2. feedback' = feedback \cup {[ case |-> work[w].case, by |-> work[w].by ]}
    BY <1>4 DEF RecordFeedback
  <2>3. \A f \in feedback' : Owns(f.by, f.case)'
    BY <1>1, <2>1, <2>2 DEF Owns
  <2>4. QED
    BY <1>0, <1>1, <1>4, <2>3 DEF RecordFeedback, RowInv
<1>5. ASSUME NEW w \in Workers, LinkCases(w)
      PROVE  RowInv'
  <2>1. Owns(work[w].by, work[w].case) /\ Owns(work[w].by, work[w].other) /\ cases' = cases
    BY <1>5, AdmittedFacts DEF LinkCases, At, AdmittedWork
  <2>2. caseLinks' = caseLinks \cup {[ a |-> work[w].case, b |-> work[w].other, by |-> work[w].by ]}
    BY <1>5 DEF LinkCases
  <2>3. \A l \in caseLinks' : Owns(l.by, l.a)' /\ Owns(l.by, l.b)'
    BY <1>1, <2>1, <2>2 DEF Owns
  <2>4. QED
    BY <1>0, <1>1, <1>5, <2>3 DEF LinkCases, RowInv
<1>6. QED
  BY <1>2, <1>3, <1>4, <1>5, RowSteps DEF rows, Create

-----------------------------------------------------------------------------
(* The trail and the rows.                                                 *)

LinkedIn(trail) == { e.other : e \in { f \in trail : f.type = "case_linked" } }
FeedbackIn(trail) == { e.actor : e \in { f \in trail : f.type = "feedback_recorded" } }
HasEnding(trail) == \E e \in trail : e.type = "report_generated"

LinkedBy(links, c) ==
  { l.b : l \in { k \in links : k.a = c } } \cup { l.a : l \in { k \in links : k.b = c } }
FeedbackFor(notes, c) == { f.by : f \in { g \in notes : g.case = c } }

TrailOk(c) ==
  /\ \A e \in audit[c] : e.actor \in {cases[c].owner, "system"}
  /\ LinkedIn(audit[c]) = LinkedBy(caseLinks, c)
  /\ FeedbackIn(audit[c]) = FeedbackFor(feedback, c)
  /\ Ended(c) <=> HasEnding(audit[c])

LEMMA TrailMatchesRowsIs == TrailMatchesRows <=> \A c \in CaseIds : TrailOk(c)
BY DEF TrailMatchesRows, TrailOk, LinkedIn, FeedbackIn, HasEnding, LinkedBy, FeedbackFor

LEMMA EventFields ==
  ASSUME NEW type, NEW actor, NEW other
  PROVE  /\ Event(type, actor, other).type = type
         /\ Event(type, actor, other).actor = actor
         /\ Event(type, actor, other).other = other
BY DEF Event

(* Two trails together tell what each of them tells. *)
LEMMA TrailUnion ==
  ASSUME NEW s, NEW t
  PROVE  /\ LinkedIn(s \cup t) = LinkedIn(s) \cup LinkedIn(t)
         /\ FeedbackIn(s \cup t) = FeedbackIn(s) \cup FeedbackIn(t)
BY DEF LinkedIn, FeedbackIn

(* What one event tells. *)
LEMMA OneEvent ==
  ASSUME NEW type, NEW actor, NEW other
  PROVE  /\ LinkedIn({Event(type, actor, other)}) = (IF type = "case_linked" THEN {other} ELSE {})
         /\ FeedbackIn({Event(type, actor, other)}) = (IF type = "feedback_recorded" THEN {actor} ELSE {})
         /\ HasEnding({Event(type, actor, other)}) <=> type = "report_generated"
<1>1. PICK e : e = Event(type, actor, other)
  OBVIOUS
<1>2. e.type = type /\ e.actor = actor /\ e.other = other
  BY <1>1, EventFields
<1>3. LinkedIn({e}) = (IF type = "case_linked" THEN {other} ELSE {})
  BY <1>2 DEF LinkedIn
<1>4. FeedbackIn({e}) = (IF type = "feedback_recorded" THEN {actor} ELSE {})
  BY <1>2 DEF FeedbackIn
<1>5. HasEnding({e}) <=> type = "report_generated"
  BY <1>2 DEF HasEnding
<1>6. QED
  BY <1>1, <1>3, <1>4, <1>5

(* The same of rows. *)
LEMMA RowUnion ==
  ASSUME NEW s, NEW t, NEW c
  PROVE  /\ LinkedBy(s \cup t, c) = LinkedBy(s, c) \cup LinkedBy(t, c)
         /\ FeedbackFor(s \cup t, c) = FeedbackFor(s, c) \cup FeedbackFor(t, c)
BY DEF LinkedBy, FeedbackFor

OtherOf(x, y, c) == (IF c = x THEN {y} ELSE {}) \cup (IF c = y THEN {x} ELSE {})

LEMMA OneLink ==
  ASSUME NEW x, NEW y, NEW z, NEW c
  PROVE  LinkedBy({[ a |-> x, b |-> y, by |-> z ]}, c) = OtherOf(x, y, c)
<1>1. PICK l : l = [ a |-> x, b |-> y, by |-> z ]
  OBVIOUS
<1>2. l.a = x /\ l.b = y
  BY <1>1
<1>3. LinkedBy({l}, c) = OtherOf(x, y, c)
  BY <1>2 DEF LinkedBy, OtherOf
<1>4. QED
  BY <1>1, <1>3

LEMMA OneFeedback ==
  ASSUME NEW d, NEW a, NEW c
  PROVE  FeedbackFor({[ case |-> d, by |-> a ]}, c) = (IF c = d THEN {a} ELSE {})
<1>1. PICK f : f = [ case |-> d, by |-> a ]
  OBVIOUS
<1>2. f.case = d /\ f.by = a
  BY <1>1
<1>3. FeedbackFor({f}, c) = (IF c = d THEN {a} ELSE {})
  BY <1>2 DEF FeedbackFor
<1>4. QED
  BY <1>1, <1>3

(* The events of a link tell each of its cases of the other. *)
LEMMA LinkTells ==
  ASSUME NEW k, NEW c
  PROVE  /\ LinkedIn(LinkEvents(k, c)) = OtherOf(k.case, k.other, c)
         /\ FeedbackIn(LinkEvents(k, c)) = {} /\ ~HasEnding(LinkEvents(k, c))
<1> DEFINE first == IF c = k.case THEN {Event("case_linked", k.by, k.other)} ELSE {}
           second == IF c = k.other THEN {Event("case_linked", k.by, k.case)} ELSE {}
<1>1. LinkedIn({}) = {} /\ FeedbackIn({}) = {} /\ ~HasEnding({})
  BY DEF LinkedIn, FeedbackIn, HasEnding
<1>2. \A x : /\ LinkedIn({Event("case_linked", k.by, x)}) = {x}
             /\ FeedbackIn({Event("case_linked", k.by, x)}) = {}
             /\ ~HasEnding({Event("case_linked", k.by, x)})
  BY OneEvent
<1>3. /\ LinkedIn(first) = (IF c = k.case THEN {k.other} ELSE {})
      /\ FeedbackIn(first) = {} /\ ~HasEnding(first)
  BY <1>1, <1>2
<1>4. /\ LinkedIn(second) = (IF c = k.other THEN {k.case} ELSE {})
      /\ FeedbackIn(second) = {} /\ ~HasEnding(second)
  BY <1>1, <1>2
<1>5. LinkEvents(k, c) = first \cup second
  BY DEF LinkEvents
<1>6. QED
  <2> HIDE DEF first, second
  <2>1. ~HasEnding(first \cup second)
    BY <1>3, <1>4 DEF HasEnding
  <2>2. QED
    BY <1>3, <1>4, <1>5, <2>1, TrailUnion DEF OtherOf

(* What a trail tells agrees with the rows. *)
Tells(trail, links, notes, owner, status, c) ==
  /\ \A e \in trail : e.actor \in {owner, "system"}
  /\ LinkedIn(trail) = LinkedBy(links, c)
  /\ FeedbackIn(trail) = FeedbackFor(notes, c)
  /\ status \in TerminalStatuses <=> HasEnding(trail)

LEMMA FirstEventTells ==
  ASSUME NEW links, NEW notes, NEW owner, NEW c,
         LinkedBy(links, c) = {}, FeedbackFor(notes, c) = {}
  PROVE  Tells({Event("case_created", owner, Nobody)}, links, notes, owner, "created", c)
<1> DEFINE e == Event("case_created", owner, Nobody)
<1>1. LinkedIn({e}) = {} /\ FeedbackIn({e}) = {} /\ ~HasEnding({e})
  BY OneEvent
<1>2. e.actor = owner
  BY EventFields
<1>3. "created" \notin TerminalStatuses
  BY DEF TerminalStatuses
<1>4. QED
  BY <1>1, <1>2, <1>3 DEF Tells

LEMMA EndingTells ==
  ASSUME NEW trail, NEW links, NEW notes, NEW owner, NEW status, NEW c,
         NEW ending \in TerminalStatuses,
         Tells(trail, links, notes, owner, status, c)
  PROVE  Tells(trail \cup {Event("report_generated", "system", Nobody)}, links, notes, owner, ending, c)
<1> DEFINE e == Event("report_generated", "system", Nobody)
<1>1. LinkedIn({e}) = {} /\ FeedbackIn({e}) = {} /\ HasEnding({e})
  BY OneEvent
<1>2. e.actor = "system"
  BY EventFields
<1>3. HasEnding(trail \cup {e})
  BY <1>1 DEF HasEnding
<1>4. /\ LinkedIn(trail \cup {e}) = LinkedIn(trail) /\ FeedbackIn(trail \cup {e}) = FeedbackIn(trail)
  <2>1. /\ LinkedIn(trail \cup {e}) = LinkedIn(trail) \cup LinkedIn({e})
        /\ FeedbackIn(trail \cup {e}) = FeedbackIn(trail) \cup FeedbackIn({e})
    BY TrailUnion
  <2>2. QED
    BY <1>1, <2>1
<1>5. QED
  BY <1>2, <1>3, <1>4 DEF Tells

LEMMA FeedbackTells ==
  ASSUME NEW trail, NEW links, NEW notes, NEW owner, NEW status, NEW c,
         Tells(trail, links, notes, owner, status, c)
  PROVE  Tells(trail \cup {Event("feedback_recorded", owner, Nobody)}, links,
               notes \cup {[ case |-> c, by |-> owner ]}, owner, status, c)
<1> DEFINE e == Event("feedback_recorded", owner, Nobody)
           f == [ case |-> c, by |-> owner ]
<1>1. LinkedIn({e}) = {} /\ FeedbackIn({e}) = {owner} /\ ~HasEnding({e})
  BY OneEvent
<1>2. e.actor = owner
  BY EventFields
<1> HIDE DEF e, f
<1>3. HasEnding(trail \cup {e}) <=> HasEnding(trail)
  BY <1>1 DEF HasEnding
<1>4. /\ LinkedIn(trail \cup {e}) = LinkedIn(trail) /\ FeedbackIn(trail \cup {e}) = FeedbackIn(trail) \cup {owner}
  <2>1. /\ LinkedIn(trail \cup {e}) = LinkedIn(trail) \cup LinkedIn({e})
        /\ FeedbackIn(trail \cup {e}) = FeedbackIn(trail) \cup FeedbackIn({e})
    BY TrailUnion
  <2>2. QED
    BY <1>1, <2>1
<1>5. FeedbackFor({f}, c) = {owner}
  BY OneFeedback DEF f
<1>6. /\ FeedbackFor(notes \cup {f}, c) = FeedbackFor(notes, c) \cup {owner}
  BY <1>5, RowUnion
<1>7. Tells(trail \cup {e}, links, notes \cup {f}, owner, status, c)
  BY <1>2, <1>3, <1>4, <1>6 DEF Tells
<1>8. QED
  BY <1>7 DEF e, f

LEMMA OthersFeedbackTells ==
  ASSUME NEW trail, NEW links, NEW notes, NEW owner, NEW status, NEW c, NEW d, NEW a, c # d,
         Tells(trail, links, notes, owner, status, c)
  PROVE  Tells(trail, links, notes \cup {[ case |-> d, by |-> a ]}, owner, status, c)
<1> DEFINE f == [ case |-> d, by |-> a ]
<1>1. FeedbackFor({f}, c) = {}
  BY OneFeedback
<1> HIDE DEF f
<1>2. FeedbackFor(notes \cup {f}, c) = FeedbackFor(notes, c)
  BY <1>1, RowUnion
<1>3. Tells(trail, links, notes \cup {f}, owner, status, c)
  BY <1>2 DEF Tells
<1>4. QED
  BY <1>3 DEF f

LEMMA LinkingTells ==
  ASSUME NEW trail, NEW links, NEW notes, NEW owner, NEW status, NEW c, NEW k,
         Tells(trail, links, notes, owner, status, c),
         c \in {k.case, k.other} => k.by = owner
  PROVE  Tells(trail \cup LinkEvents(k, c),
               links \cup {[ a |-> k.case, b |-> k.other, by |-> k.by ]}, notes, owner, status, c)
<1> DEFINE more == LinkEvents(k, c)
<1>1. /\ LinkedIn(more) = OtherOf(k.case, k.other, c) /\ FeedbackIn(more) = {} /\ ~HasEnding(more)
  BY LinkTells
<1>2. \A e \in more : e.actor = owner
  BY EventFields DEF LinkEvents
<1> HIDE DEF more
<1>3. HasEnding(trail \cup more) <=> HasEnding(trail)
  BY <1>1 DEF HasEnding
<1>4. /\ LinkedIn(trail \cup more) = LinkedIn(trail) \cup OtherOf(k.case, k.other, c)
      /\ FeedbackIn(trail \cup more) = FeedbackIn(trail)
  <2>1. /\ LinkedIn(trail \cup more) = LinkedIn(trail) \cup LinkedIn(more)
        /\ FeedbackIn(trail \cup more) = FeedbackIn(trail) \cup FeedbackIn(more)
    BY TrailUnion
  <2>2. QED
    BY <1>1, <2>1
<1> DEFINE l == [ a |-> k.case, b |-> k.other, by |-> k.by ]
<1>5. LinkedBy({l}, c) = OtherOf(k.case, k.other, c)
  BY OneLink
<1> HIDE DEF l
<1>6. LinkedBy(links \cup {l}, c) = LinkedBy(links, c) \cup OtherOf(k.case, k.other, c)
  BY <1>5, RowUnion
<1>7. Tells(trail \cup more, links \cup {l}, notes, owner, status, c)
  BY <1>2, <1>3, <1>4, <1>6 DEF Tells
<1>8. QED
  BY <1>7 DEF more, l

LEMMA TrailStep ==
  ASSUME IInv, [Next]_vars
  PROVE  TrailMatchesRows'
<1> SUFFICES ASSUME NEW c \in CaseIds PROVE TrailOk(c)'
  BY DEF TrailMatchesRows, TrailOk, LinkedIn, FeedbackIn, HasEnding, LinkedBy, FeedbackFor
<1>0. /\ TrailOk(c) /\ RowsTyped /\ RowInv
  BY TrailMatchesRowsIs, TypedSplit DEF IInv
<1>a. PICK t, l, f, o, e : /\ t = audit[c] /\ l = caseLinks /\ f = feedback
                           /\ o = cases[c].owner /\ e = cases[c].status
  OBVIOUS
<1>b. PICK nt, nl, nf, no, ne : /\ nt = audit'[c] /\ nl = caseLinks' /\ nf = feedback'
                                /\ no = cases'[c].owner /\ ne = cases'[c].status
  OBVIOUS
<1>c. Tells(t, l, f, o, e, c)
  BY <1>0, <1>a DEF TrailOk, Tells, LinkedIn, FeedbackIn, HasEnding, LinkedBy, FeedbackFor, Ended
<1>d. SUFFICES Tells(nt, nl, nf, no, ne, c)
  BY <1>b DEF TrailOk, Tells, LinkedIn, FeedbackIn, HasEnding, LinkedBy, FeedbackFor, Ended
<1>1. CASE UNCHANGED rows
  BY <1>a, <1>b, <1>c, <1>1 DEF rows, Ended
<1>2. ASSUME NEW w \in Workers, NEW a \in Analysts, NEW d \in CaseIds, Create(w, a, d)
      PROVE  Tells(nt, nl, nf, no, ne, c)
  <2>1. /\ cases' = [cases EXCEPT ![d] = [NoCase EXCEPT !.owner = a, !.status = "created"]]
        /\ audit' = [audit EXCEPT ![d] = {Event("case_created", a, Nobody)}]
        /\ nl = l /\ nf = f /\ cases[d] = NoCase
    BY <1>2, <1>a, <1>b DEF Create
  <2>2. CASE c # d
    <3>1. nt = t /\ cases'[c] = cases[c]
      BY <1>0, <1>a, <1>b, <2>1, <2>2 DEF RowsTyped, AuditTyped
    <3>2. QED
      BY <1>a, <1>b, <1>c, <2>1, <3>1 DEF Ended
  <2>3. CASE c = d
    <3>1. cases'[c] = [NoCase EXCEPT !.owner = a, !.status = "created"]
      BY <1>0, <2>1, <2>3 DEF RowsTyped
    <3>2. no = a /\ ne = "created"
      BY <1>b, <3>1 DEF NoCase
    <3>3. nt = {Event("case_created", a, Nobody)}
      BY <1>0, <1>b, <2>1, <2>3 DEF RowsTyped, AuditTyped
    <3>4. \A k \in l : k.a # c /\ k.b # c
      BY <1>0, <1>a, <2>1, <2>3 DEF RowInv, Owns
    <3>5. \A k \in f : k.case # c
      BY <1>0, <1>a, <2>1, <2>3 DEF RowInv, Owns
    <3>6. LinkedBy(nl, c) = {} /\ FeedbackFor(nf, c) = {}
      BY <2>1, <3>4, <3>5 DEF LinkedBy, FeedbackFor
    <3>7. QED
      BY <3>2, <3>3, <3>6, FirstEventTells
  <2>4. QED
    BY <2>2, <2>3
<1>3. ASSUME NEW w \in Workers, CommitRun(w)
      PROVE  Tells(nt, nl, nf, no, ne, c)
  <2>0. PICK d : d = work[w].case
    OBVIOUS
  <2>1. d \in CaseIds /\ cases[d] \in CaseRows /\ work[w].ending \in TerminalStatuses
    BY <2>0, <1>3, RunnerFacts DEF CommitRun, RunAt, CreateWork
  <2>2. /\ audit' = [audit EXCEPT ![d] = @ \cup {Event("report_generated", "system", Nobody)}]
        /\ nl = l /\ nf = f
    BY <2>0, <1>3, <1>a, <1>b DEF CommitRun
  <2>3. CASE c # d
    <3>1. nt = t /\ cases'[c] = cases[c]
      BY <1>0, <1>3, <1>a, <1>b, <2>0, <2>2, <2>3 DEF CommitRun, RowsTyped, AuditTyped
    <3>2. QED
      BY <1>a, <1>b, <1>c, <2>2, <3>1 DEF Ended
  <2>4. CASE c = d
    <3>1. no = o /\ ne \in TerminalStatuses
      BY <2>0, <2>1, <2>4, <1>3, <1>0, <1>a, <1>b DEF CommitRun, RowsTyped, CaseRows
    <3>2. nt = t \cup {Event("report_generated", "system", Nobody)}
      BY <1>0, <1>a, <1>b, <2>1, <2>2, <2>4 DEF RowsTyped, AuditTyped
    <3>3. QED
      BY <1>c, <2>2, <3>1, <3>2, EndingTells
  <2>5. QED
    BY <2>3, <2>4
<1>4. ASSUME NEW w \in Workers, RecordFeedback(w)
      PROVE  Tells(nt, nl, nf, no, ne, c)
  <2>0. PICK d, a : d = work[w].case /\ a = work[w].by
    OBVIOUS
  <2>1. d \in CaseIds /\ cases[d].owner = a
    BY <2>0, <1>4, AdmittedFacts DEF RecordFeedback, At
  <2>2. /\ audit' = [audit EXCEPT ![d] = @ \cup {Event("feedback_recorded", a, Nobody)}]
        /\ nf = f \cup {[ case |-> d, by |-> a ]}
        /\ cases' = cases /\ nl = l
    BY <2>0, <1>4, <1>a, <1>b DEF RecordFeedback
  <2>3. no = o /\ ne = e
    BY <1>a, <1>b, <2>2 DEF Ended
  <2>4. CASE c # d
    <3>1. nt = t
      BY <1>0, <1>a, <1>b, <2>1, <2>2, <2>4 DEF RowsTyped, AuditTyped
    <3>2. QED
      BY <1>c, <2>2, <2>3, <2>4, <3>1, OthersFeedbackTells
  <2>5. CASE c = d
    <3>1. nt = t \cup {Event("feedback_recorded", o, Nobody)} /\ a = o
      BY <1>0, <1>a, <1>b, <2>1, <2>2, <2>5 DEF RowsTyped, AuditTyped
    <3>2. QED
      BY <1>c, <2>2, <2>3, <2>5, <3>1, FeedbackTells
  <2>6. QED
    BY <2>4, <2>5
<1>5. ASSUME NEW w \in Workers, LinkCases(w)
      PROVE  Tells(nt, nl, nf, no, ne, c)
  <2>0. PICK k : k = work[w]
    OBVIOUS
  <2>1. /\ cases[k.case].owner = k.by /\ cases[k.other].owner = k.by
    BY <2>0, <1>5, AdmittedFacts DEF LinkCases, At, AdmittedWork, Owns
  <2>2. /\ audit' = [d \in CaseIds |-> audit[d] \cup LinkEvents(k, d)]
        /\ nl = l \cup {[ a |-> k.case, b |-> k.other, by |-> k.by ]}
        /\ cases' = cases /\ nf = f
    BY <2>0, <1>5, <1>a, <1>b DEF LinkCases
  <2>3. no = o /\ ne = e /\ nt = t \cup LinkEvents(k, c)
    BY <1>a, <1>b, <2>2 DEF Ended
  <2>4. c \in {k.case, k.other} => k.by = o
    BY <1>a, <2>1
  <2>5. QED
    BY <1>c, <2>2, <2>3, <2>4, LinkingTells
<1>6. QED
  BY <1>1, <1>2, <1>3, <1>4, <1>5, RowSteps

-----------------------------------------------------------------------------
(* The invariant of the specification.                                     *)

LEMMA IInvStep == IInv /\ [Next]_vars => IInv'
<1> SUFFICES ASSUME IInv, [Next]_vars PROVE IInv'
  OBVIOUS
<1>1. TypeOK' /\ AuditTyped'
  BY RowsTypedStep, WorkTypedStep DEF RowsTyped, WorkTyped, TypeOK
<1>2. WorkInv' /\ OneRunner' /\ LostInv'
  BY WorkInvStep, OneRunnerStep, LostInvStep
<1>3. InTimeInv' /\ CaseInv' /\ RowInv' /\ TrailMatchesRows'
  BY InTimeInvStep, CaseInvStep, RowInvStep, TrailStep
<1>4. QED
  BY <1>1, <1>2, <1>3 DEF IInv

(* What handlers rely on between what they read and what they write holds   *)
(* in every reachable state, however they interleave, crash or are refused *)
(* by the database (src/src/harness/cases/service.py and the routes).       *)
THEOREM ServiceInductive == Spec => []IInv
BY InitIInv, IInvStep, PTL DEF Spec

(* The rows, handlers and cancel set keep to their types.                  *)
THEOREM ServiceTypes == Spec => []TypeOK
<1>1. IInv => TypeOK
  BY DEF IInv
<1>2. QED
  BY <1>1, ServiceInductive, PTL

(* A case's trail and its rows tell the same of its links, its feedback and *)
(* its ending, and name nobody but its owner: record of the audit service  *)
(* in the same commit as the row it is about.                              *)
THEOREM TrailAgrees == Spec => []TrailMatchesRows
<1>1. IInv => TrailMatchesRows
  BY DEF IInv
<1>2. QED
  BY <1>1, ServiceInductive, PTL

(* However other runs of the process end and take their entries out of the  *)
(* shared set, a run whose cancellation was accepted before its last look   *)
(* finds it there and does not complete (_check_cancel, request_cancel).    *)
THEOREM CancelReachesItsRun == Spec => []CancelInTime
<1>1. IInv => CancelInTime
  <2> SUFFICES ASSUME IInv, NEW c \in inTime
               PROVE  /\ cases[c].status # "completed"
                      /\ \A t \in Threads : Running(t, c) => work[t].stage # "past"
                      /\ \A t \in Threads : Running(t, c) /\ RunAt(t, "running") => c \in flags
    BY DEF CancelInTime
  <2>1. QED
    BY DEF IInv, InTimeInv, Workers, RunAt
<1>2. QED
  BY <1>1, ServiceInductive, PTL

(* Feedback and cancellation agree on whether a case has ended, for a lost  *)
(* run too, and a report that can be read can be commented on: nothing is   *)
(* left half open by routes that look at different columns of the case.    *)
THEOREM RoutesConsistent == Spec => []RoutesAgree
<1>1. IInv => RoutesAgree
  <2> SUFFICES ASSUME IInv, NEW a \in Analysts, NEW c \in CaseIds, Owns(a, c)
               PROVE  /\ PostFeedback(a, c).code = 201 <=> CancelCase(a, c).code = 409
                      /\ GetReport(a, c).code = 200 => PostFeedback(a, c).code = 201
                      /\ c \in lost => CancelCase(a, c).code = 202
    BY DEF RoutesAgree
  <2>1. InFlight(c) => cases[c].report = "none"
    BY DEF IInv, CaseInv, InFlight
  <2>2. GetReport(a, c).code = IF cases[c].report = "none" THEN 403 ELSE 200
    BY DEF GetReport, ForOwner, NotAccessible, Reply
  <2>3. GetReport(a, c).code = 200 => ~InFlight(c)
    BY <2>1, <2>2
  <2>4. PostFeedback(a, c).code = IF InFlight(c) THEN 409 ELSE 201
    BY DEF PostFeedback, ForOwner, Reply
  <2>5. CancelCase(a, c).code = IF InFlight(c) THEN 202 ELSE 409
    BY DEF CancelCase, ForOwner, Reply
  <2>6. c \in lost => InFlight(c)
    BY DEF IInv, LostInv, InFlight
  <2>7. QED
    BY <2>3, <2>4, <2>5, <2>6
<1>2. QED
  BY <1>1, ServiceInductive, PTL

-----------------------------------------------------------------------------
(* What an analyst can see.                                                *)

(* A claim is found only through its own case. *)
LEMMA ClaimElsewhere ==
  ASSUME RowInv, NEW c, NEW k, k # c
  PROVE  GetRow(claims, k, c) = {}
BY DEF RowInv, GetRow, RowsOf

(* Every route treats a case that is not one's own alike. *)
LEMMA NotOwned ==
  ASSUME NEW a, NEW c \in CaseIds, ~Owns(a, c)
  PROVE  View(a)[c] = Unknown(a)
<1> DEFINE no == IF a \in Analysts THEN NotAccessible ELSE Reply(401, {})
<1>1. \A reply : ForOwner(a, c, reply) = no
  BY DEF ForOwner
<1>2. /\ GetCaseSummary(a, c) = no /\ GetReport(a, c) = no /\ GetAudit(a, c) = no
      /\ VerifyAudit(a, c) = no /\ CancelCase(a, c) = no /\ PostFeedback(a, c) = no
      /\ \A k \in CaseIds : GetClaimEvidence(a, c, k) = no
      /\ \A d \in CaseIds : PostCaseLink(a, c, d) = no
  BY DEF ForOwner, GetCaseSummary, GetReport, GetAudit, VerifyAudit, CancelCase, PostFeedback, GetClaimEvidence,
         PostCaseLink
<1>3. QED
  BY <1>2 DEF View, Unknown

(* FR-019: no route tells another's case, claim or link target from one     *)
(* that does not exist, at any moment of its life.                         *)
THEOREM OthersCasesOpaque == Spec => []Opaque
<1>1. IInv => Opaque
  <2> SUFFICES ASSUME IInv, NEW a \in Analysts \cup {Anonymous}, NEW c \in CaseIds
               PROVE  /\ ~Owns(a, c) => View(a)[c] = Unknown(a)
                      /\ \A d \in CaseIds \ {c} : GetClaimEvidence(a, c, d) = Unknown(a).evidence[d]
                      /\ \A d \in CaseIds : ~Owns(a, d) => PostCaseLink(a, c, d) = Unknown(a).links[d]
    BY DEF Opaque
  <2> DEFINE no == IF a \in Analysts THEN NotAccessible ELSE Reply(401, {})
  <2>1. \A d \in CaseIds : Unknown(a).evidence[d] = no /\ Unknown(a).links[d] = no
    BY DEF Unknown
  <2>2. \A d \in CaseIds \ {c} : GetClaimEvidence(a, c, d) = no
    BY ClaimElsewhere DEF IInv, GetClaimEvidence, ForOwner
  <2>3. \A d \in CaseIds : ~Owns(a, d) => PostCaseLink(a, c, d) = no
    BY DEF PostCaseLink, ForOwner
  <2>4. QED
    BY <2>1, <2>2, <2>3, NotOwned
<1>2. QED
  BY <1>1, ServiceInductive, PTL

(* A step in which no handler works for analyst a. *)
Elsewhere(a) == \A w \in Workers : work'[w] # work[w] => a \notin {work[w].by, work'[w].by}

(* Who writes has been working for the analyst it writes for. *)
LEMMA WritersWork ==
  ASSUME IInv, NEW a \in Analysts, Elsewhere(a), NEW w \in Workers
  PROVE  /\ CommitRun(w) \/ RecordFeedback(w) \/ LinkCases(w) => work[w].by # a
         /\ \A b \in Analysts, c \in CaseIds : Create(w, b, c) => b # a
<1>0. work \in [Workers -> Work]
  BY DEF IInv, TypeOK
<1>1. ASSUME CommitRun(w)
      PROVE  work'[w] # work[w]
  <2>1. work'[w] = [work[w] EXCEPT !.stage = "ended", !.ending = work[w].ending]
    BY <1>0, <1>1 DEF CommitRun, RunTo
  <2>2. work'[w].stage = "ended" /\ work[w].stage = "ending"
    BY <1>0, <1>1, <2>1 DEF Work, CommitRun, RunAt
  <2>3. QED
    BY <2>2
<1>2. ASSUME RecordFeedback(w) \/ LinkCases(w)
      PROVE  work'[w] # work[w]
  BY <1>0, <1>2 DEF RecordFeedback, LinkCases, At, Idle
<1>3. ASSUME NEW b \in Analysts, NEW c \in CaseIds, Create(w, b, c)
      PROVE  work'[w] # work[w] /\ work'[w].by = b
  <2>1. work'[w] = Doing("create", b, c, Nobody, "running") /\ work[w] = Idle
    BY <1>0, <1>3 DEF Create
  <2>2. work'[w].op = "create" /\ work[w].op = "idle" /\ work'[w].by = b
    BY <2>1 DEF Doing, Idle
  <2>3. QED
    BY <2>2
<1>4. QED
  BY <1>1, <1>2, <1>3 DEF Elsewhere

LEMMA SameOwned ==
  ASSUME IInv, [Next]_vars, NEW a \in Analysts, Elsewhere(a), NEW c \in CaseIds
  PROVE  /\ Owns(a, c)' <=> Owns(a, c)
         /\ Owns(a, c) => cases'[c] = cases[c] /\ audit'[c] = audit[c]
<1>0. RowsTyped
  BY TypedSplit DEF IInv
<1>1. ASSUME ~Owns(a, c), Owns(a, c)'
      PROVE  FALSE
  <2>1. cases[c] = NoCase /\ cases'[c] # cases[c] /\ cases'[c].owner = a
    BY <1>1, CasesGrow DEF Owns
  <2>2. PICK w \in Workers, b \in Analysts, d \in CaseIds : Create(w, b, d)
    <3>1. ASSUME NEW w \in Workers, CommitRun(w)
          PROVE  FALSE
      <4>1. work[w].case # c /\ work[w].case \in CaseIds
        BY <2>1, <3>1, RunnerFacts, NoCaseIsNoRow DEF CommitRun, RunAt
      <4>2. QED
        BY <1>0, <2>1, <3>1, <4>1 DEF CommitRun, RowsTyped
    <3>2. QED
      BY <2>1, <3>1, RowSteps DEF rows, RecordFeedback, LinkCases
  <2>3. cases' = [cases EXCEPT ![d] = [NoCase EXCEPT !.owner = b, !.status = "created"]]
    BY <2>2 DEF Create
  <2>4. c = d
    BY <1>0, <2>1, <2>3 DEF RowsTyped
  <2>5. cases'[c].owner = b
    BY <1>0, <2>3, <2>4 DEF RowsTyped, NoCase
  <2>6. QED
    BY <2>1, <2>2, <2>5, WritersWork
<1>2. ASSUME Owns(a, c)
      PROVE  cases'[c] = cases[c] /\ audit'[c] = audit[c]
  <2>1. cases[c] # NoCase /\ cases[c].owner = a
    BY <1>2 DEF Owns
  <2>2. CASE UNCHANGED rows
    BY <2>2 DEF rows
  <2>3. ASSUME NEW w \in Workers, NEW b \in Analysts, NEW d \in CaseIds, Create(w, b, d)
        PROVE  cases'[c] = cases[c] /\ audit'[c] = audit[c]
    BY <1>0, <2>1, <2>3 DEF Create, RowsTyped, AuditTyped
  <2>4. ASSUME NEW w \in Workers, CommitRun(w)
        PROVE  cases'[c] = cases[c] /\ audit'[c] = audit[c]
    <3>1. work[w].case # c /\ work[w].case \in CaseIds
      BY <2>1, <2>4, RunnerFacts, WritersWork DEF CommitRun, RunAt
    <3>2. QED
      BY <1>0, <2>4, <3>1 DEF CommitRun, RowsTyped, AuditTyped
  <2>5. ASSUME NEW w \in Workers, RecordFeedback(w)
        PROVE  cases'[c] = cases[c] /\ audit'[c] = audit[c]
    <3>1. work[w].case # c /\ work[w].case \in CaseIds
      BY <2>1, <2>5, AdmittedFacts, WritersWork DEF RecordFeedback, At
    <3>2. QED
      BY <1>0, <2>5, <3>1 DEF RecordFeedback, RowsTyped, AuditTyped
  <2>6. ASSUME NEW w \in Workers, LinkCases(w)
        PROVE  cases'[c] = cases[c] /\ audit'[c] = audit[c]
    <3>1. work[w].case # c /\ work[w].other # c
      BY <2>1, <2>6, AdmittedFacts, WritersWork DEF LinkCases, At, AdmittedWork, Owns
    <3>2. LinkEvents(work[w], c) = {}
      BY <3>1 DEF LinkEvents
    <3>3. QED
      BY <2>6, <3>2 DEF LinkCases
  <2>7. QED
    BY <2>2, <2>3, <2>4, <2>5, <2>6, RowSteps
<1>3. QED
  BY <1>1, <1>2, OwnsStays

(* The evidence of an own claim is not touched by anybody else's run. *)
LEMMA SameEvidence ==
  ASSUME IInv, [Next]_vars, RowInv', NEW a \in Analysts, Elsewhere(a),
         NEW c \in CaseIds, NEW k \in CaseIds, Owns(a, c)
  PROVE  GetClaimEvidence(a, c, k)' = GetClaimEvidence(a, c, k)
<1>0. Owns(a, c)' /\ RowInv
  BY SameOwned DEF IInv
<1>1. CASE k # c
  <2>1. GetRow(claims, k, c) = {} /\ GetRow(claims', k, c) = {}
    BY <1>0, <1>1 DEF RowInv, GetRow, RowsOf
  <2>2. QED
    BY <1>0, <2>1 DEF GetClaimEvidence, ForOwner
<1>2. CASE UNCHANGED <<claims, supports, evidence>>
  BY <1>0, <1>2 DEF GetClaimEvidence, ForOwner, GetRow, RowsOf
<1>3. ASSUME k = c, NEW w \in Workers, CommitRun(w)
      PROVE  GetClaimEvidence(a, c, k)' = GetClaimEvidence(a, c, k)
  <2>0. PICK d : d = work[w].case
    OBVIOUS
  <2>1. d # c
    BY <2>0, <1>3, RunnerFacts, WritersWork DEF CommitRun, RunAt, Owns
  <2>2. /\ claims' = claims \cup {Row(d, d)} /\ evidence' = evidence \cup {Row(d, d)}
        /\ supports' = supports \cup { [ claim |-> d, evidence |-> r.id ] : r \in RowsOf(evidence', d) }
    BY <2>0, <1>3 DEF CommitRun
  <2>3. RowsOf(claims', c) = RowsOf(claims, c) /\ RowsOf(evidence', c) = RowsOf(evidence, c)
    BY <2>1, <2>2 DEF RowsOf, Row
  <2>4. { t \in supports' : t.claim = c } = { t \in supports : t.claim = c }
    <3>1. \A t \in { [ claim |-> d, evidence |-> r.id ] : r \in RowsOf(evidence', d) } : t.claim # c
      BY <2>1
    <3>2. QED
      BY <2>2, <3>1
  <2>5. PICK C, E, S : /\ C = RowsOf(claims, c) /\ E = RowsOf(evidence, c)
                       /\ S = { t \in supports : t.claim = c }
    OBVIOUS
  <2> DEFINE reply == IF { r \in C : r.id = c } = {} THEN NotAccessible
                      ELSE Reply(200, UNION { { r \in E : r.id = s.evidence } : s \in S })
  <2>6. GetClaimEvidence(a, c, k) = reply
    BY <1>3, <2>5 DEF GetClaimEvidence, ForOwner, GetRow
  <2>7. /\ C = RowsOf(claims', c) /\ E = RowsOf(evidence', c)
        /\ S = { t \in supports' : t.claim = c }
    BY <2>3, <2>4, <2>5
  <2>8. GetClaimEvidence(a, c, k)' = reply
    BY <1>0, <1>3, <2>7 DEF GetClaimEvidence, ForOwner, GetRow
  <2>9. QED
    BY <2>6, <2>8
<1>4. QED
  BY <1>1, <1>2, <1>3, RowSteps DEF rows, Create, RecordFeedback, LinkCases

(* FR-003: nothing anybody else does, in any order, and no crash or refused *)
(* write of theirs, shows in what an analyst is told.                      *)
THEOREM NothingLeaks == Spec => NonInterference
<1>1. IInv /\ IInv' /\ [Next]_vars =>
        (rows' # rows => \A a \in Analysts :
          \/ \E w \in Workers : work'[w] # work[w] /\ a \in {work[w].by, work'[w].by}
          \/ View(a)' = View(a))
  <2> SUFFICES ASSUME IInv, IInv', [Next]_vars, NEW a \in Analysts, Elsewhere(a)
               PROVE  View(a)' = View(a)
    BY DEF Elsewhere
  <2>1. \A c \in CaseIds : Owns(a, c)' <=> Owns(a, c)
    BY SameOwned
  <2>2. ASSUME NEW c \in CaseIds, ~Owns(a, c)
        PROVE  View(a)'[c] = View(a)[c]
    <3> DEFINE no == NotAccessible
    <3>1. View(a)[c] = Unknown(a)
      BY <2>2, NotOwned
    <3>2. \A reply : ForOwner(a, c, reply)' = no
      BY <2>1, <2>2 DEF ForOwner
    <3>3. /\ GetCaseSummary(a, c)' = no /\ GetReport(a, c)' = no /\ GetAudit(a, c)' = no
          /\ VerifyAudit(a, c)' = no /\ CancelCase(a, c)' = no /\ PostFeedback(a, c)' = no
          /\ \A k \in CaseIds : GetClaimEvidence(a, c, k)' = no
          /\ \A d \in CaseIds : PostCaseLink(a, c, d)' = no
      BY <2>1, <2>2 DEF ForOwner, GetCaseSummary, GetReport, GetAudit, VerifyAudit, CancelCase, PostFeedback,
             GetClaimEvidence, PostCaseLink
    <3>4. View(a)'[c] = Unknown(a)
      BY <3>3 DEF View, Unknown
    <3>5. QED
      BY <3>1, <3>4
  <2>3. ASSUME NEW c \in CaseIds, Owns(a, c)
        PROVE  View(a)'[c] = View(a)[c]
    <3>1. cases'[c] = cases[c] /\ audit'[c] = audit[c] /\ Owns(a, c)'
      BY <2>3, SameOwned
    <3>2. /\ GetCaseSummary(a, c)' = GetCaseSummary(a, c) /\ GetReport(a, c)' = GetReport(a, c)
          /\ GetAudit(a, c)' = GetAudit(a, c) /\ VerifyAudit(a, c)' = VerifyAudit(a, c)
          /\ CancelCase(a, c)' = CancelCase(a, c)
          /\ PostFeedback(a, c)' = PostFeedback(a, c)
      BY <2>3, <3>1 DEF ForOwner, GetCaseSummary, GetReport, GetAudit, VerifyAudit, CancelCase, PostFeedback,
                        InFlight
    <3>3. \A k \in CaseIds : GetClaimEvidence(a, c, k)' = GetClaimEvidence(a, c, k)
      BY <2>3, SameEvidence DEF IInv
    <3>4. \A d \in CaseIds : PostCaseLink(a, c, d)' = PostCaseLink(a, c, d)
      BY <2>1, <2>3 DEF PostCaseLink, ForOwner
    <3>5. QED
      BY <3>2, <3>3, <3>4 DEF View
  <2>4. QED
    BY <2>2, <2>3 DEF View
<1>2. QED
  BY <1>1, ServiceInductive, PTL DEF Spec, NonInterference

-----------------------------------------------------------------------------
(* Each case by itself.                                                    *)

(* What a step does to one case. *)
LEMMA OneCaseSteps ==
  ASSUME IInv, [Next]_vars, NEW c \in CaseIds
  PROVE  \/ cases'[c] = cases[c]
         \/ \E w \in Workers, a \in Analysts : Create(w, a, c)
         \/ \E w \in Workers : CommitRun(w) /\ work[w].case = c
<1>0. cases \in [CaseIds -> CaseRows \cup {NoCase}]
  BY DEF IInv, TypeOK
<1>1. ASSUME NEW w \in Workers, NEW a \in Analysts, NEW d \in CaseIds, Create(w, a, d), d # c
      PROVE  cases'[c] = cases[c]
  BY <1>0, <1>1 DEF Create
<1>2. ASSUME NEW w \in Workers, CommitRun(w), work[w].case # c
      PROVE  cases'[c] = cases[c]
  <2>1. work[w].case \in CaseIds
    BY <1>2, RunnerFacts DEF CommitRun, RunAt
  <2>2. QED
    BY <1>0, <1>2, <2>1 DEF CommitRun
<1>3. QED
  BY <1>1, <1>2, RowSteps DEF rows, RecordFeedback, LinkCases

(* A run is lost for good, and no request is accepted in the same step. *)
LEMMA LostGrows ==
  ASSUME IInv, [Next]_vars
  PROVE  /\ lost \subseteq lost'
         /\ lost' # lost => asked' = asked
<1>1. ASSUME NEW u \in Workers, Refuse(u)
      PROVE  lost \subseteq lost' /\ asked' = asked
  BY <1>1 DEF Refuse
<1>2. ASSUME NEW p \in Processes, Crash(p)
      PROVE  lost \subseteq lost' /\ asked' = asked
  BY <1>2 DEF Crash
<1>3. ASSUME NEW u \in Workers, RecordFeedback(u) \/ LinkCases(u) \/ Return(u) \/ CommitRun(u)
               \/ CheckCancel(u) \/ StopEarly(u) \/ Produce(u) \/ RequestCancel(u)
      PROVE  lost' = lost
  BY <1>3 DEF RecordFeedback, LinkCases, Return, CommitRun, CheckCancel, StopEarly, Produce,
              RequestCancel, history
<1>4. ASSUME NEW u, NEW a, NEW d, Create(u, a, d) \/ Reads(u, a, d)
      PROVE  lost' = lost
  BY <1>4 DEF Create, Reads, CancelRead, FeedbackRead, LinkRead, Admit, history
<1>5. CASE UNCHANGED vars
  BY <1>5 DEF vars, history
<1>6. QED
  BY <1>1, <1>2, <1>3, <1>4, <1>5, NextSplit DEF Quiet

LEMMA LifecycleStep ==
  ASSUME IInv, [Next]_vars, NEW c \in CaseIds
  PROVE  L(c)!Next \/ UNCHANGED L(c)!caseVars
<1>0. cases \in [CaseIds -> CaseRows \cup {NoCase}]
  BY DEF IInv, TypeOK
<1>1. CASE cases'[c] = cases[c]
  <2>1. CASE (c \in lost)' = (c \in lost)
    <3>1. CASE asked' = asked
      BY <1>1, <2>1, <3>1 DEF L!caseVars
    <3>2. ASSUME NEW w \in Workers, RequestCancel(w)
          PROVE  L(c)!AskToCancel \/ UNCHANGED L(c)!caseVars
      <4>1. asked' = asked \cup {work[w].case}
        BY <3>2 DEF RequestCancel
      <4>2. CASE c = work[w].case
        BY <1>1, <2>1, <4>1, <4>2 DEF L!AskToCancel
      <4>3. CASE c # work[w].case
        BY <1>1, <2>1, <4>1, <4>3 DEF L!caseVars
      <4>4. QED
        BY <4>2, <4>3
    <3>3. QED
      BY <3>1, <3>2, AskedSteps DEF L!Next
  <2>2. CASE (c \in lost)' # (c \in lost)
    <3>1. c \notin lost /\ c \in lost' /\ asked' = asked
      BY <2>2, LostGrows
    <3>2. PICK w \in Workers : Running(w, c) /\ Uncommitted(w) /\ UNCHANGED rows
      BY <3>1, LostSteps
    <3>3. cases[c].status = "created" /\ cases[c] \in CaseRows
      BY <3>2, RunnerFacts DEF Running, Uncommitted, CreateWork
    <3>4. cases[c] # NoCase
      BY <3>3, NoCaseIsNoRow
    <3>5. QED
      BY <1>1, <3>1, <3>3, <3>4 DEF L!Next, L!Lose
  <2>3. QED
    BY <2>1, <2>2
<1>2. ASSUME NEW w \in Workers, NEW a \in Analysts, Create(w, a, c)
      PROVE  UNCHANGED L(c)!caseVars
  <2>1. /\ cases'[c] = [NoCase EXCEPT !.owner = a, !.status = "created"] /\ cases[c] = NoCase
        /\ asked' = asked /\ lost' = lost
    BY <1>0, <1>2 DEF Create, history
  <2>2. cases'[c] = [owner |-> a, status |-> "created", report |-> "none"]
    BY <2>1 DEF NoCase
  <2>3. cases'[c].status = "created" /\ cases'[c].report = "none"
    BY <2>2
  <2>4. cases[c].report = "none"
    BY <2>1 DEF NoCase
  <2>5. QED
    BY <2>1, <2>3, <2>4 DEF L!caseVars
<1>3. ASSUME NEW w \in Workers, CommitRun(w), work[w].case = c
      PROVE  L(c)!Next
  <2>1. /\ cases[c] \in CaseRows /\ cases[c].status = "created"
        /\ work[w].ending \in TerminalStatuses
        /\ work[w].ending = "cancelled" => c \in asked
    BY <1>3, RunnerFacts DEF CommitRun, RunAt, CreateWork
  <2>2. cases[c] # NoCase
    BY <2>1, NoCaseIsNoRow
  <2>3. PICK r \in MadeReports(work[w].ending) :
          cases'[c] = [cases[c] EXCEPT !.status = work[w].ending, !.report = r]
    BY <1>0, <1>3 DEF CommitRun
  <2>4. cases'[c].status = work[w].ending /\ cases'[c].report = r
    BY <2>1, <2>3 DEF CaseRows
  <2>5. cases'[c] # NoCase /\ asked' = asked /\ lost' = lost
    BY <1>3, <2>2, CasesGrow DEF CommitRun, history
  <2>6. c \notin lost
    BY <1>3, CommitterRuns DEF IInv, LostInv
  <2>7. CASE work[w].ending = "completed"
    <3>1. \/ r = "complete"
          \/ ("report" \in Faults) /\ r \in L(c)!EarlyReports
      BY <2>7 DEF MadeReports, L!EarlyReports
    <3>2. CASE r = "complete"
      BY <2>1, <2>2, <2>4, <2>5, <2>6, <2>7, <3>2 DEF L!Next, L!Finish, L!Complete
    <3>3. CASE ("report" \in Faults) /\ r \in L(c)!EarlyReports
      BY <2>1, <2>2, <2>4, <2>5, <2>6, <2>7, <3>3 DEF L!Next, L!Finish, L!CompleteUnreported
    <3>4. QED
      BY <3>1, <3>2, <3>3
  <2>8. CASE work[w].ending # "completed"
    <3>1. r \in L(c)!EarlyReports
      BY <2>8 DEF MadeReports, L!EarlyReports
    <3>2. work[w].ending \in L(c)!EarlyStatuses
      BY <2>1, <2>8 DEF L!EarlyStatuses, L!TerminalStatuses, TerminalStatuses
    <3>3. QED
      BY <2>1, <2>2, <2>4, <2>5, <2>6, <3>1, <3>2 DEF L!Next, L!Finish, L!StopEarly
  <2>9. QED
    BY <2>7, <2>8
<1>4. QED
  BY <1>1, <1>2, <1>3, OneCaseSteps

(* Every case lives as CaseLifecycle says, whatever happens to the others:  *)
(* one ending, with the report that belongs to it, and cancelled only when *)
(* its own cancellation was asked for.                                     *)
THEOREM ServiceImplementsLifecycles == Spec => EachCaseLifecycle
<1>1. Init => \A c \in CaseIds : L(c)!Init
  BY DEF Init, L!Init, NoCase
<1>2. IInv /\ [Next]_vars => \A c \in CaseIds : L(c)!Next \/ UNCHANGED L(c)!caseVars
  BY LifecycleStep
<1>3. QED
  BY <1>1, <1>2, ServiceInductive, PTL DEF Spec, EachCaseLifecycle
=============================================================================
