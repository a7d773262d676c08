---------------------------- MODULE CaseService ----------------------------
(***************************************************************************)
(* Several analysts, several cases: the routes of src/src/harness/api, the *)
(* case service and the case-scoped repository, with the command line as a *)
(* second way in.  A route that only reads committed rows is an operator,  *)
(* the reply it would give now; a route that writes is two actions, what   *)
(* its handler reads and decides, and what it then writes, so that other   *)
(* handlers come in between.  The handler that creates a case also runs    *)
(* the investigation; of that run only what other handlers can notice is   *)
(* kept (module Investigation has the rest).                               *)
(***************************************************************************)
EXTENDS Workflow, FiniteSets

CONSTANTS
  Analysts,   \* subjects of valid tokens
  CaseIds,    \* the identifiers create_case may draw
  Threads,    \* the handlers of the API process; they share one cancel set
  CliRuns,    \* investigations started from the command line, a process each
  Endings,    \* the terminal statuses runs may reach
  Faults,     \* what may go wrong: "crash", "storage", "report"
  MaxLinks    \* bound: no link is asked for once there are so many

ASSUME EndingsAssumption == Endings \subseteq TerminalStatuses
ASSUME FaultsAssumption == Faults \subseteq {"crash", "storage", "report"}

VARIABLES
  cases,      \* committed investigation_cases, with the kind of their report
  evidence,   \* committed evidence_items
  claims,     \* committed claims
  supports,   \* committed claim_evidence_links
  caseLinks,  \* committed case_links
  feedback,   \* committed analyst_feedback
  audit,      \* which events each case's trail has
  flags,      \* _CANCEL_REQUESTS of the API process
  work,       \* what each handler is doing
  asked,      \* history: cases for which a cancel request was answered 202
  inTime,     \* history: the request came before the run's last look at the flag
  lost        \* history: cases whose run was lost before its commit

rows == <<cases, evidence, claims, supports, caseLinks, feedback, audit>>
history == <<asked, inTime, lost>>
vars == <<rows, flags, work, history>>

Workers == Threads \cup CliRuns

Nobody == "nobody"
Anonymous == "anonymous"

CaseRows == [ owner : Analysts, status : {"created"} \cup TerminalStatuses,
              report : {"none", "partial", "complete"} ]
NoCase == [ owner |-> Nobody, status |-> "none", report |-> "none" ]

Event(type, actor, other) == [ type |-> type, actor |-> actor, other |-> other ]

(* A handler with nothing to do, and the stages of the others: admitted is  *)
(* between the read and the write of a handler; running, past, ending and  *)
(* ended are the run before its last look at the flag, after it, with its  *)
(* terminal state chosen, and after its commit.                            *)
Idle == [ op |-> "idle", by |-> Nobody, case |-> Nobody, other |-> Nobody,
          stage |-> "idle", ending |-> "none" ]

Doing(op, a, c, d, stage) ==
  [ Idle EXCEPT !.op = op, !.by = a, !.case = c, !.other = d, !.stage = stage ]

Running(w, c) == work[w].op = "create" /\ work[w].case = c

Ended(c) == cases[c].status \in TerminalStatuses

Init ==
  /\ cases = [c \in CaseIds |-> NoCase]
  /\ evidence = {} /\ claims = {} /\ supports = {}
  /\ caseLinks = {} /\ feedback = {}
  /\ audit = [c \in CaseIds |-> {}]
  /\ flags = {}
  /\ work = [w \in Workers |-> Idle]
  /\ asked = {} /\ inTime = {} /\ lost = {}

-----------------------------------------------------------------------------
(* The repository and the reply of every route to an analyst's token, or   *)
(* to a token that does not verify.                                        *)

Owns(a, c) == cases[c] # NoCase /\ cases[c].owner = a

(* CaseScopedRepository.get by the id alone. *)
GetRowAnyCase(table, id, c) == { r \in table : r.id = id }

(* CaseScopedRepository.list and get: only rows of the context's case. *)
RowsOf(table, c) == { r \in table : r.case = c }
GetRow(table, id, c) == { r \in RowsOf(table, c) : r.id = id }

Reply(code, body) == [ code |-> code, body |-> body ]
NotAccessible == Reply(403, {})

(* Every route: a token, then ownership, then the rest. *)
ForOwner(a, c, reply) ==
  IF a \notin Analysts THEN Reply(401, {})
  ELSE IF Owns(a, c) THEN reply
  ELSE NotAccessible

GetCaseSummary(a, c) == ForOwner(a, c, Reply(200, {cases[c].status}))

GetReport(a, c) ==
  ForOwner(a, c, IF cases[c].report = "none" THEN NotAccessible
                 ELSE Reply(200, {cases[c].report}))

GetAudit(a, c) == ForOwner(a, c, Reply(200, audit[c]))

(* The verdict is "intact" for trails written by this program (AuditTrail); *)
(* events_checked is the rest of the reply.                                 *)
VerifyAudit(a, c) == ForOwner(a, c, Reply(200, {Cardinality(audit[c])}))

GetClaimEvidence(a, c, claim) ==
  ForOwner(a, c,
    IF GetRow(claims, claim, c) = {} THEN NotAccessible
    ELSE Reply(200, UNION { GetRow(evidence, s.evidence, c) :
                              s \in { t \in supports : t.claim = claim } }))

(* The committed status "running" does not occur: see Investigation. *)
InFlight(c) == cases[c].status = "created"

CancelCase(a, c) ==
  ForOwner(a, c, IF InFlight(c) THEN Reply(202, {})
                 ELSE Reply(409, {cases[c].status}))

(* post_feedback refusing only the status that is never committed. *)
PostFeedbackWhileCreated(a, c) ==
  ForOwner(a, c, IF cases[c].status = "running" THEN Reply(409, {}) ELSE Reply(201, {}))

PostFeedback(a, c) ==
  ForOwner(a, c, IF InFlight(c) THEN Reply(409, {}) ELSE Reply(201, {}))

(* link_cases looking up the first case only. *)
PostCaseLinkFirstOnly(a, c, d) == ForOwner(a, c, Reply(201, {}))

PostCaseLink(a, c, d) == ForOwner(a, c, ForOwner(a, d, Reply(201, {})))

-----------------------------------------------------------------------------
(* Creating a case and running it, from the API or the command line.       *)

(* create_case commits under a fresh identifier; the handler goes on to run *)
(* it.                                                                      *)
Create(w, a, c) ==
  /\ work[w] = Idle
  /\ cases[c] = NoCase
  /\ cases' = [cases EXCEPT ![c] = [NoCase EXCEPT !.owner = a, !.status = "created"]]
  /\ audit' = [audit EXCEPT ![c] = {Event("case_created", a, Nobody)}]
  /\ work' = [work EXCEPT ![w] = Doing("create", a, c, Nobody, "running")]
  /\ UNCHANGED <<evidence, claims, supports, caseLinks, feedback, flags, history>>

RunAt(w, stage) == work[w].op = "create" /\ work[w].stage = stage

(* _check_cancel asking whether there is any request. *)
CancelledAny(w) == w \in Threads /\ flags # {}

(* The set the run looks into is that of its own process; nobody adds to   *)
(* the set of a command-line process.                                      *)
Cancelled(w) == w \in Threads /\ work[w].case \in flags

RunTo(w, stage, ending) ==
  work' = [work EXCEPT ![w].stage = stage, ![w].ending = ending]

(* _check_cancel, the last of its places if it finds nothing. *)
CheckCancel(w) ==
  /\ RunAt(w, "running")
  /\ IF Cancelled(w) THEN RunTo(w, "ending", "cancelled") ELSE RunTo(w, "past", "none")
  /\ UNCHANGED <<rows, flags, history>>

(* The run stops before its last look for another reason. *)
StopEarly(w) ==
  /\ RunAt(w, "running")
  /\ \E s \in Endings \ {"completed", "cancelled"} : RunTo(w, "ending", s)
  /\ UNCHANGED <<rows, flags, history>>

(* Hypotheses, proposals, report, verification: completed, or stopped. *)
Produce(w) ==
  /\ RunAt(w, "past")
  /\ \E s \in Endings \ {"cancelled"} : RunTo(w, "ending", s)
  /\ UNCHANGED <<rows, flags, history>>

Row(id, c) == [ id |-> id, case |-> c ]

(* The report a run stores.  Making it may raise once the ending is        *)
(* decided, which leaves a partial report instead, or none (Investigation). *)
MadeReports(s) ==
  {IF s = "completed" THEN "complete" ELSE "partial"} \cup
  (IF "report" \in Faults THEN {"partial", "none"} ELSE {})

(* The run's only commit: its rows, status and report.  One evidence item  *)
(* and one claim, named by the case, stand for those it has; the claim is  *)
(* linked to what the repository lists, the session's own row included.    *)
CommitRun(w) ==
  LET c == work[w].case
      s == work[w].ending
  IN  /\ RunAt(w, "ending")
      /\ \E r \in MadeReports(s) :
           cases' = [cases EXCEPT ![c].status = s, ![c].report = r]
      /\ evidence' = evidence \cup {Row(c, c)}
      /\ claims' = claims \cup {Row(c, c)}
      /\ supports' = supports \cup { [ claim |-> c, evidence |-> r.id ] : r \in RowsOf(evidence', c) }
      /\ audit' = [audit EXCEPT ![c] = @ \cup {Event("report_generated", "system", Nobody)}]
      /\ RunTo(w, "ended", s)
      /\ UNCHANGED <<caseLinks, feedback, flags, history>>

(* The finally clause clearing the set. *)
DiscardAll(w) == IF w \in Threads THEN {} ELSE flags

(* The finally clause: the run's own entry is taken out of the set of its  *)
(* process.                                                                *)
Discard(w) == IF w \in Threads THEN flags \ {work[w].case} ELSE flags

Return(w) ==
  /\ RunAt(w, "ended")
  /\ flags' = Discard(w)
  /\ work' = [work EXCEPT ![w] = Idle]
  /\ UNCHANGED <<rows, history>>

-----------------------------------------------------------------------------
(* The other routes that write.                                            *)

Admit(t, reply, code, todo) ==
  /\ work[t] = Idle
  /\ reply.code = code
  /\ work' = [work EXCEPT ![t] = todo]
  /\ UNCHANGED <<rows, flags, history>>

At(t, op) == work[t].op = op

CancelRead(t, a, c) ==
  Admit(t, CancelCase(a, c), 202, Doing("cancel", a, c, Nobody, "admitted"))

(* request_cancel puts the case into the set of the API process, whichever *)
(* process runs the case, if any.                                          *)
RequestCancel(t) ==
  LET c == work[t].case
  IN  /\ At(t, "cancel")
      /\ flags' = flags \cup {c}
      /\ asked' = asked \cup {c}
      /\ inTime' = inTime \cup { d \in {c} : \E u \in Threads : Running(u, d) /\ RunAt(u, "running") }
      /\ work' = [work EXCEPT ![t] = Idle]
      /\ UNCHANGED <<rows, lost>>

FeedbackRead(t, a, c) ==
  Admit(t, PostFeedback(a, c), 201, Doing("feedback", a, c, Nobody, "admitted"))

RecordFeedback(t) ==
  LET c == work[t].case
      a == work[t].by
  IN  /\ At(t, "feedback")
      /\ feedback' = feedback \cup {[ case |-> c, by |-> a ]}
      /\ audit' = [audit EXCEPT ![c] = @ \cup {Event("feedback_recorded", a, Nobody)}]
      /\ work' = [work EXCEPT ![t] = Idle]
      /\ UNCHANGED <<cases, evidence, claims, supports, caseLinks, flags, history>>

LinkRead(t, a, c, d) ==
  /\ Cardinality(caseLinks) < MaxLinks
  /\ Admit(t, PostCaseLink(a, c, d), 201, Doing("link", a, c, d, "admitted"))

(* link_cases auditing the first case only. *)
LinkEventsFirstOnly(w, c) ==
  IF c = w.case THEN {Event("case_linked", w.by, w.other)} ELSE {}

(* The two events of a link, each on one case and naming the other. *)
LinkEvents(w, c) ==
  (IF c = w.case THEN {Event("case_linked", w.by, w.other)} ELSE {}) \cup
  (IF c = w.other THEN {Event("case_linked", w.by, w.case)} ELSE {})

LinkCases(t) ==
  LET w == work[t]
  IN  /\ At(t, "link")
      /\ caseLinks' = caseLinks \cup {[ a |-> w.case, b |-> w.other, by |-> w.by ]}
      /\ audit' = [c \in CaseIds |-> audit[c] \cup LinkEvents(w, c)]
      /\ work' = [work EXCEPT ![t] = Idle]
      /\ UNCHANGED <<cases, evidence, claims, supports, feedback, flags, history>>

-----------------------------------------------------------------------------
(* Faults.  A handler's session is lost with all it has not committed.     *)

Uncommitted(w) == work[w].op = "create" /\ work[w].stage # "ended"

(* The database refuses a write: the exception leaves the handler.  A run   *)
(* takes its entry out of the set on the way, but not if the refused write  *)
(* is the ledger's, before the try, or if the clause cannot read the id of  *)
(* its case again from the session.                                         *)
Refuse(w) ==
  /\ "storage" \in Faults
  /\ Uncommitted(w) \/ At(w, "feedback") \/ At(w, "link")
  /\ flags' = flags \/ (Uncommitted(w) /\ flags' = Discard(w))
  /\ lost' = lost \cup { work[u].case : u \in { v \in {w} : Uncommitted(v) } }
  /\ work' = [work EXCEPT ![w] = Idle]
  /\ UNCHANGED <<rows, asked, inTime>>

(* A process ends, and with it the cancel set it kept. *)
Crash(process) ==
  /\ "crash" \in Faults
  /\ \E w \in process : work[w] # Idle
  /\ lost' = lost \cup { work[w].case : w \in { v \in process : Uncommitted(v) } }
  /\ work' = [w \in Workers |-> IF w \in process THEN Idle ELSE work[w]]
  /\ flags' = IF process = Threads THEN {} ELSE flags
  /\ UNCHANGED <<rows, asked, inTime>>

Processes == {Threads} \cup { {w} : w \in CliRuns }

(* A handler that has begun. *)
Serve(w) ==
  \/ CheckCancel(w) \/ StopEarly(w) \/ Produce(w) \/ CommitRun(w) \/ Return(w)
  \/ RequestCancel(w) \/ RecordFeedback(w) \/ LinkCases(w)

Next ==
  \/ \E w \in Workers, a \in Analysts, c \in CaseIds : Create(w, a, c)
  \/ \E t \in Threads, a \in Analysts \cup {Anonymous}, c \in CaseIds :
       \/ CancelRead(t, a, c)
       \/ FeedbackRead(t, a, c)
       \/ \E d \in CaseIds : LinkRead(t, a, c, d)
  \/ \E w \in Workers : Serve(w) \/ Refuse(w)
  \/ \E p \in Processes : Crash(p)

Spec == Init /\ [][Next]_vars

-----------------------------------------------------------------------------
(* Correctness.                                                            *)

Work == [ op : {"idle", "create", "cancel", "feedback", "link"},
          by : Analysts \cup {Nobody}, case : CaseIds \cup {Nobody},
          other : CaseIds \cup {Nobody},
          stage : {"idle", "admitted", "running", "past", "ending", "ended"},
          ending : TerminalStatuses \cup {"none"} ]

(* The variables keep to their types, and rows refer to cases that exist. *)
TypeOK ==
  /\ cases \in [CaseIds -> CaseRows \cup {NoCase}]
  /\ evidence \subseteq [id : CaseIds, case : CaseIds]
  /\ claims \subseteq [id : CaseIds, case : CaseIds]
  /\ supports \subseteq [claim : CaseIds, evidence : CaseIds]
  /\ caseLinks \subseteq [a : CaseIds, b : CaseIds, by : Analysts]
  /\ feedback \subseteq [case : CaseIds, by : Analysts]
  /\ \A c \in CaseIds : audit[c] = {} <=> cases[c] = NoCase
  /\ flags \subseteq CaseIds
  /\ work \in [Workers -> Work]
  /\ asked \subseteq CaseIds /\ inTime \subseteq asked /\ lost \subseteq CaseIds

(* All an analyst can learn by asking every route about every case and      *)
(* claim.                                                                   *)
View(a) ==
  [ c \in CaseIds |->
      [ summary |-> GetCaseSummary(a, c), report |-> GetReport(a, c),
        audit |-> GetAudit(a, c), verify |-> VerifyAudit(a, c),
        cancel |-> CancelCase(a, c),
        feedback |-> PostFeedback(a, c),
        evidence |-> [ k \in CaseIds |-> GetClaimEvidence(a, c, k) ],
        links |-> [ d \in CaseIds |-> PostCaseLink(a, c, d) ] ] ]

(* The same, for identifiers nobody has drawn. *)
Unknown(a) ==
  LET no == IF a \in Analysts THEN NotAccessible ELSE Reply(401, {})
  IN  [ summary |-> no, report |-> no, audit |-> no, verify |-> no, cancel |-> no,
        feedback |-> no, evidence |-> [ k \in CaseIds |-> no ],
        links |-> [ d \in CaseIds |-> no ] ]

(* Another's case looks like one that does not exist on every route, at    *)
(* every moment of its life; so does another's claim asked for through an  *)
(* own case, and another's case as the second one of a link (FR-019).      *)
Opaque ==
  \A a \in Analysts \cup {Anonymous}, c \in CaseIds :
    /\ ~Owns(a, c) => View(a)[c] = Unknown(a)
    /\ \A d \in CaseIds \ {c} : GetClaimEvidence(a, c, d) = Unknown(a).evidence[d]
    /\ \A d \in CaseIds : ~Owns(a, d) => PostCaseLink(a, c, d) = Unknown(a).links[d]

(* What an analyst sees changes only through a handler working for that    *)
(* analyst: no case, link, cancellation, feedback or crash of another's    *)
(* shows up in it (FR-003).  A view is a function of the rows, so only     *)
(* steps that change a row are looked at.                                  *)
NonInterference ==
  [][rows' # rows => \A a \in Analysts :
       \/ \E w \in Workers : work'[w] # work[w] /\ a \in {work[w].by, work'[w].by}
       \/ View(a)' = View(a)]_vars

(* The routes agree on a case: its owner can give feedback exactly when     *)
(* cancelling is refused, and a report that can be read can be commented    *)
(* on.  A case whose run was lost stays open to cancelling.                 *)
RoutesAgree ==
  \A a \in Analysts, c \in CaseIds :
    Owns(a, c) =>
      /\ PostFeedback(a, c).code = 201 <=> CancelCase(a, c).code = 409
      /\ GetReport(a, c).code = 200 => PostFeedback(a, c).code = 201
      /\ c \in lost => CancelCase(a, c).code = 202

(* A run in the API process whose cancellation was accepted before its     *)
(* last look at the set still finds it there, whatever other runs take out *)
(* of the set meanwhile, and does not complete (FR-005a).                  *)
CancelInTime ==
  \A c \in inTime :
    /\ cases[c].status # "completed"
    /\ \A t \in Threads : Running(t, c) => work[t].stage # "past"
    /\ \A t \in Threads : Running(t, c) /\ RunAt(t, "running") => c \in flags

(* The trail and the rows tell the same: links on both cases' trails and   *)
(* feedback, each with the analyst who made it, who owns the case; and an  *)
(* ending exactly when the case has ended.                                 *)
TrailMatchesRows ==
  \A c \in CaseIds :
    /\ \A e \in audit[c] : e.actor \in {cases[c].owner, "system"}
    /\ { e.other : e \in { f \in audit[c] : f.type = "case_linked" } } =
         { l.b : l \in { k \in caseLinks : k.a = c } } \cup { l.a : l \in { k \in caseLinks : k.b = c } }
    /\ { e.actor : e \in { f \in audit[c] : f.type = "feedback_recorded" } } =
         { f.by : f \in { g \in feedback : g.case = c } }
    /\ Ended(c) <=> \E e \in audit[c] : e.type = "report_generated"

(* Each case by itself lives as CaseLifecycle says, whatever happens to    *)
(* the others: one ending, with its report, and cancelled only when its    *)
(* own cancellation was asked for.  This is \A c : L(c)!Spec in the form    *)
(* TLC evaluates.  A case not created yet is mapped to one just created.   *)
L(c) == INSTANCE CaseLifecycle WITH
          status <- IF cases[c] = NoCase THEN "created" ELSE cases[c].status,
          report <- cases[c].report,
          asked <- c \in asked,
          lost <- c \in lost,
          ReportsMayFail <- "report" \in Faults

EachCaseLifecycle ==
  /\ \A c \in CaseIds : L(c)!Init
  /\ [][\A c \in CaseIds : L(c)!Next \/ UNCHANGED L(c)!caseVars]_vars
=============================================================================
