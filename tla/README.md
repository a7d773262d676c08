# Specifications of the investigation harness

TLA+ models of the alert-investigation harness in `src/src/harness`, checked
with TLC on small instances and proved about with TLAPS for all values of the
constants. This document says what the system is, which module models which
part, what each run and each theorem shows, and what is left out.

## 1. The system

An analyst creates a case for one alert through the HTTP API. The request
handler stores the case and then runs the investigation itself, in one plain
function call: a fixed workflow retrieves the alert, collects evidence with
read-only tools under a policy and a budget, builds claims and hypotheses
(asking a language model once), and stores a report. While it runs, other
handlers serve the same analyst, among them the one that cancels the case.

| Component | State it keeps | Operations | Who it meets |
|---|---|---|---|
| State machine (`orchestrator/machine.py`) | current state, cancel mark | advance, fail, transition_to | calls the audit callback on every transition |
| Runner (`orchestrator/states.py`) | one database session; the limitations list | run_investigation, _collect_evidence, _enrich_entities, _finalize | calls everything below; commits once, at the end |
| Cancellation (`states._CANCEL_REQUESTS`, `api/routes_cases.py`) | a process-wide set of case ids | cancel_case, _check_cancel, discard | written by the cancel handler, read and cleared by the runner |
| Tool invoker, registry (`tools/`) | operation rows | invoke | asks the policy engine and the budget, then a connector |
| Policy engine (`policy/`) | decision rows | authorize | reads sources, permitted tools, budget |
| Budget (`orchestrator/budget.py`) | ledger row; reads the wall clock | can_run_tool, consume_* | consulted by invoker, evidence store, hypotheses |
| Evidence store (`evidence/store.py`) | evidence rows | add | consumes budget before it stores |
| Analysis (`analysis/`) | claims, links, hypotheses, timeline, entities, proposals | generate_*, build_timeline, extract_entities | entities decide the enrichment calls |
| Report (`report/`) | report row | build_report_content, verify_report, persist_report | reads all rows of the case |
| Audit (`audit/service.py`) | per-case hash chain | append, verify_chain | called by all of the above, in their session |
| Case service, repository (`case_service.py`, `storage/`) | cases, links | create_case, link_cases, get_case, scoped reads and writes | other sessions on the same database |
| Feedback (`analysis/feedback.py`, `api/routes_feedback.py`) | feedback rows | post_feedback | refuses on the committed status |
| Read routes, identity (`api/`) | none | summary, report, audit, claim evidence; token verification | read committed rows of an owned case |
| Command line (`cli/__main__.py`) | a session and a cancel set of its own process | investigate, issue-token | creates and runs a case itself, beside the API, on the same database |
| Settings (`config/`) | none | bounds and defaults of six limits; redaction patterns | read by case creation, budget, verifier |
| Gateway, connectors | none | complete; the five sources' functions | called by hypotheses and invoker |

What makes it hard:

* **One late commit.** Everything of a run is invisible until its end. The
  status `running` is written and never committed, so other handlers decide on
  a record that says `created` all along.
* **Cancellation is a race** between a handler that checks the committed status
  and then sets a flag, and a runner that looks at the flag in four places,
  commits, and then discards the flag.
* **The clock** is read twice per tool call and nowhere else.
* **Limits bite in the middle** of a tool result or between a policy decision
  and the call it allowed.
* **Whatever calls out or works on foreign data may raise**, and two handlers at
  the bottom of the function turn what happened into a terminal state, a reason
  and a partial report; making that report may itself fail, and is then left out.
* **The database may refuse a write or a value**, and the process may die. A
  flush that fails takes the session with it, and nobody rolls it back.
* **Several analysts** use the same process and database. Nothing but the order
  of tests in each handler keeps one from another's cases, and one cancel set
  serves all runs of the process, while a run from the command line has another.
* **The model's answer is untrusted**: every value in it is kept, degraded or
  dropped by a rule of its own, and claims, hypotheses, proposals, severity and
  missing information are derived from what is left, at different times.

What makes each part correct: the stored record tells one story (status, state,
reason, report kind); the trail replays to the stored state; no operation
without a decision that allowed it, no observation without the operation that
retrieved it; the ledger counts the rows; the reason is true; gaps are named;
an accepted cancellation takes effect at the next check; every run whose session
lives ends;
another's case looks like one that does not exist; what is presented as
supported leads to observations; limits are those asked for, in bounds, and no
order of calls exceeds them.

## 2. Modules

| Module | Models | Notes |
|---|---|---|
| `Workflow` | the tables of `machine.py` and `registry.py` | no variables |
| `CaseLifecycle` | what a reader of the API is promised about a case | the abstract specification |
| `Investigation` | one run with its tools, budget, evidence, report, the cancel requests, the clock, and faults | implements `CaseLifecycle` |
| `AuditLog` | what the audit trail promises: a log per case that only grows, by whole requests | the abstract specification |
| `AuditTrail` | the hash chain under concurrent sessions: `append`, commits, rollbacks, locks, `verify_chain` | implements `AuditLog` |
| `CaseService` | several analysts and cases: every route, the case service, the scoped repository, the cancel set, the command line, crashes | each case implements `CaseLifecycle` |
| `Analysis` | the rows made of the evidence and of the model's answer, the report and its verification, provenance | |
| `Enforcement` | the limits a case gets, the policy engine, the budget service and the invoker under any caller | |
| `MCInvestigation`, `MCAuditTrail`, `MCCaseService`, `MCAnalysis`, `MCEnforcement` | the values of the checked instances | |
| `InvestigationProofs`, `InvestigationTrailProofs`, `InvestigationRowsProofs` | theorems about `Investigation`: the record and the lifecycle; the trail and cancellation; the stored rows | TLAPS |
| `SizeSumProofs` | the sum of item sizes in the ledger property | TLAPS, used by `InvestigationRowsProofs` |
| `AuditTrailProofs`, `CaseServiceProofs`, `AnalysisProofs`, `EnforcementProofs` | theorems about the module each is named after | TLAPS |

### How `Investigation` corresponds to the code

A step of the runner is as long as the code can run without reading the clock
or the cancel flag, calling a tool, or committing; those are the points where
another actor can make a difference. `pc` names the point between two steps,
`st` is `machine.current`.

* The session's rows are `trace` (its `state_transition` events), `ops`, `evid`
  and `ledger`; `lims` is the set of sources the `limitations` list names.
  `db` is what is committed. Only `CommitComplete` and `Finalize` change it, and
  both store the whole session at once.
* `Poll` is `_check_cancel` followed by the advance to `CANCELLED`.
* A tool call is `RequestTool` (decision, operation row, denial), then one of
  `BudgetSpentAfterAuthorization` (the second clock read), `ToolSucceeds`,
  `ToolAnswersEmpty`, `ToolFails`, `ToolRaises`; then one `StoreItem` per item of
  the result, cut short by `EvidenceOverLimit`, `StoreRaises` or `DataRefused`.
* A success with empty data is not `res.ok and res.data`: its caller stores
  nothing and does with the limitations what it does for a failure
  (`NothingToStore`). `ops` tells it from other successes as outcome `empty`; the
  code's row says `success` for both. The alert's caller tests `res.ok` alone, and
  a list of no events is not empty data but a result of length 0.
* `Normalize` stands for timeline, entities and observation claims. Which
  entities were found is a choice from `EntityLists`; an endpoint leads to a
  telemetry call and then an asset call, a user to one call.
* `tainted` says whether what the report is built from holds a value the
  verifier's secret scan matches. It may become true where content enters the
  report: at normalisation and with the model's answer.
* `Stop(s, why)` is a transition to a terminal state together with the reason
  given to `_finalize`; `Fail` is the handler of other exceptions.
* `CancelRead` and `CancelAccept` are the two halves of `cancel_case`.
* What may go wrong is in `Faults`. An `exception` that leaves the session usable
  ends in `Fail`: a handler that raises (`ToolRaises`), an event of another form
  than expected (`StoreRaises`), the timeline, entities and claims
  (`NormalizeRaises`), the model and the parsing of its answer (`ModelRaises`),
  proposals, report and verification (`ProduceRaises`). With `data`, the database
  driver refuses a value that a tool or the model gave (`DataRefused`), with
  `storage` any write of the session (`StorageError`): the flush that raises takes
  the session with it, no handler rolls it back, so the last commit raises too and
  nothing of the run is stored. With `report`, `persist_report` raises and the
  session can go on: the complete report's failure leads to `_finalize`
  (`ReportRaises`), the partial report's is swallowed and the status stored
  without one (`Finalize`). `Crash` ends the process; nothing in the code resumes
  a case. A machine transition by itself, and `Authorize`, do not raise but for
  the writes of their audit event, which `StorageError` covers.
* `Unwind` is the `finally` clause, also of a run whose session is lost: reading
  `case.id` there may raise once more, and the cancel flag then stays.

`acceptedAt` is a history variable for the properties; no action reads it.

The API returns a case's id only when its run is over, so a client that cancels
in time has the id from elsewhere, or calls `request_cancel` in the process as
the tests do. The model lets the request come at any time.

Retries and timeouts are configured (`StateConfig`, `RegisteredTool`,
`max_retries_per_operation`) and read by no code on the runner's path, so the
model has neither.

### How `AuditTrail` corresponds to the code

Each request (creation, run, link, feedback) is a database session that appends
its events in order (`Subject`) and commits once. `ReadLast` and `Insert` are
the two halves of `AuditService.append`; `Refused` is the unique constraint on
`(case_id, sequence)`. `Visible` is what a session sees: committed rows and its
own. A refused insert ends the request with its session rolled back (`Abort`): a
flush that fails rolls back by itself, and a run cannot commit afterwards either.
Only case creation has a rollback of its own; for the routes of links and
feedback, that locks and rows are gone when the error is answered rests on the
session being disposed of with the handler, which is external and assumed.

The database is external and modelled from how the code uses it, in the two
forms the documents name. With `sqlite` a session takes the only writer lock at
its first flush, and every caller flushes a row of its own before it appends
(`FirstFlush`); who cannot get it in time fails (`LockTimeout`). With `rows`
(the PostgreSQL-compatible schema) an insert waits for a session holding the
same key, and a circle of waiting sessions loses a victim.

A hash is modelled as the sequence of all that was hashed, so that it depends
on content and previous hash only and two different inputs never share one. No
key goes into it, so whoever can write to the table can compute it (`Rehashed`). A
time stamp is assumed to read back from the database as it was hashed; `_ts`
restores UTC where SQLite drops the zone, and on a database with row locks this
holds when the session's time zone is UTC.
`StoredLog` is what the stored rows mean as the log of `AuditLog`: the events of a
case by sequence, each by its request and its place among the request's own.
Four actions change the table behind the service, which is what the hash chain is
there to reveal: an event is deleted (`LoseEvent`), changed with its hash left as
it is (`AlterEvent`), hashed again with other content or over the events now before
it (`ForgeEvent`), or added with any free number (`InsertEvent`). Repeated, they
rewrite any part of a chain. `lost`, `altered` and `forged` are their history;
`Mismatch`, `FirstBroken` and `Intact` are `verify_chain`.

### How `CaseService` corresponds to the code

A route that only reads is an operator: the reply it would give now
(`GetCaseSummary`, `GetReport`, `GetAudit`, `VerifyAudit`, `GetClaimEvidence`).
`ForOwner` is what all begin with: a token that verifies, then `get_case`. These
and the three routes that write to an existing case (cancel, links, feedback) are
all there are besides creation; `View` is what one analyst gets from the eight.
A route that writes is an action for what its handler reads and decides
(`CancelRead`, `FeedbackRead`, `LinkRead`) and one for what it writes
(`RequestCancel`, `RecordFeedback`, `LinkCases`), and anything may happen between
them. `work` says what each handler of the API process, and each command-line
process, is doing.

A handler that creates a case goes on to run it. Of the run only what others
can notice is kept: the last look at the cancel set (`CheckCancel`), the commit
(`CommitRun`), the `finally` clause (`Return`, `Discard`). `Cancelled` says
which set is looked into: handlers share `_CANCEL_REQUESTS`, a command-line run
has its own, which nobody fills. One evidence item and one claim per case, named
by the case, stand for the run's rows; asking for another case's claim through
an own case is then asking for another name.

`Refuse` is a database that refuses a handler's write. Of a run it may leave the
cancel flag in the set: the ledger's insert comes before the `try` whose `finally`
clause discards it. `MadeReports` is what a run may store when making its report
fails. `Crash` is the end of a process with all its handlers and its cancel set. The writer lock that lets
handlers wait for each other is in `AuditTrail`, not here: every order of
commits the lock allows is among those explored.

### How `Analysis` corresponds to the code

One run, by what it does to rows: `Receive`, `Collect` and `Enrich` add evidence;
`Normalize` is `build_timeline`, `extract_entities` and
`generate_observation_claims`; `Ask` is the model's answer, cut to the candidates
looked at; `TakeCandidate`, `SkipCandidate` and `AnswerDone` are the loop of
`generate_hypotheses`; `Propose` and `Produce` the rest. `StopEarly` ends the run
anywhere with a partial report; why a run ends is `Investigation`'s business.

An evidence item is what these functions look at: whether it has a time and a
source record, whether it has a rule name, which entities its fields name, its
source and trust class, and where in it a value sits that the verifier's pattern
matches. The alert summary quotes the first item of the alert source that has a
rule name (`Summarised`), which need not be the first item. An entry of the answer is a
verdict and a confidence (valid, missing, invalid, or not hashable), and whether
it has a statement. `Trusts` are the two classes the runner stores.
`observed` is a history variable: the evidence there was when claims were made.

The report is a function of the rows (`BuildReport`) and is built twice in
`Produce`, as in the code. `Problems` has the two checks of `verify_report` that
can fail; `proposal_only` is true by the schema.

### How `Enforcement` corresponds to the code

`Create` is the limits part of `create_case`: defaults overridden by the request,
validated against `_BOUNDS`, both with their real values. The command line has
two options and drops a zero (`Passed`).

`Invoke` is `ToolInvoker.invoke` up to the decision, with `Evaluate` for
`_evaluate` and all its rules. A name is a word and the ways its spelling differs
from it, because `is_prohibited` lower-cases, strips and accepts a colon after
the word, while registered names are compared as they are. The empty name is
ambiguous, a blank one is merely not registered (`Nameless`). `Run` is the rest of
`invoke`, `SpentMeanwhile` the consumption that finds the time gone.
`ConsumeEvidence`, `ConsumeModelCall` and `ConsumeRetry` may be called at any time
by anybody; `consume_retry` has no caller in `src/` and is modelled as written.
`Reopen` is another `BudgetService` on the case's ledger row (`stored`), which
is what a flush wrote of the ledger (`Flushed`).

## 3. Runs

| Run | Checks | Result |
|---|---|---|
| `investigation` | `TypeOK`, eight safety properties, refinement of `CaseLifecycle!Spec` and `CaseLifecycle!FairSpec`, `EarlyCancelEndsRun` | holds |
| `late_cancel` | `AcceptedCancelNeverCompletes` (spec.md FR-005a) | violated |
| `withheld` | `RefusedContentWithheld` (architecture.md, verifier) | violated |
| `limit_name` | `LimitNamedExactly` (safety-model.md, section 5) | violated |
| `in_flight` | `NeverLeftInFlight` (workflow.md, spec.md FR-004) | violated |
| `identity_gap` | `EveryGapNamed` (workflow.md, failure handling) | violated |
| `audit_chain` | `TypeOK`, `ChainUnbroken`, `LinkOnBoth`, `NoConflictUnderLock`, refinement of `AuditLog!Spec`, `EveryRequestEnds` | holds |
| `audit_damage` | `VerdictExact` | holds |
| `cases` | `TypeOK`, `Opaque`, `RoutesAgree`, `CancelInTime`, `TrailMatchesRows`, `NonInterference`, each case against `CaseLifecycle` | holds |
| `analysis` | `TypeOK` and six properties of the report and the rows | holds |
| `enforcement` | `TypeOK`, `LimitsInForce`, `AllowIsEarned`, `DenialStands`, `TrailAccounts`, `LedgerWithinLimits` | holds |
| `audit_undetected` | `EveryChangeDetected` (audit.md, "Tamper-evident") | violated |

The properties of `investigation` and the question behind each:

* `CommittedConsistent`: can any order of cancellation, exhaustion, exception,
  refused write and crash store a status, state, reason and report that do not
  belong together, or a completed case nobody verified? (Where making a report may
  fail by itself, one can be missing, and a case can be stored as completed with
  the reason "system error" and without its complete report; the property says
  so, and admits it under that fault only.)
* `TrailReplays`: do the committed transition events replay, legally and
  without a gap, to the stored workflow state?
* `OpsAccounted`: did every operation that reached a source have the state's
  and the analyst's permission, and can only the last one lack an outcome?
* `EvidenceTraceable`: does every observation lead to one successful operation
  of its own source?
* `LedgerMatchesRows`: does the ledger count the rows and respect the limits,
  off by one item only after an exception?
* `ReasonIsTrue`: is the stored reason true of the stored rows and the clock?
* `GapsNamed`: does the report name exactly the sources of `NamedGap`, failed
  operations and alert or event calls that came back unusable or empty? Two places
  that do not know of each other decide it. It is what the code names, not what the
  documents promise: an identity answer that is malformed or oversized is a gap
  too, and that it is not named is the violated run `identity_gap`.
* `CancelAtNextCheckpoint`: does a run leave a checked state, entered after a
  cancellation was accepted, only to `CANCELLED`?
* `LifecycleSpec`: does the record seen from outside change at most once, from
  created to an ending with its report, to `cancelled` only if someone asked, and
  never once the run's session or process is lost?
* `LifecycleFairSpec`: does every case end that is not lost in that way, whatever
  tools, model, report and clock do?
* `EarlyCancelEndsRun`: does a flag set while a checkpoint is ahead always lead to
  an ending other than completion, or to a lost run?

The audit runs ask:

* `ChainUnbroken`, `LogSpec`: do concurrent sessions that read, insert, wait,
  fail and roll back leave every chain numbered without gaps, linked, and only
  ever extended by whole requests?
* `NoConflictUnderLock`: on SQLite, is no append ever refused for its number?
  It holds only because each caller flushes something first.
* `LinkOnBoth`: is a link audited on both cases or on neither?
* `EveryRequestEnds`: is everyone answered, also when two links append to the
  same two chains in opposite orders? The database's part is assumed (it ends a
  lock wait and picks a victim in a circle); what the code adds is that no session
  ends with rows or the lock left behind.
* `VerdictExact`: an event is sound when its content is what was hashed, and the
  events stored before it are exactly those it was hashed over. Does the sequence
  `verify_chain` names separate sound events from others, whatever was deleted,
  altered, hashed again or added? So nothing before an event that has kept the
  service's hash can have changed. A chain hashed again up to its end is sound in
  this sense; that such a chain passes is part of `audit_undetected`.

The run `cases` asks:

* `Opaque`: does another's case, another's claim through an own case, or
  another's case as the second of a link answer as one that does not exist, on
  each of the eight routes and at every moment?
* `NonInterference`: does what an analyst sees ever change by what another does?
* `RoutesAgree`: is feedback taken exactly when a cancellation is refused, can a
  report that is served always be commented on, and does a case whose run was lost
  stay open to cancelling (for ever, as nothing resumes it)?
* `CancelInTime`: can a cancellation accepted before the last check be lost to
  another run that ends, and the run complete?
* `TrailMatchesRows`: do link and feedback rows and the events about them match,
  on both cases and with the owner as the actor?
* `EachCaseLifecycle`: does each case, whatever happens to the others, behave as
  `CaseLifecycle`?

The run `analysis` asks:

* `SupportIsGrounded`: does each supported finding, each supported hypothesis and
  a high severity lead to observations, whatever the model claims?
* `InferenceSeesAll`, `ObservedOnce`: claims are made of the evidence before
  enrichment and hypotheses are linked after it; is an item presented as observed
  exactly when it should be, and does a supported inference rest on all of them?
* `ProposalsFollowSupport`: are there proposals only with a supported hypothesis,
  and only about entities the evidence names?
* `HypothesesTotal`: does any answer leave at least one hypothesis and at most as
  many as are looked at, each as supported as its claim?
* `ProvenanceAgrees`: do the report and the provenance route say the same of each
  claim's evidence and of what is missing?

The run `enforcement` asks:

* `LimitsInForce`: does a case ever exist with a limit out of bounds or not asked
  for? The exception the code makes, a zero on the command line, is in it.
* `AllowIsEarned`: can any spelling, state, grant or order of calls reach a
  source that was not allowed?
* `DenialStands`: can an exhausted budget allow something again, for instance
  through a budget service opened anew? (The wall clock, which the elapsed time is
  read from, is assumed not to be set back.)
* `TrailAccounts`: do the audit events alone account for every operation and for
  the ledger?
* `LedgerWithinLimits`: can any order of consumptions exceed a limit?

The six violated runs each state what a document of the repository says; the
quotations are in `PROJECT.json`. In short: a cancellation accepted after the
last check is ignored; content the verifier refused is stored in the partial
report; running out of time is reported as running out of tool operations; a
value or a write that the database refuses leaves the case in `created`; an
unusable identity answer is not named in the limitations; the last events of a
chain can be lost, or hashed again, or extended, without `verify_chain` noticing.

### Bounds, and why they are enough

* Two tool operations, three items, four units of bytes, items of size 1 or 2,
  results of up to two items: each limit can be the first to be hit, before, in and
  after a result. A connected alert's run uses both operations before enrichment
  and is stopped in it; with submitted content, or a source denied, both calls of an
  endpoint fit as well, so the operation limit is hit before, in and after
  enrichment.
* `MaxElapsed = 1`, `ClockBound = 2`: the clock is within the limit, at it, or
  past it. No code distinguishes later values.
* One cancel request. A second has the same effect (the flag is a set
  membership), and `CancelRead`/`CancelAccept` interleave with every step.
* Grants: none, all, only the alert source, all but it. They reach each denial
  and the opposite of each.
* `MaxModelCalls = 1` is the least the settings admit. The run makes one model
  call, so `max_model_calls` is never the reason of a stop; the branch is kept
  because the code has it.
* The bounds on time, events and entities are constants (`ClockBound`,
  `MaxEvents`, `MaxEntities`); the theorems hold for all of them.

* `AuditTrail`: two cases with their creations, a run, two links in opposite
  directions and one feedback. Every pair of kinds that can meet on one chain
  does, and two links are what a circle of waiting sessions takes. In the
  damage runs one chain, two feedbacks, and at most two changes behind the service
  (one for the violated runs): damage before, between and after appends, and an
  event hashed again over an altered, lost or added one.

* `CaseService`: two analysts and two cases, so that every pair of an owner and a
  stranger, and a link in either direction, occurs; two handlers of the API
  process and one command-line run, so that a run can meet another run's end, a
  cancellation, feedback or a link. Three endings stand for the six, one of each
  kind the code tells apart (complete, cancelled, other); one link, because its
  admission depends on no other.
* `Analysis`: three evidence items (an alert, one collected, one from enrichment,
  or more of one kind), six forms of content with and without time, record,
  entity and matching value, answers of up to three entries of six forms, two of
  which are looked at: the cut is met.
* `Enforcement`: three calls or consumptions in any mixture, after limits at
  their least values, and values just outside the bounds. Three steps are what an
  exhausted limit, its denial and an attempt after it take; an operation limit of
  one, and two items or 1024 bytes, are met within them.

Deadlock is checked in every run: `Quiet` and `Ended` play the part in
`Enforcement` and `Analysis` that the following do elsewhere. `Halted` is the only step of a finished or
dead runner, so a runner stuck anywhere else is reported; `AllFinished` plays
that part in `AuditTrail`.

### Fairness

`FairSpec` assumes weak fairness of `Runner`, and of `CancelAccept` for each
request. The runner is a synchronous call: nothing can take its turn away, and
a cancel handler that has read the status goes on to set the flag. This assumes
that tool handlers and the model return: the code declares timeouts and
enforces none. The analyst need not ask, the clock need not advance and no
fault need happen. `investigation` has every fault: `CaseLifecycle!FairSpec` promises
that a case ends or is lost, and that a lost one stays as it was created; the
refinement maps `lost` to a session taken by a refused write or value, or a
process that died (`Lost`). What the documents promise of the lost ones as well
is `in_flight`.

`AuditTrail` assumes weak fairness of each request's own steps, database
answers included: a request that has arrived is served to its end by its
thread, a lock wait ends by the lock or its timeout, and the database looks for
circles of waiting sessions. The last two are the database's and assumed of it.
Breaking sessions and damage are never forced.

`CaseService`, `Analysis` and `Enforcement` are checked for safety only: their
specifications state no fairness. That a run ends is shown by `investigation`, that
every handler is answered by `audit_chain`.

## 4. Proofs

Every safety invariant, every action property and every refinement that a
passing run checks is also a theorem: it holds for every value of the constants
that satisfies the named assumptions of its module. What the runs add is the
liveness properties, and the confidence that each formula was true before it was
proved: each inductive invariant below was first checked by TLC as an invariant
of the run of its component.

The assumptions are types and no more: limits are positive and the clock bound
lies beyond the time limit (`Investigation`), grants are sets of sources, faults
and endings are among the named ones, names, kinds of content and answers are of
their form, sizes and clock readings are natural numbers, the events of a request
are a non-empty sequence of cases, and the value that stands for "no request" is
not one. Nothing bounds the number of analysts, cases, requests, handlers,
items, answers or steps: `MaxSteps`, `MaxDamage`, `MaxEvents`, `MaxEntities`,
`MaxItems` and the like are arbitrary numbers.

Each component's invariant is inductive, and none of the properties is by
itself: a property speaks of what is stored, or of the end of a run, and the
invariant says why the step that stores it may.

### `Investigation`

| Theorem | States |
|---|---|
| `TypeCorrect` | `[]TypeOK` |
| `CommittedIsConsistent` | `[]CommittedConsistent` |
| `ImplementsLifecycle` | `LifecycleSpec` |
| `CommittedTrailReplays` | `[]TrailReplays` |
| `CancelTakesEffect` | `[]CancelAtNextCheckpoint` |
| `OperationsAccounted`, `EvidenceHasOrigin` | `[]OpsAccounted`, `[]EvidenceTraceable` |
| `LedgerIsExact` | `[]LedgerMatchesRows` |
| `StoredReasonIsTrue`, `ReportNamesItsGaps` | `[]ReasonIsTrue`, `[]GapsNamed` |

`Inductive` is `Spec => []IInv` with

    IInv == TypeInv /\ StageInv /\ CommittedConsistent

`StageInv` says where in the workflow each program point can be: while the run
goes on its state is an active one, no reason is set and the record is still
`Created`; at `complete` the state is `COMPLETE` and nothing tainted passed the
verifier; at `finalize` the state is a terminal one and the reason is set, and the
state is `COMPLETE` only when the complete report could not be made; a run whose
session is lost still has the record of the creation;
the flag is up, or the state is `CANCELLED`, only if a request was accepted.
`TypeInv` adds to `TypeOK` that a call in hand has its operation row and its
entity. The refinement maps `CommitComplete` to `Complete`, `Finalize` to
`StopEarly` or `CompleteUnreported`, `CancelAccept` to `AskToCancel`, a step that
loses the session or the process to `Lose`, and every other step to stuttering.

The trail (`TIInv`) needs that the session's trail is a run of the machine up to
its present state: a step inside the session makes at most one transition
(`StaysInState`, `MovesOn`), and a commit stores the trail with that state.
Cancellation (`CancelIInv`) needs two facts: the flag stands while the runner
runs and somebody was accepted (`FlagStands`), and past the checkpoint of a
checked state every accepted request came after that state was entered
(`AcceptedSinceEntry`).

The rows (`RowsInductive`, with `RowsInv`) are followed through the session: what
each operation row may say at each program point (`OpsInv`, `CallInv`), where an
item came from (`EvidInv`), that nothing is stored before the alert (`FreshInv`),
that the reason was true when it was set and nothing has changed since
(`ReasonInv`), which sources the limitations must name (`GapsInv`), and the
ledger against the rows (`LedgerInv`). `StoredTrue` says the same of what was
committed.

`SumAppend` (`SizeSumProofs`) is the fact about `MapThenSumSet` that the ledger
needs: one more item adds its size. The library defines the sum by a fold that
picks elements in an unspecified order, so it is first shown that the order does
not matter.

### `CaseService`

| Theorem | States |
|---|---|
| `ServiceTypes` | `[]TypeOK` |
| `OthersCasesOpaque`, `NothingLeaks` | `[]Opaque`, `NonInterference` |
| `RoutesConsistent` | `[]RoutesAgree` |
| `CancelReachesItsRun` | `[]CancelInTime` |
| `TrailAgrees` | `[]TrailMatchesRows` |
| `ServiceImplementsLifecycles` | `EachCaseLifecycle` |

The invariant (`ServiceInductive`) is about what lies between a handler's read
and its write: what admitted it still stands (`AdmittedWork`), a run works on a
case of its own analyst that is stored as created until it commits
(`CreateWork`), one handler runs a case (`OneRunner`), a lost run is never taken
up (`LostInv`). `InTimeInv` is the argument for the shared cancel set: a run
whose cancellation came in time is in the API process, has not looked yet, and
the set still names its case, because every `Discard` takes out only its own.
Isolation follows from `RowInv`, which ties every row to a case and its owner.

### `Enforcement`

| Theorem | States |
|---|---|
| `EnforcementTypes` | `[]TypeOK` |
| `LimitsHold`, `NeverOverLimit` | `[]LimitsInForce`, `[]LedgerWithinLimits` |
| `AllowEarned` | `[]AllowIsEarned` |
| `ExhaustedStays` | `[]DenialStands` |
| `TrailTellsAll` | `[]TrailAccounts` |

`DenialStands` needs `StaysExhausted` (nothing gives a budget back) and
`RowCurrent` (what another service would read is what this one holds: the flush
of the reassigned JSON column is what makes this true). `TrailAccounts` counts
events; `CallsDecided` gives one decision and one row for each call.

### `Analysis`

| Theorem | States |
|---|---|
| `AnalysisTypes` | `[]TypeOK` |
| `ReportIsGrounded`, `InferencesSeeAll` | `[]SupportIsGrounded`, `[]InferenceSeesAll` |
| `ObservedFactsOnce` | `[]ObservedOnce` |
| `ProposalsFollow` | `[]ProposalsFollowSupport` |
| `AnswersTotal` | `[]HypothesesTotal` |
| `RoutesAgreeWithReport` | `[]ProvenanceAgrees` |

The report is a function of the rows, so the invariant is about the rows:
observation claims, links and timeline come from what was observed, one for each
item (`ObservedInv`); an inference claim and its hypothesis are taken back
together (`InferenceInv`); a hypothesis is not made before the last item is in
(`PhaseInv`), which is why an inference made once still sees all observations at
the end.

### `AuditTrail`

| Theorem | States |
|---|---|
| `AuditTrailTypes` | `[]TypeOK` |
| `LockedNeverConflicts` | `[]NoConflictUnderLock` |
| `VerdictIsExact` | `[]VerdictExact` |
| `ChainsUnbroken`, `LinksAuditedOnBoth` | `[]ChainUnbroken`, `[]LinkOnBoth`, if `MaxDamage = 0` |
| `ChainsImplementLog` | `LogSpec`, if `MaxDamage = 0` |

The last three say what the program does when nobody else writes to its table,
so they assume that nothing is changed behind it; the others hold under any
damage, and `VerdictExact` is about nothing else. The invariant
(`AuditTrailInductive`) follows each row from its insertion on, by the service or
behind it: it was hashed with the content it was written with (`Hashed`), its
previous hash is that of a row of its case that is there or was lost or replaced
(`Linked`), keys are unique over all sessions (`KeysUnique`), a session's events are those of its subject in turn
(`InTurn`), done requests have all theirs in (`Accounted`), and under SQLite the
writer's last event stays the last until it inserts (`Locked`).

Numbers of what was hashed are at most the event's own (`Numbered`), and without
damage a number is the length of a hash. Hashes are injective, so a chain without
damage has no gap: from an event with number above 1 leads a previous hash to an
event with the number before. The verdict is exact (`VerifiedIsReal`) because the
first event that verifies and yet stands on others than it was hashed over would
follow an earlier such event, and an event that does not verify has either lost its
content or has another before it than it was hashed over.

The refinement maps a commit to `Record`: the session's events of a case come
after all that were there (the numbers 1 to n are taken), in the order they were
made (`InTurn`), and are the places of the case in the request's subject, counted
(`CommitRecords`). No other step changes a chain.

### Induction without induction

The proof system cannot instantiate an induction theorem. Where a fact needs one
(the sum of sizes, numbers without gap, the last event, a verified prefix), the
proof takes a smallest counterexample, which the well-foundedness of the natural
numbers or of the subsets of a finite set provides, and contradicts it.

### What stays with TLC

`LifecycleFairSpec`, `EarlyCancelEndsRun` and `EveryRequestEnds`: liveness under
fairness, and with it `ENABLED`, is beyond the proof system's reach. The six
violated runs show counterexamples, for which TLC is enough.

## 5. Not modelled

* Text: prompts, Markdown, log lines, redaction patterns, alert content, the
  deterministic fake model. What matters of content (its size, whether the
  verifier objects, which entities it names) is a choice.
* Token encoding and expiry, configuration loading, the wiring of the
  application, the tables' definitions beyond their keys.
* The order of the timeline. SQLite stores no offset, so it is by wall clock for
  rows read back; that the sort may raise is in `Investigation`.
* The instruction detector: its patterns are text, and the flag it sets only adds
  a sentence to the limitations.
* The exceptions of the scoped repository for rows of a foreign case: no caller
  in `src/` passes one.
* What triggers a failing `persist_report`: that it may raise with its session
  usable is taken from the code, which provides for it (states.py:243-247, against
  the documents' "emits a partial report"); no input that makes it do so is
  modelled.
* Sessions that outlive their handler. The routes open a session and do not close
  it; that it is rolled back when the handler is done is assumed (`Abort`).
* `check_time`, `StateConfig.max_retries` and the timeouts: no code calls or reads
  them.

## 6. Plan

Done: all modules of section 2, and the theorems of section 4. What is left, in
order of importance:

1. What the abstract specifications promise, proved of themselves and so of
   everything that implements them: a log of `AuditLog` only grows and holds each
   request's entries together or not at all; a case of `CaseLifecycle` changes
   once, and is cancelled only after somebody asked.
2. `ChainUnbroken` and `LogSpec` up to the first damage, without the hypothesis on
   `MaxDamage`: the events before the least number lost or altered are numbered
   without a gap and stay as they are.
3. The steps that liveness rests on, as safety: a measure that every step of the
   runner decreases, so that a fair run must end.
4. Liveness of `CaseService` (every admitted handler is answered), on a smaller
   instance.
