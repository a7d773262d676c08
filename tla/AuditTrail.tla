----------------------------- MODULE AuditTrail ------------------------------
(***************************************************************************)
(* The audit chain of src/src/harness/audit/service.py under concurrent    *)
(* requests.  Every request works in a database session of its own: a      *)
(* case's creation, its run, a link (which writes to two chains) and       *)
(* feedback.  AuditService.append reads the last event the session can see *)
(* and inserts the next, and the table has a unique constraint on          *)
(* (case_id, sequence).                                                    *)
(*                                                                         *)
(* The database is external.  "sqlite" gives one session at a time the     *)
(* right to write, from its first flush to its end, and every caller of    *)
(* append has flushed a row of its own before; "rows" locks index entries: *)
(* an insert waits for the session that holds the same key.                *)
(***************************************************************************)
EXTENDS Integers, Sequences, FiniteSets, FiniteSetsExt, SequencesExt

CONSTANTS
  Cases,
  Creations, Runs,         \* the requests that append, by what they are
  Links, Feedbacks,
  Subject,                 \* for each request, the case of each of its events
  Backends,                \* which of "sqlite", "rows" the deployment may use
  MaxDamage,               \* bound: how often the table is changed behind the service
  NoRequest                \* nobody holds the writer lock

Requests == Creations \cup Runs \cup Links \cup Feedbacks

ASSUME SubjectAssumption == Subject \in [Requests -> Seq(Cases) \ {<<>>}]
ASSUME BackendsAssumption == Backends \subseteq {"sqlite", "rows"}
ASSUME DamageAssumption == MaxDamage \in Nat
ASSUME NobodyAssumption == NoRequest \notin Requests

VARIABLES
  backend,
  lock,      \* sqlite: the request that may write
  stored,    \* the committed audit_events rows
  pending,   \* per request, the rows it has flushed and not committed
  pc,        \* how far each request has got
  last,      \* per request, sequence and hash of the last event it read
  status,    \* of each case, as committed
  lost,      \* history: stored rows that were deleted or replaced behind the service
  altered,   \* history: hashes of stored rows whose content only was changed
  forged,    \* history: hashes of rows that somebody else computed
  damage     \* how often the table was changed behind the service

vars == <<backend, lock, stored, pending, pc, last, status, lost, altered, forged, damage>>

-----------------------------------------------------------------------------
(* Events and their hashes.  The hash of an event is a function of its own  *)
(* content and the previous hash and of nothing else, and different inputs  *)
(* have different hashes: here it is the sequence of everything hashed.  No *)
(* key goes into it, so anybody can compute it.  A timestamp is taken to    *)
(* read back from the database as it was written (_ts, service.py:15-19).   *)

NoHash == <<>>

HashOf(row, prev) == Append(prev, [case |-> row.case, seq |-> row.seq, body |-> row.body])

NoEvent == [seq |-> 0, hash |-> NoHash]

RowsOf(rows, c) == { row \in rows : row.case = c }

(* Rows another session has not committed read as well. *)
VisibleDirty(r) == stored \cup UNION { pending[q] : q \in Requests }

(* What a session sees: what is committed and what it wrote itself. *)
Visible(r) == stored \cup pending[r]

(* The event with the highest sequence among the rows of a case. *)
LastEvent(rows) ==
  IF rows = {} THEN NoEvent
  ELSE LET row == CHOOSE x \in rows : \A y \in rows : y.seq <= x.seq
       IN  [seq |-> row.seq, hash |-> row.hash]

(* The case of the next event of a request. *)
NextCase(r) == Subject[r][Cardinality(pending[r]) + 1]

AllButOneAppended(r) == Cardinality(pending[r]) + 1 >= Len(Subject[r])

AllAppended(r) == Cardinality(pending[r]) = Len(Subject[r])

(* The event append is about to insert, from the last one it read. *)
NewRow(r) ==
  LET row == [ case |-> NextCase(r), seq |-> last[r].seq + 1,
               body |-> [by |-> r, nth |-> Cardinality(pending[r]) + 1] ]
  IN  [ case |-> row.case, seq |-> row.seq, body |-> row.body,
        prev |-> last[r].hash, hash |-> HashOf(row, last[r].hash) ]

SameKey(row, rows) == \E x \in rows : x.case = row.case /\ x.seq = row.seq

-----------------------------------------------------------------------------
Init ==
  /\ backend \in Backends
  /\ lock = NoRequest
  /\ stored = {}
  /\ pending = [r \in Requests |-> {}]
  /\ pc = [r \in Requests |-> "idle"]
  /\ last = [r \in Requests |-> NoEvent]
  /\ status = [c \in Cases |-> "none"]
  /\ lost = {} /\ altered = {} /\ forged = {}
  /\ damage = 0

NoDamage == UNCHANGED <<lost, altered, forged, damage>>

(* When a request is more than a refusal: a run follows the commit of its   *)
(* case's creation; a link of a case that does not exist is answered 403,  *)
(* feedback on one that has not ended 409, and neither changes anything.   *)
Admitted(r) ==
  /\ r \in Runs => status[Subject[r][1]] = "created"
  /\ r \in Links => \A c \in Range(Subject[r]) : status[c] # "none"
  /\ r \in Feedbacks => status[Subject[r][1]] = "ended"

Arrive(r) ==
  /\ pc[r] = "idle"
  /\ Admitted(r)
  /\ pc' = [pc EXCEPT ![r] = "arrived"]
  /\ UNCHANGED <<backend, lock, stored, pending, last, status>> /\ NoDamage

(* The row a request writes before its first event is not flushed. *)
MayWriteAlways(r) == TRUE

MayWrite(r) == backend = "sqlite" => lock = NoRequest

(* The first flush: the case, the run's ledger row, the link, the feedback. *)
FirstFlush(r) ==
  /\ pc[r] = "arrived"
  /\ MayWrite(r)
  /\ lock' = IF backend = "sqlite" THEN r ELSE lock
  /\ pc' = [pc EXCEPT ![r] = "open"]
  /\ UNCHANGED <<backend, stored, pending, last, status>> /\ NoDamage

(* "database is locked": the writer did not finish within the timeout. *)
LockTimeout(r) ==
  /\ pc[r] = "arrived"
  /\ backend = "sqlite" /\ lock # NoRequest
  /\ pc' = [pc EXCEPT ![r] = "failed"]
  /\ UNCHANGED <<backend, lock, stored, pending, last, status>> /\ NoDamage

(* append, first half: the last event of the case. *)
ReadLast(r) ==
  /\ pc[r] = "open"
  /\ Cardinality(pending[r]) < Len(Subject[r])
  /\ last' = [last EXCEPT ![r] = LastEvent(RowsOf(Visible(r), NextCase(r)))]
  /\ pc' = [pc EXCEPT ![r] = "read"]
  /\ UNCHANGED <<backend, lock, stored, pending, status>> /\ NoDamage

(* Waiting for a session that has inserted the same key and not finished. *)
WaitsFor(r, q) == q # r /\ pc[r] = "read" /\ SameKey(NewRow(r), pending[q])

(* No unique constraint: nothing is ever refused. *)
RefusedNever(r) == FALSE

Refused(r) == SameKey(NewRow(r), stored)

(* append, second half: the insert. *)
Insert(r) ==
  /\ pc[r] = "read"
  /\ ~Refused(r)
  /\ \A q \in Requests : ~WaitsFor(r, q)
  /\ pending' = [pending EXCEPT ![r] = @ \cup {NewRow(r)}]
  /\ pc' = [pc EXCEPT ![r] = "open"]
  /\ UNCHANGED <<backend, lock, stored, last, status>> /\ NoDamage

(* The error is answered and the session left as it is. *)
AbortWithoutRollback(r, outcome) ==
  /\ pc' = [pc EXCEPT ![r] = outcome]
  /\ UNCHANGED <<backend, lock, stored, pending, last, status>> /\ NoDamage

(* The session is rolled back and the request answered with an error.  A   *)
(* failed flush rolls back by itself; where the route has no rollback of    *)
(* its own, links and feedback, the disposal of the session does it, which  *)
(* is external and taken to come with the answer.                          *)
Abort(r, outcome) ==
  /\ pending' = [pending EXCEPT ![r] = {}]
  /\ lock' = IF lock = r THEN NoRequest ELSE lock
  /\ pc' = [pc EXCEPT ![r] = outcome]
  /\ UNCHANGED <<backend, stored, last, status>> /\ NoDamage

(* The unique constraint refuses the insert. *)
Conflict(r) == pc[r] = "read" /\ Refused(r) /\ Abort(r, "conflict")

(* Sessions that wait for one another in a circle, each for the next. *)
InCircle(r) ==
  \E circle \in SUBSET Requests :
    /\ r \in circle
    /\ \A q \in circle : \E p \in circle : WaitsFor(q, p)
    /\ \A q \in circle : \E p \in circle : WaitsFor(p, q)

(* The database picks a victim. *)
DeadlockVictim(r) == InCircle(r) /\ Abort(r, "failed")

(* A refused write or the end of the process. *)
Break(r) == pc[r] \in {"open", "read"} /\ Abort(r, "failed")

Commit(r) ==
  /\ pc[r] = "open"
  /\ AllAppended(r)
  /\ stored' = stored \cup pending[r]
  /\ pending' = [pending EXCEPT ![r] = {}]
  /\ lock' = IF lock = r THEN NoRequest ELSE lock
  /\ status' = IF r \in Creations THEN [status EXCEPT ![Subject[r][1]] = "created"]
               ELSE IF r \in Runs THEN [status EXCEPT ![Subject[r][1]] = "ended"]
               ELSE status
  /\ pc' = [pc EXCEPT ![r] = "done"]
  /\ UNCHANGED <<backend, last>> /\ NoDamage

-----------------------------------------------------------------------------
(* verify_chain: walk the events by sequence, recompute each hash.         *)

(* What verify_chain carries as prev_hash when it reaches an event. *)
PrevHash(row) == LastEvent({ x \in RowsOf(stored, row.case) : x.seq < row.seq }).hash

(* Only the links compared, not the content. *)
MismatchInLinks(row) == row.prev # PrevHash(row)

Mismatch(row) ==
  \/ row.prev # PrevHash(row)
  \/ row.hash # HashOf(row, PrevHash(row))

(* first_broken_sequence, or one past every event when the chain is intact. *)
FirstBroken(c) ==
  LET broken == { row \in RowsOf(stored, c) : Mismatch(row) }
  IN  IF broken = {} THEN LastEvent(RowsOf(stored, c)).seq + 1
      ELSE Min({ row.seq : row \in broken })

Intact(c) == \A row \in RowsOf(stored, c) : ~Mismatch(row)

-----------------------------------------------------------------------------
(* What may happen to the table behind the service, at most MaxDamage times: *)
(* an event is deleted; its content is changed and its hash left; it is     *)
(* hashed again, with other content or over another event before it; or     *)
(* one is added.  The columns and the unique constraint bind everybody, and *)
(* so does SQLite's writer lock for an event that is added.                 *)

Damage ==
  /\ damage < MaxDamage
  /\ damage' = damage + 1
  /\ UNCHANGED <<backend, lock, pending, pc, last, status>>

LoseEvent ==
  /\ Damage
  /\ \E row \in stored : lost' = lost \cup {row} /\ stored' = stored \ {row}
  /\ UNCHANGED <<altered, forged>>

AlterEvent ==
  /\ Damage
  /\ \E row \in stored :
       /\ row.hash \notin altered /\ row.body.nth # 0
       /\ altered' = altered \cup {row.hash}
       /\ stored' = (stored \ {row}) \cup {[row EXCEPT !.body.nth = 0]}
  /\ UNCHANGED <<lost, forged>>

(* The row with the given content, linked to the event now before it. *)
Rehashed(row, nth) ==
  [ row EXCEPT !.body.nth = nth, !.prev = PrevHash(row),
               !.hash = HashOf([row EXCEPT !.body.nth = nth], PrevHash(row)) ]

(* A row put back as it was undoes a loss and is left out. *)
Forge(new) ==
  /\ \A row \in stored \cup lost : row.hash # new.hash
  /\ forged' = forged \cup {new.hash}

ForgeEvent ==
  /\ Damage
  /\ \E row \in stored : \E nth \in {0, row.body.nth} :
       /\ Forge(Rehashed(row, nth))
       /\ lost' = lost \cup {row}
       /\ stored' = (stored \ {row}) \cup {Rehashed(row, nth)}
  /\ UNCHANGED altered

InsertEvent ==
  /\ Damage
  /\ backend = "sqlite" => lock = NoRequest
  /\ \E like \in stored : \E n \in 1..(LastEvent(RowsOf(stored, like.case)).seq + 1) :
       LET new == Rehashed([like EXCEPT !.seq = n], 0) IN
       /\ Forge(new)
       /\ ~SameKey(new, stored \cup UNION { pending[q] : q \in Requests })
       /\ stored' = stored \cup {new}
  /\ UNCHANGED <<lost, altered>>

-----------------------------------------------------------------------------
Session(r) ==
  \/ FirstFlush(r) \/ LockTimeout(r) \/ ReadLast(r) \/ Insert(r)
  \/ Conflict(r) \/ DeadlockVictim(r) \/ Commit(r)

AllFinished ==
  /\ \A r \in Requests : pc[r] \in {"idle", "done", "failed", "conflict"}
  /\ UNCHANGED vars

Next ==
  \/ \E r \in Requests : Arrive(r) \/ Session(r) \/ Break(r)
  \/ LoseEvent \/ AlterEvent \/ ForgeEvent \/ InsertEvent
  \/ AllFinished

(* A request that has arrived is served to its end. *)
Fairness == \A r \in Requests : WF_vars(Session(r))

Spec == Init /\ [][Next]_vars /\ Fairness

-----------------------------------------------------------------------------
(* Properties.                                                             *)

Bodies == [by : Requests, nth : Nat]
HashInputs == [case : Cases, seq : Nat, body : Bodies]
Rows == [case : Cases, seq : Nat, body : Bodies, prev : Seq(HashInputs), hash : Seq(HashInputs)]

Writing(r) == pc[r] \in {"open", "read"}

(* Types, and that a session which has ended leaves nothing behind: no      *)
(* uncommitted row and not the writer lock (get_session, db.py:29, and the *)
(* commit or rollback at the end of every route).                          *)
TypeOK ==
  /\ \A r \in Requests : pending[r] # {} => Writing(r)
  /\ lock # NoRequest => backend = "sqlite" /\ Writing(lock)
  /\ backend \in Backends
  /\ lock \in Requests \cup {NoRequest}
  /\ stored \in SUBSET Rows
  /\ pending \in [Requests -> SUBSET Rows]
  /\ pc \in [Requests -> {"idle", "arrived", "open", "read", "done", "failed", "conflict"}]
  /\ last \in [Requests -> [seq : Nat, hash : Seq(HashInputs)]]
  /\ status \in [Cases -> {"none", "created", "ended"}]
  /\ lost \in SUBSET Rows
  /\ altered \in SUBSET Seq(HashInputs) /\ forged \in SUBSET Seq(HashInputs)
  /\ damage \in 0..MaxDamage

(* docs/audit.md "gap-free by construction": the committed events of a case *)
(* are numbered from 1 without a gap or a repeat, each follows the hash of *)
(* the one before, and verify_chain says so, whatever sessions append at   *)
(* the same time and whichever of them fail (service.py:66-149).           *)
ChainUnbroken ==
  \A c \in Cases :
    LET chain == RowsOf(stored, c) IN
    /\ { row.seq : row \in chain } = 1..Cardinality(chain)
    /\ Intact(c)

(* A link is audited on both of its cases or on neither                     *)
(* (link_cases, case_service.py:59-74).                                    *)
LinkOnBoth ==
  \A r \in Links :
    LET audited == { row.case : row \in { x \in stored : x.body.by = r } }
    IN  audited = {} \/ audited = Range(Subject[r])

(* With SQLite's writer lock no append is ever refused for its number: every *)
(* caller flushes a row of its own before its first append, so it holds the *)
(* lock when it reads the last event (budget.py:31, case_service.py:68,    *)
(* feedback.py:23).                                                        *)
NoConflictUnderLock == backend = "sqlite" => \A r \in Requests : pc[r] # "conflict"

(* Every request that arrives is answered, by a commit or an error: no      *)
(* handler answers and leaves rows behind that another waits for.  Links in *)
(* opposite directions do wait for one another (link_cases appends in the   *)
(* order it is asked for, case_service.py:70-71); that the database then    *)
(* picks a victim, and gives up on a lock, is assumed of it.               *)
EveryRequestEnds ==
  \A r \in Requests : pc[r] = "arrived" ~> pc[r] \in {"done", "failed", "conflict"}

(* The i-th of the stored events of a case. *)
StoredEvent(c, i) ==
  CHOOSE row \in RowsOf(stored, c) :
    Cardinality({ x \in RowsOf(stored, c) : x.seq <= row.seq }) = i

StoredLog ==
  [c \in Cases |-> [i \in 1..Cardinality(RowsOf(stored, c)) |-> StoredEvent(c, i).body]]

(* The stored chains behave as the append-only log of AuditLog. *)
Log == INSTANCE AuditLog WITH
  log <- StoredLog, recorded <- { r \in Requests : pc[r] = "done" }

LogSpec == Log!Spec

(* Written before an event and hashed with it. *)
Ancestor(row, e) == IsStrictPrefix(row.hash, e.hash) /\ row.case = e.case

(* An event has the content it was hashed with, and the events stored       *)
(* before it are all those it was hashed over and no others.               *)
Sound(e) ==
  /\ e.hash \notin altered
  /\ \A row \in lost : ~Ancestor(row, e)
  /\ \A row \in RowsOf(stored, e.case) : row.seq < e.seq => Ancestor(row, e)

(* What first_broken_sequence says, however the table was changed: an event *)
(* before it vouches for everything before itself, the one it names does    *)
(* not.  So nothing can be changed, taken out or put in before an event     *)
(* that has kept the hash the service gave it (verify_chain,               *)
(* service.py:126-149).                                                    *)
VerdictExact ==
  \A c \in Cases : \A e \in RowsOf(stored, c) :
    /\ e.seq < FirstBroken(c) => Sound(e)
    /\ e.seq = FirstBroken(c) => ~Sound(e)

-----------------------------------------------------------------------------
(* docs/audit.md, "Tamper-evident": edits, insertions and deletions all     *)
(* break verification.                                                     *)
EveryChangeDetected ==
  \A c \in Cases : Intact(c) =>
    /\ RowsOf(lost, c) = {}
    /\ \A row \in RowsOf(stored, c) : row.hash \notin altered \cup forged
=============================================================================
