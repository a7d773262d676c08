--------------------------- MODULE AuditTrailProofs ---------------------------
(***************************************************************************)
(* Proofs about the audit chains, for any number of cases and of requests  *)
(* that append to them at the same time, and however the table is changed  *)
(* behind the service.                                                     *)
(***************************************************************************)
EXTENDS AuditTrail, FiniteSetTheorems, FunctionTheorems, SequenceTheorems,
        WellFoundedInduction, TLAPS

-----------------------------------------------------------------------------
(* The inductive invariant.                                                *)

Uncommitted == UNION { pending[r] : r \in Requests }

(* All rows there ever were, but for those of requests that were undone. *)
Written == stored \cup lost \cup Uncommitted

(* What was hashed is numbered up to n, and without a gap while nobody has  *)
(* changed the table.                                                      *)
Numbered(hash, n) ==
  /\ \A k \in 1..Len(hash) : hash[k].seq <= n
  /\ MaxDamage = 0 => n = Len(hash)

(* A row is hashed with the content it was written with, of which only nth *)
(* is ever altered.                                                        *)
Hashed(x) ==
  /\ x.seq >= 1 /\ Numbered(x.prev, x.seq - 1)
  /\ \E n \in Nat :
       /\ x.hash = HashOf([x EXCEPT !.body.nth = n], x.prev)
       /\ x.body.nth = (IF x.hash \in altered THEN 0 ELSE n)
       /\ x.hash \in altered => n # 0

(* Numbers keep below some bound and requests to their events. *)
Bounded ==
  /\ \E n \in Nat : \A x \in stored \cup Uncommitted : x.seq <= n
  /\ \A r \in Requests :
       /\ IsFiniteSet(pending[r]) /\ Cardinality(pending[r]) <= Len(Subject[r])
       /\ pc[r] = "read" => Cardinality(pending[r]) < Len(Subject[r])

(* Under SQLite nobody else writes while a session does, so what it read   *)
(* is the last event until it inserts.                                     *)
Locked ==
  backend = "sqlite" =>
    \A r \in Requests :
      /\ Writing(r) => lock = r
      /\ pc[r] # "conflict"
      /\ pc[r] = "read" => \A x \in RowsOf(stored, NextCase(r)) : x.seq <= last[r].seq

(* Whose rows are where. *)
Owned ==
  /\ \A x \in stored \cup lost : pc[x.body.by] = "done"
  /\ \A r \in Requests : \A x \in pending[r] : x.body.by = r
  /\ \A h \in altered : \E x \in stored \cup lost : x.hash = h
  /\ \A x \in stored, y \in lost : x.hash # y.hash

(* The unique constraint. *)
KeysUnique ==
  /\ \A x, y \in stored \cup Uncommitted : x.case = y.case /\ x.seq = y.seq => x = y
  /\ \A r \in Requests :
       pc[r] = "read" => \A x \in RowsOf(pending[r], NextCase(r)) : x.seq <= last[r].seq

(* What was hashed before is there, or was lost. *)
Follows(hash, c, rows) == hash = NoHash \/ \E y \in RowsOf(rows, c) : y.hash = hash

Linked ==
  /\ \A x \in stored : Follows(x.prev, x.case, stored \cup lost)
  /\ \A r \in Requests :
       /\ \A x \in pending[r] : Follows(x.prev, x.case, stored \cup lost \cup pending[r])
       /\ pc[r] = "read" =>
            /\ Numbered(last[r].hash, last[r].seq)
            /\ Follows(last[r].hash, NextCase(r), stored \cup lost \cup pending[r])

(* A request appends its events in turn. *)
InTurn ==
  \A r \in Requests :
    /\ \A x \in pending[r] :
         x.body.nth \in 1..Cardinality(pending[r]) /\ x.case = Subject[r][x.body.nth]
    /\ \A k \in 1..Cardinality(pending[r]) : \E x \in pending[r] : x.body.nth = k
    /\ \A x, y \in pending[r] : x.body.nth = y.body.nth => x = y
    /\ \A x, y \in pending[r] : x.case = y.case /\ x.seq < y.seq => x.body.nth < y.body.nth

(* A request that is done has all its events in. *)
Accounted ==
  \A r \in Requests :
    pc[r] = "done" =>
      { x.case : x \in { y \in stored \cup lost : y.body.by = r } } = Range(Subject[r])

(* Without damage nothing is lost. *)
Undamaged == MaxDamage = 0 => lost = {} /\ altered = {}

IInv ==
  /\ TypeOK
  /\ \A x \in Written : Hashed(x)
  /\ Bounded /\ Locked /\ Owned /\ KeysUnique /\ Linked /\ InTurn /\ Accounted /\ Undamaged

-----------------------------------------------------------------------------
(* Numbers and the last event.                                             *)

LEMMA SmallestOf ==
  ASSUME NEW S \in SUBSET Nat, S # {}
  PROVE  \E k \in S : \A j \in S : k <= j
<1>1. PICK k \in S : \A j \in S : <<j, k>> \notin OpToRel(<, Nat)
  BY NatLessThanWellFounded, WFMin
<1>2. \A j \in S : ~(j < k)
  BY <1>1 DEF OpToRel
<1>3. QED
  BY <1>2

LEMMA RowTypes ==
  ASSUME NEW x \in Rows
  PROVE  /\ x.case \in Cases /\ x.seq \in Nat /\ x.body \in Bodies
         /\ x.body.by \in Requests /\ x.body.nth \in Nat
         /\ x.prev \in Seq(HashInputs) /\ x.hash \in Seq(HashInputs)
         /\ x = [ case |-> x.case, seq |-> x.seq,
                  body |-> [by |-> x.body.by, nth |-> x.body.nth],
                  prev |-> x.prev, hash |-> x.hash ]
<1>1. /\ x.case \in Cases /\ x.seq \in Nat /\ x.body \in Bodies
      /\ x.prev \in Seq(HashInputs) /\ x.hash \in Seq(HashInputs)
      /\ x = [ case |-> x.case, seq |-> x.seq, body |-> x.body, prev |-> x.prev, hash |-> x.hash ]
  BY DEF Rows
<1>2. /\ x.body.by \in Requests /\ x.body.nth \in Nat
      /\ x.body = [by |-> x.body.by, nth |-> x.body.nth]
  BY <1>1 DEF Bodies
<1>3. QED
  BY <1>1, <1>2

LEMMA HighestRow ==
  ASSUME NEW rows \in SUBSET Rows, rows # {}, NEW n \in Nat, \A x \in rows : x.seq <= n
  PROVE  \E x \in rows : \A y \in rows : y.seq <= x.seq
<1> DEFINE bounds == { k \in Nat : \A x \in rows : x.seq <= k }
<1>1. PICK k \in bounds : \A j \in bounds : k <= j
  <2>1. n \in bounds /\ bounds \in SUBSET Nat
    OBVIOUS
  <2> HIDE DEF bounds
  <2>2. QED
    BY <2>1, SmallestOf
<1>2. \A x \in rows : x.seq \in Nat
  BY RowTypes
<1>3. \E x \in rows : x.seq = k
  <2> SUFFICES ASSUME \A x \in rows : x.seq # k
               PROVE  FALSE
    OBVIOUS
  <2>1. \A x \in rows : x.seq < k
    BY <1>1, <1>2
  <2>2. k > 0
    BY <1>2, <2>1
  <2>3. k - 1 \in bounds
    BY <1>1, <1>2, <2>1, <2>2
  <2>4. QED
    BY <1>1, <2>3
<1>4. QED
  BY <1>1, <1>3

LEMMA LastEventFacts ==
  ASSUME NEW rows \in SUBSET Rows, NEW n \in Nat, \A x \in rows : x.seq <= n
  PROVE  /\ LastEvent(rows) \in [seq : Nat, hash : Seq(HashInputs)]
         /\ \A y \in rows : y.seq <= LastEvent(rows).seq
         /\ \/ LastEvent(rows).seq = 0 /\ LastEvent(rows).hash = NoHash
            \/ \E x \in rows : LastEvent(rows).seq = x.seq /\ LastEvent(rows).hash = x.hash
<1>1. CASE rows = {}
  <2>1. LastEvent(rows) = [seq |-> 0, hash |-> NoHash]
    BY <1>1 DEF LastEvent, NoEvent
  <2>2. NoHash \in Seq(HashInputs)
    BY DEF NoHash
  <2>3. QED
    BY <1>1, <2>1, <2>2
<1>2. CASE rows # {}
  <2> DEFINE row == CHOOSE x \in rows : \A y \in rows : y.seq <= x.seq
  <2>1. LastEvent(rows) = [seq |-> row.seq, hash |-> row.hash]
    BY <1>2 DEF LastEvent
  <2>2. row \in rows /\ \A y \in rows : y.seq <= row.seq
    BY <1>2, HighestRow
  <2>3. row.seq \in Nat /\ row.hash \in Seq(HashInputs)
    BY <2>2, RowTypes
  <2> HIDE DEF row
  <2>4. QED
    BY <2>1, <2>2, <2>3
<1>3. QED
  BY <1>1, <1>2

-----------------------------------------------------------------------------
(* Hashes.                                                                 *)

LEMMA HashedFacts ==
  ASSUME NEW x \in Rows, Hashed(x)
  PROVE  /\ x.seq >= 1 /\ x.hash # NoHash
         /\ Len(x.hash) = Len(x.prev) + 1 /\ x.hash[Len(x.hash)].seq = x.seq
         /\ Numbered(x.hash, x.seq) /\ Numbered(x.prev, x.seq - 1)
         /\ \E n \in Nat :
              /\ x.hash = Append(x.prev, [ case |-> x.case, seq |-> x.seq,
                                          body |-> [by |-> x.body.by, nth |-> n] ])
              /\ x.body.nth = (IF x.hash \in altered THEN 0 ELSE n)
              /\ x.hash \in altered => n # 0
<1>1. PICK n \in Nat : /\ x.hash = HashOf([x EXCEPT !.body.nth = n], x.prev)
                       /\ x.body.nth = (IF x.hash \in altered THEN 0 ELSE n)
                       /\ x.hash \in altered => n # 0
  BY DEF Hashed
<1>2. x.prev \in Seq(HashInputs) /\ x.seq \in Nat /\ x.seq >= 1 /\ Numbered(x.prev, x.seq - 1)
  BY RowTypes DEF Hashed
<1>3. PICK e : e = [case |-> x.case, seq |-> x.seq, body |-> [by |-> x.body.by, nth |-> n]]
  OBVIOUS
<1>4. /\ [x EXCEPT !.body.nth = n].case = x.case /\ [x EXCEPT !.body.nth = n].seq = x.seq
      /\ [x EXCEPT !.body.nth = n].body = [by |-> x.body.by, nth |-> n]
  BY DEF Rows, Bodies
<1>5. x.hash = Append(x.prev, e)
  BY <1>1, <1>3, <1>4 DEF HashOf
<1>6. e \in HashInputs /\ e.seq = x.seq
  BY <1>3, RowTypes DEF HashInputs, Bodies
<1>7. PICK p \in Seq(HashInputs) : p = x.prev
  BY <1>2
<1>8. PICK h : h = Append(p, e)
  OBVIOUS
<1>9. /\ Len(p) \in Nat /\ Len(h) = Len(p) + 1 /\ h[Len(p) + 1] = e
      /\ \A k \in 1..Len(p) : h[k] = p[k] /\ p[k] \in HashInputs
  BY <1>6, <1>7, <1>8, AppendProperties
<1>10. h # NoHash /\ h[Len(h)].seq = x.seq
  BY <1>6, <1>9 DEF NoHash
<1>11. Numbered(h, x.seq)
  <2>1. ASSUME NEW k \in 1..Len(h)
        PROVE  h[k].seq <= x.seq
    <3>1. CASE k \in 1..Len(p)
      <4>1. p[k].seq <= x.seq - 1 /\ p[k].seq \in Nat /\ h[k] = p[k]
        BY <1>2, <1>7, <1>9, <3>1 DEF Numbered, HashInputs
      <4>2. QED
        BY <1>2, <4>1
    <3>2. CASE k = Len(p) + 1
      BY <1>2, <1>6, <1>9, <3>2
    <3>3. QED
      BY <1>9, <3>1, <3>2
  <2>2. ASSUME MaxDamage = 0
        PROVE  x.seq = Len(h)
    BY <1>2, <1>7, <1>9, <2>2 DEF Numbered
  <2>3. QED
    BY <2>1, <2>2 DEF Numbered
<1>12. h = x.hash /\ Len(p) = Len(x.prev)
  BY <1>5, <1>7, <1>8
<1>13. x.hash = Append(x.prev, [case |-> x.case, seq |-> x.seq, body |-> [by |-> x.body.by, nth |-> n]])
  BY <1>3, <1>5
<1>14. Len(x.hash) = Len(x.prev) + 1 /\ x.hash[Len(x.hash)].seq = x.seq /\ x.hash # NoHash
  BY <1>9, <1>10, <1>12
<1>15. QED
  BY <1>1, <1>2, <1>11, <1>12, <1>13, <1>14

(* A hash tells its row. *)
LEMMA SameHash ==
  ASSUME NEW x \in Rows, Hashed(x), NEW y \in Rows, Hashed(y), x.hash = y.hash
  PROVE  x = y
<1>1. PICK n \in Nat :
        /\ x.hash = Append(x.prev, [case |-> x.case, seq |-> x.seq, body |-> [by |-> x.body.by, nth |-> n]])
        /\ x.body.nth = (IF x.hash \in altered THEN 0 ELSE n)
  BY HashedFacts
<1>2. PICK m \in Nat :
        /\ y.hash = Append(y.prev, [case |-> y.case, seq |-> y.seq, body |-> [by |-> y.body.by, nth |-> m]])
        /\ y.body.nth = (IF y.hash \in altered THEN 0 ELSE m)
  BY HashedFacts
<1>3. PICK e : e = [case |-> x.case, seq |-> x.seq, body |-> [by |-> x.body.by, nth |-> n]]
  OBVIOUS
<1>4. PICK f : f = [case |-> y.case, seq |-> y.seq, body |-> [by |-> y.body.by, nth |-> m]]
  OBVIOUS
<1>5. x.prev \in Seq(HashInputs) /\ y.prev \in Seq(HashInputs)
  BY RowTypes
<1>6. e \in HashInputs /\ f \in HashInputs
  BY <1>3, <1>4, RowTypes DEF HashInputs, Bodies
<1>7. x.hash = Append(x.prev, e) /\ y.hash = Append(y.prev, f)
  BY <1>1, <1>2, <1>3, <1>4
<1>8. x.prev = y.prev /\ e = f
  <2>1. Append(x.prev, e) = Append(y.prev, f)
    BY <1>7
  <2>2. Append(x.prev, e) = Append(y.prev, f) <=> x.prev = y.prev /\ e = f
    BY SMTT(30), <1>5, <1>6, AppendInjective
  <2>3. QED
    BY <2>1, <2>2
<1>9. x.case = y.case /\ x.seq = y.seq /\ x.body.by = y.body.by /\ n = m
  BY <1>3, <1>4, <1>8
<1>10. x.body.nth = y.body.nth
  <2>1. (x.hash \in altered) = (y.hash \in altered)
    OBVIOUS
  <2>2. x.body.nth = (IF x.hash \in altered THEN 0 ELSE n)
    BY <1>1
  <2>3. y.body.nth = (IF y.hash \in altered THEN 0 ELSE n)
    BY <1>2, <1>9
  <2>4. QED
    BY <2>1, <2>2, <2>3
<1>11. QED
  BY <1>8, <1>9, <1>10, RowTypes

-----------------------------------------------------------------------------
(* The steps.                                                              *)

(* A session that has written nothing goes on, or gives up. *)
Quiet(r) ==
  \E s \in {"arrived", "open", "failed"} :
    /\ pc[r] \in {"idle", "arrived"} /\ pc' = [pc EXCEPT ![r] = s]
    /\ s = "open" => MayWrite(r) /\ lock' = IF backend = "sqlite" THEN r ELSE lock
    /\ s # "open" => lock' = lock
    /\ UNCHANGED <<backend, stored, pending, last, status, lost, altered, forged, damage>>

(* A session is rolled back. *)
Undone(r) ==
  \E outcome \in {"conflict", "failed"} :
    /\ Writing(r) /\ Abort(r, outcome)
    /\ outcome = "conflict" => pc[r] = "read" /\ Refused(r)

LEMMA StepKinds ==
  ASSUME [Next]_vars
  PROVE  \/ \E r \in Requests : Quiet(r) \/ ReadLast(r) \/ Insert(r) \/ Undone(r) \/ Commit(r)
         \/ LoseEvent \/ AlterEvent \/ ForgeEvent \/ InsertEvent \/ UNCHANGED vars
<1>1. ASSUME NEW r \in Requests, Arrive(r) \/ FirstFlush(r) \/ LockTimeout(r)
      PROVE  Quiet(r)
  <2>1. CASE Arrive(r)
    BY <2>1 DEF Arrive, Quiet, NoDamage
  <2>2. CASE FirstFlush(r)
    BY <2>2 DEF FirstFlush, Quiet, NoDamage
  <2>3. CASE LockTimeout(r)
    BY <2>3 DEF LockTimeout, Quiet, NoDamage
  <2>4. QED
    BY <1>1, <2>1, <2>2, <2>3
<1>2. ASSUME NEW r \in Requests, Conflict(r) \/ DeadlockVictim(r) \/ Break(r)
      PROVE  Undone(r)
  <2>1. CASE Conflict(r)
    BY <2>1 DEF Conflict, Undone, Writing
  <2>2. CASE DeadlockVictim(r)
    <3>1. pc[r] = "read"
      BY <2>2 DEF DeadlockVictim, InCircle, WaitsFor
    <3>2. QED
      BY <2>2, <3>1 DEF DeadlockVictim, Undone, Writing
  <2>3. CASE Break(r)
    BY <2>3 DEF Break, Undone, Writing
  <2>4. QED
    BY <1>2, <2>1, <2>2, <2>3
<1>3. CASE AllFinished \/ UNCHANGED vars
  BY <1>3 DEF AllFinished
<1>4. QED
  BY <1>1, <1>2, <1>3 DEF Next, Session

(* A change of one session's place only. *)
LEMMA PlaceFacts ==
  ASSUME TypeOK, NEW r \in Requests, NEW s, pc' = [pc EXCEPT ![r] = s]
  PROVE  \A q \in Requests : pc'[q] = IF q = r THEN s ELSE pc[q]
BY DEF TypeOK

LEMMA RowsSame ==
  ASSUME IInv, UNCHANGED <<stored, pending, lost, altered>>
  PROVE  (\A x \in Written : Hashed(x))' /\ Undamaged'
<1>1. (\A x \in Written : Hashed(x)) /\ Undamaged
  BY DEF IInv
<1>2. QED
  BY <1>1 DEF Written, Uncommitted, Hashed, HashOf, Undamaged

LEMMA TypedFacts ==
  ASSUME IInv
  PROVE  /\ stored \in SUBSET Rows /\ lost \in SUBSET Rows /\ Uncommitted \in SUBSET Rows
         /\ \A r \in Requests : pending[r] \in SUBSET Rows /\ pending[r] \subseteq Uncommitted
         /\ \A x \in stored \cup lost \cup Uncommitted : x \in Rows /\ Hashed(x)
         /\ \A x \in Rows : x.body.by \in Requests
BY RowTypes DEF IInv, TypeOK, Written, Uncommitted

LEMMA QuietKept ==
  ASSUME IInv, NEW r \in Requests, Quiet(r)
  PROVE  IInv'
<1>1. PICK s \in {"arrived", "open", "failed"} :
        /\ pc[r] \in {"idle", "arrived"} /\ pc' = [pc EXCEPT ![r] = s]
        /\ s = "open" => MayWrite(r) /\ lock' = IF backend = "sqlite" THEN r ELSE lock
        /\ s # "open" => lock' = lock
        /\ UNCHANGED <<backend, stored, pending, last, status, lost, altered, forged, damage>>
  BY DEF Quiet
<1>2. /\ TypeOK /\ Bounded /\ Locked /\ Owned /\ KeysUnique /\ Linked /\ InTurn /\ Accounted
  BY DEF IInv
<1>3. \A q \in Requests : pc'[q] = IF q = r THEN s ELSE pc[q]
  BY <1>1, <1>2, PlaceFacts
<1>4. \A q \in Requests : NextCase(q)' = NextCase(q)
  BY <1>1 DEF NextCase
<1>5. TypeOK'
  <2>1. (\A q \in Requests : pending[q] # {} => Writing(q))'
    BY <1>1, <1>2, <1>3 DEF TypeOK, Writing
  <2>2. (lock # NoRequest => backend = "sqlite" /\ Writing(lock))'
    BY <1>1, <1>2, <1>3 DEF TypeOK, Writing
  <2>3. lock' \in Requests \cup {NoRequest} /\ backend' \in Backends
    BY <1>1, <1>2 DEF TypeOK
  <2>4. pc' \in [Requests -> {"idle", "arrived", "open", "read", "done", "failed", "conflict"}]
    BY <1>1, <1>2 DEF TypeOK
  <2>5. QED
    BY <1>1, <1>2, <2>1, <2>2, <2>3, <2>4 DEF TypeOK, Rows, HashInputs, Bodies
<1>6. (\A x \in Written : Hashed(x))' /\ Undamaged'
  BY <1>1, RowsSame
<1>7. Bounded'
  BY <1>1, <1>2, <1>3 DEF Bounded, Uncommitted
<1>8. Locked'
  <2> SUFFICES ASSUME backend = "sqlite", NEW q \in Requests
               PROVE  /\ Writing(q)' => lock' = q
                      /\ pc'[q] # "conflict"
                      /\ pc'[q] = "read" =>
                           \A x \in RowsOf(stored, NextCase(q)) : x.seq <= last[q].seq
    BY <1>1, <1>4 DEF Locked, RowsOf
  <2>1. CASE q = r
    BY <1>1, <1>3, <2>1 DEF Writing
  <2>2. CASE q # r
    <3>1. /\ pc'[q] = pc[q] /\ Writing(q)' = Writing(q)
          /\ Writing(q) => lock = q
          /\ pc[q] # "conflict"
          /\ pc[q] = "read" => \A x \in RowsOf(stored, NextCase(q)) : x.seq <= last[q].seq
      BY <1>2, <1>3, <2>2 DEF Locked, Writing
    <3>2. Writing(q) => lock' = lock
      BY <1>1, <3>1, NobodyAssumption DEF MayWrite
    <3>3. QED
      BY <3>1, <3>2
  <2>3. QED
    BY <2>1, <2>2
<1>9. Owned'
  <2>1. \A x \in stored \cup lost : pc'[x.body.by] = "done"
    BY <1>1, <1>2, <1>3, TypedFacts DEF Owned
  <2>2. QED
    BY <1>1, <1>2, <2>1 DEF Owned
<1>10. KeysUnique'
  <2>1. \A q \in Requests : pc'[q] = "read" => pc[q] = "read"
    BY <1>1, <1>3
  <2>2. QED
    BY <1>1, <1>2, <1>4, <2>1 DEF KeysUnique, Uncommitted, RowsOf
<1>11. Linked'
  <2>1. \A q \in Requests : pc'[q] = "read" => pc[q] = "read"
    BY <1>1, <1>3
  <2>2. QED
    BY <1>1, <1>2, <1>4, <2>1 DEF Linked, Follows, RowsOf
<1>12. Accounted'
  <2>1. \A q \in Requests : pc'[q] = "done" => pc[q] = "done"
    BY <1>1, <1>3
  <2>2. QED
    BY <1>1, <1>2, <2>1 DEF Accounted
<1>13. InTurn'
  BY <1>1, <1>2 DEF InTurn
<1>14. QED
  BY <1>5, <1>6, <1>7, <1>8, <1>9, <1>10, <1>11, <1>12, <1>13 DEF IInv

LEMMA ReadKept ==
  ASSUME IInv, NEW r \in Requests, ReadLast(r)
  PROVE  IInv'
<1> DEFINE rows == RowsOf(Visible(r), NextCase(r))
<1>1. /\ pc[r] = "open" /\ Cardinality(pending[r]) < Len(Subject[r])
      /\ last' = [last EXCEPT ![r] = LastEvent(rows)]
      /\ pc' = [pc EXCEPT ![r] = "read"]
      /\ UNCHANGED <<backend, lock, stored, pending, status, lost, altered, forged, damage>>
  BY DEF ReadLast, NoDamage
<1>2. /\ TypeOK /\ Bounded /\ Locked /\ Owned /\ KeysUnique /\ Linked /\ InTurn /\ Accounted
  BY DEF IInv
<1>3. \A q \in Requests : pc'[q] = IF q = r THEN "read" ELSE pc[q]
  BY <1>1, <1>2, PlaceFacts
<1>4. /\ rows \in SUBSET Rows /\ \A x \in rows : x \in stored \cup pending[r] /\ x.case = NextCase(r)
      /\ \A x \in stored \cup pending[r] : x.case = NextCase(r) => x \in rows
  BY TypedFacts DEF RowsOf, Visible
<1>5. \E n \in Nat : \A x \in rows : x.seq <= n
  BY <1>2, <1>4, TypedFacts DEF Bounded
<1> HIDE DEF rows
<1>6. PICK event : event = LastEvent(rows)
  OBVIOUS
<1>7. /\ event \in [seq : Nat, hash : Seq(HashInputs)]
      /\ \A y \in rows : y.seq <= event.seq
      /\ \/ event.seq = 0 /\ event.hash = NoHash
         \/ \E x \in rows : event.seq = x.seq /\ event.hash = x.hash
  BY <1>4, <1>5, <1>6, LastEventFacts
<1>8. \A q \in Requests : last'[q] = IF q = r THEN event ELSE last[q]
  BY <1>1, <1>2, <1>6 DEF TypeOK
<1>9. \A q \in Requests : NextCase(q)' = NextCase(q)
  BY <1>1 DEF NextCase
<1>10. TypeOK'
  <2>1. (\A q \in Requests : pending[q] # {} => Writing(q))'
    BY <1>1, <1>2, <1>3 DEF TypeOK, Writing
  <2>2. (lock # NoRequest => backend = "sqlite" /\ Writing(lock))'
    BY <1>1, <1>2, <1>3 DEF TypeOK, Writing
  <2>3. last' \in [Requests -> [seq : Nat, hash : Seq(HashInputs)]]
    <3>1. last \in [Requests -> [seq : Nat, hash : Seq(HashInputs)]]
      BY <1>2 DEF TypeOK
    <3>2. last' = [last EXCEPT ![r] = event]
      BY <1>1, <1>6
    <3>3. QED
      BY <1>7, <3>1, <3>2
  <2>4. pc' \in [Requests -> {"idle", "arrived", "open", "read", "done", "failed", "conflict"}]
    BY <1>1, <1>2 DEF TypeOK
  <2>5. QED
    BY <1>1, <1>2, <2>1, <2>2, <2>3, <2>4 DEF TypeOK, Rows, HashInputs, Bodies
<1>11. (\A x \in Written : Hashed(x))' /\ Undamaged'
  BY <1>1, RowsSame
<1>12. Bounded'
  BY <1>1, <1>2, <1>3 DEF Bounded, Uncommitted
<1>13. Locked'
  <2> SUFFICES ASSUME backend = "sqlite", NEW q \in Requests
               PROVE  /\ Writing(q)' => lock' = q
                      /\ pc'[q] # "conflict"
                      /\ pc'[q] = "read" =>
                           \A x \in RowsOf(stored, NextCase(q)) : x.seq <= last'[q].seq
    BY <1>1, <1>9 DEF Locked, RowsOf
  <2>1. /\ Writing(q) => lock = q
        /\ pc[q] # "conflict"
        /\ pc[q] = "read" => \A x \in RowsOf(stored, NextCase(q)) : x.seq <= last[q].seq
    BY <1>2 DEF Locked
  <2>2. CASE q = r
    BY <1>1, <1>3, <1>4, <1>7, <1>8, <2>1, <2>2 DEF Writing, RowsOf
  <2>3. CASE q # r
    BY <1>1, <1>3, <1>8, <2>1, <2>3 DEF Writing
  <2>4. QED
    BY <2>2, <2>3
<1>14. Owned'
  <2>1. \A x \in stored \cup lost : pc'[x.body.by] = "done"
    BY <1>1, <1>2, <1>3, TypedFacts DEF Owned
  <2>2. QED
    BY <1>1, <1>2, <2>1 DEF Owned
<1>15. KeysUnique'
  <2>1. \A q \in Requests :
          pc'[q] = "read" => \A x \in RowsOf(pending[q], NextCase(q)) : x.seq <= last'[q].seq
    <3> SUFFICES ASSUME NEW q \in Requests, pc'[q] = "read",
                        NEW x \in RowsOf(pending[q], NextCase(q))
                 PROVE  x.seq <= last'[q].seq
      OBVIOUS
    <3>1. CASE q = r
      BY <1>4, <1>7, <1>8, <3>1 DEF RowsOf
    <3>2. CASE q # r
      BY <1>2, <1>3, <1>8, <3>2 DEF KeysUnique
    <3>3. QED
      BY <3>1, <3>2
  <2>2. QED
    BY <1>1, <1>2, <1>9, <2>1 DEF KeysUnique, Uncommitted, RowsOf
<1>16. Linked'
  <2>1. Numbered(event.hash, event.seq) /\ Follows(event.hash, NextCase(r), stored \cup lost \cup pending[r])
    <3>1. CASE event.seq = 0 /\ event.hash = NoHash
      <4>1. Len(event.hash) = 0
        BY <3>1 DEF NoHash
      <4>2. QED
        BY <3>1, <4>1 DEF Follows, Numbered
    <3>2. CASE \E x \in rows : event.seq = x.seq /\ event.hash = x.hash
      <4>1. PICK x \in rows : event.seq = x.seq /\ event.hash = x.hash
        BY <3>2
      <4>2. x \in Rows /\ Hashed(x) /\ x \in stored \cup pending[r] /\ x.case = NextCase(r)
        BY <1>4, TypedFacts
      <4>3. Numbered(x.hash, x.seq)
        BY <4>2, HashedFacts
      <4>4. QED
        BY <4>1, <4>2, <4>3 DEF Follows, RowsOf
    <3>3. QED
      BY <1>7, <3>1, <3>2
  <2>2. \A q \in Requests :
          pc'[q] = "read" =>
            /\ Numbered(last'[q].hash, last'[q].seq)
            /\ Follows(last'[q].hash, NextCase(q), stored \cup lost \cup pending[q])
    BY <1>2, <1>3, <1>8, <2>1 DEF Linked
  <2>3. QED
    BY <1>1, <1>2, <1>9, <2>2 DEF Linked, Follows, RowsOf
<1>17. Accounted'
  <2>1. \A q \in Requests : pc'[q] = "done" => pc[q] = "done"
    BY <1>1, <1>3
  <2>2. QED
    BY <1>1, <1>2, <2>1 DEF Accounted
<1>18. InTurn'
  BY <1>1, <1>2 DEF InTurn
<1>19. QED
  BY <1>10, <1>11, <1>12, <1>13, <1>14, <1>15, <1>16, <1>17, <1>18 DEF IInv

(* The row a session inserts. *)
LEMMA NewRowFacts ==
  ASSUME IInv, NEW r \in Requests, pc[r] = "read", ~Refused(r)
  PROVE  LET row == NewRow(r)
         IN  /\ row \in Rows
             /\ row.case = NextCase(r) /\ row.seq = last[r].seq + 1
             /\ row.body = [by |-> r, nth |-> Cardinality(pending[r]) + 1]
             /\ row.prev = last[r].hash
             /\ Hashed(row)
             /\ \A x \in stored \cup pending[r] : ~(x.case = row.case /\ x.seq = row.seq)
<1> DEFINE row == NewRow(r)
<1>1. /\ TypeOK /\ Bounded /\ Owned /\ KeysUnique /\ Linked
  BY DEF IInv
<1>2. /\ Cardinality(pending[r]) \in Nat
      /\ Cardinality(pending[r]) + 1 \in 1..Len(Subject[r])
  <2>1. IsFiniteSet(pending[r]) /\ Cardinality(pending[r]) < Len(Subject[r])
    BY <1>1 DEF Bounded
  <2>2. Cardinality(pending[r]) \in Nat
    BY <2>1, FS_CardinalityType
  <2>3. Subject[r] \in Seq(Cases)
    BY SubjectAssumption
  <2>4. QED
    BY <2>1, <2>2, <2>3
<1>3. NextCase(r) \in Cases
  BY <1>2, SubjectAssumption DEF NextCase
<1>4. last[r].seq \in Nat /\ last[r].hash \in Seq(HashInputs) /\ Numbered(last[r].hash, last[r].seq)
  BY <1>1 DEF TypeOK, Linked
<1>5. PICK nth : nth = Cardinality(pending[r]) + 1
  OBVIOUS
<1>6. PICK e : e = [case |-> NextCase(r), seq |-> last[r].seq + 1, body |-> [by |-> r, nth |-> nth]]
  OBVIOUS
<1>7. e \in HashInputs /\ nth \in Nat
  BY <1>2, <1>3, <1>4, <1>5, <1>6 DEF HashInputs, Bodies
<1>8. /\ row.case = NextCase(r) /\ row.seq = last[r].seq + 1
      /\ row.body = [by |-> r, nth |-> nth]
      /\ row.prev = last[r].hash
      /\ row.hash = Append(last[r].hash, e)
      /\ row = [ case |-> NextCase(r), seq |-> last[r].seq + 1, body |-> [by |-> r, nth |-> nth],
                 prev |-> last[r].hash, hash |-> Append(last[r].hash, e) ]
  BY <1>5, <1>6 DEF NewRow, HashOf
<1>9. Append(last[r].hash, e) \in Seq(HashInputs)
  BY <1>4, <1>7
<1> HIDE DEF row
<1>10. row \in Rows
  BY <1>3, <1>4, <1>7, <1>8, <1>9 DEF Rows, Bodies
<1>11. row.hash \notin altered
  <2> SUFFICES ASSUME row.hash \in altered
               PROVE  FALSE
    OBVIOUS
  <2>1. PICK x \in stored \cup lost : x.hash = row.hash
    BY <1>1 DEF Owned
  <2>2. x \in Rows /\ Hashed(x)
    BY TypedFacts
  <2>3. PICK n \in Nat :
          x.hash = Append(x.prev, [case |-> x.case, seq |-> x.seq, body |-> [by |-> x.body.by, nth |-> n]])
    BY <2>2, HashedFacts
  <2>4. PICK f : f = [case |-> x.case, seq |-> x.seq, body |-> [by |-> x.body.by, nth |-> n]]
    OBVIOUS
  <2>5. f \in HashInputs /\ x.prev \in Seq(HashInputs)
    BY <2>2, <2>4, RowTypes DEF HashInputs, Bodies
  <2>6. Append(last[r].hash, e) = Append(x.prev, f)
    <3>1. x.hash = Append(x.prev, f)
      BY <2>3, <2>4
    <3>2. row.hash = Append(last[r].hash, e)
      BY <1>8
    <3>3. QED
      BY <2>1, <3>1, <3>2
  <2>7. Append(last[r].hash, e) = Append(x.prev, f) <=> last[r].hash = x.prev /\ e = f
    <3>1. PICK p : p = last[r].hash
      OBVIOUS
    <3>2. PICK q : q = x.prev
      OBVIOUS
    <3>3. p \in Seq(HashInputs) /\ q \in Seq(HashInputs) /\ e \in HashInputs /\ f \in HashInputs
      BY <1>4, <1>7, <2>5, <3>1, <3>2
    <3>4. Append(p, e) = Append(q, f) <=> p = q /\ e = f
      BY <3>3, AppendInjective
    <3>5. QED
      BY <3>1, <3>2, <3>4
  <2>8. x.body.by = r
    BY <1>6, <2>4, <2>6, <2>7
  <2>9. QED
    BY <1>1, <2>1, <2>8 DEF Owned
<1>12. Hashed(row)
  <2>1. [row EXCEPT !.body.nth = nth] = row
    BY <1>8, <1>10 DEF Rows, Bodies
  <2>2. row.hash = HashOf([row EXCEPT !.body.nth = nth], row.prev)
    BY <1>6, <1>8, <2>1 DEF HashOf
  <2>3. row.seq >= 1 /\ row.seq - 1 = last[r].seq /\ row.body.nth = nth
    BY <1>4, <1>8
  <2>4. Numbered(row.prev, row.seq - 1)
    BY <1>4, <1>8, <2>3
  <2>5. QED
    BY <1>7, <1>11, <2>2, <2>3, <2>4 DEF Hashed
<1>13. \A x \in stored \cup pending[r] : ~(x.case = row.case /\ x.seq = row.seq)
  <2>1. ASSUME NEW x \in pending[r], x.case = row.case
        PROVE  x.seq # row.seq
    <3>1. x.seq <= last[r].seq
      BY <1>1, <1>8, <2>1 DEF KeysUnique, RowsOf
    <3>2. x.seq \in Nat
      BY TypedFacts, RowTypes
    <3>3. QED
      BY <1>4, <1>8, <3>1, <3>2
  <2>2. \A x \in stored : ~(x.case = row.case /\ x.seq = row.seq)
    BY DEF Refused, SameKey, row
  <2>3. QED
    BY <2>1, <2>2
<1>14. QED
  BY <1>5, <1>8, <1>10, <1>12, <1>13 DEF row

LEMMA InsertKept ==
  ASSUME IInv, NEW r \in Requests, Insert(r)
  PROVE  IInv'
<1>1. PICK row : row = NewRow(r)
  OBVIOUS
<1>2. /\ pc[r] = "read" /\ ~Refused(r) /\ \A q \in Requests : ~WaitsFor(r, q)
      /\ pending' = [pending EXCEPT ![r] = @ \cup {row}]
      /\ pc' = [pc EXCEPT ![r] = "open"]
      /\ UNCHANGED <<backend, lock, stored, last, status, lost, altered, forged, damage>>
  BY <1>1 DEF Insert, NoDamage
<1>3. /\ TypeOK /\ Bounded /\ Locked /\ Owned /\ KeysUnique /\ Linked /\ InTurn /\ Accounted /\ Undamaged
  BY DEF IInv
<1>4. \A q \in Requests : pc'[q] = IF q = r THEN "open" ELSE pc[q]
  BY ZenonT(60), <1>2, <1>3, PlaceFacts
<1>5. \A q \in Requests : pending'[q] = IF q = r THEN pending[r] \cup {row} ELSE pending[q]
  BY <1>2, <1>3 DEF TypeOK
<1>6. /\ row \in Rows /\ row.case = NextCase(r) /\ row.seq = last[r].seq + 1
      /\ row.body = [by |-> r, nth |-> Cardinality(pending[r]) + 1]
      /\ row.prev = last[r].hash /\ Hashed(row)
      /\ \A x \in stored \cup pending[r] : ~(x.case = row.case /\ x.seq = row.seq)
  BY <1>1, <1>2, NewRowFacts
<1>7. \A q \in Requests : q # r => \A x \in pending[q] : ~(x.case = row.case /\ x.seq = row.seq)
  BY <1>1, <1>2 DEF WaitsFor, SameKey
<1>8. \A q \in Requests : q # r => NextCase(q)' = NextCase(q)
  BY <1>5 DEF NextCase
<1>9. Uncommitted' = Uncommitted \cup {row}
  BY <1>5 DEF Uncommitted
<1>10. last[r].seq \in Nat
  BY <1>3 DEF TypeOK
<1>11. /\ IsFiniteSet(pending'[r]) /\ Cardinality(pending[r]) \in Nat
       /\ Cardinality(pending'[r]) = Cardinality(pending[r]) + 1
       /\ Cardinality(pending[r]) < Len(Subject[r]) /\ Len(Subject[r]) \in Nat
  <2>1. IsFiniteSet(pending[r]) /\ Cardinality(pending[r]) < Len(Subject[r])
    BY <1>2, <1>3 DEF Bounded
  <2>2. row \notin pending[r]
    BY <1>6
  <2>3. pending'[r] = pending[r] \cup {row}
    BY <1>5
  <2>4. Len(Subject[r]) \in Nat
    BY SubjectAssumption
  <2>5. QED
    BY <2>1, <2>2, <2>3, <2>4, FS_AddElement, FS_CardinalityType
<1>12. TypeOK'
  <2>1. (\A q \in Requests : pending[q] # {} => Writing(q))'
    BY <1>2, <1>3, <1>4, <1>5 DEF TypeOK, Writing
  <2>2. (lock # NoRequest => backend = "sqlite" /\ Writing(lock))'
    BY <1>2, <1>3, <1>4 DEF TypeOK, Writing
  <2>3. pending' \in [Requests -> SUBSET Rows]
    <3>1. pending \in [Requests -> SUBSET Rows] /\ pending[r] \cup {row} \in SUBSET Rows
      BY <1>3, <1>6 DEF TypeOK
    <3>2. QED
      BY <1>2, <3>1
  <2>4. pc' \in [Requests -> {"idle", "arrived", "open", "read", "done", "failed", "conflict"}]
    BY <1>2, <1>3 DEF TypeOK
  <2>5. QED
    BY <1>2, <1>3, <2>1, <2>2, <2>3, <2>4 DEF TypeOK, Rows, HashInputs, Bodies
<1>13. (\A x \in Written : Hashed(x))'
  <2>1. \A x : Hashed(x)' <=> Hashed(x)
    BY <1>2 DEF Hashed, HashOf
  <2>2. Written' = Written \cup {row}
    BY <1>2, <1>9 DEF Written
  <2>3. \A x \in Written : Hashed(x)
    BY DEF IInv
  <2>4. QED
    BY <1>6, <2>1, <2>2, <2>3
<1>14. Undamaged'
  BY <1>2, <1>3 DEF Undamaged
<1>15. Bounded'
  <2>1. \E n \in Nat : \A x \in stored' \cup Uncommitted' : x.seq <= n
    <3>1. PICK n \in Nat : \A x \in stored \cup Uncommitted : x.seq <= n
      BY <1>3 DEF Bounded
    <3>2. PICK m \in Nat : m = n + last[r].seq + 1
      BY <1>10
    <3>3. \A x \in stored \cup Uncommitted : x.seq \in Nat
      BY TypedFacts, RowTypes
    <3>4. \A x \in stored \cup Uncommitted \cup {row} : x.seq <= m
      BY <1>6, <1>10, <3>1, <3>2, <3>3
    <3>5. QED
      BY <1>2, <1>9, <3>4
  <2>2. \A q \in Requests :
          /\ IsFiniteSet(pending'[q]) /\ Cardinality(pending'[q]) <= Len(Subject[q])
          /\ pc'[q] = "read" => Cardinality(pending'[q]) < Len(Subject[q])
    <3> SUFFICES ASSUME NEW q \in Requests
                 PROVE  /\ IsFiniteSet(pending'[q]) /\ Cardinality(pending'[q]) <= Len(Subject[q])
                        /\ pc'[q] = "read" => Cardinality(pending'[q]) < Len(Subject[q])
      OBVIOUS
    <3>1. CASE q = r
      BY <1>4, <1>11, <3>1
    <3>2. CASE q # r
      BY <1>3, <1>4, <1>5, <3>2 DEF Bounded
    <3>3. QED
      BY <3>1, <3>2
  <2>3. QED
    BY <2>1, <2>2 DEF Bounded
<1>16. Locked'
  <2> SUFFICES ASSUME backend = "sqlite", NEW q \in Requests
               PROVE  /\ Writing(q)' => lock = q
                      /\ pc'[q] # "conflict"
                      /\ pc'[q] = "read" =>
                           \A x \in RowsOf(stored, NextCase(q)') : x.seq <= last[q].seq
    BY <1>2 DEF Locked, RowsOf
  <2>1. /\ Writing(q) => lock = q
        /\ pc[q] # "conflict"
        /\ pc[q] = "read" => \A x \in RowsOf(stored, NextCase(q)) : x.seq <= last[q].seq
    BY <1>3 DEF Locked
  <2>2. CASE q = r
    BY <1>2, <1>4, <2>1, <2>2 DEF Writing
  <2>3. CASE q # r
    BY <1>4, <1>8, <2>1, <2>3 DEF Writing
  <2>4. QED
    BY <2>2, <2>3
<1>17. Owned'
  <2>1. \A x \in stored \cup lost : pc'[x.body.by] = "done"
    BY <1>2, <1>3, <1>4, TypedFacts DEF Owned
  <2>2. \A q \in Requests : \A x \in pending'[q] : x.body.by = q
    BY <1>3, <1>5, <1>6 DEF Owned
  <2>3. QED
    BY <1>2, <1>3, <2>1, <2>2 DEF Owned
<1>18. KeysUnique'
  <2>1. \A x \in stored \cup Uncommitted : ~(x.case = row.case /\ x.seq = row.seq)
    BY <1>6, <1>7 DEF Uncommitted
  <2>2. \A x, y \in stored \cup Uncommitted \cup {row} : x.case = y.case /\ x.seq = y.seq => x = y
    BY <1>3, <2>1 DEF KeysUnique
  <2>3. ASSUME NEW q \in Requests, pc'[q] = "read",
               NEW x \in RowsOf(pending'[q], NextCase(q)')
        PROVE  x.seq <= last[q].seq
    <3>1. q # r /\ pc[q] = "read" /\ pending'[q] = pending[q] /\ NextCase(q)' = NextCase(q)
      BY <1>4, <1>5, <1>8, <2>3
    <3>2. QED
      BY <1>3, <2>3, <3>1 DEF KeysUnique
  <2>4. QED
    BY <1>2, <1>9, <2>2, <2>3 DEF KeysUnique, RowsOf
<1>19. Linked'
  <2>1. ASSUME NEW q \in Requests, NEW x \in pending'[q]
        PROVE  Follows(x.prev, x.case, stored \cup lost \cup pending'[q])
    <3>1. CASE x \in pending[q]
      <4>1. Follows(x.prev, x.case, stored \cup lost \cup pending[q])
        BY <1>3, <3>1 DEF Linked
      <4>2. QED
        BY <1>5, <4>1 DEF Follows, RowsOf
    <3>2. CASE x \notin pending[q]
      <4>1. q = r /\ x = row
        BY <1>5, <2>1, <3>2
      <4>2. Follows(last[r].hash, NextCase(r), stored \cup lost \cup pending[r])
        BY <1>2, <1>3 DEF Linked
      <4>3. QED
        BY <1>5, <1>6, <4>1, <4>2 DEF Follows, RowsOf
    <3>3. QED
      BY <3>1, <3>2
  <2>2. ASSUME NEW q \in Requests, pc'[q] = "read"
        PROVE  /\ Numbered(last[q].hash, last[q].seq)
               /\ Follows(last[q].hash, NextCase(q)', stored \cup lost \cup pending'[q])
    <3>1. q # r /\ pc[q] = "read" /\ pending'[q] = pending[q] /\ NextCase(q)' = NextCase(q)
      BY <1>4, <1>5, <1>8, <2>2
    <3>2. QED
      BY <1>3, <3>1 DEF Linked
  <2>3. \A x \in stored : Follows(x.prev, x.case, stored \cup lost)
    BY <1>3 DEF Linked
  <2>4. QED
    BY <1>2, <2>1, <2>2, <2>3 DEF Linked, Follows, RowsOf
<1>20. Accounted'
  <2>1. \A q \in Requests : pc'[q] = "done" => pc[q] = "done"
    BY <1>4
  <2>2. QED
    BY <1>2, <1>3, <2>1 DEF Accounted
<1>21. InTurn'
  <2> SUFFICES ASSUME NEW q \in Requests
               PROVE  /\ \A x \in pending'[q] : /\ x.body.nth \in 1..Cardinality(pending'[q])
                                                /\ x.case = Subject[q][x.body.nth]
                      /\ \A k \in 1..Cardinality(pending'[q]) :
                           \E x \in pending'[q] : x.body.nth = k
                      /\ \A x, y \in pending'[q] : x.body.nth = y.body.nth => x = y
                      /\ \A x, y \in pending'[q] :
                           x.case = y.case /\ x.seq < y.seq => x.body.nth < y.body.nth
    BY DEF InTurn
  <2>1. CASE q = r
    <3>1. PICK n \in Nat : n = Cardinality(pending[r])
      BY <1>11
    <3>2. /\ \A x \in pending[r] : x.body.nth \in 1..n /\ x.case = Subject[r][x.body.nth]
          /\ \A k \in 1..n : \E x \in pending[r] : x.body.nth = k
          /\ \A x, y \in pending[r] : x.body.nth = y.body.nth => x = y
          /\ \A x, y \in pending[r] : x.case = y.case /\ x.seq < y.seq => x.body.nth < y.body.nth
      BY <1>3, <3>1 DEF InTurn
    <3>3. /\ pending'[r] = pending[r] \cup {row} /\ Cardinality(pending'[r]) = n + 1
          /\ row.body.nth = n + 1 /\ row.case = Subject[r][n + 1]
      BY <1>5, <1>6, <1>11, <3>1 DEF NextCase
    <3>4. \A x \in pending[r] : x.case = row.case => x.seq < row.seq
      <4>1. \A x \in pending[r] : x.case = row.case => x.seq <= last[r].seq
        BY <1>2, <1>3, <1>6 DEF KeysUnique, RowsOf
      <4>2. \A x \in pending[r] : x.seq \in Nat
        BY TypedFacts, RowTypes
      <4>3. QED
        BY <1>6, <1>10, <4>1, <4>2
    <3>5. \A x \in pending'[r] : x.body.nth \in 1..(n + 1) /\ x.case = Subject[r][x.body.nth]
      BY <3>2, <3>3
    <3>6. \A k \in 1..(n + 1) : \E x \in pending'[r] : x.body.nth = k
      <4>1. \A k \in 1..(n + 1) : k \in 1..n \/ k = n + 1
        OBVIOUS
      <4>2. QED
        BY <3>2, <3>3, <4>1
    <3>7. \A x, y \in pending'[r] : x.body.nth = y.body.nth => x = y
      BY <3>2, <3>3
    <3>8. ASSUME NEW x \in pending'[r], NEW y \in pending'[r], x.case = y.case, x.seq < y.seq
          PROVE  x.body.nth < y.body.nth
      <4>1. \A z \in pending'[r] : z.seq \in Nat
        BY <1>6, <3>3, TypedFacts, RowTypes
      <4>2. CASE x \in pending[r] /\ y \in pending[r]
        BY <3>2, <3>8, <4>2
      <4>3. CASE x = row
        BY <3>3, <3>4, <3>8, <4>1, <4>3
      <4>4. CASE x \in pending[r] /\ y = row
        BY <3>2, <3>3, <4>4
      <4>5. QED
        BY <3>3, <4>2, <4>3, <4>4
    <3>9. QED
      BY <2>1, <3>3, <3>5, <3>6, <3>7, <3>8
  <2>2. CASE q # r
    BY <1>3, <1>5, <2>2 DEF InTurn
  <2>3. QED
    BY <2>1, <2>2
<1>22. QED
  BY <1>12, <1>13, <1>14, <1>15, <1>16, <1>17, <1>18, <1>19, <1>20, <1>21 DEF IInv

LEMMA UndoneKept ==
  ASSUME IInv, NEW r \in Requests, Undone(r)
  PROVE  IInv'
<1>1. PICK outcome \in {"conflict", "failed"} :
        /\ Writing(r)
        /\ pending' = [pending EXCEPT ![r] = {}]
        /\ lock' = IF lock = r THEN NoRequest ELSE lock
        /\ pc' = [pc EXCEPT ![r] = outcome]
        /\ UNCHANGED <<backend, stored, last, status, lost, altered, forged, damage>>
        /\ outcome = "conflict" => pc[r] = "read" /\ Refused(r)
  BY DEF Undone, Abort, NoDamage
<1>2. /\ TypeOK /\ Bounded /\ Locked /\ Owned /\ KeysUnique /\ Linked /\ InTurn /\ Accounted /\ Undamaged
  BY DEF IInv
<1>3. \A q \in Requests : pc'[q] = IF q = r THEN outcome ELSE pc[q]
  BY <1>1, <1>2, PlaceFacts
<1>4. \A q \in Requests : pending'[q] = IF q = r THEN {} ELSE pending[q]
  BY <1>1, <1>2 DEF TypeOK
<1>5. \A q \in Requests : q # r => NextCase(q)' = NextCase(q)
  BY <1>4 DEF NextCase
<1>6. Uncommitted' \subseteq Uncommitted
  BY <1>4 DEF Uncommitted
<1>7. pc[r] \notin {"done", "conflict"}
  BY <1>1 DEF Writing
<1>8. TypeOK'
  <2>1. (\A q \in Requests : pending[q] # {} => Writing(q))'
    BY <1>1, <1>2, <1>3, <1>4 DEF TypeOK, Writing
  <2>2. (lock # NoRequest => backend = "sqlite" /\ Writing(lock))'
    BY <1>1, <1>2, <1>3 DEF TypeOK, Writing
  <2>3. pending' \in [Requests -> SUBSET Rows]
    BY <1>1, <1>2 DEF TypeOK
  <2>4. pc' \in [Requests -> {"idle", "arrived", "open", "read", "done", "failed", "conflict"}]
    BY <1>1, <1>2 DEF TypeOK
  <2>5. lock' \in Requests \cup {NoRequest}
    BY <1>1, <1>2 DEF TypeOK
  <2>6. QED
    BY <1>1, <1>2, <2>1, <2>2, <2>3, <2>4, <2>5 DEF TypeOK, Rows, HashInputs, Bodies
<1>9. (\A x \in Written : Hashed(x))'
  <2>1. \A x : Hashed(x)' <=> Hashed(x)
    BY <1>1 DEF Hashed, HashOf
  <2>2. Written' \subseteq Written
    BY <1>1, <1>6 DEF Written
  <2>3. QED
    BY <2>1, <2>2 DEF IInv
<1>10. Undamaged'
  BY <1>1, <1>2 DEF Undamaged
<1>11. Bounded'
  <2>1. \E n \in Nat : \A x \in stored' \cup Uncommitted' : x.seq <= n
    BY <1>1, <1>2, <1>6 DEF Bounded
  <2>2. ASSUME NEW q \in Requests
        PROVE  /\ IsFiniteSet(pending'[q]) /\ Cardinality(pending'[q]) <= Len(Subject[q])
               /\ pc'[q] = "read" => Cardinality(pending'[q]) < Len(Subject[q])
    <3>1. CASE q = r
      <4>1. pending'[q] = {} /\ pc'[q] # "read"
        BY <1>3, <1>4, <3>1
      <4>2. Subject[q] \in Seq(Cases)
        BY SubjectAssumption
      <4>3. QED
        BY <4>1, <4>2, FS_EmptySet
    <3>2. CASE q # r
      BY <1>2, <1>3, <1>4, <3>2 DEF Bounded
    <3>3. QED
      BY <3>1, <3>2
  <2>3. QED
    BY <2>1, <2>2 DEF Bounded
<1>12. Locked'
  <2> SUFFICES ASSUME backend = "sqlite", NEW q \in Requests
               PROVE  /\ Writing(q)' => lock' = q
                      /\ pc'[q] # "conflict"
                      /\ pc'[q] = "read" =>
                           \A x \in RowsOf(stored, NextCase(q)') : x.seq <= last[q].seq
    BY <1>1 DEF Locked, RowsOf
  <2>1. /\ Writing(q) => lock = q
        /\ pc[q] # "conflict"
        /\ pc[q] = "read" => \A x \in RowsOf(stored, NextCase(q)) : x.seq <= last[q].seq
    BY <1>2 DEF Locked
  <2>2. CASE q = r
    <3>1. ASSUME outcome = "conflict"
          PROVE  FALSE
      <4>1. PICK x \in stored : x.case = NewRow(r).case /\ x.seq = NewRow(r).seq
        BY <1>1, <3>1 DEF Refused, SameKey
      <4>2. NewRow(r).case = NextCase(r) /\ NewRow(r).seq = last[r].seq + 1
        BY DEF NewRow
      <4>3. x.seq <= last[r].seq
        BY <1>1, <2>1, <2>2, <3>1, <4>1, <4>2 DEF RowsOf
      <4>4. last[r].seq \in Nat
        BY <1>2 DEF TypeOK
      <4>5. QED
        BY <4>1, <4>2, <4>3, <4>4
    <3>2. outcome = "failed"
      BY <3>1
    <3>3. QED
      BY <1>3, <2>2, <3>2 DEF Writing
  <2>3. CASE q # r
    BY <1>1, <1>3, <1>5, <2>1, <2>3 DEF Writing
  <2>4. QED
    BY <2>2, <2>3
<1>13. Owned'
  <2>1. \A x \in stored \cup lost : pc'[x.body.by] = "done"
    BY <1>2, <1>3, <1>7, TypedFacts DEF Owned
  <2>2. \A q \in Requests : \A x \in pending'[q] : x.body.by = q
    BY <1>2, <1>4 DEF Owned
  <2>3. QED
    BY <1>1, <1>2, <2>1, <2>2 DEF Owned
<1>14. KeysUnique'
  <2>1. \A x, y \in stored' \cup Uncommitted' : x.case = y.case /\ x.seq = y.seq => x = y
    BY <1>1, <1>2, <1>6 DEF KeysUnique
  <2>2. ASSUME NEW q \in Requests, pc'[q] = "read",
               NEW x \in RowsOf(pending'[q], NextCase(q)')
        PROVE  x.seq <= last[q].seq
    <3>1. q # r /\ pc[q] = "read" /\ pending'[q] = pending[q] /\ NextCase(q)' = NextCase(q)
      BY <1>3, <1>4, <1>5, <2>2
    <3>2. QED
      BY <1>2, <2>2, <3>1 DEF KeysUnique
  <2>3. QED
    BY <1>1, <2>1, <2>2 DEF KeysUnique, RowsOf
<1>15. Linked'
  <2>1. \A q \in Requests : \A x \in pending'[q] :
          Follows(x.prev, x.case, stored \cup lost \cup pending'[q])
    BY <1>2, <1>4 DEF Linked
  <2>2. ASSUME NEW q \in Requests, pc'[q] = "read"
        PROVE  /\ Numbered(last[q].hash, last[q].seq)
               /\ Follows(last[q].hash, NextCase(q)', stored \cup lost \cup pending'[q])
    <3>1. q # r /\ pc[q] = "read" /\ pending'[q] = pending[q] /\ NextCase(q)' = NextCase(q)
      BY <1>3, <1>4, <1>5, <2>2
    <3>2. QED
      BY <1>2, <3>1 DEF Linked
  <2>3. \A x \in stored : Follows(x.prev, x.case, stored \cup lost)
    BY <1>2 DEF Linked
  <2>4. QED
    BY <1>1, <2>1, <2>2, <2>3 DEF Linked, Follows, RowsOf
<1>16. Accounted'
  <2>1. \A q \in Requests : pc'[q] = "done" => pc[q] = "done"
    BY <1>3
  <2>2. QED
    BY <1>1, <1>2, <2>1 DEF Accounted
<1>17. InTurn'
  <2> SUFFICES ASSUME NEW q \in Requests
               PROVE  /\ \A x \in pending'[q] : /\ x.body.nth \in 1..Cardinality(pending'[q])
                                                /\ x.case = Subject[q][x.body.nth]
                      /\ \A k \in 1..Cardinality(pending'[q]) :
                           \E x \in pending'[q] : x.body.nth = k
                      /\ \A x, y \in pending'[q] : x.body.nth = y.body.nth => x = y
                      /\ \A x, y \in pending'[q] :
                           x.case = y.case /\ x.seq < y.seq => x.body.nth < y.body.nth
    BY DEF InTurn
  <2>1. CASE q = r
    <3>1. pending'[q] = {} /\ Cardinality(pending'[q]) = 0
      BY <1>4, <2>1, FS_EmptySet
    <3>2. QED
      BY <3>1
  <2>2. CASE q # r
    BY <1>2, <1>4, <2>2 DEF InTurn
  <2>3. QED
    BY <2>1, <2>2
<1>18. QED
  BY <1>8, <1>9, <1>10, <1>11, <1>12, <1>13, <1>14, <1>15, <1>16, <1>17 DEF IInv

LEMMA CommitKept ==
  ASSUME IInv, NEW r \in Requests, Commit(r)
  PROVE  IInv'
<1>1. /\ pc[r] = "open" /\ Cardinality(pending[r]) = Len(Subject[r])
      /\ stored' = stored \cup pending[r]
      /\ pending' = [pending EXCEPT ![r] = {}]
      /\ lock' = IF lock = r THEN NoRequest ELSE lock
      /\ pc' = [pc EXCEPT ![r] = "done"]
      /\ UNCHANGED <<backend, last, lost, altered, forged, damage>>
  BY DEF Commit, AllAppended, NoDamage
<1>2. /\ TypeOK /\ Bounded /\ Locked /\ Owned /\ KeysUnique /\ Linked /\ InTurn /\ Accounted /\ Undamaged
  BY DEF IInv
<1>3. \A q \in Requests : pc'[q] = IF q = r THEN "done" ELSE pc[q]
  BY <1>1, <1>2, PlaceFacts
<1>4. \A q \in Requests : pending'[q] = IF q = r THEN {} ELSE pending[q]
  BY <1>1, <1>2 DEF TypeOK
<1>5. \A q \in Requests : q # r => NextCase(q)' = NextCase(q)
  BY <1>4 DEF NextCase
<1>6. Uncommitted' \subseteq Uncommitted /\ pending[r] \subseteq Uncommitted
  BY <1>4 DEF Uncommitted
<1>7. \A x \in stored \cup lost : x.body.by # r
  BY <1>1, <1>2 DEF Owned
<1>8. TypeOK'
  <2>1. (\A q \in Requests : pending[q] # {} => Writing(q))'
    BY <1>1, <1>2, <1>3, <1>4 DEF TypeOK, Writing
  <2>2. (lock # NoRequest => backend = "sqlite" /\ Writing(lock))'
    BY <1>1, <1>2, <1>3 DEF TypeOK, Writing
  <2>3. pending' \in [Requests -> SUBSET Rows]
    BY <1>1, <1>2 DEF TypeOK
  <2>4. pc' \in [Requests -> {"idle", "arrived", "open", "read", "done", "failed", "conflict"}]
    BY <1>1, <1>2 DEF TypeOK
  <2>5. lock' \in Requests \cup {NoRequest}
    BY <1>1, <1>2 DEF TypeOK
  <2>6. stored' \in SUBSET Rows
    BY <1>1, TypedFacts
  <2>7. status' \in [Cases -> {"none", "created", "ended"}]
    <3>1. status \in [Cases -> {"none", "created", "ended"}]
      BY <1>2 DEF TypeOK
    <3>2. \/ status' = [status EXCEPT ![Subject[r][1]] = "created"]
          \/ status' = [status EXCEPT ![Subject[r][1]] = "ended"]
          \/ status' = status
      BY DEF Commit
    <3>3. QED
      BY <3>1, <3>2
  <2>8. /\ backend' \in Backends /\ last' \in [Requests -> [seq : Nat, hash : Seq(HashInputs)]]
        /\ lost' \in SUBSET Rows /\ altered' \in SUBSET Seq(HashInputs)
        /\ forged' \in SUBSET Seq(HashInputs) /\ damage' \in 0..MaxDamage
    BY <1>1, <1>2 DEF TypeOK
  <2>9. QED
    BY <2>1, <2>2, <2>3, <2>4, <2>5, <2>6, <2>7, <2>8 DEF TypeOK, Rows, HashInputs, Bodies
<1>9. (\A x \in Written : Hashed(x))'
  <2>1. \A x : Hashed(x)' <=> Hashed(x)
    BY <1>1 DEF Hashed, HashOf
  <2>2. Written' \subseteq Written
    BY <1>1, <1>6 DEF Written
  <2>3. QED
    BY <2>1, <2>2 DEF IInv
<1>10. Undamaged'
  BY <1>1, <1>2 DEF Undamaged
<1>11. Bounded'
  <2>1. \E n \in Nat : \A x \in stored' \cup Uncommitted' : x.seq <= n
    BY <1>1, <1>2, <1>6 DEF Bounded
  <2>2. ASSUME NEW q \in Requests
        PROVE  /\ IsFiniteSet(pending'[q]) /\ Cardinality(pending'[q]) <= Len(Subject[q])
               /\ pc'[q] = "read" => Cardinality(pending'[q]) < Len(Subject[q])
    <3>1. CASE q = r
      <4>1. pending'[q] = {} /\ pc'[q] # "read"
        BY <1>3, <1>4, <3>1
      <4>2. Subject[q] \in Seq(Cases)
        BY SubjectAssumption
      <4>3. QED
        BY <4>1, <4>2, FS_EmptySet
    <3>2. CASE q # r
      BY <1>2, <1>3, <1>4, <3>2 DEF Bounded
    <3>3. QED
      BY <3>1, <3>2
  <2>3. QED
    BY <2>1, <2>2 DEF Bounded
<1>12. Locked'
  <2> SUFFICES ASSUME backend = "sqlite", NEW q \in Requests
               PROVE  ~Writing(q)' /\ pc'[q] # "conflict"
    BY <1>1 DEF Locked, Writing
  <2>1. Writing(q) => q = r
    BY <1>1, <1>2 DEF Locked, Writing
  <2>2. QED
    BY <1>2, <1>3, <2>1 DEF Locked, Writing
<1>13. Owned'
  <2>1. \A x \in stored' \cup lost : pc'[x.body.by] = "done"
    BY <1>1, <1>2, <1>3, TypedFacts DEF Owned
  <2>2. \A q \in Requests : \A x \in pending'[q] : x.body.by = q
    BY <1>2, <1>4 DEF Owned
  <2>3. \A h \in altered : \E x \in stored' \cup lost : x.hash = h
    BY <1>1, <1>2 DEF Owned
  <2>4. ASSUME NEW x \in stored', NEW y \in lost
        PROVE  x.hash # y.hash
    <3>1. CASE x \in stored
      BY <1>2, <3>1 DEF Owned
    <3>2. CASE x \in pending[r]
      <4>1. x.body.by = r /\ y.body.by # r
        BY <1>2, <1>7, <3>2 DEF Owned
      <4>2. x \in Rows /\ Hashed(x) /\ y \in Rows /\ Hashed(y)
        BY <1>6, <3>2, TypedFacts
      <4>3. QED
        BY <4>1, <4>2, SameHash
    <3>3. QED
      BY <1>1, <3>1, <3>2
  <2>5. QED
    BY <1>1, <2>1, <2>2, <2>3, <2>4 DEF Owned
<1>14. KeysUnique'
  <2>1. \A x, y \in stored' \cup Uncommitted' : x.case = y.case /\ x.seq = y.seq => x = y
    BY <1>1, <1>2, <1>6 DEF KeysUnique
  <2>2. ASSUME NEW q \in Requests, pc'[q] = "read",
               NEW x \in RowsOf(pending'[q], NextCase(q)')
        PROVE  x.seq <= last[q].seq
    <3>1. q # r /\ pc[q] = "read" /\ pending'[q] = pending[q] /\ NextCase(q)' = NextCase(q)
      BY <1>3, <1>4, <1>5, <2>2
    <3>2. QED
      BY <1>2, <2>2, <3>1 DEF KeysUnique
  <2>3. QED
    BY <1>1, <2>1, <2>2 DEF KeysUnique, RowsOf
<1>15. Linked'
  <2>1. ASSUME NEW q \in Requests, NEW x \in pending'[q]
        PROVE  Follows(x.prev, x.case, stored' \cup lost \cup pending'[q])
    <3>1. q # r /\ pending'[q] = pending[q]
      BY <1>4, <2>1
    <3>2. Follows(x.prev, x.case, stored \cup lost \cup pending[q])
      BY <1>2, <2>1, <3>1 DEF Linked
    <3>3. QED
      BY <1>1, <3>1, <3>2 DEF Follows, RowsOf
  <2>2. ASSUME NEW q \in Requests, pc'[q] = "read"
        PROVE  /\ Numbered(last[q].hash, last[q].seq)
               /\ Follows(last[q].hash, NextCase(q)', stored' \cup lost \cup pending'[q])
    <3>1. q # r /\ pc[q] = "read" /\ pending'[q] = pending[q] /\ NextCase(q)' = NextCase(q)
      BY <1>3, <1>4, <1>5, <2>2
    <3>2. /\ Numbered(last[q].hash, last[q].seq)
          /\ Follows(last[q].hash, NextCase(q), stored \cup lost \cup pending[q])
      BY <1>2, <3>1 DEF Linked
    <3>3. QED
      BY <1>1, <3>1, <3>2 DEF Follows, RowsOf
  <2>3. ASSUME NEW x \in stored'
        PROVE  Follows(x.prev, x.case, stored' \cup lost)
    <3>1. CASE x \in stored
      <4>1. Follows(x.prev, x.case, stored \cup lost)
        BY <1>2, <3>1 DEF Linked
      <4>2. QED
        BY <1>1, <4>1 DEF Follows, RowsOf
    <3>2. CASE x \in pending[r]
      <4>1. Follows(x.prev, x.case, stored \cup lost \cup pending[r])
        BY <1>2, <3>2 DEF Linked
      <4>2. QED
        BY <1>1, <4>1 DEF Follows, RowsOf
    <3>3. QED
      BY <1>1, <3>1, <3>2
  <2>4. QED
    BY <1>1, <2>1, <2>2, <2>3 DEF Linked, Follows, RowsOf
<1>16. Accounted'
  <2> SUFFICES ASSUME NEW q \in Requests, pc'[q] = "done"
               PROVE  { x.case : x \in { y \in stored' \cup lost : y.body.by = q } } =
                        Range(Subject[q])
    BY <1>1 DEF Accounted
  <2>1. CASE q = r
    <3>1. { y \in stored' \cup lost : y.body.by = r } = pending[r]
      BY <1>1, <1>2, <1>7 DEF Owned
    <3>2. DOMAIN Subject[r] = 1..Cardinality(pending[r])
      BY <1>1, SubjectAssumption
    <3>3. \A x \in pending[r] : \E k \in DOMAIN Subject[r] : x.case = Subject[r][k]
      BY <1>2, <3>2 DEF InTurn
    <3>4. \A k \in DOMAIN Subject[r] : \E x \in pending[r] : x.case = Subject[r][k]
      BY <1>2, <3>2 DEF InTurn
    <3>5. { x.case : x \in pending[r] } = Range(Subject[r])
      BY <3>3, <3>4 DEF Range
    <3>6. { x.case : x \in { y \in stored' \cup lost : y.body.by = r } } = Range(Subject[r])
      BY <3>1, <3>5
    <3>7. QED
      BY <2>1, <3>6
  <2>2. CASE q # r
    <3>1. { y \in stored' \cup lost : y.body.by = q } = { y \in stored \cup lost : y.body.by = q }
      BY <1>1, <1>2, <2>2 DEF Owned
    <3>2. QED
      BY <1>2, <1>3, <2>2, <3>1 DEF Accounted
  <2>3. QED
    BY <2>1, <2>2
<1>17. InTurn'
  <2> SUFFICES ASSUME NEW q \in Requests
               PROVE  /\ \A x \in pending'[q] : /\ x.body.nth \in 1..Cardinality(pending'[q])
                                                /\ x.case = Subject[q][x.body.nth]
                      /\ \A k \in 1..Cardinality(pending'[q]) :
                           \E x \in pending'[q] : x.body.nth = k
                      /\ \A x, y \in pending'[q] : x.body.nth = y.body.nth => x = y
                      /\ \A x, y \in pending'[q] :
                           x.case = y.case /\ x.seq < y.seq => x.body.nth < y.body.nth
    BY DEF InTurn
  <2>1. CASE q = r
    <3>1. pending'[q] = {} /\ Cardinality(pending'[q]) = 0
      BY <1>4, <2>1, FS_EmptySet
    <3>2. QED
      BY <3>1
  <2>2. CASE q # r
    BY <1>2, <1>4, <2>2 DEF InTurn
  <2>3. QED
    BY <2>1, <2>2
<1>18. QED
  BY <1>8, <1>9, <1>10, <1>11, <1>12, <1>13, <1>14, <1>15, <1>16, <1>17 DEF IInv

(* Stored rows, and what is read of them. *)
LEMMA StoredFacts ==
  ASSUME IInv, NEW x \in stored \cup lost
  PROVE  /\ x \in Rows /\ Hashed(x) /\ x.case \in Cases
         /\ x.seq \in Nat /\ x.seq >= 1
         /\ x.prev \in Seq(HashInputs) /\ x.hash \in Seq(HashInputs) /\ x.hash # NoHash
         /\ Len(x.hash) = Len(x.prev) + 1 /\ x.hash[Len(x.hash)].seq = x.seq
         /\ Numbered(x.hash, x.seq) /\ Numbered(x.prev, x.seq - 1)
<1>1. x \in Rows /\ Hashed(x)
  BY TypedFacts
<1>2. QED
  BY <1>1, HashedFacts, RowTypes

(* The last of some of a case's stored events. *)
LEMMA LastOfStored ==
  ASSUME IInv, NEW c, NEW rows, rows \subseteq RowsOf(stored, c)
  PROVE  /\ LastEvent(rows).seq \in Nat
         /\ \A y \in rows : y.seq <= LastEvent(rows).seq
         /\ \/ rows = {} /\ LastEvent(rows).seq = 0 /\ LastEvent(rows).hash = NoHash
            \/ \E x \in rows : LastEvent(rows).seq = x.seq /\ LastEvent(rows).hash = x.hash
<1>1. rows \in SUBSET Rows /\ rows \subseteq stored
  BY TypedFacts DEF RowsOf
<1>2. PICK n \in Nat : \A x \in rows : x.seq <= n
  BY <1>1 DEF IInv, Bounded
<1>3. /\ LastEvent(rows) \in [seq : Nat, hash : Seq(HashInputs)]
      /\ \A y \in rows : y.seq <= LastEvent(rows).seq
      /\ \/ LastEvent(rows).seq = 0 /\ LastEvent(rows).hash = NoHash
         \/ \E x \in rows : LastEvent(rows).seq = x.seq /\ LastEvent(rows).hash = x.hash
  BY <1>1, <1>2, LastEventFacts
<1>4. ASSUME NEW x \in rows
      PROVE  LastEvent(rows).seq # 0
  <2>1. x.seq \in Nat /\ x.seq >= 1
    BY <1>1, StoredFacts
  <2>2. QED
    BY <1>3, <2>1
<1>5. QED
  BY <1>3, <1>4

(* The hash verify_chain carries when it reaches a row. *)
LEMMA PrevHashFacts ==
  ASSUME IInv, NEW e \in Rows
  PROVE  \/ PrevHash(e) = NoHash /\ \A y \in RowsOf(stored, e.case) : ~(y.seq < e.seq)
         \/ \E x \in RowsOf(stored, e.case) :
              /\ x.seq < e.seq /\ x.hash = PrevHash(e)
              /\ \A y \in RowsOf(stored, e.case) : y.seq < e.seq => y.seq <= x.seq
<1> DEFINE lower == { x \in RowsOf(stored, e.case) : x.seq < e.seq }
<1>1. PICK event : event = LastEvent(lower)
  OBVIOUS
<1>2. PrevHash(e) = event.hash
  BY <1>1 DEF PrevHash
<1>3. /\ \A y \in lower : y.seq <= event.seq
      /\ \/ lower = {} /\ event.hash = NoHash
         \/ \E x \in lower : event.seq = x.seq /\ event.hash = x.hash
  BY <1>1, LastOfStored
<1>4. \A y \in RowsOf(stored, e.case) : y.seq < e.seq => y \in lower
  OBVIOUS
<1>5. \A x \in lower : x \in RowsOf(stored, e.case) /\ x.seq < e.seq
  OBVIOUS
<1> HIDE DEF lower
<1>6. CASE lower = {} /\ event.hash = NoHash
  BY <1>2, <1>4, <1>6
<1>7. CASE \E x \in lower : event.seq = x.seq /\ event.hash = x.hash
  <2>1. PICK x \in lower : event.seq = x.seq /\ event.hash = x.hash
    BY <1>7
  <2>2. \A y \in RowsOf(stored, e.case) : y.seq < e.seq => y.seq <= x.seq
    BY <1>3, <1>4, <2>1
  <2>3. QED
    BY <1>2, <1>5, <2>1, <2>2
<1>8. QED
  BY <1>3, <1>6, <1>7

LEMMA SomeDamageAllowed ==
  ASSUME IInv, Damage
  PROVE  MaxDamage # 0 /\ damage' \in 0..MaxDamage
<1>1. damage \in 0..MaxDamage /\ damage < MaxDamage /\ damage' = damage + 1
  BY DEF IInv, TypeOK, Damage
<1>2. QED
  BY <1>1, DamageAssumption

LEMMA LoseKept ==
  ASSUME IInv, LoseEvent
  PROVE  IInv'
<1>1. PICK row \in stored : lost' = lost \cup {row} /\ stored' = stored \ {row}
  BY DEF LoseEvent
<1>2. /\ MaxDamage # 0 /\ damage' \in 0..MaxDamage
      /\ UNCHANGED <<backend, lock, pending, pc, last, status, altered, forged>>
  BY SomeDamageAllowed DEF LoseEvent, Damage
<1>3. /\ TypeOK /\ Bounded /\ Locked /\ Owned /\ KeysUnique /\ Linked /\ InTurn /\ Accounted
  BY DEF IInv
<1>4. stored' \cup lost' = stored \cup lost /\ Uncommitted' = Uncommitted
      /\ \A q \in Requests : NextCase(q)' = NextCase(q)
  BY <1>1, <1>2 DEF Uncommitted, NextCase
<1>5. TypeOK'
  <2>1. stored' \in SUBSET Rows /\ lost' \in SUBSET Rows
    BY <1>1, TypedFacts
  <2>2. QED
    BY <1>2, <1>3, <2>1 DEF TypeOK, Rows, HashInputs, Bodies, Writing
<1>6. (\A x \in Written : Hashed(x))'
  <2>1. \A x : Hashed(x)' <=> Hashed(x)
    BY <1>2 DEF Hashed, HashOf
  <2>2. Written' = Written
    BY <1>4 DEF Written
  <2>3. QED
    BY <2>1, <2>2 DEF IInv
<1>7. Bounded'
  BY <1>1, <1>2, <1>3, <1>4 DEF Bounded
<1>8. Locked'
  BY <1>1, <1>2, <1>3, <1>4 DEF Locked, Writing, RowsOf
<1>9. Owned'
  <2>1. ASSUME NEW x \in stored', NEW y \in lost'
        PROVE  x.hash # y.hash
    <3>1. CASE y \in lost
      BY <1>1, <1>3, <2>1, <3>1 DEF Owned
    <3>2. CASE y = row
      <4>1. x \in Rows /\ Hashed(x) /\ y \in Rows /\ Hashed(y) /\ x # y
        BY <1>1, <3>2, TypedFacts
      <4>2. QED
        BY <4>1, SameHash
    <3>3. QED
      BY <1>1, <3>1, <3>2
  <2>2. QED
    BY <1>2, <1>3, <1>4, <2>1 DEF Owned
<1>10. KeysUnique'
  BY <1>1, <1>2, <1>3, <1>4 DEF KeysUnique, RowsOf
<1>11. Linked'
  BY <1>1, <1>2, <1>3, <1>4 DEF Linked, Follows, RowsOf
<1>12. Accounted'
  BY <1>2, <1>3, <1>4 DEF Accounted
<1>13. Undamaged'
  BY <1>2 DEF Undamaged
<1>14. InTurn'
  BY <1>2, <1>3 DEF InTurn
<1>15. QED
  BY <1>5, <1>6, <1>7, <1>8, <1>9, <1>10, <1>11, <1>12, <1>13, <1>14 DEF IInv

LEMMA AlterKept ==
  ASSUME IInv, AlterEvent
  PROVE  IInv'
<1>1. PICK row \in stored :
        /\ row.hash \notin altered /\ row.body.nth # 0
        /\ altered' = altered \cup {row.hash}
        /\ stored' = (stored \ {row}) \cup {[row EXCEPT !.body.nth = 0]}
  BY DEF AlterEvent
<1>2. /\ MaxDamage # 0 /\ damage' \in 0..MaxDamage
      /\ UNCHANGED <<backend, lock, pending, pc, last, status, lost, forged>>
  BY SomeDamageAllowed DEF AlterEvent, Damage
<1>3. /\ TypeOK /\ Bounded /\ Locked /\ Owned /\ KeysUnique /\ Linked /\ InTurn /\ Accounted
  BY DEF IInv
<1>4. Uncommitted' = Uncommitted /\ \A q \in Requests : NextCase(q)' = NextCase(q)
  BY <1>2 DEF Uncommitted, NextCase
<1>5. PICK new : new = [row EXCEPT !.body.nth = 0]
  OBVIOUS
<1>6. row \in Rows /\ Hashed(row)
  BY TypedFacts
<1>7. /\ new \in Rows /\ new.case = row.case /\ new.seq = row.seq /\ new.prev = row.prev
      /\ new.hash = row.hash /\ new.body.by = row.body.by /\ new.body.nth = 0
      /\ \A n : [new EXCEPT !.body.nth = n] = [row EXCEPT !.body.nth = n]
  BY <1>5, <1>6 DEF Rows, Bodies
<1>8. stored' = (stored \ {row}) \cup {new}
  BY <1>1, <1>5
<1>9. TypeOK'
  <2>1. stored' \in SUBSET Rows
    BY <1>7, <1>8, TypedFacts
  <2>2. altered' \in SUBSET Seq(HashInputs)
    BY <1>1, <1>3, <1>6, RowTypes DEF TypeOK
  <2>3. QED
    BY <1>2, <1>3, <2>1, <2>2 DEF TypeOK, Rows, HashInputs, Bodies, Writing
<1>10. (\A x \in Written : Hashed(x))'
  <2> SUFFICES ASSUME NEW x \in stored' \cup lost \cup Uncommitted
               PROVE  Hashed(x)'
    BY <1>2, <1>4 DEF Written
  <2>1. CASE x = new
    <3>1. PICK n \in Nat : /\ row.hash = HashOf([row EXCEPT !.body.nth = n], row.prev)
                           /\ row.body.nth = n
      BY <1>1, <1>6 DEF Hashed
    <3>2. new.hash = HashOf([new EXCEPT !.body.nth = n], new.prev)
      BY <1>7, <3>1
    <3>3. new.hash \in altered' /\ new.body.nth = 0
      BY <1>1, <1>7
    <3>4. new.seq >= 1 /\ Numbered(new.prev, new.seq - 1) /\ n # 0
      BY <1>1, <1>6, <1>7, <3>1 DEF Hashed
    <3>5. QED
      BY <2>1, <3>2, <3>3, <3>4 DEF Hashed, HashOf, Numbered
  <2>2. CASE x # new
    <3>1. x \in (stored \ {row}) \cup lost \cup Uncommitted /\ x \in Rows /\ Hashed(x)
      BY <1>8, <2>2, TypedFacts
    <3>2. x # row
      <4>1. row \notin lost
        BY <1>3 DEF Owned
      <4>2. row \notin Uncommitted
        <5> SUFFICES ASSUME NEW q \in Requests, row \in pending[q]
                     PROVE  FALSE
          BY DEF Uncommitted
        <5>1. row.body.by = q /\ pc[row.body.by] = "done"
          BY <1>3 DEF Owned
        <5>2. Writing(q)
          BY <1>3 DEF TypeOK
        <5>3. QED
          BY <5>1, <5>2 DEF Writing
      <4>3. QED
        BY <3>1, <4>1, <4>2
    <3>3. x.hash # row.hash
      BY <1>6, <3>1, <3>2, SameHash
    <3>4. x.hash \in altered' <=> x.hash \in altered
      BY <1>1, <3>3
    <3>5. PICK n \in Nat : /\ x.hash = HashOf([x EXCEPT !.body.nth = n], x.prev)
                           /\ x.body.nth = (IF x.hash \in altered THEN 0 ELSE n)
                           /\ x.hash \in altered => n # 0
      BY <3>1 DEF Hashed
    <3>6. /\ x.body.nth = (IF x.hash \in altered' THEN 0 ELSE n)
          /\ x.hash \in altered' => n # 0
      BY <3>4, <3>5
    <3>7. x.seq >= 1 /\ Numbered(x.prev, x.seq - 1)
      BY <3>1 DEF Hashed
    <3>8. QED
      BY <3>5, <3>6, <3>7 DEF Hashed, HashOf, Numbered
  <2>3. QED
    BY <2>1, <2>2
<1>11. Bounded'
  <2>1. \E n \in Nat : \A x \in stored' \cup Uncommitted : x.seq <= n
    BY <1>3, <1>7, <1>8 DEF Bounded
  <2>2. QED
    BY <1>2, <1>3, <1>4, <2>1 DEF Bounded
<1>12. Locked'
  <2>1. \A c, n : (\A x \in RowsOf(stored, c) : x.seq <= n) => \A x \in RowsOf(stored', c) : x.seq <= n
    BY <1>7, <1>8 DEF RowsOf
  <2> SUFFICES ASSUME backend = "sqlite", NEW q \in Requests
               PROVE  /\ Writing(q) => lock = q
                      /\ pc[q] # "conflict"
                      /\ pc[q] = "read" => \A x \in RowsOf(stored', NextCase(q)) : x.seq <= last[q].seq
    BY <1>2, <1>4 DEF Locked, Writing, RowsOf
  <2>2. QED
    BY <1>3, <2>1 DEF Locked
<1>13. Owned'
  <2>1. \A x \in stored' \cup lost : pc[x.body.by] = "done"
    BY <1>3, <1>7, <1>8 DEF Owned
  <2>2. ASSUME NEW h \in altered'
        PROVE  \E x \in stored' \cup lost : x.hash = h
    <3>1. CASE h = row.hash
      BY <1>7, <1>8, <3>1
    <3>2. CASE h # row.hash
      <4>1. PICK x \in stored \cup lost : x.hash = h
        BY <1>1, <1>3, <2>2, <3>2 DEF Owned
      <4>2. x # row
        BY <3>2, <4>1
      <4>3. QED
        BY <1>8, <4>1, <4>2
    <3>3. QED
      BY <3>1, <3>2
  <2>3. \A x \in stored', y \in lost : x.hash # y.hash
    BY <1>3, <1>7, <1>8 DEF Owned
  <2>4. QED
    BY <1>2, <1>3, <2>1, <2>2, <2>3 DEF Owned
<1>14. KeysUnique'
  <2>1. \A x, y \in stored' \cup Uncommitted : x.case = y.case /\ x.seq = y.seq => x = y
    <3> SUFFICES ASSUME NEW x \in stored' \cup Uncommitted, NEW y \in stored' \cup Uncommitted,
                        x.case = y.case, x.seq = y.seq
                 PROVE  x = y
      OBVIOUS
    <3>1. \A z \in stored' \cup Uncommitted : z = new \/ z \in (stored \ {row}) \cup Uncommitted
      BY <1>8
    <3>2. row \notin Uncommitted
      <4> SUFFICES ASSUME NEW q \in Requests, row \in pending[q]
                   PROVE  FALSE
        BY DEF Uncommitted
      <4>1. row.body.by = q /\ pc[row.body.by] = "done"
        BY <1>3 DEF Owned
      <4>2. Writing(q)
        BY <1>3 DEF TypeOK
      <4>3. QED
        BY <4>1, <4>2 DEF Writing
    <3>3. \A z \in (stored \ {row}) \cup Uncommitted : ~(z.case = new.case /\ z.seq = new.seq)
      BY <1>3, <1>7, <3>2 DEF KeysUnique
    <3>4. QED
      BY <1>3, <3>1, <3>3 DEF KeysUnique
  <2>2. QED
    BY <1>2, <1>3, <1>4, <2>1 DEF KeysUnique, RowsOf
<1>15. Linked'
  <2>1. \A h, c, rows : Follows(h, c, stored \cup lost \cup rows) =>
                          Follows(h, c, stored' \cup lost \cup rows)
    BY <1>7, <1>8 DEF Follows, RowsOf
  <2>2. \A h, c : Follows(h, c, stored \cup lost) => Follows(h, c, stored' \cup lost)
    BY <1>7, <1>8 DEF Follows, RowsOf
  <2>3. \A x \in stored' : Follows(x.prev, x.case, stored' \cup lost)
    <3>1. \A x \in stored : Follows(x.prev, x.case, stored' \cup lost)
      BY <1>3, <2>2 DEF Linked
    <3>2. QED
      BY <1>7, <1>8, <3>1
  <2>4. \A q \in Requests :
          /\ \A x \in pending[q] : Follows(x.prev, x.case, stored' \cup lost \cup pending[q])
          /\ pc[q] = "read" =>
               /\ Numbered(last[q].hash, last[q].seq)
               /\ Follows(last[q].hash, NextCase(q), stored' \cup lost \cup pending[q])
    BY <1>3, <2>1 DEF Linked
  <2>5. QED
    BY <1>2, <1>4, <2>3, <2>4 DEF Linked, Follows, RowsOf
<1>16. Accounted'
  <2> SUFFICES ASSUME NEW q \in Requests
               PROVE  { x.case : x \in { y \in stored' \cup lost : y.body.by = q } } =
                        { x.case : x \in { y \in stored \cup lost : y.body.by = q } }
    BY <1>2, <1>3 DEF Accounted
  <2>1. ASSUME NEW x \in stored' \cup lost, x.body.by = q
        PROVE  \E y \in stored \cup lost : y.body.by = q /\ y.case = x.case
    BY <1>7, <1>8, <2>1
  <2>2. ASSUME NEW x \in stored \cup lost, x.body.by = q
        PROVE  \E y \in stored' \cup lost : y.body.by = q /\ y.case = x.case
    BY <1>7, <1>8, <2>2
  <2>3. QED
    BY <2>1, <2>2
<1>17. Undamaged'
  BY <1>2 DEF Undamaged
<1>18. InTurn'
  BY <1>2, <1>3 DEF InTurn
<1>19. QED
  BY <1>9, <1>10, <1>11, <1>12, <1>13, <1>14, <1>15, <1>16, <1>17, <1>18 DEF IInv

(* A row hashed again behind the service is hashed as the service would. *)
LEMMA RehashedFacts ==
  ASSUME IInv, MaxDamage # 0, NEW row \in Rows, row.seq >= 1, NEW nth \in Nat,
         \A x \in stored \cup lost : x.hash # Rehashed(row, nth).hash
  PROVE  LET new == Rehashed(row, nth)
         IN  /\ new \in Rows /\ new.case = row.case /\ new.seq = row.seq
             /\ new.body.by = row.body.by /\ new.prev = PrevHash(row)
             /\ Hashed(new)
             /\ Follows(new.prev, new.case, stored \cup lost)
<1>1. PICK prev : prev = PrevHash(row)
  OBVIOUS
<1>2. PICK new : new = Rehashed(row, nth)
  OBVIOUS
<1>3. prev = NoHash \/ \E x \in RowsOf(stored, row.case) : x.seq < row.seq /\ x.hash = prev
  BY <1>1, PrevHashFacts
<1>4. row.seq \in Nat
  BY RowTypes
<1>5. prev \in Seq(HashInputs) /\ Numbered(prev, row.seq - 1)
  <2>1. CASE prev = NoHash
    BY <2>1 DEF NoHash, Numbered
  <2>2. CASE \E x \in RowsOf(stored, row.case) : x.seq < row.seq /\ x.hash = prev
    <3>1. PICK x \in stored : x.seq < row.seq /\ x.hash = prev
      BY <2>2 DEF RowsOf
    <3>2. x.seq \in Nat /\ prev \in Seq(HashInputs) /\ Numbered(prev, x.seq)
      BY <3>1, StoredFacts
    <3>3. ASSUME NEW k \in 1..Len(prev)
          PROVE  prev[k].seq <= row.seq - 1
      <4>1. prev[k] \in HashInputs
        BY <3>2
      <4>2. prev[k].seq \in Nat /\ prev[k].seq <= x.seq
        BY <3>2, <4>1 DEF Numbered, HashInputs
      <4>3. QED
        BY <1>4, <3>1, <3>2, <4>2
    <3>4. QED
      BY <3>2, <3>3 DEF Numbered
  <2>3. QED
    BY <1>3, <2>1, <2>2
<1>6. PICK given : given = [row EXCEPT !.body.nth = nth]
  OBVIOUS
<1>7. /\ given \in Rows /\ given.case = row.case /\ given.seq = row.seq
      /\ given.body = [by |-> row.body.by, nth |-> nth]
  BY <1>6, RowTypes DEF Rows, Bodies
<1>8. PICK hash : hash = HashOf(given, prev)
  OBVIOUS
<1>9. hash \in Seq(HashInputs)
  <2>1. [case |-> given.case, seq |-> given.seq, body |-> given.body] \in HashInputs
    BY <1>7, RowTypes DEF HashInputs
  <2>2. QED
    BY <1>5, <1>8, <2>1 DEF HashOf
<1>10. new = [row EXCEPT !.body.nth = nth, !.prev = prev, !.hash = hash]
  BY <1>1, <1>2, <1>6, <1>8 DEF Rehashed
<1>11. /\ new \in Rows /\ new.case = row.case /\ new.seq = row.seq
       /\ new.body = [by |-> row.body.by, nth |-> nth]
       /\ new.prev = prev /\ new.hash = hash
       /\ [new EXCEPT !.body.nth = nth].case = row.case
       /\ [new EXCEPT !.body.nth = nth].seq = row.seq
       /\ [new EXCEPT !.body.nth = nth].body = [by |-> row.body.by, nth |-> nth]
  BY <1>5, <1>9, <1>10, RowTypes DEF Rows, Bodies
<1>12. new.hash \notin altered
  BY <1>2 DEF IInv, Owned
<1>13. Hashed(new)
  <2>1. new.hash = HashOf([new EXCEPT !.body.nth = nth], new.prev)
    BY <1>7, <1>8, <1>11 DEF HashOf
  <2>2. new.seq >= 1 /\ Numbered(new.prev, new.seq - 1) /\ new.body.nth = nth
    BY <1>5, <1>11
  <2>3. QED
    BY <1>12, <2>1, <2>2 DEF Hashed
<1>14. Follows(new.prev, new.case, stored \cup lost)
  BY <1>3, <1>11 DEF Follows, RowsOf
<1>15. QED
  BY <1>1, <1>2, <1>11, <1>13, <1>14

(* A stored row belongs to no session that still writes. *)
LEMMA StoredIsCommitted ==
  ASSUME IInv, NEW x \in stored
  PROVE  x \notin Uncommitted
<1> SUFFICES ASSUME NEW q \in Requests, x \in pending[q]
             PROVE  FALSE
  BY DEF Uncommitted
<1>1. x.body.by = q /\ pc[x.body.by] = "done"
  BY DEF IInv, Owned
<1>2. Writing(q)
  BY DEF IInv, TypeOK
<1>3. QED
  BY <1>1, <1>2 DEF Writing

(* One row more, hashed again, in the place of another one or of none. *)
LEMMA ReplacedKept ==
  ASSUME IInv, MaxDamage # 0, damage' \in 0..MaxDamage,
         UNCHANGED <<backend, lock, pending, pc, last, status, altered>>,
         forged' \in SUBSET Seq(HashInputs),
         NEW new \in Rows, NEW out, out \subseteq stored,
         stored' = (stored \ out) \cup {new}, lost' = lost \cup out,
         Hashed(new), Follows(new.prev, new.case, stored \cup lost),
         \A x \in stored \cup lost : x.hash # new.hash,
         \E like \in stored : like.body.by = new.body.by /\ like.case = new.case,
         ~SameKey(new, (stored \ out) \cup Uncommitted),
         backend = "sqlite" =>
           \/ lock = NoRequest
           \/ \E x \in stored : x.case = new.case /\ x.seq = new.seq
  PROVE  IInv'
<1>1. PICK like \in stored : like.body.by = new.body.by /\ like.case = new.case
  OBVIOUS
<1>2. /\ TypeOK /\ Bounded /\ Locked /\ Owned /\ KeysUnique /\ Linked /\ InTurn /\ Accounted
  BY DEF IInv
<1>3. Uncommitted' = Uncommitted /\ \A q \in Requests : NextCase(q)' = NextCase(q)
  BY DEF Uncommitted, NextCase
<1>4. stored' \cup lost' = stored \cup lost \cup {new}
  OBVIOUS
<1>5. TypeOK'
  <2>1. stored' \in SUBSET Rows /\ lost' \in SUBSET Rows
    BY TypedFacts
  <2>2. QED
    BY <1>2, <2>1 DEF TypeOK, Rows, HashInputs, Bodies, Writing
<1>6. (\A x \in Written : Hashed(x))'
  <2>1. \A x : Hashed(x)' <=> Hashed(x)
    BY DEF Hashed, HashOf, Numbered
  <2>2. Written' = Written \cup {new}
    BY <1>3, <1>4 DEF Written
  <2>3. \A x \in Written : Hashed(x)
    BY DEF IInv
  <2>4. QED
    BY <2>1, <2>2, <2>3
<1>7. Bounded'
  <2>1. PICK n \in Nat : \A x \in stored \cup Uncommitted : x.seq <= n
    BY <1>2 DEF Bounded
  <2>2. new.seq \in Nat /\ \A x \in stored \cup Uncommitted : x.seq \in Nat
    BY TypedFacts, RowTypes
  <2>3. PICK m \in Nat : m = n + new.seq
    BY <2>2
  <2>4. \A x \in stored' \cup Uncommitted : x.seq <= m
    BY <2>1, <2>2, <2>3
  <2>5. QED
    BY <1>2, <1>3, <2>4 DEF Bounded
<1>8. Locked'
  <2> SUFFICES ASSUME backend = "sqlite", NEW q \in Requests
               PROVE  /\ Writing(q) => lock = q
                      /\ pc[q] # "conflict"
                      /\ pc[q] = "read" => \A x \in RowsOf(stored', NextCase(q)) : x.seq <= last[q].seq
    BY <1>3 DEF Locked, Writing, RowsOf
  <2>1. /\ Writing(q) => lock = q
        /\ pc[q] # "conflict"
        /\ pc[q] = "read" => \A x \in RowsOf(stored, NextCase(q)) : x.seq <= last[q].seq
    BY <1>2 DEF Locked
  <2>2. ASSUME pc[q] = "read", NEW x \in RowsOf(stored', NextCase(q))
        PROVE  x.seq <= last[q].seq
    <3>1. lock # NoRequest
      BY <2>1, <2>2, NobodyAssumption DEF Writing
    <3>2. PICK y \in stored : y.case = new.case /\ y.seq = new.seq
      BY <3>1
    <3>3. CASE x \in stored
      BY <2>1, <2>2, <3>3 DEF RowsOf
    <3>4. CASE x = new
      BY <2>1, <2>2, <3>2, <3>4 DEF RowsOf
    <3>5. QED
      BY <2>2, <3>3, <3>4 DEF RowsOf
  <2>3. QED
    BY <2>1, <2>2
<1>9. Owned'
  <2>1. \A x \in stored' \cup lost' : pc[x.body.by] = "done"
    BY <1>1, <1>2, <1>4 DEF Owned
  <2>2. \A h \in altered : \E x \in stored' \cup lost' : x.hash = h
    BY <1>2, <1>4 DEF Owned
  <2>3. ASSUME NEW x \in stored', NEW y \in lost'
        PROVE  x.hash # y.hash
    <3>1. y \in stored \cup lost
      OBVIOUS
    <3>2. CASE x = new
      BY <3>1, <3>2
    <3>3. CASE x \in stored \ out /\ y \in lost
      BY <1>2, <3>3 DEF Owned
    <3>4. CASE x \in stored \ out /\ y \in out
      <4>1. x \in Rows /\ Hashed(x) /\ y \in Rows /\ Hashed(y) /\ x # y
        BY <3>1, <3>4, TypedFacts
      <4>2. QED
        BY <4>1, SameHash
    <3>5. QED
      BY <2>3, <3>2, <3>3, <3>4
  <2>4. QED
    BY <1>2, <2>1, <2>2, <2>3 DEF Owned
<1>10. KeysUnique'
  <2>1. \A z \in (stored \ out) \cup Uncommitted : ~(z.case = new.case /\ z.seq = new.seq)
    BY DEF SameKey
  <2>2. \A x, y \in stored' \cup Uncommitted : x.case = y.case /\ x.seq = y.seq => x = y
    <3> SUFFICES ASSUME NEW x \in stored' \cup Uncommitted, NEW y \in stored' \cup Uncommitted,
                        x.case = y.case, x.seq = y.seq
                 PROVE  x = y
      OBVIOUS
    <3>1. \A z \in stored' \cup Uncommitted : z = new \/ z \in (stored \ out) \cup Uncommitted
      OBVIOUS
    <3>2. QED
      BY <1>2, <2>1, <3>1 DEF KeysUnique
  <2>3. QED
    BY <1>2, <1>3, <2>2 DEF KeysUnique, RowsOf
<1>11. Linked'
  <2>1. \A h, c, rows : Follows(h, c, stored \cup lost \cup rows) =>
                          Follows(h, c, stored' \cup lost' \cup rows)
    BY <1>4 DEF Follows, RowsOf
  <2>2. \A h, c : Follows(h, c, stored \cup lost) => Follows(h, c, stored' \cup lost')
    BY <1>4 DEF Follows, RowsOf
  <2>3. \A x \in stored' : Follows(x.prev, x.case, stored' \cup lost')
    BY <1>2, <2>2 DEF Linked
  <2>4. \A q \in Requests :
          /\ \A x \in pending[q] : Follows(x.prev, x.case, stored' \cup lost' \cup pending[q])
          /\ pc[q] = "read" =>
               /\ Numbered(last[q].hash, last[q].seq)
               /\ Follows(last[q].hash, NextCase(q), stored' \cup lost' \cup pending[q])
    BY <1>2, <2>1 DEF Linked
  <2>5. QED
    BY <1>3, <2>3, <2>4 DEF Linked, Follows, RowsOf, Numbered
<1>12. Accounted'
  <2> SUFFICES ASSUME NEW q \in Requests
               PROVE  { x.case : x \in { y \in stored' \cup lost' : y.body.by = q } } =
                        { x.case : x \in { y \in stored \cup lost : y.body.by = q } }
    BY <1>2 DEF Accounted
  <2>1. ASSUME NEW x \in stored' \cup lost', x.body.by = q
        PROVE  \E y \in stored \cup lost : y.body.by = q /\ y.case = x.case
    BY <1>1, <1>4, <2>1
  <2>2. ASSUME NEW x \in stored \cup lost, x.body.by = q
        PROVE  \E y \in stored' \cup lost' : y.body.by = q /\ y.case = x.case
    BY <1>4, <2>2
  <2>3. QED
    BY <2>1, <2>2
<1>13. Undamaged'
  BY DEF Undamaged
<1>14. InTurn'
  BY <1>2 DEF InTurn
<1>15. QED
  BY <1>5, <1>6, <1>7, <1>8, <1>9, <1>10, <1>11, <1>12, <1>13, <1>14 DEF IInv

LEMMA ForgeKept ==
  ASSUME IInv, ForgeEvent
  PROVE  IInv'
<1>0. PICK row \in stored : \E nth \in {0, row.body.nth} :
        /\ Forge(Rehashed(row, nth))
        /\ lost' = lost \cup {row}
        /\ stored' = (stored \ {row}) \cup {Rehashed(row, nth)}
  BY DEF ForgeEvent
<1>1. PICK nth \in {0, row.body.nth} :
        /\ Forge(Rehashed(row, nth))
        /\ lost' = lost \cup {row}
        /\ stored' = (stored \ {row}) \cup {Rehashed(row, nth)}
  BY <1>0
<1>2. /\ MaxDamage # 0 /\ damage' \in 0..MaxDamage
      /\ UNCHANGED <<backend, lock, pending, pc, last, status, altered>>
  BY SomeDamageAllowed DEF ForgeEvent, Damage
<1>3. PICK new : new = Rehashed(row, nth)
  OBVIOUS
<1>4. /\ \A x \in stored \cup lost : x.hash # new.hash
      /\ forged' = forged \cup {new.hash}
  BY <1>1, <1>3 DEF Forge
<1>5. row \in Rows /\ row.seq >= 1 /\ nth \in Nat
  BY StoredFacts, RowTypes
<1>6. /\ new \in Rows /\ new.case = row.case /\ new.seq = row.seq
      /\ new.body.by = row.body.by
      /\ Hashed(new) /\ Follows(new.prev, new.case, stored \cup lost)
  BY <1>2, <1>3, <1>4, <1>5, RehashedFacts
<1>7. forged' \in SUBSET Seq(HashInputs)
  BY <1>4, <1>6, RowTypes DEF IInv, TypeOK
<1>8. ~SameKey(new, (stored \ {row}) \cup Uncommitted)
  <2> SUFFICES ASSUME NEW x \in (stored \ {row}) \cup Uncommitted,
                      x.case = new.case, x.seq = new.seq
               PROVE  FALSE
    BY DEF SameKey
  <2>1. x = row
    BY <1>6 DEF IInv, KeysUnique
  <2>2. QED
    BY <2>1, StoredIsCommitted
<1>9. stored' = (stored \ {row}) \cup {new} /\ {row} \subseteq stored
  BY <1>1, <1>3
<1>10. QED
  BY <1>1, <1>2, <1>4, <1>6, <1>7, <1>8, <1>9, ReplacedKept

LEMMA InsertedKept ==
  ASSUME IInv, InsertEvent
  PROVE  IInv'
<1>0. PICK like \in stored : \E n \in 1..(LastEvent(RowsOf(stored, like.case)).seq + 1) :
        LET new == Rehashed([like EXCEPT !.seq = n], 0) IN
        /\ Forge(new)
        /\ ~SameKey(new, stored \cup UNION { pending[q] : q \in Requests })
        /\ stored' = stored \cup {new}
  BY DEF InsertEvent
<1>1. PICK n \in 1..(LastEvent(RowsOf(stored, like.case)).seq + 1) :
        LET new == Rehashed([like EXCEPT !.seq = n], 0) IN
        /\ Forge(new)
        /\ ~SameKey(new, stored \cup UNION { pending[q] : q \in Requests })
        /\ stored' = stored \cup {new}
  BY <1>0
<1>2. /\ MaxDamage # 0 /\ damage' \in 0..MaxDamage
      /\ UNCHANGED <<backend, lock, pending, pc, last, status, altered, lost>>
      /\ backend = "sqlite" => lock = NoRequest
  BY SomeDamageAllowed DEF InsertEvent, Damage
<1>3. PICK row : row = [like EXCEPT !.seq = n]
  OBVIOUS
<1>4. PICK new : new = Rehashed(row, 0)
  OBVIOUS
<1>5. /\ \A x \in stored \cup lost : x.hash # new.hash
      /\ forged' = forged \cup {new.hash}
      /\ ~SameKey(new, stored \cup Uncommitted)
      /\ stored' = stored \cup {new}
  BY <1>1, <1>3, <1>4 DEF Forge, Uncommitted
<1>6. n \in Nat /\ n >= 1
  <2>1. LastEvent(RowsOf(stored, like.case)).seq \in Nat
    BY LastOfStored
  <2>2. QED
    BY <2>1
<1>7. /\ row \in Rows /\ row.seq >= 1 /\ row.case = like.case /\ row.body.by = like.body.by
  BY <1>3, <1>6, StoredFacts DEF Rows
<1>8. /\ new \in Rows /\ new.case = row.case /\ new.seq = row.seq
      /\ new.body.by = row.body.by
      /\ Hashed(new) /\ Follows(new.prev, new.case, stored \cup lost)
  BY <1>2, <1>4, <1>5, <1>7, RehashedFacts
<1>9. forged' \in SUBSET Seq(HashInputs)
  BY <1>5, <1>8, RowTypes DEF IInv, TypeOK
<1>10. PICK out : out = {}
  OBVIOUS
<1>11. /\ stored' = (stored \ out) \cup {new} /\ lost' = lost \cup out /\ out \subseteq stored
       /\ ~SameKey(new, (stored \ out) \cup Uncommitted)
  BY <1>2, <1>5, <1>10 DEF SameKey
<1>12. like.body.by = new.body.by /\ like.case = new.case
  BY <1>7, <1>8
<1>13. QED
  BY <1>2, <1>5, <1>8, <1>9, <1>11, <1>12, ReplacedKept

LEMMA AuditTrailInit == Init => IInv
<1> SUFFICES ASSUME Init
             PROVE  IInv
  OBVIOUS
<1>1. /\ backend \in Backends /\ lock = NoRequest /\ stored = {} /\ lost = {} /\ altered = {}
      /\ forged = {} /\ damage = 0
      /\ pending = [r \in Requests |-> {}] /\ pc = [r \in Requests |-> "idle"]
      /\ last = [r \in Requests |-> NoEvent] /\ status = [c \in Cases |-> "none"]
  BY DEF Init
<1>2. \A r \in Requests : pending[r] = {} /\ pc[r] = "idle"
  BY <1>1
<1>3. IsFiniteSet({}) /\ Cardinality({}) = 0
  BY FS_EmptySet
<1>4. TypeOK
  <2>1. last \in [Requests -> [seq : Nat, hash : Seq(HashInputs)]]
    <3>1. NoEvent \in [seq : Nat, hash : Seq(HashInputs)]
      BY DEF NoEvent, NoHash
    <3>2. QED
      BY <1>1, <3>1
  <2>2. damage \in 0..MaxDamage
    BY <1>1, DamageAssumption
  <2>3. QED
    BY <1>1, <1>2, <2>1, <2>2 DEF TypeOK
<1>5. Uncommitted = {} /\ Written = {}
  BY <1>1, <1>2 DEF Uncommitted, Written
<1>6. Bounded
  <2>1. \A r \in Requests : Len(Subject[r]) \in Nat
    BY SubjectAssumption
  <2>2. QED
    BY <1>1, <1>2, <1>3, <1>5, <2>1 DEF Bounded
<1>7. Locked
  BY <1>2 DEF Locked, Writing
<1>8. Owned
  BY <1>1, <1>2 DEF Owned
<1>9. KeysUnique
  BY <1>1, <1>2, <1>5 DEF KeysUnique
<1>10. Linked
  BY <1>1, <1>2 DEF Linked
<1>11. InTurn /\ Accounted
  BY SMTT(30), <1>2, <1>3 DEF InTurn, Accounted
<1>12. Undamaged
  BY <1>1 DEF Undamaged
<1>13. QED
  BY <1>4, <1>5, <1>6, <1>7, <1>8, <1>9, <1>10, <1>11, <1>12 DEF IInv

(* The inductive invariant: what every row of a chain was hashed with and  *)
(* follows, and whose it is, whatever sessions append at the same time and *)
(* whatever happens to the table behind them.                              *)
THEOREM AuditTrailInductive == Spec => []IInv
<1>1. Init => IInv
  BY AuditTrailInit
<1>2. IInv /\ [Next]_vars => IInv'
  <2> SUFFICES ASSUME IInv, [Next]_vars
               PROVE  IInv'
    OBVIOUS
  <2>1. ASSUME NEW r \in Requests,
               Quiet(r) \/ ReadLast(r) \/ Insert(r) \/ Undone(r) \/ Commit(r)
        PROVE  IInv'
    BY <2>1, QuietKept, ReadKept, InsertKept, UndoneKept, CommitKept
  <2>2. CASE UNCHANGED vars
    <3>1. UNCHANGED <<backend, lock, stored, pending, pc, last, status, lost, altered, forged, damage>>
      BY <2>2 DEF vars
    <3>2. \A q \in Requests : NextCase(q)' = NextCase(q)
      BY <3>1 DEF NextCase
    <3>3. (\A x \in Written : Hashed(x))' /\ Undamaged'
      BY <3>1, RowsSame
    <3>4. TypeOK'
      BY <3>1 DEF IInv, TypeOK, Rows, HashInputs, Bodies, Writing
    <3>5. Bounded' /\ Owned' /\ InTurn' /\ Accounted'
      <4>1. Bounded /\ Owned /\ InTurn /\ Accounted
        BY DEF IInv
      <4>2. Bounded'
        BY <3>1, <4>1 DEF Bounded, Uncommitted
      <4>3. Owned'
        BY <3>1, <4>1 DEF Owned
      <4>4. Accounted'
        BY <3>1, <4>1 DEF Accounted
      <4>5. InTurn'
        BY <3>1, <4>1 DEF InTurn
      <4>6. QED
        BY <4>2, <4>3, <4>4, <4>5
    <3>6. Locked' /\ KeysUnique'
      BY <3>1, <3>2 DEF IInv, Locked, KeysUnique, Uncommitted, RowsOf, Writing
    <3>7. Linked'
      BY <3>1, <3>2 DEF IInv, Linked, Follows, RowsOf
    <3>8. QED
      BY <3>3, <3>4, <3>5, <3>6, <3>7 DEF IInv
  <2>3. QED
    BY <2>1, <2>2, LoseKept, AlterKept, ForgeKept, InsertedKept, StepKinds
<1>3. QED
  BY <1>1, <1>2, PTL DEF Spec

-----------------------------------------------------------------------------
(* Prefixes.                                                               *)

LEMMA PrefixElements ==
  ASSUME NEW S, NEW s \in Seq(S), NEW t \in Seq(S)
  PROVE  IsPrefix(s, t) <=> Len(s) <= Len(t) /\ \A k \in 1..Len(s) : s[k] = t[k]
<1>1. Len(s) \in Nat /\ Len(t) \in Nat
  OBVIOUS
<1>2. SubSeq(s, 1, Len(s)) = s
  BY SubSeqFull
<1>3. ASSUME Len(s) <= Len(t)
      PROVE  SubSeq(s, 1, Len(s)) = SubSeq(t, 1, Len(s)) <=> \A k \in 1..Len(s) : s[k] = t[k]
  <2> DEFINE u == SubSeq(t, 1, Len(s))
  <2>1. \A k \in 1..Len(s) : t[k] \in S
    BY <1>1, <1>3
  <2>2. /\ u \in Seq(S) /\ Len(u) = Len(s)
        /\ \A k \in 1..Len(s) : u[k] = t[k]
    BY <1>1, <2>1, SubSeqProperties
  <2> HIDE DEF u
  <2>3. (\A k \in 1..Len(s) : s[k] = u[k]) => s = u
    BY <2>2, SeqEqual
  <2>4. s = u <=> \A k \in 1..Len(s) : s[k] = t[k]
    BY <2>2, <2>3
  <2>5. QED
    BY <1>2, <2>4 DEF u
<1>4. QED
  BY <1>3 DEF IsPrefix

(* What comes before a sequence and one element more. *)
LEMMA BeforeAppend ==
  ASSUME NEW S, NEW s \in Seq(S), NEW t \in Seq(S), NEW e \in S
  PROVE  IsStrictPrefix(s, Append(t, e)) <=> s = t \/ IsStrictPrefix(s, t)
<1>1. PICK u : u = Append(t, e)
  OBVIOUS
<1>2. u \in Seq(S) /\ Len(u) = Len(t) + 1 /\ \A k \in 1..Len(t) : u[k] = t[k]
  BY <1>1, AppendProperties
<1>3. Len(s) \in Nat /\ Len(t) \in Nat
  OBVIOUS
<1>4. IsPrefix(s, t) <=> Len(s) <= Len(t) /\ \A k \in 1..Len(s) : s[k] = t[k]
  BY PrefixElements
<1>5. IsPrefix(s, u) <=> Len(s) <= Len(u) /\ \A k \in 1..Len(s) : s[k] = u[k]
  BY <1>2, PrefixElements
<1>6. ASSUME IsPrefix(s, u), s # u
      PROVE  IsPrefix(s, t)
  <2>1. Len(s) <= Len(t)
    <3> SUFFICES ASSUME Len(s) = Len(u)
                 PROVE  FALSE
      BY <1>2, <1>3, <1>5, <1>6
    <3>1. \A k \in 1..Len(s) : s[k] = u[k]
      BY <1>5, <1>6
    <3>2. s = u
      BY <1>2, <3>1, SeqEqual
    <3>3. QED
      BY <1>6, <3>2
  <2>2. \A k \in 1..Len(s) : s[k] = t[k]
    BY <1>2, <1>3, <1>5, <1>6, <2>1
  <2>3. QED
    BY <1>4, <2>1, <2>2
<1>7. ASSUME IsPrefix(s, t)
      PROVE  IsPrefix(s, u) /\ s # u
  BY <1>2, <1>3, <1>4, <1>5, <1>7
<1>8. IsPrefix(t, t)
  BY PrefixElements, <1>3
<1>9. QED
  BY <1>1, <1>6, <1>7, <1>8 DEF IsStrictPrefix

-----------------------------------------------------------------------------
(* What verify_chain says.                                                 *)

(* How a stored row is hashed. *)
LEMMA StoredHash ==
  ASSUME IInv, NEW x \in stored
  PROVE  \E e \in HashInputs :
           /\ x.hash = Append(x.prev, e)
           /\ x.hash \notin altered =>
                e = [case |-> x.case, seq |-> x.seq, body |-> x.body]
           /\ x.hash \in altered => e.body # x.body
<1>1. x \in Rows /\ Hashed(x)
  BY TypedFacts
<1>2. PICK n \in Nat :
        /\ x.hash = Append(x.prev, [case |-> x.case, seq |-> x.seq, body |-> [by |-> x.body.by, nth |-> n]])
        /\ x.body.nth = (IF x.hash \in altered THEN 0 ELSE n)
        /\ x.hash \in altered => n # 0
  BY <1>1, HashedFacts
<1>3. PICK e : e = [case |-> x.case, seq |-> x.seq, body |-> [by |-> x.body.by, nth |-> n]]
  OBVIOUS
<1>4. e \in HashInputs /\ x.body = [by |-> x.body.by, nth |-> x.body.nth]
  BY <1>1, <1>3, RowTypes DEF HashInputs, Bodies
<1>5. x.hash = Append(x.prev, e)
  BY <1>2, <1>3
<1>6. ASSUME x.hash \notin altered
      PROVE  e = [case |-> x.case, seq |-> x.seq, body |-> x.body]
  <2>1. x.body.nth = n
    BY <1>2, <1>6
  <2>2. QED
    BY <1>3, <1>4, <2>1
<1>7. ASSUME x.hash \in altered
      PROVE  e.body # x.body
  <2>1. x.body.nth = 0 /\ n # 0
    BY <1>2, <1>7
  <2>2. e.body.nth = n
    BY <1>3
  <2>3. QED
    BY <2>1, <2>2
<1>8. QED
  BY <1>4, <1>5, <1>6, <1>7

(* What is hashed over another row is numbered above it. *)
LEMMA AncestorBelow ==
  ASSUME IInv, NEW x \in stored \cup lost, NEW y \in stored \cup lost,
         IsStrictPrefix(x.hash, y.hash)
  PROVE  x.seq < y.seq
<1>1. PICK h : h = x.hash
  OBVIOUS
<1>2. PICK p : p = y.prev
  OBVIOUS
<1>3. /\ h \in Seq(HashInputs) /\ p \in Seq(HashInputs) /\ x.seq \in Nat /\ y.seq \in Nat
      /\ Len(h) = Len(x.prev) + 1 /\ x.prev \in Seq(HashInputs) /\ h[Len(h)].seq = x.seq
      /\ Numbered(p, y.seq - 1)
  BY <1>1, <1>2, StoredFacts
<1>4. PICK e \in HashInputs : y.hash = Append(p, e)
  <2>1. y \in Rows /\ Hashed(y)
    BY StoredFacts
  <2>2. PICK n \in Nat :
          y.hash = Append(y.prev, [case |-> y.case, seq |-> y.seq, body |-> [by |-> y.body.by, nth |-> n]])
    BY <2>1, HashedFacts
  <2>3. [case |-> y.case, seq |-> y.seq, body |-> [by |-> y.body.by, nth |-> n]] \in HashInputs
    BY <2>1, RowTypes DEF HashInputs, Bodies
  <2>4. QED
    BY <1>2, <2>2, <2>3
<1>5. h = p \/ IsStrictPrefix(h, p)
  BY <1>1, <1>3, <1>4, BeforeAppend
<1>6. IsPrefix(h, p)
  <2>1. IsPrefix(p, p)
    BY <1>3, PrefixElements
  <2>2. QED
    BY <1>5, <2>1 DEF IsStrictPrefix
<1>7. Len(h) <= Len(p) /\ \A k \in 1..Len(h) : h[k] = p[k]
  BY <1>3, <1>6, PrefixElements
<1>8. Len(h) \in 1..Len(h) /\ Len(h) \in 1..Len(p)
  BY <1>3, <1>7
<1>9. x.seq <= y.seq - 1
  BY <1>3, <1>7, <1>8 DEF Numbered
<1>10. QED
  BY <1>3, <1>9

(* What an event is hashed over is hashed over what it is hashed over. *)
LEMMA AncestorsAbove ==
  ASSUME IInv, NEW x \in stored, NEW y \in stored, y.case = x.case, y.hash = x.prev,
         NEW l \in stored \cup lost
  PROVE  Ancestor(l, x) <=> l.case = x.case /\ (l.hash = y.hash \/ Ancestor(l, y))
<1>1. PICK own \in HashInputs : x.hash = Append(x.prev, own)
  BY StoredHash
<1>2. PICK h : h = l.hash
  OBVIOUS
<1>3. PICK p : p = x.prev
  OBVIOUS
<1>4. h \in Seq(HashInputs) /\ p \in Seq(HashInputs)
  BY <1>2, <1>3, StoredFacts
<1>5. IsStrictPrefix(h, Append(p, own)) <=> h = p \/ IsStrictPrefix(h, p)
  BY <1>4, BeforeAppend
<1>6. QED
  BY <1>1, <1>2, <1>3, <1>5 DEF Ancestor

(* An event that does not verify is altered, or the events before it are    *)
(* not those it was hashed over.                                           *)
LEMMA MismatchIsReal ==
  ASSUME IInv, NEW e \in stored, Mismatch(e)
  PROVE  ~Sound(e)
<1> SUFFICES ASSUME Sound(e)
             PROVE  FALSE
  OBVIOUS
<1>1. PICK own \in HashInputs :
        /\ e.hash = Append(e.prev, own)
        /\ e.hash \notin altered => own = [case |-> e.case, seq |-> e.seq, body |-> e.body]
  BY StoredHash
<1>2. e.hash = HashOf(e, e.prev)
  BY <1>1 DEF Sound, HashOf
<1>3. e.prev # PrevHash(e)
  BY <1>2 DEF Mismatch
<1>4. e \in Rows /\ e.prev \in Seq(HashInputs) /\ e.seq \in Nat
  BY StoredFacts
<1>5. ASSUME NEW x \in stored \cup lost, Ancestor(x, e)
      PROVE  e.prev # NoHash /\ (x.hash = e.prev \/ IsStrictPrefix(x.hash, e.prev))
  <2>1. PICK h : h = x.hash
    OBVIOUS
  <2>2. PICK p : p = e.prev
    OBVIOUS
  <2>3. h \in Seq(HashInputs) /\ p \in Seq(HashInputs) /\ Len(h) \in Nat /\ Len(h) >= 1
    <3>1. Len(x.hash) = Len(x.prev) + 1 /\ x.prev \in Seq(HashInputs) /\ x.hash \in Seq(HashInputs)
      BY StoredFacts
    <3>2. QED
      BY <1>4, <2>1, <2>2, <3>1
  <2>4. h = p \/ IsStrictPrefix(h, p)
    BY <1>1, <1>5, <2>1, <2>2, <2>3, BeforeAppend DEF Ancestor
  <2>5. Len(h) <= Len(p)
    BY <2>3, <2>4, PrefixElements DEF IsStrictPrefix
  <2>6. p # <<>>
    BY <2>3, <2>5
  <2>7. QED
    BY <2>1, <2>2, <2>4, <2>6 DEF NoHash
<1>6. \A x \in stored : x.case = e.case /\ x.seq < e.seq => Ancestor(x, e)
  BY DEF Sound, RowsOf
<1>7. CASE e.prev = NoHash
  <2>1. PICK x \in RowsOf(stored, e.case) : x.seq < e.seq
    BY <1>3, <1>4, <1>7, PrevHashFacts
  <2>2. QED
    BY <1>5, <1>6, <1>7, <2>1 DEF RowsOf
<1>8. CASE \E y \in RowsOf(lost, e.case) : y.hash = e.prev
  <2>1. PICK y \in lost : y.case = e.case /\ y.hash = e.prev
    BY <1>8 DEF RowsOf
  <2>2. IsStrictPrefix(e.prev, Append(e.prev, own))
    BY <1>4, BeforeAppend
  <2>3. Ancestor(y, e)
    BY <1>1, <2>1, <2>2 DEF Ancestor
  <2>4. QED
    BY <2>1, <2>3 DEF Sound
<1>9. CASE \E y \in RowsOf(stored, e.case) : y.hash = e.prev
  <2>1. PICK y \in stored : y.case = e.case /\ y.hash = e.prev
    BY <1>9 DEF RowsOf
  <2>2. IsStrictPrefix(e.prev, Append(e.prev, own))
    BY <1>4, BeforeAppend
  <2>3. IsStrictPrefix(y.hash, e.hash)
    BY <1>1, <2>1, <2>2
  <2>4. y.seq < e.seq
    BY <2>3, AncestorBelow
  <2>5. PICK x \in RowsOf(stored, e.case) :
          /\ x.seq < e.seq /\ x.hash = PrevHash(e)
          /\ \A z \in RowsOf(stored, e.case) : z.seq < e.seq => z.seq <= x.seq
    BY <1>4, <2>1, <2>4, PrevHashFacts DEF RowsOf
  <2>6. x \in stored /\ x.case = e.case /\ Ancestor(x, e) /\ y.seq <= x.seq
    BY <1>6, <2>1, <2>4, <2>5 DEF RowsOf
  <2>7. IsStrictPrefix(x.hash, y.hash)
    BY <1>3, <1>5, <2>1, <2>5, <2>6
  <2>8. x.seq < y.seq
    BY <2>6, <2>7, AncestorBelow
  <2>9. x.seq \in Nat /\ y.seq \in Nat
    BY <2>6, StoredFacts
  <2>10. QED
    BY <2>6, <2>8, <2>9
<1>10. Follows(e.prev, e.case, stored \cup lost)
  BY DEF IInv, Linked
<1>11. QED
  BY <1>7, <1>8, <1>9, <1>10 DEF Follows, RowsOf

(* All events of a case up to this one verify. *)
VerifiedTo(e) == \A x \in RowsOf(stored, e.case) : x.seq <= e.seq => ~Mismatch(x)

(* An event that verifies with all before it is as it was hashed, and the   *)
(* smallest one that was hashed over others than those before it would     *)
(* follow a smaller one.                                                   *)
LEMMA VerifiedIsReal ==
  ASSUME IInv, NEW e \in stored, VerifiedTo(e)
  PROVE  Sound(e)
<1> DEFINE astray(x) ==
             \/ \E l \in lost : Ancestor(l, x)
             \/ \E z \in RowsOf(stored, x.case) : z.seq < x.seq /\ ~Ancestor(z, x)
           bad(x) == x \in stored /\ VerifiedTo(x) /\ astray(x)
<1>1. \A x \in stored : VerifiedTo(x) => ~Mismatch(x)
  BY StoredFacts DEF VerifiedTo, RowsOf
<1>2. e.hash \notin altered
  <2>1. PICK own \in HashInputs :
          e.hash = Append(e.prev, own) /\ (e.hash \in altered => own.body # e.body)
    BY StoredHash
  <2>2. PICK given : given = [case |-> e.case, seq |-> e.seq, body |-> e.body]
    OBVIOUS
  <2>3. e.hash = Append(e.prev, given)
    BY <1>1, <2>2 DEF Mismatch, HashOf
  <2>4. e.prev \in Seq(HashInputs) /\ given \in HashInputs
    BY <2>2, StoredFacts, RowTypes DEF HashInputs
  <2>5. PICK p : p = e.prev
    OBVIOUS
  <2>6. Append(p, own) = Append(p, given) <=> p = p /\ own = given
    BY <2>4, <2>5, AppendInjective
  <2>7. own = given
    BY <2>1, <2>3, <2>5, <2>6
  <2>8. QED
    BY <2>1, <2>2, <2>7
<1>3. \A x : ~bad(x)
  <2> SUFFICES ASSUME \E x : bad(x)
               PROVE  FALSE
    OBVIOUS
  <2> DEFINE seqs == { x.seq : x \in { y \in stored : bad(y) } }
  <2>1. seqs \in SUBSET Nat /\ seqs # {}
    BY StoredFacts
  <2>2. PICK k \in seqs : \A j \in seqs : k <= j
    <3> HIDE DEF seqs
    <3>1. QED
      BY <2>1, SmallestOf
  <2>3. PICK x : bad(x) /\ x.seq = k
    OBVIOUS
  <2>4. x \in stored /\ x \in Rows /\ x.seq \in Nat /\ x.prev \in Seq(HashInputs) /\ astray(x)
    BY <2>3, StoredFacts
  <2>5. x.prev = PrevHash(x)
    BY <1>1, <2>3 DEF Mismatch
  <2>6. \E y \in RowsOf(stored, x.case) : y.seq < x.seq /\ y.hash = x.prev
    <3> SUFFICES ASSUME x.prev = NoHash, \A z \in RowsOf(stored, x.case) : ~(z.seq < x.seq)
                 PROVE  FALSE
      BY <2>4, <2>5, PrevHashFacts
    <3>1. PICK l \in lost : Ancestor(l, x)
      BY <2>4
    <3>2. PICK own \in HashInputs : x.hash = Append(x.prev, own)
      BY <2>4, StoredHash
    <3>3. PICK h \in Seq(HashInputs) : h = l.hash /\ Len(h) >= 1
      <4>1. /\ l.hash \in Seq(HashInputs) /\ l.prev \in Seq(HashInputs)
            /\ Len(l.hash) = Len(l.prev) + 1
        BY StoredFacts
      <4>2. QED
        BY <4>1
    <3>4. PICK p \in Seq(HashInputs) : p = x.prev /\ Len(p) = 0
      <4>1. x.prev = <<>> /\ Len(<<>>) = 0 /\ <<>> \in Seq(HashInputs)
        BY DEF NoHash
      <4>2. QED
        BY <4>1
    <3>5. h = p \/ IsStrictPrefix(h, p)
      <4>1. IsStrictPrefix(h, Append(p, own))
        BY <3>1, <3>2, <3>3, <3>4 DEF Ancestor
      <4>2. QED
        BY <4>1, BeforeAppend
    <3>6. IsPrefix(h, p) => Len(h) <= Len(p)
      BY PrefixElements
    <3>7. QED
      BY <3>3, <3>4, <3>5, <3>6 DEF IsStrictPrefix
  <2>7. PICK y \in RowsOf(stored, x.case) :
          /\ y.seq < x.seq /\ y.hash = x.prev
          /\ \A z \in RowsOf(stored, x.case) : z.seq < x.seq => z.seq <= y.seq
    <3>1. PICK w \in RowsOf(stored, x.case) : w.seq < x.seq
      BY <2>6
    <3>2. QED
      BY <2>4, <2>5, <3>1, PrevHashFacts
  <2>8. y \in stored /\ y.case = x.case /\ y.seq \in Nat
    BY <2>7, StoredFacts DEF RowsOf
  <2>9. VerifiedTo(y)
    <3>1. ASSUME NEW z \in RowsOf(stored, y.case), z.seq <= y.seq
          PROVE  ~Mismatch(z)
      <4>1. z \in RowsOf(stored, x.case) /\ z.seq \in Nat
        BY <2>8, StoredFacts DEF RowsOf
      <4>2. z.seq <= x.seq
        BY <2>4, <2>7, <2>8, <3>1, <4>1
      <4>3. QED
        BY <2>3, <4>1, <4>2 DEF VerifiedTo
    <3>2. QED
      BY <3>1 DEF VerifiedTo
  <2>10. ~astray(y)
    <3> SUFFICES ASSUME astray(y)
                 PROVE  FALSE
      OBVIOUS
    <3>1. y.seq \in seqs
      BY <2>8, <2>9
    <3>2. k <= y.seq /\ y.seq < k /\ k \in Nat
      BY <2>2, <2>3, <2>4, <2>7, <3>1
    <3>3. QED
      BY <2>8, <3>2
  <2>11. CASE \E l \in lost : Ancestor(l, x)
    <3>1. PICK l \in lost : Ancestor(l, x)
      BY <2>11
    <3>2. l.hash # y.hash
      BY <2>8 DEF IInv, Owned
    <3>3. Ancestor(l, y)
      BY <2>4, <2>7, <2>8, <3>1, <3>2, AncestorsAbove
    <3>4. QED
      BY <2>10, <3>3
  <2>12. CASE \E z \in RowsOf(stored, x.case) : z.seq < x.seq /\ ~Ancestor(z, x)
    <3>1. PICK z \in RowsOf(stored, x.case) : z.seq < x.seq /\ ~Ancestor(z, x)
      BY <2>12
    <3>2. z \in stored /\ z.case = x.case /\ z.case = y.case /\ z.seq \in Nat /\ z.seq <= y.seq
      BY <2>7, <2>8, <3>1, StoredFacts DEF RowsOf
    <3>3. CASE z.seq = y.seq
      <4>1. z = y
        BY <2>8, <3>2, <3>3 DEF IInv, KeysUnique
      <4>2. QED
        BY <2>4, <2>7, <2>8, <3>1, <3>2, <4>1, AncestorsAbove
    <3>4. CASE z.seq < y.seq
      <4>1. Ancestor(z, y)
        BY <2>10, <3>2, <3>4 DEF RowsOf
      <4>2. QED
        BY <2>4, <2>7, <2>8, <3>1, <3>2, <4>1, AncestorsAbove
    <3>5. QED
      BY <2>8, <3>2, <3>3, <3>4
  <2>13. QED
    BY <2>4, <2>11, <2>12
<1>4. ~astray(e)
  BY <1>3
<1>5. QED
  BY <1>2, <1>4 DEF Sound

(* The event verify_chain names. *)
LEMMA FirstBrokenFacts ==
  ASSUME IInv, NEW c \in Cases, NEW e \in RowsOf(stored, c)
  PROVE  /\ e.seq < FirstBroken(c) => VerifiedTo(e)
         /\ e.seq = FirstBroken(c) => Mismatch(e)
<1> DEFINE broken == { row \in RowsOf(stored, c) : Mismatch(row) }
           seqs == { row.seq : row \in broken }
<1>1. \A x \in RowsOf(stored, c) : x \in stored /\ x.case = c /\ x.seq \in Nat
  BY StoredFacts DEF RowsOf
<1>2. CASE broken = {}
  <2>1. FirstBroken(c) = LastEvent(RowsOf(stored, c)).seq + 1
    BY <1>2 DEF FirstBroken
  <2>2. LastEvent(RowsOf(stored, c)).seq \in Nat /\ e.seq <= LastEvent(RowsOf(stored, c)).seq
    BY LastOfStored
  <2>3. e.seq # FirstBroken(c)
    BY <1>1, <2>1, <2>2
  <2>4. VerifiedTo(e)
    BY <1>1, <1>2 DEF VerifiedTo
  <2>5. QED
    BY <2>3, <2>4
<1>3. CASE broken # {}
  <2>1. FirstBroken(c) = Min(seqs)
    BY <1>3 DEF FirstBroken
  <2>2. seqs \in SUBSET Nat /\ seqs # {}
    BY <1>1, <1>3
  <2>3. \E k \in seqs : \A j \in seqs : k <= j
    <3> HIDE DEF seqs
    <3>1. QED
      BY <2>2, SmallestOf
  <2>4. Min(seqs) \in seqs /\ \A j \in seqs : Min(seqs) <= j
    <3> HIDE DEF seqs
    <3>1. QED
      BY <2>3 DEF Min
  <2>5. ASSUME e.seq < Min(seqs), NEW x \in RowsOf(stored, e.case), x.seq <= e.seq
        PROVE  ~Mismatch(x)
    <3> SUFFICES ASSUME Mismatch(x)
                 PROVE  FALSE
      OBVIOUS
    <3>1. x \in broken
      BY <1>1, <2>5
    <3>2. Min(seqs) <= x.seq
      BY <2>4, <3>1
    <3>3. x.seq \in Nat /\ e.seq \in Nat /\ Min(seqs) \in Nat
      BY <1>1, <2>2, <2>4, <3>1
    <3>4. QED
      BY <2>5, <3>2, <3>3
  <2>6. ASSUME e.seq = Min(seqs)
        PROVE  Mismatch(e)
    <3>1. PICK x \in broken : x.seq = Min(seqs)
      BY <2>4
    <3>2. x \in stored /\ e \in stored /\ x.case = e.case /\ x.seq = e.seq
      BY <1>1, <2>6, <3>1
    <3>3. x = e
      BY <3>2 DEF IInv, KeysUnique
    <3>4. QED
      BY <3>1, <3>3
  <2>7. QED
    BY <2>1, <2>5, <2>6 DEF VerifiedTo
<1>4. QED
  BY <1>2, <1>3

(* What first_broken_sequence says is exact however the table was changed:  *)
(* the events before it are as they were hashed, each over those before it *)
(* and no others, and the event it names is not (verify_chain,             *)
(* service.py).  An event that has kept the service's hash so vouches for   *)
(* all before it; events hashed again up to the last one do not fail.      *)
THEOREM VerdictIsExact == Spec => []VerdictExact
<1>1. IInv => VerdictExact
  <2> SUFFICES ASSUME IInv, NEW c \in Cases, NEW e \in RowsOf(stored, c)
               PROVE  /\ e.seq < FirstBroken(c) => Sound(e)
                      /\ e.seq = FirstBroken(c) => ~Sound(e)
    BY DEF VerdictExact
  <2>1. e \in stored
    BY DEF RowsOf
  <2>2. QED
    BY <2>1, FirstBrokenFacts, VerifiedIsReal, MismatchIsReal
<1>2. QED
  BY <1>1, AuditTrailInductive, PTL

(* Numbers from 1 on, each but the first with the one before. *)
LEMMA WithoutGap ==
  ASSUME NEW rows, NEW m \in Nat,
         \A x \in rows : x.seq \in 1..m,
         \A x, y \in rows : x.seq = y.seq => x = y,
         m > 0 => \E x \in rows : x.seq = m,
         \A x \in rows : x.seq > 1 => \E y \in rows : y.seq = x.seq - 1
  PROVE  { x.seq : x \in rows } = 1..Cardinality(rows) /\ Cardinality(rows) \in Nat
<1>1. \A k \in 1..m : \E x \in rows : x.seq = k
  <2> DEFINE gaps == { j \in 0..m : m - j >= 1 /\ \A x \in rows : x.seq # m - j }
  <2>1. gaps = {}
    <3> SUFFICES ASSUME gaps # {}
                 PROVE  FALSE
      OBVIOUS
    <3>1. PICK j \in gaps : \A i \in gaps : j <= i
      <4>1. gaps \in SUBSET Nat
        OBVIOUS
      <4> HIDE DEF gaps
      <4>2. QED
        BY <4>1, SmallestOf
    <3>2. j > 0
      BY <3>1
    <3>3. j - 1 \notin gaps
      <4>1. j \in Nat
        BY <3>1
      <4> HIDE DEF gaps
      <4>2. j - 1 \in gaps => j <= j - 1
        BY <3>1
      <4>3. QED
        BY <4>1, <4>2
    <3>4. PICK x \in rows : x.seq = m - (j - 1)
      BY <3>1, <3>2, <3>3
    <3>5. x.seq > 1 /\ x.seq - 1 = m - j
      BY <3>1, <3>4
    <3>6. QED
      BY <3>1, <3>5
  <2>2. ASSUME NEW k \in 1..m
        PROVE  \E x \in rows : x.seq = k
    <3>1. PICK j : j = m - k
      OBVIOUS
    <3>2. j \in 0..m /\ m - j = k /\ k >= 1
      BY <2>2, <3>1
    <3>3. j \notin gaps
      BY <2>1
    <3>4. QED
      BY <3>2, <3>3
  <2>3. QED
    BY <2>2
<1>2. { x.seq : x \in rows } = 1..m
  BY <1>1
<1>3. Cardinality(rows) = m
  <2> DEFINE f == [k \in 1..m |-> CHOOSE x \in rows : x.seq = k]
  <2>1. \A k \in 1..m : f[k] \in rows /\ f[k].seq = k
    BY <1>1
  <2>2. f \in [1..m -> rows]
    BY <2>1
  <2>3. \A x \in rows : f[x.seq] = x
    BY <2>1
  <2> HIDE DEF f
  <2>4. \A x \in rows : \E k \in 1..m : f[k] = x
    BY <2>3
  <2>5. \A a, b \in 1..m : f[a] = f[b] => a = b
    BY <2>1
  <2>6. f \in Bijection(1..m, rows)
    BY <2>2, <2>4, <2>5, Fun_IsBij
  <2>7. ExistsBijection(1..m, rows)
    BY <2>6 DEF ExistsBijection
  <2>8. IsFiniteSet(1..m) /\ Cardinality(1..m) = m
    BY FS_Interval
  <2>9. QED
    BY <2>7, <2>8, FS_Bijection
<1>4. QED
  BY <1>2, <1>3

(* Without damage an event is hashed over as many as its number says. *)
LEMMA NumberedByLength ==
  ASSUME IInv, MaxDamage = 0, NEW x \in stored \cup Uncommitted
  PROVE  /\ x \in Rows /\ Len(x.hash) = x.seq /\ x.seq \in Nat /\ x.seq >= 1
         /\ Len(x.prev) = x.seq - 1 /\ (x.seq > 1 <=> x.prev # NoHash)
<1>1. x \in Rows /\ Hashed(x)
  BY TypedFacts
<1>2. /\ x.seq \in Nat /\ x.seq >= 1 /\ x.prev \in Seq(HashInputs)
      /\ Len(x.hash) = x.seq /\ Len(x.prev) = x.seq - 1
  BY <1>1, HashedFacts, RowTypes DEF Numbered
<1>3. Len(x.prev) = 0 <=> x.prev = <<>>
  BY <1>2, EmptySeq
<1>4. x.seq > 1 <=> x.prev # NoHash
  BY <1>2, <1>3 DEF NoHash
<1>5. QED
  BY <1>1, <1>2, <1>4

(* While nobody changes the table the committed events of every case are    *)
(* numbered from 1 without a gap or a repeat and verify, whatever sessions *)
(* append at the same time and whichever fail (append and verify_chain,    *)
(* service.py).                                                            *)
THEOREM ChainsUnbroken ==
  ASSUME MaxDamage = 0
  PROVE  Spec => []ChainUnbroken
<1>1. IInv => ChainUnbroken
  <2> SUFFICES ASSUME IInv, NEW c \in Cases
               PROVE  /\ { row.seq : row \in RowsOf(stored, c) } = 1..Cardinality(RowsOf(stored, c))
                      /\ Intact(c)
    BY DEF ChainUnbroken
  <2> DEFINE chain == RowsOf(stored, c)
  <2>1. lost = {} /\ altered = {}
    BY DEF IInv, Undamaged
  <2>2. \A x \in chain : x \in stored /\ x.case = c
    BY DEF RowsOf
  <2>3. Intact(c)
    <3>1. ASSUME NEW x \in stored
          PROVE  x.hash = HashOf(x, x.prev) /\ PrevHash(x) = x.prev
      <4>1. x.hash = HashOf(x, x.prev)
        BY <2>1, StoredHash DEF HashOf
      <4>2. x \in Rows /\ x.seq \in Nat /\ Len(x.prev) = x.seq - 1
            /\ (x.seq > 1 <=> x.prev # NoHash)
        BY NumberedByLength
      <4>3. CASE x.prev = NoHash
        <5>1. \A z \in RowsOf(stored, x.case) : ~(z.seq < x.seq)
          BY <4>2, <4>3, StoredFacts DEF RowsOf
        <5>2. QED
          BY <4>1, <4>2, <4>3, <5>1, PrevHashFacts
      <4>4. CASE x.prev # NoHash
        <5>1. PICK y \in stored : y.case = x.case /\ y.hash = x.prev
          BY <2>1, <4>4 DEF IInv, Linked, Follows, RowsOf
        <5>2. y.seq = x.seq - 1 /\ y.seq \in Nat
          BY <4>2, <5>1, NumberedByLength
        <5>3. PICK z \in RowsOf(stored, x.case) :
                /\ z.seq < x.seq /\ z.hash = PrevHash(x) /\ y.seq <= z.seq
          BY <4>2, <5>1, <5>2, PrevHashFacts DEF RowsOf
        <5>4. z \in stored /\ z.case = y.case /\ z.seq \in Nat
          BY <5>1, <5>3, StoredFacts DEF RowsOf
        <5>5. z.seq = y.seq
          BY <4>2, <5>2, <5>3, <5>4
        <5>6. z = y
          BY <5>4, <5>5 DEF IInv, KeysUnique
        <5>7. QED
          BY <4>1, <5>1, <5>3, <5>6
      <4>5. QED
        BY <4>3, <4>4
    <3>2. QED
      BY <2>2, <3>1 DEF Intact, Mismatch
  <2>4. PICK m : m = LastEvent(chain).seq
    OBVIOUS
  <2>5. /\ m \in Nat /\ \A x \in chain : x.seq <= m
        /\ m > 0 => \E x \in chain : x.seq = m
    BY <2>4, LastOfStored
  <2>6. \A x \in chain : x.seq \in 1..m
    BY <2>2, <2>5, StoredFacts
  <2>7. \A x, y \in chain : x.seq = y.seq => x = y
    BY <2>2 DEF IInv, KeysUnique
  <2>8. ASSUME NEW x \in chain, x.seq > 1
        PROVE  \E y \in chain : y.seq = x.seq - 1
    <3>1. x.seq - 1 = Len(x.prev) /\ x.prev # NoHash
      BY <2>2, <2>8, NumberedByLength
    <3>2. Follows(x.prev, x.case, stored \cup lost)
      BY <2>2 DEF IInv, Linked
    <3>3. PICK y \in stored : y.case = x.case /\ y.hash = x.prev
      BY <2>1, <3>1, <3>2 DEF Follows, RowsOf
    <3>4. y \in chain /\ y.seq = Len(x.prev)
      BY <2>2, <3>3, NumberedByLength DEF RowsOf
    <3>5. QED
      BY <3>1, <3>4
  <2> HIDE DEF chain
  <2>9. { x.seq : x \in chain } = 1..Cardinality(chain)
    BY <2>5, <2>6, <2>7, <2>8, WithoutGap
  <2>10. QED
    BY <2>3, <2>9 DEF chain
<1>2. QED
  BY <1>1, AuditTrailInductive, PTL

(* A link is audited on both of its cases or on neither (link_cases).      *)
THEOREM LinksAuditedOnBoth ==
  ASSUME MaxDamage = 0
  PROVE  Spec => []LinkOnBoth
<1>1. IInv => LinkOnBoth
  <2> SUFFICES ASSUME IInv, NEW r \in Links
               PROVE  LET audited == { row.case : row \in { x \in stored : x.body.by = r } }
                      IN  audited = {} \/ audited = Range(Subject[r])
    BY DEF LinkOnBoth
  <2>1. lost = {} /\ r \in Requests
    BY DEF IInv, Undamaged, Requests
  <2>2. CASE pc[r] = "done"
    <3>1. { x.case : x \in { y \in stored \cup lost : y.body.by = r } } = Range(Subject[r])
      BY <2>1, <2>2 DEF IInv, Accounted
    <3>2. stored \cup lost = stored
      BY <2>1
    <3>3. QED
      BY <3>1, <3>2
  <2>3. CASE pc[r] # "done"
    <3>1. { x \in stored : x.body.by = r } = {}
      BY <2>3 DEF IInv, Owned
    <3>2. QED
      BY <3>1
  <2>4. QED
    BY <2>2, <2>3
<1>2. QED
  BY <1>1, AuditTrailInductive, PTL

(* Under SQLite's writer lock no append is refused for its number.         *)
THEOREM LockedNeverConflicts == Spec => []NoConflictUnderLock
<1>1. IInv => NoConflictUnderLock
  BY DEF IInv, Locked, NoConflictUnderLock
<1>2. QED
  BY <1>1, AuditTrailInductive, PTL

(* Types, and a session that has ended leaves neither an uncommitted row   *)
(* nor the writer lock behind.                                             *)
THEOREM AuditTrailTypes == Spec => []TypeOK
<1>1. IInv => TypeOK
  BY DEF IInv
<1>2. QED
  BY <1>1, AuditTrailInductive, PTL


-----------------------------------------------------------------------------
(* The chains as the log of AuditLog.                                      *)

(* Rows numbered from 1 to n. *)
Chain(rows, n) ==
  /\ n \in Nat /\ { x.seq : x \in rows } = 1..n
  /\ \A x, y \in rows : x.seq = y.seq => x = y

Nth(rows, i) == CHOOSE row \in rows : Cardinality({ x \in rows : x.seq <= row.seq }) = i

LEMMA NthOfChain ==
  ASSUME NEW rows, NEW n, Chain(rows, n), NEW x \in rows
  PROVE  Nth(rows, x.seq) = x
<1> DEFINE upTo(y) == { z \in rows : z.seq <= y.seq }
<1>1. n \in Nat /\ \A y \in rows : y.seq \in 1..n
  BY DEF Chain
<1>2. ASSUME NEW y \in rows
      PROVE  Cardinality(upTo(y)) = y.seq
  <2> DEFINE low == upTo(y)
  <2>1. y.seq \in Nat /\ y.seq >= 1
    BY <1>1
  <2>2. \A z \in low : z.seq \in 1..y.seq /\ z \in rows
    BY <1>1
  <2>3. \A z, w \in low : z.seq = w.seq => z = w
    BY DEF Chain
  <2>4. \E z \in low : z.seq = y.seq
    BY <2>1
  <2>5. ASSUME NEW z \in low, z.seq > 1
        PROVE  \E w \in low : w.seq = z.seq - 1
    <3>1. z.seq - 1 \in 1..n /\ z.seq - 1 <= y.seq
      BY <1>1, <2>1, <2>2, <2>5
    <3>2. PICK w \in rows : w.seq = z.seq - 1
      BY <3>1 DEF Chain
    <3>3. QED
      BY <3>1, <3>2
  <2>6. { z.seq : z \in low } = 1..y.seq
    <3>1. ASSUME NEW k \in 1..y.seq
          PROVE  \E z \in low : z.seq = k
      <4>1. k \in 1..n /\ k <= y.seq
        BY <1>1, <2>1, <3>1
      <4>2. PICK z \in rows : z.seq = k
        BY <4>1 DEF Chain
      <4>3. QED
        BY <4>1, <4>2
    <3>2. QED
      BY <2>2, <3>1
  <2> HIDE DEF low
  <2>7. { z.seq : z \in low } = 1..Cardinality(low) /\ Cardinality(low) \in Nat
    BY <2>1, <2>2, <2>3, <2>4, <2>5, WithoutGap
  <2>8. Cardinality(low) = y.seq
    BY <2>1, <2>6, <2>7
  <2>9. QED
    BY <2>8 DEF low
<1>3. \A y \in rows : Cardinality(upTo(y)) = x.seq => y = x
  BY <1>2 DEF Chain
<1>4. QED
  BY <1>2, <1>3 DEF Nth

(* Numbers named in increasing order. *)
LEMMA Enumerated ==
  ASSUME NEW S \in SUBSET Nat, NEW m \in Nat, NEW g \in [1..m -> S],
         \A k \in S : \E i \in 1..m : g[i] = k,
         \A i, j \in 1..m : i < j => g[i] < g[j]
  PROVE  /\ Cardinality(S) = m
         /\ \A i \in 1..m : (CHOOSE k \in S : Cardinality({ j \in S : j <= k }) = i) = g[i]
<1>1. \A i \in 1..m : g[i] \in S /\ g[i] \in Nat
  OBVIOUS
<1>2. \A i, j \in 1..m : g[i] = g[j] => i = j
  BY <1>1
<1>3. ASSUME NEW n \in 0..m, NEW T, T \subseteq S,
             \A i \in 1..n : g[i] \in T,
             \A k \in T : \E i \in 1..n : g[i] = k
      PROVE  Cardinality(T) = n
  <2> DEFINE f == [i \in 1..n |-> g[i]]
  <2>1. f \in [1..n -> T]
    BY <1>3
  <2>2. \A k \in T : \E i \in 1..n : f[i] = k
    BY <1>3
  <2>3. \A a, b \in 1..n : f[a] = f[b] => a = b
    BY <1>2
  <2> HIDE DEF f
  <2>4. f \in Bijection(1..n, T)
    BY <2>1, <2>2, <2>3, Fun_IsBij
  <2>5. ExistsBijection(1..n, T)
    BY <2>4 DEF ExistsBijection
  <2>6. n \in Nat /\ IsFiniteSet(1..n) /\ Cardinality(1..n) = n
    BY FS_Interval
  <2>7. QED
    BY <2>5, <2>6, FS_Bijection
<1>4. Cardinality(S) = m
  <2>1. m \in 0..m /\ S \subseteq S /\ \A i \in 1..m : g[i] \in S
    OBVIOUS
  <2>2. \A k \in S : \E i \in 1..m : g[i] = k
    OBVIOUS
  <2>3. QED
    BY <1>3, <2>1, <2>2
<1>5. ASSUME NEW i \in 1..m
      PROVE  Cardinality({ j \in S : j <= g[i] }) = i
  <2> DEFINE T == { j \in S : j <= g[i] }
  <2>1. \A h \in 1..i : h \in 1..m /\ (h < i \/ h = i)
    OBVIOUS
  <2>2. \A h \in 1..i : g[h] \in T
    BY <1>1, <2>1
  <2>3. ASSUME NEW k \in T
        PROVE  \E h \in 1..i : g[h] = k
    <3>1. PICK h \in 1..m : g[h] = k
      OBVIOUS
    <3>2. ~(i < h)
      BY <1>1, <3>1
    <3>3. QED
      BY <3>1, <3>2
  <2>4. T \subseteq S /\ i \in 0..m
    OBVIOUS
  <2> HIDE DEF T
  <2>5. Cardinality(T) = i
    BY <1>3, <2>2, <2>3, <2>4
  <2>6. QED
    BY <2>5 DEF T
<1>6. ASSUME NEW i \in 1..m
      PROVE  (CHOOSE k \in S : Cardinality({ j \in S : j <= k }) = i) = g[i]
  <2>1. ASSUME NEW k \in S, Cardinality({ j \in S : j <= k }) = i
        PROVE  k = g[i]
    <3>1. PICK h \in 1..m : g[h] = k
      OBVIOUS
    <3>2. h = i
      BY <1>5, <2>1, <3>1
    <3>3. QED
      BY <3>1, <3>2
  <2>2. g[i] \in S /\ Cardinality({ j \in S : j <= g[i] }) = i
    BY <1>1, <1>5
  <2>3. QED
    BY <2>1, <2>2
<1>7. QED
  BY <1>4, <1>6


(* Without damage every case's committed events are such rows, and so they *)
(* are together with a session's own.                                      *)
LEMMA ChainsOf ==
  ASSUME IInv, MaxDamage = 0, NEW c \in Cases,
         NEW own, own = {} \/ \E r \in Requests : own = pending[r]
  PROVE  LET rows == RowsOf(stored \cup own, c)
         IN  Chain(rows, Cardinality(rows))
<1> DEFINE rows == RowsOf(stored \cup own, c)
<1>1. lost = {}
  BY DEF IInv, Undamaged
<1>2. \A x \in rows : x \in stored \cup Uncommitted /\ x.case = c
  BY TypedFacts DEF RowsOf
<1>3. rows \in SUBSET Rows /\ \A x \in rows : Hashed(x)
  BY <1>2, TypedFacts
<1>4. PICK n \in Nat : \A x \in rows : x.seq <= n
  BY <1>2 DEF IInv, Bounded
<1>5. \A x \in rows : /\ x.seq \in Nat /\ x.seq >= 1 /\ Len(x.hash) = x.seq
                       /\ Len(x.prev) = x.seq - 1 /\ (x.seq > 1 <=> x.prev # NoHash)
  BY <1>2, NumberedByLength
<1>6. \A x, y \in rows : x.seq = y.seq => x = y
  BY <1>2 DEF IInv, KeysUnique
<1>7. ASSUME NEW x \in rows, x.seq > 1
      PROVE  \E y \in rows : y.seq = x.seq - 1
  <2>1. x.prev # NoHash /\ Len(x.prev) = x.seq - 1
    BY <1>5, <1>7
  <2>2. Follows(x.prev, c, stored \cup own)
    <3>1. CASE x \in stored
      <4>1. Follows(x.prev, c, stored \cup lost)
        BY <1>2, <3>1 DEF IInv, Linked
      <4>2. QED
        BY <1>1, <4>1 DEF Follows, RowsOf
    <3>2. CASE x \in own
      <4>1. PICK r \in Requests : own = pending[r]
        BY <3>2
      <4>2. Follows(x.prev, c, stored \cup lost \cup pending[r])
        BY <1>2, <3>2, <4>1 DEF IInv, Linked
      <4>3. QED
        BY <1>1, <4>1, <4>2 DEF Follows, RowsOf
    <3>3. QED
      BY <3>1, <3>2 DEF RowsOf
  <2>3. PICK y \in rows : y.hash = x.prev
    BY <2>1, <2>2 DEF Follows
  <2>4. y.seq = Len(x.prev)
    BY <1>5, <2>3
  <2>5. QED
    BY <2>1, <2>4
<1> HIDE DEF rows
<1>8. \E m \in Nat : /\ \A x \in rows : x.seq \in 1..m
                     /\ m > 0 => \E x \in rows : x.seq = m
  <2>1. CASE rows = {}
    BY <2>1
  <2>2. CASE rows # {}
    <3>1. PICK x \in rows : \A y \in rows : y.seq <= x.seq
      BY <1>3, <1>4, <2>2, HighestRow
    <3>2. QED
      BY <1>5, <3>1
  <2>3. QED
    BY <2>1, <2>2
<1>9. { x.seq : x \in rows } = 1..Cardinality(rows) /\ Cardinality(rows) \in Nat
  BY <1>6, <1>7, <1>8, WithoutGap
<1>10. Chain(rows, Cardinality(rows))
  BY <1>6, <1>9 DEF Chain
<1>11. QED
  BY <1>10 DEF rows

(* A commit appends a session's events to each chain in their order. *)
LEMMA CommitRecords ==
  ASSUME IInv, MaxDamage = 0, NEW r \in Requests, Commit(r), NEW c \in Cases
  PROVE  StoredLog'[c] = StoredLog[c] \o Log!EntriesFor(r, c)
<1> DEFINE old == RowsOf(stored, c)
           add == RowsOf(pending[r], c)
           new == RowsOf(stored \cup pending[r], c)
           places == { k \in DOMAIN Subject[r] : Subject[r][k] = c }
<1>1. PICK n : n = Cardinality(old)
  OBVIOUS
<1>2. PICK m : m = Cardinality(new)
  OBVIOUS
<1>3. Chain(old, n)
  <2>1. stored \cup {} = stored
    OBVIOUS
  <2>2. Chain(RowsOf(stored \cup {}, c), Cardinality(RowsOf(stored \cup {}, c)))
    BY ChainsOf
  <2>3. QED
    BY <1>1, <2>1, <2>2
<1>4. Chain(new, m)
  BY <1>2, ChainsOf
<1>5. new = old \cup add /\ stored' = stored \cup pending[r]
  BY DEF RowsOf, Commit
<1>6. /\ pc[r] = "open" /\ Cardinality(pending[r]) = Len(Subject[r])
      /\ DOMAIN Subject[r] = 1..Cardinality(pending[r])
  BY SubjectAssumption DEF Commit, AllAppended
<1>7. \A x \in add : x \in pending[r] /\ x.case = c /\ x.body.by = r
  BY DEF RowsOf, IInv, Owned
<1>8. \A x \in old : x \in stored /\ x.body.by # r
  BY <1>6 DEF RowsOf, IInv, Owned
<1>9. n \in Nat /\ m \in Nat /\ \A x \in new : x.seq \in 1..m
  BY <1>3, <1>4 DEF Chain
<1>10. n <= m /\ \A x \in add : x.seq \in (n + 1)..m
  <2>1. ASSUME NEW k \in 1..n
        PROVE  \E x \in old : x.seq = k
    BY <1>3, <2>1 DEF Chain
  <2>2. n <= m
    <3>1. CASE n = 0
      BY <1>9, <3>1
    <3>2. CASE n # 0
      <4>1. PICK x \in old : x.seq = n
        BY <1>9, <2>1, <3>2
      <4>2. QED
        BY <1>5, <1>9, <4>1
    <3>3. QED
      BY <3>1, <3>2
  <2>3. ASSUME NEW x \in add
        PROVE  x.seq \in (n + 1)..m
    <3>1. x.seq \in 1..m
      BY <1>5, <1>9
    <3>2. x.seq \notin 1..n
      <4> SUFFICES ASSUME x.seq \in 1..n
                   PROVE  FALSE
        OBVIOUS
      <4>1. PICK y \in old : y.seq = x.seq
        BY <2>1
      <4>2. x = y
        BY <1>4, <1>5, <4>1 DEF Chain
      <4>3. QED
        BY <1>7, <1>8, <4>2
    <3>3. QED
      BY <1>9, <3>1, <3>2
  <2>4. QED
    BY <2>2, <2>3
<1>11. \A k \in (n + 1)..m : \E x \in add : x.seq = k
  <2> SUFFICES ASSUME NEW k \in (n + 1)..m
               PROVE  \E x \in add : x.seq = k
    OBVIOUS
  <2>1. k \in 1..m /\ k \notin 1..n
    BY <1>9
  <2>2. PICK x \in new : x.seq = k
    BY <1>4, <2>1 DEF Chain
  <2>3. x \notin old
    BY <1>3, <2>1, <2>2 DEF Chain
  <2>4. QED
    BY <1>5, <2>2, <2>3
<1>12. \A x, y \in new : x.seq = y.seq => x = y
  BY <1>4 DEF Chain
<1> HIDE DEF old, add, new, places
<1> DEFINE count == m - n
           at(i) == CHOOSE x \in add : x.seq = n + i
           g == [i \in 1..count |-> at(i).body.nth]
<1>13. count \in Nat
  BY <1>9, <1>10
<1>14. \A i \in 1..count : at(i) \in add /\ at(i).seq = n + i
  <2> SUFFICES ASSUME NEW i \in 1..count
               PROVE  \E x \in add : x.seq = n + i
    OBVIOUS
  <2>1. n + i \in (n + 1)..m
    BY <1>9
  <2>2. QED
    BY <1>11, <2>1
<1> HIDE DEF at
<1>15. /\ \A x \in add : x.body.nth \in places
       /\ \A k \in places : \E x \in add : x.body.nth = k
       /\ \A x, y \in add : x.seq < y.seq => x.body.nth < y.body.nth
  <2>1. /\ \A x \in pending[r] :
             x.body.nth \in 1..Cardinality(pending[r]) /\ x.case = Subject[r][x.body.nth]
        /\ \A k \in 1..Cardinality(pending[r]) : \E x \in pending[r] : x.body.nth = k
        /\ \A x, y \in pending[r] : x.case = y.case /\ x.seq < y.seq => x.body.nth < y.body.nth
    BY DEF IInv, InTurn
  <2>2. \A x \in add : x.body.nth \in places
    BY <1>6, <1>7, <2>1 DEF places
  <2>3. \A k \in places : \E x \in add : x.body.nth = k
    BY <1>6, <2>1 DEF places, add, RowsOf
  <2>4. \A x, y \in add : x.seq < y.seq => x.body.nth < y.body.nth
    BY <1>7, <2>1
  <2>5. QED
    BY <2>2, <2>3, <2>4
<1>16. places \in SUBSET Nat
  <2>1. Cardinality(pending[r]) \in Nat
    BY <1>6, SubjectAssumption
  <2>2. QED
    BY <1>6, <2>1 DEF places
<1>17. g \in [1..count -> places]
  BY <1>14, <1>15
<1>18. \A k \in places : \E i \in 1..count : g[i] = k
  <2> SUFFICES ASSUME NEW k \in places
               PROVE  \E i \in 1..count : g[i] = k
    OBVIOUS
  <2>1. PICK x \in add : x.body.nth = k
    BY <1>15
  <2>2. PICK i : i = x.seq - n
    OBVIOUS
  <2>3. i \in 1..count /\ x.seq = n + i
    BY <1>9, <1>10, <2>2
  <2>4. at(i) = x
    <3>1. at(i) \in add /\ at(i).seq = x.seq
      BY <1>14, <2>3
    <3>2. QED
      BY <1>5, <1>12, <3>1
  <2>5. QED
    BY <2>1, <2>3, <2>4
<1>19. \A i, j \in 1..count : i < j => g[i] < g[j]
  <2> SUFFICES ASSUME NEW i \in 1..count, NEW j \in 1..count, i < j
               PROVE  g[i] < g[j]
    OBVIOUS
  <2>1. at(i) \in add /\ at(j) \in add /\ at(i).seq < at(j).seq
    BY <1>9, <1>13, <1>14
  <2>2. QED
    BY <1>15, <2>1
<1>20. PICK f : f = g
  OBVIOUS
<1>21. /\ \A i \in 1..count : f[i] = at(i).body.nth
       /\ f \in [1..count -> places]
       /\ \A k \in places : \E i \in 1..count : f[i] = k
       /\ \A i, j \in 1..count : i < j => f[i] < f[j]
  BY <1>17, <1>18, <1>19, <1>20
<1> HIDE DEF g, count
<1>22. /\ Cardinality(places) = count
       /\ \A i \in 1..count :
            (CHOOSE k \in places : Cardinality({ j \in places : j <= k }) = i) = f[i]
  BY ZenonT(60), <1>13, <1>16, <1>21, Enumerated
<1>23. Log!EntriesFor(r, c) =
         [i \in 1..Cardinality(places) |->
            [by |-> r, nth |-> CHOOSE k \in places : Cardinality({ j \in places : j <= k }) = i]]
  BY DEF Log!EntriesFor, places, Cardinality, Log!Cardinality
<1>24. PICK entries : entries = Log!EntriesFor(r, c)
  OBVIOUS
<1>25. entries = [i \in 1..count |-> [by |-> r, nth |-> f[i]]]
  BY <1>22, <1>23, <1>24
<1>26. \A i \in 1..count : entries[i] = at(i).body
  <2> SUFFICES ASSUME NEW i \in 1..count
               PROVE  entries[i] = at(i).body
    OBVIOUS
  <2>1. at(i) \in pending[r] /\ at(i).body.by = r
    BY <1>7, <1>14
  <2>2. at(i) \in Rows
    BY <2>1, TypedFacts
  <2>3. at(i).body = [by |-> r, nth |-> at(i).body.nth]
    <3>1. PICK x \in Rows : x = at(i)
      BY <2>2
    <3>2. x.body = [by |-> x.body.by, nth |-> x.body.nth]
      BY RowTypes DEF Bodies
    <3>3. QED
      BY <2>1, <3>1, <3>2
  <2>4. QED
    BY <1>21, <1>25, <2>3
<1>27. /\ StoredLog[c] = [i \in 1..n |-> Nth(old, i).body]
       /\ StoredLog'[c] = [i \in 1..m |-> Nth(new, i).body]
  BY <1>1, <1>2, <1>5 DEF StoredLog, StoredEvent, Nth, old, new, RowsOf
<1>28. \A i \in 1..n : \E x \in old : x.seq = i /\ Nth(old, i) = x /\ Nth(new, i) = x
  <2> SUFFICES ASSUME NEW i \in 1..n
               PROVE  \E x \in old : x.seq = i /\ Nth(old, i) = x /\ Nth(new, i) = x
    OBVIOUS
  <2>1. PICK x \in old : x.seq = i
    BY <1>3 DEF Chain
  <2>2. Nth(old, x.seq) = x
    BY <1>3, NthOfChain
  <2>3. Nth(new, x.seq) = x
    BY <1>4, <1>5, NthOfChain
  <2>4. QED
    BY <2>1, <2>2, <2>3
<1>29. \A i \in 1..count : Nth(new, n + i) = at(i)
  <2> SUFFICES ASSUME NEW i \in 1..count
               PROVE  Nth(new, n + i) = at(i)
    OBVIOUS
  <2>1. PICK x \in new : x = at(i)
    BY <1>5, <1>14
  <2>2. x.seq = n + i
    BY <1>14, <2>1
  <2>3. Nth(new, x.seq) = x
    BY <1>4, NthOfChain
  <2>4. QED
    BY <2>1, <2>2, <2>3
<1>30. PICK S : S = { x.body : x \in new }
  OBVIOUS
<1>31. PICK s : s = [i \in 1..n |-> Nth(old, i).body]
  OBVIOUS
<1>32. PICK t : t = [i \in 1..m |-> Nth(new, i).body]
  OBVIOUS
<1>33. s \in Seq(S) /\ Len(s) = n
  BY <1>5, <1>9, <1>28, <1>30, <1>31
<1>34. entries \in Seq(S) /\ Len(entries) = count
  <2>1. \A i \in 1..count : entries[i] \in S
    BY <1>5, <1>14, <1>26, <1>30
  <2>2. QED
    BY <1>13, <1>25, <2>1
<1>35. m = n + count /\ \A i \in 1..m : i \in 1..n \/ (i - n \in 1..count /\ i = n + (i - n))
  BY <1>9, <1>10 DEF count
<1>36. t \in Seq(S) /\ Len(t) = m
  <2>1. \A i \in 1..m : Nth(new, i).body \in S
    <3> SUFFICES ASSUME NEW i \in 1..m
                 PROVE  Nth(new, i).body \in S
      OBVIOUS
    <3>1. PICK x \in new : x.seq = i
      BY <1>4 DEF Chain
    <3>2. Nth(new, x.seq) = x
      BY <1>4, NthOfChain
    <3>3. QED
      BY <1>30, <3>1, <3>2
  <2>2. QED
    BY <1>9, <1>32, <2>1
<1>37. /\ s \o entries \in Seq(S) /\ Len(s \o entries) = m
       /\ \A i \in 1..n : (s \o entries)[i] = s[i]
       /\ \A i \in 1..count : (s \o entries)[n + i] = entries[i]
  <2>1. /\ s \o entries \in Seq(S) /\ Len(s \o entries) = n + count
        /\ \A i \in 1..(n + count) : (s \o entries)[i] = IF i <= n THEN s[i] ELSE entries[i - n]
    BY <1>33, <1>34, ConcatProperties
  <2>2. \A i \in 1..n : i \in 1..(n + count) /\ i <= n
    BY <1>9, <1>13
  <2>3. \A i \in 1..count :
          n + i \in 1..(n + count) /\ ~(n + i <= n) /\ (n + i) - n = i
    BY <1>9, <1>13
  <2>4. QED
    BY <1>35, <2>1, <2>2, <2>3
<1>38. \A i \in 1..m : t[i] = (s \o entries)[i]
  <2> SUFFICES ASSUME NEW i \in 1..m
               PROVE  t[i] = (s \o entries)[i]
    OBVIOUS
  <2>1. CASE i \in 1..n
    BY ZenonT(60), <1>28, <1>31, <1>32, <1>37, <2>1
  <2>2. CASE i - n \in 1..count /\ i = n + (i - n)
    <3>1. PICK k \in 1..count : i = n + k
      BY <2>2
    <3>2. t[i] = Nth(new, n + k).body
      BY <1>32, <3>1
    <3>3. t[i] = at(k).body
      BY <1>29, <3>2
    <3>4. (s \o entries)[i] = entries[k]
      BY <1>37, <3>1
    <3>5. QED
      BY <1>26, <3>3, <3>4
  <2>3. QED
    BY <1>35, <2>1, <2>2
<1>39. t = s \o entries
  BY <1>36, <1>37, <1>38, SeqEqual
<1>40. QED
  BY <1>24, <1>27, <1>31, <1>32, <1>39


(* The stored chains are the log AuditLog promises: a commit adds all the   *)
(* events of its request, together and in their order, to the chains they  *)
(* are about, and no other step changes a chain (append, link_cases and    *)
(* get_session).                                                           *)
THEOREM ChainsImplementLog ==
  ASSUME MaxDamage = 0
  PROVE  Spec => LogSpec
<1> DEFINE done == { r \in Requests : pc[r] = "done" }
<1>1. Init => Log!Init
  <2> SUFFICES ASSUME Init
               PROVE  Log!Init
    OBVIOUS
  <2>1. done = {}
    BY DEF Init
  <2>2. ASSUME NEW c \in Cases
        PROVE  StoredLog[c] = <<>>
    <3>1. RowsOf(stored, c) = {}
      BY DEF Init, RowsOf
    <3>2. 1..Cardinality(RowsOf(stored, c)) = {}
      BY <3>1, FS_EmptySet
    <3>3. QED
      BY <3>2 DEF StoredLog
  <2>3. StoredLog = [c \in Cases |-> <<>>]
    BY <2>2 DEF StoredLog
  <2>4. QED
    BY <2>1, <2>3 DEF Log!Init
<1>2. ASSUME stored' = stored
      PROVE  StoredLog' = StoredLog
  BY <1>2 DEF StoredLog, StoredEvent, RowsOf
<1>3. ASSUME IInv, [Next]_vars
      PROVE  [Log!Next]_(Log!logVars)
  <2>1. ASSUME NEW r \in Requests, Quiet(r) \/ ReadLast(r) \/ Insert(r) \/ Undone(r)
        PROVE  stored' = stored /\ done' = done
    <3>1. stored' = stored
      BY <2>1 DEF Quiet, ReadLast, Insert, Undone, Abort
    <3>2. \E s \in {"arrived", "open", "read", "failed", "conflict"} :
            pc[r] # "done" /\ pc' = [pc EXCEPT ![r] = s]
      BY <2>1 DEF Quiet, ReadLast, Insert, Undone, Abort, Writing
    <3>3. \A q \in Requests : pc'[q] = "done" <=> pc[q] = "done"
      BY <1>3, <3>2, PlaceFacts DEF IInv
    <3>4. QED
      BY <3>1, <3>3
  <2>2. ASSUME NEW r \in Requests, Commit(r)
        PROVE  Log!Record(r)
    <3>1. pc[r] = "open" /\ pc' = [pc EXCEPT ![r] = "done"]
      BY <2>2 DEF Commit
    <3>2. \A q \in Requests : pc'[q] = IF q = r THEN "done" ELSE pc[q]
      BY <1>3, <3>1, PlaceFacts DEF IInv
    <3>3. r \notin done /\ done' = done \cup {r}
      BY <3>1, <3>2
    <3>4. \A c \in Cases : StoredLog'[c] = StoredLog[c] \o Log!EntriesFor(r, c)
      BY <1>3, <2>2, CommitRecords
    <3>5. StoredLog' = [c \in Cases |-> StoredLog'[c]]
      BY DEF StoredLog
    <3>6. StoredLog' = [c \in Cases |-> StoredLog[c] \o Log!EntriesFor(r, c)]
      BY <3>4, <3>5
    <3>7. QED
      BY <3>3, <3>6 DEF Log!Record
  <2>3. ~LoseEvent /\ ~AlterEvent /\ ~ForgeEvent /\ ~InsertEvent
    BY <1>3, SomeDamageAllowed DEF LoseEvent, AlterEvent, ForgeEvent, InsertEvent
  <2>4. CASE UNCHANGED vars
    <3>1. stored' = stored /\ done' = done
      BY <2>4 DEF vars
    <3>2. QED
      BY <1>2, <3>1 DEF Log!logVars
  <2>5. CASE \E r \in Requests : Quiet(r) \/ ReadLast(r) \/ Insert(r) \/ Undone(r)
    BY <1>2, <2>1, <2>5 DEF Log!logVars
  <2>6. CASE \E r \in Requests : Commit(r)
    BY <2>2, <2>6 DEF Log!Next
  <2>7. QED
    BY <1>3, <2>3, <2>4, <2>5, <2>6, StepKinds
<1>4. QED
  BY <1>1, <1>3, AuditTrailInductive, PTL DEF Spec, LogSpec, Log!Spec
=============================================================================
