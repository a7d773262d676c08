------------------------------ MODULE AuditLog -------------------------------
(***************************************************************************)
(* What the audit trail promises: for every case one sequence of entries   *)
(* that only grows, to which each request adds all its entries at once,    *)
(* together and in the order it made them, or none.                        *)
(***************************************************************************)
EXTENDS Naturals, Sequences, FiniteSets

CONSTANTS
  Cases,
  Requests,
  Subject   \* for each request, the case each of its entries is about

VARIABLES
  log,      \* the entries of each case
  recorded  \* the requests whose entries are in

logVars == <<log, recorded>>

(* An entry is known by its request and its place among the request's own. *)
EntriesFor(r, c) ==
  LET places == { k \in DOMAIN Subject[r] : Subject[r][k] = c }
  IN  [i \in 1..Cardinality(places) |->
        [by |-> r, nth |-> CHOOSE k \in places : Cardinality({ j \in places : j <= k }) = i]]

Init ==
  /\ log = [c \in Cases |-> <<>>]
  /\ recorded = {}

Record(r) ==
  /\ r \notin recorded
  /\ recorded' = recorded \cup {r}
  /\ log' = [c \in Cases |-> log[c] \o EntriesFor(r, c)]

Next == \E r \in Requests : Record(r)

Spec == Init /\ [][Next]_logVars
=============================================================================
