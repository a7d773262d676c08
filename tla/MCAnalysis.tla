----------------------------- MODULE MCAnalysis -----------------------------
(***************************************************************************)
(* Small instances of Analysis: a few forms of evidence and of answers.    *)
(***************************************************************************)
EXTENDS Analysis

host == [ type |-> "endpoint", identifier |-> "host" ]
user == [ type |-> "user", identifier |-> "user" ]
addr == [ type |-> "ip_address", identifier |-> "addr" ]
key == [ type |-> "user", identifier |-> "key" ]

K(at, recorded, ruled, names, secret) ==
  [ at |-> at, recorded |-> recorded, ruled |-> ruled, names |-> names, secret |-> secret ]

(* With and without a time, a record, a rule, an entity, and each place    *)
(* for a secret-like value.                                                *)
MCKinds ==
  { K(2, TRUE, TRUE, {host}, "none"), K(1, TRUE, FALSE, {user}, "none"),
    K(2, FALSE, FALSE, {}, "label"), K(1, FALSE, TRUE, {key}, "entity"),
    K(0, TRUE, FALSE, {host, user, addr}, "other"), K(0, FALSE, TRUE, {}, "label") }

C(usable, evaluation, confidence, secret) ==
  [ usable |-> usable, evaluation |-> evaluation, confidence |-> confidence, secret |-> secret ]

(* Each verdict, invalid and missing values, an entry without statement,   *)
(* one that cannot be looked up, and one quoting a secret-like value.      *)
MCCandidates ==
  { C(TRUE, "supported", "high", FALSE), C(TRUE, "rejected", "other", FALSE),
    C(TRUE, "other", "absent", FALSE), C(TRUE, "supported", "low", TRUE),
    C(TRUE, "unhashable", "low", FALSE), C(FALSE, "absent", "absent", FALSE) }
=============================================================================
