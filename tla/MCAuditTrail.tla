---------------------------- MODULE MCAuditTrail -----------------------------
(***************************************************************************)
(* Two cases with their creations, the run of the first, links in both     *)
(* directions and feedback on the first.                                   *)
(***************************************************************************)
EXTENDS AuditTrail

MCCases == {"a", "b"}

MCSubject ==
  [ createA |-> <<"a", "a">>, createB |-> <<"b", "b">>, runA |-> <<"a", "a">>,
    linkAB |-> <<"a", "b">>, linkBA |-> <<"b", "a">>, feedbackA |-> <<"a">> ]

(* One chain only, for the runs in which stored events are lost or altered. *)
MCOneCase == {"a"}

MCOneSubject ==
  [ createA |-> <<"a", "a">>, runA |-> <<"a", "a">>,
    feedback1 |-> <<"a">>, feedback2 |-> <<"a">> ]
=============================================================================
