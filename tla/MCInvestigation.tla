--------------------------- MODULE MCInvestigation ---------------------------
(***************************************************************************)
(* Small instances of Investigation: the grants an analyst's token can     *)
(* carry, chosen so that each of the workflow's own denials can happen.    *)
(***************************************************************************)
EXTENDS Investigation

(* Nothing, everything, the alert source alone, everything but it. *)
MCGrants == { {}, Sources, {"alert_source"}, Sources \ {"alert_source"} }

(* An analyst who may ask every source. *)
MCFullGrant == { Sources }
=============================================================================
