---------------------------- MODULE MCEnforcement ----------------------------
(***************************************************************************)
(* Small instances of Enforcement, with the limits' real bounds.           *)
(***************************************************************************)
EXTENDS Enforcement, TLC

(* Nothing; limits at their least, with a key that names none; two items    *)
(* that meet the limit on bytes first; each option by itself; and values    *)
(* just outside the bounds, on either side, of several limits.              *)
MCOverrides ==
  { <<>>,
    [ max_tool_operations |-> 1, max_evidence_items |-> 1, max_model_calls |-> 1,
      max_retries_per_operation |-> 0, max_tools |-> 7 ],
    [ max_evidence_items |-> 2, max_evidence_bytes |-> 1024 ],
    [ max_tool_operations |-> 1, max_elapsed_seconds |-> 10 ],
    "max_tool_operations" :> 0, "max_tool_operations" :> 501, "max_elapsed_seconds" :> 9,
    "max_evidence_bytes" :> 1023, "max_retries_per_operation" :> 6 }

N(word, spelt) == [ word |-> word, spelt |-> spelt ]

(* Registered names as written and not, a prohibited one in disguise and   *)
(* one that only looks like it, the empty name and a blank one.            *)
MCNames ==
  { N("get_alert", {}), N("get_events", {}), N("get_events", {"cased"}),
    N("delete_audit", {"cased", "padded", "colon"}), N("delete_audit", {"dot"}), N("", {}),
    N("", {"padded"}) }

MCGrants == { {"alert_source"}, Sources }

(* One state's own set, and the registry when no machine is asked. *)
MCPermissions == { PermittedTools("CLASSIFY_ALERT"), Tools }
=============================================================================
