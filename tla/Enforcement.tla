---------------------------- MODULE Enforcement ----------------------------
(***************************************************************************)
(* What stands between any caller and a source, whoever the caller is: the *)
(* limits a case is created with, the policy engine, the budget service    *)
(* and the tool invoker, with the rows and the audit events they leave.    *)
(* Investigation has the calls the workflow makes; here any operation name *)
(* may be asked for in any workflow state, and any consumption reported.   *)
(***************************************************************************)
EXTENDS Workflow, Sequences, FiniteSets

CONSTANTS
  Overrides,   \* what a request may ask the limits to be: functions
  Names,       \* the operation names asked for: see Name
  Grants,      \* the sets of sources a token may carry
  Permissions, \* what the machine permits at a call
  Sizes,       \* sizes of evidence, in bytes
  Clock,       \* the seconds at which the clock is looked at
  MaxSteps     \* bound: operations asked for and other consumptions

(* config/settings.py: what a limit may be at least, and at most. *)
Least ==
  [ max_elapsed_seconds |-> 10, max_tool_operations |-> 1, max_evidence_items |-> 1,
    max_evidence_bytes |-> 1024, max_model_calls |-> 1, max_retries_per_operation |-> 0 ]

Most ==
  [ max_elapsed_seconds |-> 3600, max_tool_operations |-> 500, max_evidence_items |-> 5000,
    max_evidence_bytes |-> 50000000, max_model_calls |-> 200, max_retries_per_operation |-> 5 ]

LimitNames == DOMAIN Least

Bounds == [ n \in LimitNames |-> Least[n]..Most[n] ]

DefaultLimits ==
  [ max_elapsed_seconds |-> 600, max_tool_operations |-> 50,
    max_evidence_items |-> 500, max_evidence_bytes |-> 5000000,
    max_model_calls |-> 20, max_retries_per_operation |-> 2 ]

(* A name is a word, written exactly or not: in another case, padded with   *)
(* blanks, followed by a colon and more, or by a dot and more.             *)
Spellings == {"cased", "padded", "colon", "dot"}
SampleProhibited == {"isolate_endpoint", "delete_audit"}
Name == [ word : Tools \cup SampleProhibited \cup {"send_mail", ""}, spelt : SUBSET Spellings ]

Retried == {"get_alert", "get_events"}

ASSUME NamesAssumption == Names \subseteq Name
ASSUME ClockAssumption == 0 \in Clock /\ Clock \subseteq Nat
ASSUME SizesAssumption == Sizes \subseteq Nat
ASSUME StepsAssumption == MaxSteps \in Nat

VARIABLES
  entry,      \* how the case was created, "none" before
  asked,      \* history: the overrides asked for
  limits,     \* the limits stored with the case
  grants,     \* the analyst's sources
  elapsed,    \* the wall clock, in seconds since the case was created
  ledger,     \* the ledger as the budget service holds it
  stored,     \* the ledger's row
  decisions,  \* authorization_decisions
  ops,        \* tool_operations
  trail,      \* audit events
  spent       \* bound: consumptions so far

vars == <<entry, asked, limits, grants, elapsed, ledger, stored, decisions, ops, trail, spent>>
created == <<entry, asked, limits, grants>>

ZeroLedger ==
  [ tool |-> 0, items |-> 0, bytes |-> 0, model |-> 0, retries |-> [o \in Retried |-> 0] ]

Init ==
  /\ entry = "none"
  /\ asked = <<>>
  /\ limits = DefaultLimits
  /\ grants \in Grants
  /\ elapsed = 0
  /\ ledger = ZeroLedger /\ stored = ZeroLedger
  /\ decisions = <<>> /\ ops = <<>> /\ trail = <<>>
  /\ spent = 0

-----------------------------------------------------------------------------
(* Limits.                                                                 *)

(* The command line has two options, and passes on what is not zero. *)
Options == {"max_tool_operations", "max_elapsed_seconds"}
Passed(how, o) ==
  IF how = "cli" THEN [ n \in { m \in DOMAIN o : o[m] # 0 } |-> o[n] ] ELSE o

(* BudgetLimits with extra fields kept. *)
MergedAll(o) ==
  [ n \in LimitNames \cup DOMAIN o |-> IF n \in DOMAIN o THEN o[n] ELSE DefaultLimits[n] ]

(* Defaults, overridden; keys that name no limit are dropped. *)
Merged(o) == [ n \in LimitNames |-> IF n \in DOMAIN o THEN o[n] ELSE DefaultLimits[n] ]

(* The field validator without its lower bounds. *)
WithinCeilings(l) == \A n \in LimitNames : l[n] <= Most[n]

Within(l) == \A n \in LimitNames : l[n] \in Bounds[n]

Create(how, o) ==
  LET l == Merged(Passed(how, o))
  IN  /\ entry = "none"
      /\ how = "cli" => DOMAIN o \subseteq Options
      /\ asked' = o
      /\ IF Within(l) THEN entry' = how /\ limits' = l
                      ELSE entry' = "rejected" /\ UNCHANGED limits
      /\ UNCHANGED <<grants, elapsed, ledger, stored, decisions, ops, trail, spent>>

Active == entry \in {"api", "cli"}

-----------------------------------------------------------------------------
(* The policy engine.                                                      *)

(* The empty string: no word, and neither a blank nor a mark around it. *)
Nameless(name) == name.word = "" /\ name.spelt \subseteq {"cased"}

(* Lower-cased and stripped, a prohibited word, or one and a colon. *)
IsProhibited(name) == name.word \in SampleProhibited /\ "dot" \notin name.spelt

(* REGISTERED_OPERATIONS & permitted: names are compared as they are. *)
Registered(name, permitted) == name.spelt = {} /\ name.word \in Tools \cap permitted

Authorized(name) == name.spelt = {} /\ name.word \in Tools /\ ToolSource[name.word] \in grants

CanRunTool ==
  /\ ledger.tool < limits["max_tool_operations"]
  /\ elapsed <= limits["max_elapsed_seconds"]

(* _evaluate without the rule on the analyst's sources. *)
EvaluateIgnoringSources(name, permitted) ==
  IF Nameless(name) THEN "authorization_context_incomplete"
  ELSE IF IsProhibited(name) THEN "operation_prohibited_readonly_policy"
  ELSE IF ~Registered(name, permitted) THEN "operation_not_registered"
  ELSE IF ~CanRunTool THEN "budget_exhausted"
  ELSE "authorized"

(* _evaluate: the first rule that objects gives the reason. *)
Evaluate(name, permitted) ==
  IF Nameless(name) THEN "authorization_context_incomplete"
  ELSE IF IsProhibited(name) THEN "operation_prohibited_readonly_policy"
  ELSE IF ~Registered(name, permitted) THEN "operation_not_registered"
  ELSE IF ~Authorized(name) THEN "not_authorized"
  ELSE IF ~CanRunTool THEN "budget_exhausted"
  ELSE "authorized"

-----------------------------------------------------------------------------
(* Events.                                                                 *)

Requested(name) == [ type |-> "tool_requested", name |-> name ]
Decided(name, reason) ==
  [ type |-> "authorization_decision", name |-> name, reason |-> reason ]
Denial(name, reason) == [ type |-> "policy_denial", name |-> name, reason |-> reason ]
Failure(name, outcome) == [ type |-> "tool_failure", name |-> name, reason |-> outcome ]
Accessed(name) == [ type |-> "source_accessed", name |-> name ]
Result(name) == [ type |-> "tool_result", name |-> name ]

(* The snapshot has the counts after the consumption, without retries. *)
Counts(l) == [ tool |-> l.tool, items |-> l.items, bytes |-> l.bytes, model |-> l.model ]
Consumed(kind, amount, l) ==
  [ type |-> "budget_consumed", kind |-> kind, amount |-> amount, snapshot |-> Counts(l) ]

-----------------------------------------------------------------------------
(* The budget service.  An exceeded limit raises and changes nothing.      *)

(* retries_by_operation changed in place: the flush does not see it. *)
FlushedScalars(row, l) == [ l EXCEPT !.retries = row.retries ]

(* The ledger kept in memory only. *)
FlushedNever(row, l) == row

(* What a flush writes: all attributes assigned to. *)
Flushed(row, l) == l

(* The ledger becomes l. *)
Spend(kind, amount, l) ==
  /\ ledger' = l
  /\ stored' = Flushed(stored, l)
  /\ trail' = trail \o <<Consumed(kind, amount, l)>>

InHand == ops # <<>> /\ ops[Len(ops)].outcome = "allowed"

MayStep == Active /\ ~InHand /\ Len(ops) + spent < MaxSteps

Spending(kind, amount, l) ==
  /\ MayStep
  /\ Spend(kind, amount, l)
  /\ spent' = spent + 1
  /\ UNCHANGED <<created, elapsed, decisions, ops>>

(* consume_evidence without its test of the bytes. *)
FitsItems(size) == ledger.items + 1 <= limits["max_evidence_items"]

FitsSize(size) ==
  /\ ledger.items + 1 <= limits["max_evidence_items"]
  /\ ledger.bytes + size <= limits["max_evidence_bytes"]

ConsumeEvidence(size) ==
  /\ FitsSize(size)
  /\ Spending("evidence", 1, [ledger EXCEPT !.items = @ + 1, !.bytes = @ + size])

ConsumeModelCall ==
  /\ ledger.model < limits["max_model_calls"]
  /\ Spending("model_call", 1, [ledger EXCEPT !.model = @ + 1])

ConsumeRetry(o) ==
  /\ ledger.retries[o] < limits["max_retries_per_operation"]
  /\ Spending("retry", 1, [ledger EXCEPT !.retries[o] = @ + 1])

(* Another budget service for the case starts from the ledger's row. *)
Reopen ==
  /\ Active /\ ~InHand
  /\ ledger' = stored
  /\ UNCHANGED <<created, elapsed, stored, decisions, ops, trail, spent>>

Tick ==
  /\ Active
  /\ elapsed' \in { t \in Clock : t > elapsed }
  /\ UNCHANGED <<created, ledger, stored, decisions, ops, trail, spent>>

-----------------------------------------------------------------------------
(* The invoker.  Between a decision that allows and the consumption the    *)
(* clock is read again; "allowed" is the outcome "pending" of the call     *)
(* that is there, "pending" that of one an exception has ended.            *)

Op(name, decision, outcome) == [ name |-> name, decision |-> decision, outcome |-> outcome ]

Invoke(name, permitted) ==
  LET reason == Evaluate(name, permitted)
      allowed == reason = "authorized"
  IN  /\ MayStep
      /\ decisions' = decisions \o
           <<[ name |-> name, permitted |-> permitted, reason |-> reason, used |-> ledger.tool ]>>
      /\ ops' = ops \o <<Op(name, Len(ops) + 1, IF allowed THEN "allowed" ELSE "denied")>>
      /\ trail' = trail \o <<Requested(name), Decided(name, reason)>>
                       \o (IF allowed THEN <<>> ELSE <<Denial(name, reason)>>)
      /\ UNCHANGED <<created, elapsed, ledger, stored, spent>>

SetOutcome(outcome) == ops' = [ops EXCEPT ![Len(ops)].outcome = outcome]

(* consume_tool_operation looks once more, and may raise. *)
SpentMeanwhile ==
  /\ InHand
  /\ ~CanRunTool
  /\ SetOutcome("pending")
  /\ UNCHANGED <<created, elapsed, ledger, stored, decisions, trail, spent>>

FailedOutcomes == {"failed", "malformed_result", "oversized_result"}

(* The call and its end: a result, a failure of any kind (parameters that  *)
(* do not validate among them), or another exception of the handler.       *)
Events(name, outcome) ==
  CASE outcome = "success" -> <<Accessed(name), Result(name)>>
    [] outcome \in FailedOutcomes -> <<Failure(name, outcome)>>
    [] OTHER -> <<>>

Run(outcome) ==
  LET l == [ledger EXCEPT !.tool = @ + 1]
  IN  /\ InHand
      /\ CanRunTool
      /\ ledger' = l
      /\ stored' = Flushed(stored, l)
      /\ SetOutcome(outcome)
      /\ trail' = trail \o <<Consumed("tool_operation", 1, l)>> \o Events(ops[Len(ops)].name, outcome)
      /\ UNCHANGED <<created, elapsed, decisions, spent>>

Outcomes == FailedOutcomes \cup {"success", "pending"}

(* A case that was refused, or that nobody asks anything of any more. *)
Quiet == (entry = "rejected" \/ Len(ops) + spent = MaxSteps) /\ UNCHANGED vars

Next ==
  \/ \E how \in {"api", "cli"}, o \in Overrides : Create(how, o)
  \/ \E name \in Names, permitted \in Permissions : Invoke(name, permitted)
  \/ SpentMeanwhile
  \/ \E outcome \in Outcomes : Run(outcome)
  \/ \E size \in Sizes : ConsumeEvidence(size)
  \/ ConsumeModelCall
  \/ \E o \in Retried : ConsumeRetry(o)
  \/ Reopen
  \/ Tick
  \/ Quiet

Spec == Init /\ [][Next]_vars

-----------------------------------------------------------------------------
(* Correctness.                                                            *)

Ledgers == [ tool : Nat, items : Nat, bytes : Nat, model : Nat, retries : [Retried -> Nat] ]
Reasons == { "authorization_context_incomplete", "operation_prohibited_readonly_policy",
             "operation_not_registered", "not_authorized", "budget_exhausted", "authorized" }
EventTypes == { "tool_requested", "authorization_decision", "policy_denial", "tool_failure",
                "source_accessed", "tool_result", "budget_consumed" }

(* The variables keep to their types; a case has the six limits and no     *)
(* other, whatever the request listed.                                     *)
TypeOK ==
  /\ entry \in {"none", "api", "cli", "rejected"}
  /\ limits \in [LimitNames -> Nat]
  /\ grants \in Grants /\ elapsed \in Clock
  /\ ledger \in Ledgers /\ stored \in Ledgers
  /\ \A i \in DOMAIN decisions : decisions[i].reason \in Reasons /\ decisions[i].name \in Names
  /\ \A i \in DOMAIN ops : ops[i].outcome \in Outcomes \cup {"allowed", "denied"}
  /\ \A i \in DOMAIN trail : trail[i].type \in EventTypes
  /\ spent \in 0..MaxSteps

Taken(n) == n \in DOMAIN asked /\ ~(entry = "cli" /\ asked[n] = 0)

(* A case has exactly the limits asked for, or it does not exist, and a    *)
(* limit that is not in bounds is never in force; what is not asked for is *)
(* the default.  The exception is the command line: it takes a zero for an *)
(* option not given, so the default applies and nothing is refused.        *)
LimitsInForce ==
  /\ Active => \A n \in LimitNames :
       /\ limits[n] = IF Taken(n) THEN asked[n] ELSE DefaultLimits[n]
       /\ limits[n] \in Bounds[n]
  /\ entry = "rejected" => \E n \in LimitNames \cap DOMAIN asked : asked[n] \notin Bounds[n]

(* Who reaches a source has been allowed to: a registered name as written, *)
(* permitted in the state of the call, to an analyst who may ask that      *)
(* source, with an operation to spare; nothing prohibited, however spelt.  *)
AllowIsEarned ==
  /\ \A i \in DOMAIN decisions :
       LET d == decisions[i]
       IN  d.reason = "authorized" =>
             /\ d.name.word \in d.permitted \cap Tools /\ d.name.spelt = {}
             /\ ToolSource[d.name.word] \in grants
             /\ d.used < limits["max_tool_operations"]
  /\ \A i \in DOMAIN ops :
       ops[i].outcome # "denied" => decisions[ops[i].decision].reason = "authorized"
  /\ \A i \in DOMAIN trail :
       trail[i].type = "source_accessed" =>
         /\ trail[i].name.word \in Tools
         /\ ToolSource[trail[i].name.word] \in grants

(* An exhausted budget stays exhausted: after a denial for it, nothing is  *)
(* allowed any more, also by a budget service opened on the ledger's row    *)
(* anew.  That the wall clock, which the elapsed time is read from, is not *)
(* set back is assumed (budget.py:52).                                     *)
DenialStands ==
  \A i, j \in DOMAIN decisions :
    i < j /\ decisions[i].reason = "budget_exhausted" => decisions[j].reason # "authorized"

Number(Test(_)) == Cardinality({ i \in DOMAIN trail : Test(trail[i]) })
OfType(type) == Number(LAMBDA e : e.type = type)
OfKind(kind) == Number(LAMBDA e : e.type = "budget_consumed" /\ e.kind = kind)
WithOutcome(outcomes) == Cardinality({ i \in DOMAIN ops : ops[i].outcome \in outcomes })

(* The trail alone tells how many operations were asked for, denied, failed *)
(* and answered, and what the ledger of the case holds, whoever spent it    *)
(* and through however many budget services.                               *)
TrailAccounts ==
  /\ OfType("tool_requested") = Len(ops) /\ OfType("authorization_decision") = Len(decisions)
  /\ OfType("policy_denial") = WithOutcome({"denied"})
  /\ OfType("tool_failure") = WithOutcome(FailedOutcomes)
  /\ OfType("source_accessed") = WithOutcome({"success"})
  /\ OfType("tool_result") = WithOutcome({"success"})
  /\ OfKind("tool_operation") = ledger.tool /\ OfKind("model_call") = ledger.model
  /\ OfKind("evidence") = ledger.items
  /\ OfKind("retry") = ledger.retries["get_alert"] + ledger.retries["get_events"]
  /\ \A i \in DOMAIN trail :
       /\ trail[i].type = "budget_consumed"
       /\ \A j \in DOMAIN trail : trail[j].type = "budget_consumed" => j <= i
       => trail[i].snapshot = Counts(ledger)

(* No order of consumptions, of any kind, takes the ledger over a limit.   *)
LedgerWithinLimits ==
  /\ ledger.tool <= limits["max_tool_operations"]
  /\ ledger.items <= limits["max_evidence_items"]
  /\ ledger.bytes <= limits["max_evidence_bytes"]
  /\ ledger.model <= limits["max_model_calls"]
  /\ \A o \in Retried : ledger.retries[o] <= limits["max_retries_per_operation"]
=============================================================================
