--------------------------- MODULE EnforcementProofs ---------------------------
(***************************************************************************)
(* Proofs about the limits, the policy engine, the budget service and the  *)
(* invoker, for any overrides, names, grants, permissions and sizes, and   *)
(* however long the sequence of calls.                                     *)
(***************************************************************************)
EXTENDS Enforcement, FiniteSetTheorems, SequenceTheorems, TLAPS

-----------------------------------------------------------------------------
(* Counting in sequences.                                                  *)

OfTypeIn(s, type) == { i \in DOMAIN s : s[i].type = type }
OfKindIn(s, kind) == { i \in DOMAIN s : s[i].type = "budget_consumed" /\ s[i].kind = kind }
OutcomeIn(s, outcomes) == { i \in DOMAIN s : s[i].outcome \in outcomes }

LEMMA PositionsFinite ==
  ASSUME NEW S, NEW s \in Seq(S), NEW I \in SUBSET DOMAIN s
  PROVE  IsFiniteSet(I) /\ Cardinality(I) \in Nat
<1>1. DOMAIN s = 1..Len(s) /\ Len(s) \in Nat
  OBVIOUS
<1>2. IsFiniteSet(1..Len(s))
  BY <1>1, FS_Interval
<1>3. IsFiniteSet(I)
  BY <1>1, <1>2, FS_Subset
<1>4. QED
  BY <1>3, FS_CardinalityType

LEMMA OneMorePosition ==
  ASSUME NEW S, NEW s \in Seq(S), NEW I \in SUBSET DOMAIN s, NEW i, i \notin I
  PROVE  Cardinality(I \cup {i}) = Cardinality(I) + 1
BY PositionsFinite, FS_AddElement

LEMMA AppendFacts ==
  ASSUME NEW S, NEW s \in Seq(S), NEW e
  PROVE  /\ DOMAIN (s \o <<e>>) = DOMAIN s \cup {Len(s) + 1}
         /\ Len(s) + 1 \notin DOMAIN s
         /\ (s \o <<e>>)[Len(s) + 1] = e
         /\ \A i \in DOMAIN s : (s \o <<e>>)[i] = s[i]
<1>1. Len(s) \in Nat /\ DOMAIN s = 1..Len(s)
  OBVIOUS
<1>2. s \o <<e>> = [i \in 1..(Len(s) + 1) |-> IF i <= Len(s) THEN s[i] ELSE e]
  OBVIOUS
<1>3. QED
  BY <1>1, <1>2

(* One more event counts where it belongs and nowhere else. *)
LEMMA CountType ==
  ASSUME NEW S, NEW s \in Seq(S), NEW e, NEW type
  PROVE  Cardinality(OfTypeIn(s \o <<e>>, type)) =
           Cardinality(OfTypeIn(s, type)) + (IF e.type = type THEN 1 ELSE 0)
<1>1. OfTypeIn(s, type) \in SUBSET DOMAIN s /\ Len(s) + 1 \notin OfTypeIn(s, type)
  BY AppendFacts DEF OfTypeIn
<1>2. OfTypeIn(s \o <<e>>, type) =
        OfTypeIn(s, type) \cup (IF e.type = type THEN {Len(s) + 1} ELSE {})
  BY AppendFacts DEF OfTypeIn
<1>3. CASE e.type = type
  BY <1>1, <1>2, <1>3, OneMorePosition
<1>4. CASE e.type # type
  <2>1. OfTypeIn(s \o <<e>>, type) = OfTypeIn(s, type)
    BY <1>2, <1>4
  <2>2. QED
    BY <1>1, <1>4, <2>1, PositionsFinite
<1>5. QED
  BY <1>3, <1>4

LEMMA CountKind ==
  ASSUME NEW S, NEW s \in Seq(S), NEW e, NEW kind
  PROVE  Cardinality(OfKindIn(s \o <<e>>, kind)) =
           Cardinality(OfKindIn(s, kind))
             + (IF e.type = "budget_consumed" /\ e.kind = kind THEN 1 ELSE 0)
<1>1. OfKindIn(s, kind) \in SUBSET DOMAIN s /\ Len(s) + 1 \notin OfKindIn(s, kind)
  BY AppendFacts DEF OfKindIn
<1>2. OfKindIn(s \o <<e>>, kind) =
        OfKindIn(s, kind)
          \cup (IF e.type = "budget_consumed" /\ e.kind = kind THEN {Len(s) + 1} ELSE {})
  BY AppendFacts DEF OfKindIn
<1>3. CASE e.type = "budget_consumed" /\ e.kind = kind
  BY <1>1, <1>2, <1>3, OneMorePosition
<1>4. CASE ~(e.type = "budget_consumed" /\ e.kind = kind)
  <2>1. OfKindIn(s \o <<e>>, kind) = OfKindIn(s, kind)
    BY <1>2, <1>4
  <2>2. QED
    BY <1>1, <1>4, <2>1, PositionsFinite
<1>5. QED
  BY <1>3, <1>4

LEMMA CountOutcome ==
  ASSUME NEW S, NEW s \in Seq(S), NEW e, NEW outcomes
  PROVE  Cardinality(OutcomeIn(s \o <<e>>, outcomes)) =
           Cardinality(OutcomeIn(s, outcomes)) + (IF e.outcome \in outcomes THEN 1 ELSE 0)
<1>1. OutcomeIn(s, outcomes) \in SUBSET DOMAIN s /\ Len(s) + 1 \notin OutcomeIn(s, outcomes)
  BY AppendFacts DEF OutcomeIn
<1>2. OutcomeIn(s \o <<e>>, outcomes) =
        OutcomeIn(s, outcomes) \cup (IF e.outcome \in outcomes THEN {Len(s) + 1} ELSE {})
  BY AppendFacts DEF OutcomeIn
<1>3. CASE e.outcome \in outcomes
  BY <1>1, <1>2, <1>3, OneMorePosition
<1>4. CASE e.outcome \notin outcomes
  <2>1. OutcomeIn(s \o <<e>>, outcomes) = OutcomeIn(s, outcomes)
    BY <1>2, <1>4
  <2>2. QED
    BY <1>1, <1>4, <2>1, PositionsFinite
<1>5. QED
  BY <1>3, <1>4

LEMMA TwoMore ==
  ASSUME NEW S, NEW s \in Seq(S), NEW a \in S, NEW b \in S
  PROVE  s \o <<a, b>> = (s \o <<a>>) \o <<b>> /\ s \o <<a>> \in Seq(S)
<1>1. <<a>> \in Seq(S) /\ <<b>> \in Seq(S) /\ <<a, b>> \in Seq(S)
  OBVIOUS
<1>2. <<a>> \o <<b>> \in Seq(S) /\ Len(<<a>> \o <<b>>) = 2
      /\ (<<a>> \o <<b>>)[1] = a /\ (<<a>> \o <<b>>)[2] = b
  BY <1>1
<1>3. Len(<<a, b>>) = 2 /\ <<a, b>>[1] = a /\ <<a, b>>[2] = b
  OBVIOUS
<1>4. \A i \in 1..2 : i = 1 \/ i = 2
  OBVIOUS
<1>5. <<a>> \o <<b>> = <<a, b>>
  BY <1>1, <1>2, <1>3, <1>4, SeqEqual
<1>6. (s \o <<a>>) \o <<b>> = s \o (<<a>> \o <<b>>)
  BY <1>1, ConcatAssociative
<1>7. s \o <<a>> \in Seq(S)
  BY <1>1, ConcatProperties
<1>8. QED
  BY <1>5, <1>6, <1>7

LEMMA ThreeMore ==
  ASSUME NEW S, NEW s \in Seq(S), NEW a \in S, NEW b \in S, NEW c \in S
  PROVE  /\ s \o <<a, b>> \o <<c>> = ((s \o <<a>>) \o <<b>>) \o <<c>>
         /\ s \o <<a>> \o <<b, c>> = ((s \o <<a>>) \o <<b>>) \o <<c>>
         /\ s \o <<a>> \in Seq(S) /\ (s \o <<a>>) \o <<b>> \in Seq(S)
<1>1. s \o <<a>> \in Seq(S)
  OBVIOUS
<1>2. (s \o <<a>>) \o <<b, c>> = ((s \o <<a>>) \o <<b>>) \o <<c>>
  BY SMTT(30), <1>1, TwoMore
<1>3. s \o <<a, b>> = (s \o <<a>>) \o <<b>> /\ (s \o <<a>>) \o <<b>> \in Seq(S)
  BY SMTT(30), <1>1, TwoMore
<1>4. QED
  BY <1>1, <1>2, <1>3

-----------------------------------------------------------------------------
(* What a trail accounts for.                                              *)

Kinds == {"tool_operation", "model_call", "evidence", "retry"}

CountsOf(s) == [ type \in EventTypes |-> Cardinality(OfTypeIn(s, type)) ]
KindsOf(s) == [ kind \in Kinds |-> Cardinality(OfKindIn(s, kind)) ]

(* The last consumption the trail has tells what the ledger l holds. *)
LastSnapshot(s, l) ==
  \A i \in DOMAIN s :
    /\ s[i].type = "budget_consumed"
    /\ \A j \in DOMAIN s : s[j].type = "budget_consumed" => j <= i
    => s[i].snapshot = Counts(l)

(* The parts of TrailAccounts. *)
OpsTold(s, os, ds) ==
  /\ CountsOf(s)["tool_requested"] = Len(os) /\ CountsOf(s)["authorization_decision"] = Len(ds)
  /\ CountsOf(s)["policy_denial"] = Cardinality(OutcomeIn(os, {"denied"}))
  /\ CountsOf(s)["tool_failure"] = Cardinality(OutcomeIn(os, FailedOutcomes))
  /\ CountsOf(s)["source_accessed"] = Cardinality(OutcomeIn(os, {"success"}))
  /\ CountsOf(s)["tool_result"] = Cardinality(OutcomeIn(os, {"success"}))

LedgerTold(s, l) ==
  /\ KindsOf(s)["tool_operation"] = l.tool /\ KindsOf(s)["model_call"] = l.model
  /\ KindsOf(s)["evidence"] = l.items
  /\ KindsOf(s)["retry"] = l.retries["get_alert"] + l.retries["get_events"]
  /\ LastSnapshot(s, l)

LEMMA TrailAccountsIs ==
  TrailAccounts <=> OpsTold(trail, ops, decisions) /\ LedgerTold(trail, ledger)
BY DEF TrailAccounts, OpsTold, LedgerTold, CountsOf, KindsOf, LastSnapshot, OfTypeIn, OfKindIn,
       OutcomeIn, Number, OfType, OfKind, WithOutcome, EventTypes, Kinds

LEMMA CountsTyped ==
  ASSUME NEW S, NEW s \in Seq(S)
  PROVE  CountsOf(s) \in [EventTypes -> Nat] /\ KindsOf(s) \in [Kinds -> Nat]
<1>1. \A type \in EventTypes : Cardinality(OfTypeIn(s, type)) \in Nat
  BY PositionsFinite DEF OfTypeIn
<1>2. \A kind \in Kinds : Cardinality(OfKindIn(s, kind)) \in Nat
  BY PositionsFinite DEF OfKindIn
<1>3. QED
  BY <1>1, <1>2 DEF CountsOf, KindsOf

(* An event that is no consumption. *)
LEMMA OtherEvent ==
  ASSUME NEW S, NEW s \in Seq(S), NEW e, e.type \in EventTypes \ {"budget_consumed"}
  PROVE  /\ CountsOf(s \o <<e>>) = [CountsOf(s) EXCEPT ![e.type] = @ + 1]
         /\ KindsOf(s \o <<e>>) = KindsOf(s)
         /\ \A l : LastSnapshot(s, l) => LastSnapshot(s \o <<e>>, l)
<1>1. CountsOf(s \o <<e>>) = [CountsOf(s) EXCEPT ![e.type] = @ + 1]
  <2>1. \A type \in EventTypes : CountsOf(s \o <<e>>)[type] =
                                   [CountsOf(s) EXCEPT ![e.type] = @ + 1][type]
    BY CountType, CountsTyped DEF CountsOf
  <2>2. QED
    BY <2>1 DEF CountsOf
<1>2. KindsOf(s \o <<e>>) = KindsOf(s)
  <2>1. \A kind \in Kinds : KindsOf(s \o <<e>>)[kind] = KindsOf(s)[kind]
    BY CountKind, CountsTyped DEF KindsOf
  <2>2. QED
    BY <2>1 DEF KindsOf
<1>3. ASSUME NEW l, LastSnapshot(s, l)
      PROVE  LastSnapshot(s \o <<e>>, l)
  BY <1>3, AppendFacts DEF LastSnapshot
<1>4. QED
  BY <1>1, <1>2, <1>3

(* A consumption, with the counts after it. *)
LEMMA ConsumptionEvent ==
  ASSUME NEW S, NEW s \in Seq(S), NEW kind \in Kinds, NEW amount, NEW l
  PROVE  LET e == Consumed(kind, amount, l)
         IN  /\ CountsOf(s \o <<e>>) = [CountsOf(s) EXCEPT !["budget_consumed"] = @ + 1]
             /\ KindsOf(s \o <<e>>) = [KindsOf(s) EXCEPT ![kind] = @ + 1]
             /\ LastSnapshot(s \o <<e>>, l)
<1> DEFINE e == Consumed(kind, amount, l)
<1>0. e.type = "budget_consumed" /\ e.kind = kind /\ e.snapshot = Counts(l)
  BY DEF Consumed
<1> HIDE DEF e
<1>1. CountsOf(s \o <<e>>) = [CountsOf(s) EXCEPT !["budget_consumed"] = @ + 1]
  <2>1. \A type \in EventTypes : CountsOf(s \o <<e>>)[type] =
                                   [CountsOf(s) EXCEPT !["budget_consumed"] = @ + 1][type]
    BY <1>0, CountType, CountsTyped DEF CountsOf
  <2>2. QED
    BY <2>1 DEF CountsOf
<1>2. KindsOf(s \o <<e>>) = [KindsOf(s) EXCEPT ![kind] = @ + 1]
  <2>1. \A k \in Kinds : KindsOf(s \o <<e>>)[k] = [KindsOf(s) EXCEPT ![kind] = @ + 1][k]
    BY <1>0, CountKind, CountsTyped DEF KindsOf
  <2>2. QED
    BY <2>1 DEF KindsOf
<1>3. LastSnapshot(s \o <<e>>, l)
  <2>1. DOMAIN s = 1..Len(s) /\ Len(s) \in Nat
    OBVIOUS
  <2>2. QED
    BY <1>0, <2>1, AppendFacts DEF LastSnapshot
<1>4. QED
  BY <1>1, <1>2, <1>3 DEF e

OpRows == [ name : Names, decision : Nat, outcome : Outcomes \cup {"allowed", "denied"} ]

(* The last call's outcome becomes known. *)
LEMMA OutcomeSet ==
  ASSUME NEW s \in Seq(OpRows), s # <<>>, s[Len(s)].outcome = "allowed",
         NEW o \in Outcomes, NEW outcomes, "allowed" \notin outcomes
  PROVE  Cardinality(OutcomeIn([s EXCEPT ![Len(s)].outcome = o], outcomes)) =
           Cardinality(OutcomeIn(s, outcomes)) + (IF o \in outcomes THEN 1 ELSE 0)
<1> DEFINE t == [s EXCEPT ![Len(s)].outcome = o]
<1>1. Len(s) \in DOMAIN s /\ DOMAIN t = DOMAIN s /\ s[Len(s)] \in OpRows
  OBVIOUS
<1>2. t[Len(s)].outcome = o /\ \A i \in DOMAIN s : i # Len(s) => t[i] = s[i]
  BY <1>1 DEF OpRows
<1>3. OutcomeIn(s, outcomes) \in SUBSET DOMAIN s /\ Len(s) \notin OutcomeIn(s, outcomes)
  BY DEF OutcomeIn
<1>4. OutcomeIn(t, outcomes) = OutcomeIn(s, outcomes) \cup (IF o \in outcomes THEN {Len(s)} ELSE {})
  BY <1>1, <1>2, <1>3 DEF OutcomeIn
<1>5. CASE o \in outcomes
  BY <1>3, <1>4, <1>5, OneMorePosition
<1>6. CASE o \notin outcomes
  <2>1. OutcomeIn(t, outcomes) = OutcomeIn(s, outcomes)
    BY <1>4, <1>6
  <2>2. QED
    BY <1>3, <1>6, <2>1, PositionsFinite
<1>7. QED
  BY <1>5, <1>6

-----------------------------------------------------------------------------
(* The inductive invariant.                                                *)

DecisionRows == [ name : Names, permitted : Permissions, reason : Reasons, used : Nat ]

Snapshots == [ tool : Nat, items : Nat, bytes : Nat, model : Nat ]

EventRows ==
  [ type : {"tool_requested", "source_accessed", "tool_result"}, name : Names ]
    \cup [ type : {"authorization_decision", "policy_denial", "tool_failure"},
           name : Names, reason : Reasons \cup FailedOutcomes ]
    \cup [ type : {"budget_consumed"}, kind : Kinds, amount : {1}, snapshot : Snapshots ]

(* TypeOK, and rows and events of their types. *)
Typed ==
  /\ TypeOK
  /\ decisions \in Seq(DecisionRows) /\ ops \in Seq(OpRows) /\ trail \in Seq(EventRows)

(* Nothing happens in a case that was not created. *)
NothingBefore ==
  ~Active => /\ ledger = ZeroLedger /\ decisions = <<>> /\ ops = <<>> /\ trail = <<>>

(* The ledger's row is what the budget service holds. *)
RowCurrent == stored = ledger

(* One call for each decision, which did not go on if the decision said no. *)
CallsDecided ==
  /\ Len(ops) = Len(decisions)
  /\ \A i \in DOMAIN ops :
       /\ ops[i].decision = i /\ ops[i].name = decisions[i].name
       /\ ops[i].outcome # "denied" => decisions[i].reason = "authorized"

(* Nothing gives a budget back. *)
StaysExhausted ==
  \A i \in DOMAIN decisions : decisions[i].reason = "budget_exhausted" => ~CanRunTool

IInv ==
  /\ Typed /\ NothingBefore /\ RowCurrent /\ CallsDecided /\ StaysExhausted
  /\ LimitsInForce /\ LedgerWithinLimits /\ AllowIsEarned /\ DenialStands /\ TrailAccounts

-----------------------------------------------------------------------------
(* Facts about the limits and the steps.                                   *)

LEMMA LimitFacts ==
  /\ LimitNames = { "max_elapsed_seconds", "max_tool_operations", "max_evidence_items",
                    "max_evidence_bytes", "max_model_calls", "max_retries_per_operation" }
  /\ \A n \in LimitNames : Bounds[n] \subseteq Nat /\ DefaultLimits[n] \in Bounds[n]
  /\ DefaultLimits \in [LimitNames -> Nat]
<1>1. LimitNames = { "max_elapsed_seconds", "max_tool_operations", "max_evidence_items",
                     "max_evidence_bytes", "max_model_calls", "max_retries_per_operation" }
  BY SMT DEF LimitNames, Least
<1>2. \A n \in LimitNames : /\ Least[n] \in Nat /\ Most[n] \in Nat /\ DefaultLimits[n] \in Nat
                           /\ Least[n] <= DefaultLimits[n] /\ DefaultLimits[n] <= Most[n]
  BY <1>1, SMT DEF Least, Most, DefaultLimits
<1>3. \A n \in LimitNames : Bounds[n] \subseteq Nat /\ DefaultLimits[n] \in Bounds[n]
  BY <1>2, SMT DEF Bounds
<1>4. DefaultLimits \in [LimitNames -> Nat]
  BY <1>1, SMT DEF DefaultLimits
<1>5. QED
  BY <1>1, <1>3, <1>4

LEMMA ZeroIsLedger == ZeroLedger \in Ledgers
BY DEF ZeroLedger, Ledgers

LEMMA LedgerSnapshot ==
  ASSUME NEW l \in Ledgers
  PROVE  Counts(l) \in Snapshots
BY DEF Counts, Snapshots, Ledgers

LEMMA EvaluateReasons ==
  ASSUME NEW name, NEW permitted
  PROVE  /\ Evaluate(name, permitted) \in Reasons
         /\ Evaluate(name, permitted) = "authorized" =>
              Registered(name, permitted) /\ Authorized(name) /\ CanRunTool
         /\ Evaluate(name, permitted) = "budget_exhausted" => ~CanRunTool
<1>1. Evaluate(name, permitted) \in Reasons
  BY DEF Evaluate, Reasons
<1>2. Evaluate(name, permitted) = "authorized" =>
        Registered(name, permitted) /\ Authorized(name) /\ CanRunTool
  BY DEF Evaluate
<1>3. Evaluate(name, permitted) = "budget_exhausted" => ~CanRunTool
  BY DEF Evaluate
<1>4. QED
  BY <1>1, <1>2, <1>3

(* A consumption outside a call: what it is of, and the ledger after it. *)
Consumption(kind, l) ==
  \/ \E size \in Sizes : /\ kind = "evidence" /\ FitsSize(size)
                         /\ l = [ledger EXCEPT !.items = @ + 1, !.bytes = @ + size]
  \/ /\ kind = "model_call" /\ ledger.model < limits["max_model_calls"]
     /\ l = [ledger EXCEPT !.model = @ + 1]
  \/ \E o \in Retried : /\ kind = "retry" /\ ledger.retries[o] < limits["max_retries_per_operation"]
                        /\ l = [ledger EXCEPT !.retries[o] = @ + 1]

LEMMA StepKinds ==
  ASSUME IInv, [Next]_vars
  PROVE  \/ \E how \in {"api", "cli"}, o \in Overrides : Create(how, o)
         \/ \E name \in Names, permitted \in Permissions : Invoke(name, permitted)
         \/ SpentMeanwhile
         \/ \E outcome \in Outcomes : Run(outcome)
         \/ \E kind, l : Consumption(kind, l) /\ Spending(kind, 1, l)
         \/ UNCHANGED <<created, ledger, stored, decisions, ops, trail, spent>>
              /\ (elapsed' = elapsed \/ Tick)
<1>1. CASE Reopen
  BY <1>1 DEF Reopen, IInv, RowCurrent
<1>2. CASE Tick
  BY <1>2 DEF Tick
<1>3. CASE Quiet \/ UNCHANGED vars
  BY <1>3 DEF Quiet, vars, created
<1>4. ASSUME NEW size \in Sizes, ConsumeEvidence(size)
      PROVE  \E kind, l : Consumption(kind, l) /\ Spending(kind, 1, l)
  <2> DEFINE k == [ledger EXCEPT !.items = @ + 1, !.bytes = @ + size]
  <2>1. Consumption("evidence", k)
    BY <1>4 DEF ConsumeEvidence, Consumption
  <2>2. Spending("evidence", 1, k)
    BY <1>4 DEF ConsumeEvidence
  <2>3. QED
    BY <2>1, <2>2
<1>5. ASSUME ConsumeModelCall
      PROVE  \E kind, l : Consumption(kind, l) /\ Spending(kind, 1, l)
  <2> DEFINE k == [ledger EXCEPT !.model = @ + 1]
  <2>1. Consumption("model_call", k)
    BY <1>5 DEF ConsumeModelCall, Consumption
  <2>2. Spending("model_call", 1, k)
    BY <1>5 DEF ConsumeModelCall
  <2>3. QED
    BY <2>1, <2>2
<1>6. ASSUME NEW o \in Retried, ConsumeRetry(o)
      PROVE  \E kind, l : Consumption(kind, l) /\ Spending(kind, 1, l)
  <2> DEFINE k == [ledger EXCEPT !.retries[o] = @ + 1]
  <2>1. Consumption("retry", k)
    BY <1>6 DEF ConsumeRetry, Consumption
  <2>2. Spending("retry", 1, k)
    BY <1>6 DEF ConsumeRetry
  <2>3. QED
    BY <2>1, <2>2
<1>7. QED
  BY <1>1, <1>2, <1>3, <1>4, <1>5, <1>6 DEF Next

(* The call in hand. *)
LEMMA InHandFacts ==
  ASSUME IInv, InHand
  PROVE  /\ ops # <<>> /\ Len(ops) \in DOMAIN ops /\ Len(ops) \in DOMAIN decisions
         /\ ops[Len(ops)] \in OpRows /\ ops[Len(ops)].outcome = "allowed"
         /\ ops[Len(ops)].decision = Len(ops)
         /\ ops[Len(ops)].name = decisions[Len(ops)].name
         /\ decisions[Len(ops)].reason = "authorized"
         /\ Active
<1>1. /\ ops \in Seq(OpRows) /\ decisions \in Seq(DecisionRows) /\ Len(ops) = Len(decisions)
  BY DEF IInv, Typed, CallsDecided
<1>2. ops # <<>> /\ ops[Len(ops)].outcome = "allowed"
  BY DEF InHand
<1>3. Len(ops) \in DOMAIN ops /\ Len(ops) \in DOMAIN decisions /\ ops[Len(ops)] \in OpRows
  BY <1>1, <1>2
<1>4. QED
  BY <1>2, <1>3 DEF IInv, CallsDecided, NothingBefore

LEMMA SetOutcomeFacts ==
  ASSUME IInv, InHand, NEW o \in Outcomes, SetOutcome(o)
  PROVE  /\ ops' \in Seq(OpRows) /\ Len(ops') = Len(ops) /\ DOMAIN ops' = DOMAIN ops
         /\ \A i \in DOMAIN ops : i # Len(ops) => ops'[i] = ops[i]
         /\ ops'[Len(ops)].outcome = o
         /\ ops'[Len(ops)].name = ops[Len(ops)].name
         /\ ops'[Len(ops)].decision = ops[Len(ops)].decision
<1>1. /\ ops \in Seq(OpRows) /\ Len(ops) \in DOMAIN ops /\ ops[Len(ops)] \in OpRows
  BY InHandFacts DEF IInv, Typed
<1>2. ops' = [ops EXCEPT ![Len(ops)] = [ops[Len(ops)] EXCEPT !.outcome = o]]
  BY <1>1 DEF SetOutcome
<1>3. [ops[Len(ops)] EXCEPT !.outcome = o] \in OpRows
  BY <1>1 DEF OpRows
<1>4. Len(ops') = Len(ops) /\ DOMAIN ops' = DOMAIN ops /\ ops' \in Seq(OpRows)
  BY <1>1, <1>2, <1>3
<1>5. \A i \in DOMAIN ops : i # Len(ops) => ops'[i] = ops[i]
  BY <1>1, <1>2
<1>6. ops'[Len(ops)] = [ops[Len(ops)] EXCEPT !.outcome = o]
  BY <1>1, <1>2
<1>7. QED
  BY <1>1, <1>4, <1>5, <1>6 DEF OpRows

LEMMA InvokeFacts ==
  ASSUME IInv, NEW name \in Names, NEW permitted \in Permissions, Invoke(name, permitted)
  PROVE  LET reason == Evaluate(name, permitted)
             d == [ name |-> name, permitted |-> permitted, reason |-> reason, used |-> ledger.tool ]
             op == Op(name, Len(ops) + 1, IF reason = "authorized" THEN "allowed" ELSE "denied")
         IN  /\ d \in DecisionRows /\ op \in OpRows
             /\ decisions' = decisions \o <<d>> /\ ops' = ops \o <<op>>
             /\ UNCHANGED <<created, elapsed, ledger, stored, spent>>
<1>1. Evaluate(name, permitted) \in Reasons
  BY EvaluateReasons
<1>2. ledger.tool \in Nat /\ Len(ops) + 1 \in Nat
  BY DEF IInv, Typed, TypeOK, Ledgers
<1>3. QED
  BY <1>1, <1>2 DEF Invoke, DecisionRows, OpRows, Op, Outcomes

LEMMA CreateFacts ==
  ASSUME IInv, NEW how \in {"api", "cli"}, NEW o \in Overrides, Create(how, o)
  PROVE  /\ entry = "none" /\ asked' = o
         /\ \/ Within(Merged(Passed(how, o))) /\ entry' = how /\ limits' = Merged(Passed(how, o))
            \/ ~Within(Merged(Passed(how, o))) /\ entry' = "rejected" /\ limits' = limits
         /\ UNCHANGED <<grants, elapsed, ledger, stored, decisions, ops, trail, spent>>
         /\ ledger = ZeroLedger /\ decisions = <<>> /\ ops = <<>> /\ trail = <<>>
BY DEF Create, IInv, NothingBefore, Active

LEMMA ConsumptionFacts ==
  ASSUME IInv, NEW kind, NEW l, Consumption(kind, l)
  PROVE  /\ l \in Ledgers /\ kind \in Kinds /\ l.tool = ledger.tool
         /\ l.items <= limits["max_evidence_items"] /\ l.bytes <= limits["max_evidence_bytes"]
         /\ l.model <= limits["max_model_calls"]
         /\ \A o \in Retried : l.retries[o] <= limits["max_retries_per_operation"]
<1>0. ledger \in Ledgers /\ limits \in [LimitNames -> Nat] /\ LedgerWithinLimits
  BY DEF IInv, Typed, TypeOK
<1>1. /\ limits["max_evidence_items"] \in Nat /\ limits["max_evidence_bytes"] \in Nat
      /\ limits["max_model_calls"] \in Nat /\ limits["max_retries_per_operation"] \in Nat
  BY <1>0, LimitFacts
<1>2. ASSUME NEW size \in Sizes, kind = "evidence", FitsSize(size),
             l = [ledger EXCEPT !.items = @ + 1, !.bytes = @ + size]
      PROVE  /\ l \in Ledgers /\ kind \in Kinds /\ l.tool = ledger.tool
             /\ l.items <= limits["max_evidence_items"] /\ l.bytes <= limits["max_evidence_bytes"]
             /\ l.model = ledger.model /\ l.retries = ledger.retries
  <2>1. size \in Nat /\ ledger.items + 1 \in Nat /\ ledger.bytes + size \in Nat
    BY <1>0, SizesAssumption DEF Ledgers
  <2>2. /\ l \in Ledgers /\ l.items = ledger.items + 1 /\ l.bytes = ledger.bytes + size
        /\ l.tool = ledger.tool /\ l.model = ledger.model /\ l.retries = ledger.retries
    BY <1>0, <1>2, <2>1 DEF Ledgers
  <2>3. QED
    BY <1>2, <2>2 DEF FitsSize, Kinds
<1>3. ASSUME kind = "model_call", ledger.model < limits["max_model_calls"],
             l = [ledger EXCEPT !.model = @ + 1]
      PROVE  /\ l \in Ledgers /\ kind \in Kinds /\ l.tool = ledger.tool
             /\ l.items = ledger.items /\ l.bytes = ledger.bytes
             /\ l.model <= limits["max_model_calls"] /\ l.retries = ledger.retries
  BY <1>0, <1>1, <1>3 DEF Ledgers, Kinds
<1>4. ASSUME NEW o \in Retried, kind = "retry", ledger.retries[o] < limits["max_retries_per_operation"],
             l = [ledger EXCEPT !.retries[o] = @ + 1]
      PROVE  /\ l \in Ledgers /\ kind \in Kinds /\ l.tool = ledger.tool
             /\ l.items = ledger.items /\ l.bytes = ledger.bytes /\ l.model = ledger.model
             /\ \A p \in Retried : l.retries[p] <= limits["max_retries_per_operation"]
  <2>1. l = [ledger EXCEPT !.retries = [ledger.retries EXCEPT ![o] = ledger.retries[o] + 1]]
    BY <1>0, <1>4
  <2>2. [ledger.retries EXCEPT ![o] = ledger.retries[o] + 1] \in [Retried -> Nat]
    BY <1>0 DEF Ledgers
  <2>3. /\ l \in Ledgers /\ l.retries = [ledger.retries EXCEPT ![o] = ledger.retries[o] + 1]
        /\ l.tool = ledger.tool /\ l.items = ledger.items /\ l.bytes = ledger.bytes
        /\ l.model = ledger.model
    BY <1>0, <2>1, <2>2 DEF Ledgers
  <2>4. \A p \in Retried : l.retries[p] <= limits["max_retries_per_operation"]
    BY <1>0, <1>1, <1>4, <2>3 DEF Ledgers, LedgerWithinLimits
  <2>5. QED
    BY <1>4, <2>3, <2>4 DEF Kinds
<1>5. QED
  BY <1>0, <1>2, <1>3, <1>4 DEF Consumption, LedgerWithinLimits

LEMMA RowsSay ==
  ASSUME NEW ds \in Seq(DecisionRows), NEW os \in Seq(OpRows), NEW s \in Seq(EventRows)
  PROVE  /\ \A i \in DOMAIN ds : ds[i].reason \in Reasons /\ ds[i].name \in Names
         /\ \A i \in DOMAIN os : os[i].outcome \in Outcomes \cup {"allowed", "denied"}
         /\ \A i \in DOMAIN s : s[i].type \in EventTypes
<1>1. \A i \in DOMAIN ds : ds[i] \in DecisionRows
  OBVIOUS
<1>2. \A i \in DOMAIN os : os[i] \in OpRows
  OBVIOUS
<1>3. \A i \in DOMAIN s : s[i] \in EventRows
  OBVIOUS
<1>4. \A e \in EventRows : e.type \in EventTypes
  BY DEF EventRows, EventTypes
<1>5. QED
  BY <1>1, <1>2, <1>3, <1>4 DEF DecisionRows, OpRows

LEMMA CallEvents ==
  ASSUME NEW name \in Names, NEW reason \in Reasons, NEW o \in FailedOutcomes
  PROVE  /\ Requested(name) \in EventRows /\ Requested(name).type = "tool_requested"
         /\ Decided(name, reason) \in EventRows
         /\ Decided(name, reason).type = "authorization_decision"
         /\ Denial(name, reason) \in EventRows /\ Denial(name, reason).type = "policy_denial"
         /\ Failure(name, o) \in EventRows /\ Failure(name, o).type = "tool_failure"
         /\ Accessed(name) \in EventRows /\ Accessed(name).type = "source_accessed"
         /\ Accessed(name).name = name
         /\ Result(name) \in EventRows /\ Result(name).type = "tool_result"
BY DEF Requested, Decided, Denial, Failure, Accessed, Result, EventRows

LEMMA ConsumptionRow ==
  ASSUME NEW kind \in Kinds, NEW l \in Ledgers
  PROVE  /\ Consumed(kind, 1, l) \in EventRows
         /\ Consumed(kind, 1, l).type = "budget_consumed"
BY LedgerSnapshot DEF Consumed, EventRows

(* The events of a call that is asked for, one after the other. *)
LEMMA InvokeTrail ==
  ASSUME IInv, NEW name \in Names, NEW permitted \in Permissions, Invoke(name, permitted)
  PROVE  LET reason == Evaluate(name, permitted)
             asking == (trail \o <<Requested(name)>>) \o <<Decided(name, reason)>>
         IN  trail' = IF reason = "authorized" THEN asking
                      ELSE asking \o <<Denial(name, reason)>>
<1> DEFINE reason == Evaluate(name, permitted)
           asking == (trail \o <<Requested(name)>>) \o <<Decided(name, reason)>>
<1>1. trail \in Seq(EventRows) /\ reason \in Reasons
  BY EvaluateReasons DEF IInv, Typed
<1>2. Requested(name) \in EventRows /\ Decided(name, reason) \in EventRows
  BY <1>1, CallEvents DEF FailedOutcomes
<1>3. trail \o <<Requested(name), Decided(name, reason)>> = asking /\ asking \in Seq(EventRows)
  <2>1. /\ trail \o <<Requested(name), Decided(name, reason)>> = asking
        /\ trail \o <<Requested(name)>> \in Seq(EventRows)
    BY <1>1, <1>2, TwoMore
  <2>2. QED
    BY SMTT(30), <1>2, <2>1
<1>4. trail' = asking \o (IF reason = "authorized" THEN <<>> ELSE <<Denial(name, reason)>>)
  BY <1>3 DEF Invoke
<1>5. asking \o <<>> = asking
  BY <1>3, ConcatEmptySeq
<1> HIDE DEF asking, reason
<1>6. trail' = IF reason = "authorized" THEN asking ELSE asking \o <<Denial(name, reason)>>
  BY <1>4, <1>5
<1>7. QED
  BY <1>6 DEF asking, reason

(* The events of a call that is made. *)
LEMMA RunTrail ==
  ASSUME IInv, NEW o \in Outcomes, Run(o)
  PROVE  LET name == ops[Len(ops)].name
             called == trail \o <<Consumed("tool_operation", 1, [ledger EXCEPT !.tool = @ + 1])>>
         IN  /\ o = "success" => trail' = (called \o <<Accessed(name)>>) \o <<Result(name)>>
             /\ o \in FailedOutcomes => trail' = called \o <<Failure(name, o)>>
             /\ o = "pending" => trail' = called
<1> DEFINE name == ops[Len(ops)].name
           l == [ledger EXCEPT !.tool = @ + 1]
           called == trail \o <<Consumed("tool_operation", 1, l)>>
<1>1. trail \in Seq(EventRows) /\ ledger \in Ledgers
  BY DEF IInv, Typed, TypeOK
<1>2. l \in Ledgers
  BY SMTT(30), <1>1 DEF Ledgers
<1>3. Consumed("tool_operation", 1, l) \in EventRows
  BY <1>2, ConsumptionRow DEF Kinds
<1>4. called \in Seq(EventRows)
  BY <1>1, <1>3
<1>5. name \in Names
  BY InHandFacts DEF Run, OpRows
<1>6. Accessed(name) \in EventRows /\ Result(name) \in EventRows
  BY <1>5, CallEvents DEF FailedOutcomes, Reasons
<1>7. trail' = called \o Events(name, o)
  BY DEF Run
<1>8. CASE o = "success"
  <2>1. o \notin FailedOutcomes /\ o # "pending"
    BY <1>8 DEF FailedOutcomes
  <2>2. Events(name, o) = <<Accessed(name), Result(name)>>
    BY <1>8, <2>1 DEF Events
  <2>3. trail' = called \o <<Accessed(name), Result(name)>>
    BY <1>7, <2>2
  <2>4. called \o <<Accessed(name), Result(name)>> = (called \o <<Accessed(name)>>) \o <<Result(name)>>
    BY SMTT(30), <1>4, <1>6, TwoMore
  <2>5. QED
    BY <2>1, <2>3, <2>4
<1>9. CASE o \in FailedOutcomes
  <2>1. o # "success" /\ o # "pending"
    BY <1>9 DEF FailedOutcomes
  <2>2. Events(name, o) = <<Failure(name, o)>>
    BY <1>9, <2>1 DEF Events
  <2>3. trail' = called \o <<Failure(name, o)>>
    BY <1>7, <2>2
  <2>4. QED
    BY <2>1, <2>3
<1>10. CASE o = "pending"
  <2>1. Events(name, o) = <<>>
    BY <1>10 DEF Events, FailedOutcomes
  <2>2. called \o <<>> = called
    BY <1>4, ConcatEmptySeq
  <2>3. QED
    BY <1>7, <1>10, <2>1, <2>2 DEF FailedOutcomes
<1>11. QED
  BY <1>8, <1>9, <1>10 DEF Outcomes

-----------------------------------------------------------------------------
(* What each step adds to a trail that accounts for everything.            *)

OutcomeSets == { {"denied"}, FailedOutcomes, {"success"} }

LEMMA OutcomesCounted ==
  ASSUME NEW os \in Seq(OpRows)
  PROVE  \A S \in OutcomeSets : Cardinality(OutcomeIn(os, S)) \in Nat
BY PositionsFinite DEF OutcomeIn

LEMMA InvokeTold ==
  ASSUME NEW s \in Seq(EventRows), NEW os \in Seq(OpRows), NEW ds \in Seq(DecisionRows), NEW l,
         OpsTold(s, os, ds), LedgerTold(s, l),
         NEW a \in EventRows, a.type = "tool_requested",
         NEW b \in EventRows, b.type = "authorization_decision",
         NEW c \in EventRows, c.type = "policy_denial",
         NEW op \in OpRows, NEW d \in DecisionRows
  PROVE  /\ op.outcome = "allowed" =>
              /\ OpsTold((s \o <<a>>) \o <<b>>, os \o <<op>>, ds \o <<d>>)
              /\ LedgerTold((s \o <<a>>) \o <<b>>, l)
         /\ op.outcome = "denied" =>
              /\ OpsTold(((s \o <<a>>) \o <<b>>) \o <<c>>, os \o <<op>>, ds \o <<d>>)
              /\ LedgerTold(((s \o <<a>>) \o <<b>>) \o <<c>>, l)
<1> DEFINE s1 == s \o <<a>>
           s2 == s1 \o <<b>>
           s3 == s2 \o <<c>>
<1>1. s1 \in Seq(EventRows)
  OBVIOUS
<1>2. s2 \in Seq(EventRows)
  BY <1>1
<1>3. {"tool_requested", "authorization_decision", "policy_denial"}
        \subseteq EventTypes \ {"budget_consumed"}
  BY DEF EventTypes
<1>4. /\ CountsOf(s1) = [CountsOf(s) EXCEPT !["tool_requested"] = @ + 1]
      /\ KindsOf(s1) = KindsOf(s) /\ LastSnapshot(s1, l)
  <2>1. /\ CountsOf(s1) = [CountsOf(s) EXCEPT ![a.type] = @ + 1]
        /\ KindsOf(s1) = KindsOf(s)
        /\ \A m : LastSnapshot(s, m) => LastSnapshot(s1, m)
    BY <1>3, OtherEvent, Zenon
  <2>2. QED
    BY <2>1 DEF LedgerTold
<1> HIDE DEF s1
<1>5. /\ CountsOf(s2) = [CountsOf(s1) EXCEPT !["authorization_decision"] = @ + 1]
      /\ KindsOf(s2) = KindsOf(s) /\ LastSnapshot(s2, l)
  <2>1. /\ CountsOf(s2) = [CountsOf(s1) EXCEPT ![b.type] = @ + 1]
        /\ KindsOf(s2) = KindsOf(s1)
        /\ \A m : LastSnapshot(s1, m) => LastSnapshot(s2, m)
    BY <1>1, <1>3, OtherEvent, Zenon
  <2>2. QED
    BY <1>4, <2>1
<1> HIDE DEF s2
<1>6. /\ CountsOf(s3) = [CountsOf(s2) EXCEPT !["policy_denial"] = @ + 1]
      /\ KindsOf(s3) = KindsOf(s) /\ LastSnapshot(s3, l)
  <2>1. /\ CountsOf(s3) = [CountsOf(s2) EXCEPT ![c.type] = @ + 1]
        /\ KindsOf(s3) = KindsOf(s2)
        /\ \A m : LastSnapshot(s2, m) => LastSnapshot(s3, m)
    BY <1>2, <1>3, OtherEvent, Zenon
  <2>2. QED
    BY <1>5, <2>1
<1> HIDE DEF s3
<1>7. LedgerTold(s2, l) /\ LedgerTold(s3, l)
  BY <1>5, <1>6 DEF LedgerTold
<1>8. CountsOf(s) \in [EventTypes -> Nat]
  BY CountsTyped
<1>9. /\ CountsOf(s2) = [CountsOf(s) EXCEPT !["tool_requested"] = @ + 1,
                                          !["authorization_decision"] = @ + 1]
      /\ CountsOf(s3) = [CountsOf(s) EXCEPT !["tool_requested"] = @ + 1,
                              !["authorization_decision"] = @ + 1, !["policy_denial"] = @ + 1]
  BY ZenonT(60), <1>4, <1>5, <1>6, <1>8 DEF EventTypes
<1>10. Len(os \o <<op>>) = Len(os) + 1 /\ Len(ds \o <<d>>) = Len(ds) + 1
  OBVIOUS
<1>11. \A S \in OutcomeSets :
         /\ Cardinality(OutcomeIn(os, S)) \in Nat
         /\ Cardinality(OutcomeIn(os \o <<op>>, S)) =
              Cardinality(OutcomeIn(os, S)) + (IF op.outcome \in S THEN 1 ELSE 0)
  BY CountOutcome, OutcomesCounted
<1>12. ASSUME op.outcome = "allowed"
       PROVE  OpsTold(s2, os \o <<op>>, ds \o <<d>>)
  <2>1. /\ Cardinality(OutcomeIn(os \o <<op>>, {"denied"})) = Cardinality(OutcomeIn(os, {"denied"}))
        /\ Cardinality(OutcomeIn(os \o <<op>>, {"success"})) = Cardinality(OutcomeIn(os, {"success"}))
        /\ Cardinality(OutcomeIn(os \o <<op>>, FailedOutcomes)) =
             Cardinality(OutcomeIn(os, FailedOutcomes))
    <3>1. "allowed" \notin FailedOutcomes
      BY DEF FailedOutcomes
    <3>2. QED
      BY <1>11, <1>12, <3>1 DEF OutcomeSets
  <2>2. QED
    BY ZenonT(60), <1>8, <1>9, <1>10, <2>1 DEF OpsTold, EventTypes
<1>13. ASSUME op.outcome = "denied"
       PROVE  OpsTold(s3, os \o <<op>>, ds \o <<d>>)
  <2>1. /\ Cardinality(OutcomeIn(os \o <<op>>, {"denied"})) = Cardinality(OutcomeIn(os, {"denied"})) + 1
        /\ Cardinality(OutcomeIn(os \o <<op>>, {"success"})) = Cardinality(OutcomeIn(os, {"success"}))
        /\ Cardinality(OutcomeIn(os \o <<op>>, FailedOutcomes)) =
             Cardinality(OutcomeIn(os, FailedOutcomes))
    <3>1. "denied" \notin FailedOutcomes
      BY DEF FailedOutcomes
    <3>2. QED
      BY <1>11, <1>13, <3>1 DEF OutcomeSets
  <2>2. QED
    BY ZenonT(60), <1>8, <1>9, <1>10, <2>1 DEF OpsTold, EventTypes
<1>14. QED
  BY <1>7, <1>12, <1>13 DEF s1, s2, s3

(* The outcome of the last call. *)
LEMMA OutcomeTold ==
  ASSUME NEW os \in Seq(OpRows), os # <<>>, os[Len(os)].outcome = "allowed", NEW o \in Outcomes
  PROVE  LET q == [os EXCEPT ![Len(os)].outcome = o]
         IN  /\ Len(q) = Len(os)
             /\ Cardinality(OutcomeIn(q, {"denied"})) = Cardinality(OutcomeIn(os, {"denied"}))
             /\ Cardinality(OutcomeIn(q, FailedOutcomes)) =
                  Cardinality(OutcomeIn(os, FailedOutcomes)) + (IF o \in FailedOutcomes THEN 1 ELSE 0)
             /\ Cardinality(OutcomeIn(q, {"success"})) =
                  Cardinality(OutcomeIn(os, {"success"})) + (IF o = "success" THEN 1 ELSE 0)
             /\ \A S \in OutcomeSets : Cardinality(OutcomeIn(os, S)) \in Nat
<1> DEFINE q == [os EXCEPT ![Len(os)].outcome = o]
<1>1. o # "denied" /\ "allowed" \notin FailedOutcomes
  BY DEF Outcomes, FailedOutcomes
<1>2. \A S \in OutcomeSets : Cardinality(OutcomeIn(os, S)) \in Nat
  BY OutcomesCounted
<1>3. Cardinality(OutcomeIn(q, {"denied"})) = Cardinality(OutcomeIn(os, {"denied"}))
  <2>1. Cardinality(OutcomeIn(q, {"denied"})) =
          Cardinality(OutcomeIn(os, {"denied"})) + (IF o \in {"denied"} THEN 1 ELSE 0)
    BY OutcomeSet
  <2>2. QED
    BY <1>1, <1>2, <2>1 DEF OutcomeSets
<1>4. Cardinality(OutcomeIn(q, FailedOutcomes)) =
        Cardinality(OutcomeIn(os, FailedOutcomes)) + (IF o \in FailedOutcomes THEN 1 ELSE 0)
  BY <1>1, OutcomeSet
<1>5. Cardinality(OutcomeIn(q, {"success"})) =
        Cardinality(OutcomeIn(os, {"success"})) + (IF o \in {"success"} THEN 1 ELSE 0)
  BY OutcomeSet
<1>6. Len(q) = Len(os)
  OBVIOUS
<1>7. QED
  BY <1>2, <1>3, <1>4, <1>5, <1>6

LEMMA ToolSpent ==
  ASSUME NEW l \in Ledgers
  PROVE  LET m == [l EXCEPT !.tool = @ + 1]
         IN  /\ m \in Ledgers /\ m.tool = l.tool + 1 /\ m.items = l.items /\ m.bytes = l.bytes
             /\ m.model = l.model /\ m.retries = l.retries
BY DEF Ledgers

(* A call made: one consumption, and the events of its outcome. *)
LEMMA RunTold ==
  ASSUME NEW s \in Seq(EventRows), NEW os \in Seq(OpRows), NEW ds, NEW l \in Ledgers,
         OpsTold(s, os, ds), LedgerTold(s, l),
         os # <<>>, os[Len(os)].outcome = "allowed",
         NEW a \in EventRows, a.type = "source_accessed",
         NEW b \in EventRows, b.type = "tool_result",
         NEW c \in EventRows, c.type = "tool_failure",
         NEW o \in Outcomes
  PROVE  LET m == [l EXCEPT !.tool = @ + 1]
             q == [os EXCEPT ![Len(os)].outcome = o]
             t == s \o <<Consumed("tool_operation", 1, m)>>
         IN  /\ o = "success" => /\ OpsTold((t \o <<a>>) \o <<b>>, q, ds)
                                /\ LedgerTold((t \o <<a>>) \o <<b>>, m)
             /\ o \in FailedOutcomes => OpsTold(t \o <<c>>, q, ds) /\ LedgerTold(t \o <<c>>, m)
             /\ o = "pending" => OpsTold(t, q, ds) /\ LedgerTold(t, m)
<1> DEFINE m == [l EXCEPT !.tool = @ + 1]
           q == [os EXCEPT ![Len(os)].outcome = o]
           t == s \o <<Consumed("tool_operation", 1, m)>>
           u == t \o <<a>>
           v == u \o <<b>>
           w == t \o <<c>>
<1>1. /\ m \in Ledgers /\ m.tool = l.tool + 1 /\ m.items = l.items /\ m.bytes = l.bytes
      /\ m.model = l.model /\ m.retries = l.retries
  BY ToolSpent, Zenon
<1>2. Len(q) = Len(os)
  OBVIOUS
<1>3. /\ Cardinality(OutcomeIn(q, {"denied"})) = Cardinality(OutcomeIn(os, {"denied"}))
      /\ Cardinality(OutcomeIn(q, FailedOutcomes)) =
           Cardinality(OutcomeIn(os, FailedOutcomes)) + (IF o \in FailedOutcomes THEN 1 ELSE 0)
      /\ Cardinality(OutcomeIn(q, {"success"})) =
           Cardinality(OutcomeIn(os, {"success"})) + (IF o = "success" THEN 1 ELSE 0)
      /\ \A S \in OutcomeSets : Cardinality(OutcomeIn(os, S)) \in Nat
  BY OutcomeTold
<1> HIDE DEF m, q
<1>4. Consumed("tool_operation", 1, m) \in EventRows
  BY <1>1, ConsumptionRow DEF Kinds
<1>5. t \in Seq(EventRows)
  BY <1>4
<1>6. u \in Seq(EventRows)
  BY <1>5
<1>7. {"source_accessed", "tool_result", "tool_failure"} \subseteq EventTypes \ {"budget_consumed"}
  BY DEF EventTypes
<1>8. /\ CountsOf(t) = [CountsOf(s) EXCEPT !["budget_consumed"] = @ + 1]
      /\ KindsOf(t) = [KindsOf(s) EXCEPT !["tool_operation"] = @ + 1]
      /\ LastSnapshot(t, m)
  <2>1. "tool_operation" \in Kinds
    BY DEF Kinds
  <2>2. QED
    BY <2>1, ConsumptionEvent, Zenon
<1> HIDE DEF t
<1>9. /\ CountsOf(u) = [CountsOf(t) EXCEPT !["source_accessed"] = @ + 1]
      /\ KindsOf(u) = KindsOf(t) /\ LastSnapshot(u, m)
  <2>1. /\ CountsOf(u) = [CountsOf(t) EXCEPT ![a.type] = @ + 1]
        /\ KindsOf(u) = KindsOf(t)
        /\ \A k : LastSnapshot(t, k) => LastSnapshot(u, k)
    BY <1>5, <1>7, OtherEvent, Zenon
  <2>2. QED
    BY <1>8, <2>1
<1> HIDE DEF u
<1>10. /\ CountsOf(v) = [CountsOf(u) EXCEPT !["tool_result"] = @ + 1]
       /\ KindsOf(v) = KindsOf(t) /\ LastSnapshot(v, m)
  <2>1. /\ CountsOf(v) = [CountsOf(u) EXCEPT ![b.type] = @ + 1]
        /\ KindsOf(v) = KindsOf(u)
        /\ \A k : LastSnapshot(u, k) => LastSnapshot(v, k)
    BY <1>6, <1>7, OtherEvent, Zenon
  <2>2. QED
    BY <1>9, <2>1
<1> HIDE DEF v
<1>11. /\ CountsOf(w) = [CountsOf(t) EXCEPT !["tool_failure"] = @ + 1]
       /\ KindsOf(w) = KindsOf(t) /\ LastSnapshot(w, m)
  <2>1. /\ CountsOf(w) = [CountsOf(t) EXCEPT ![c.type] = @ + 1]
        /\ KindsOf(w) = KindsOf(t)
        /\ \A k : LastSnapshot(t, k) => LastSnapshot(w, k)
    BY <1>5, <1>7, OtherEvent, Zenon
  <2>2. QED
    BY <1>8, <2>1
<1> HIDE DEF w
<1>12. CountsOf(s) \in [EventTypes -> Nat] /\ KindsOf(s) \in [Kinds -> Nat]
  BY CountsTyped
<1>13. LedgerTold(t, m) /\ LedgerTold(v, m) /\ LedgerTold(w, m)
  <2>1. /\ KindsOf(t)["tool_operation"] = m.tool /\ KindsOf(t)["model_call"] = m.model
        /\ KindsOf(t)["evidence"] = m.items
        /\ KindsOf(t)["retry"] = m.retries["get_alert"] + m.retries["get_events"]
    BY <1>1, <1>8, <1>12 DEF LedgerTold, Kinds
  <2>2. QED
    BY <1>8, <1>10, <1>11, <2>1 DEF LedgerTold
<1>14. ASSUME o = "success"
       PROVE  OpsTold(v, q, ds)
  <2>1. "success" \notin FailedOutcomes
    BY DEF FailedOutcomes
  <2>2. /\ CountsOf(v)["source_accessed"] = CountsOf(s)["source_accessed"] + 1
        /\ CountsOf(v)["tool_result"] = CountsOf(s)["tool_result"] + 1
        /\ \A k \in EventTypes \ {"source_accessed", "tool_result", "budget_consumed"} :
             CountsOf(v)[k] = CountsOf(s)[k]
    <3>1. CountsOf(t) \in [EventTypes -> Nat] /\ CountsOf(u) \in [EventTypes -> Nat]
      BY <1>5, <1>6, CountsTyped
    <3>2. \A k \in EventTypes :
            /\ CountsOf(t)[k] = CountsOf(s)[k] + (IF k = "budget_consumed" THEN 1 ELSE 0)
            /\ CountsOf(u)[k] = CountsOf(t)[k] + (IF k = "source_accessed" THEN 1 ELSE 0)
            /\ CountsOf(v)[k] = CountsOf(u)[k] + (IF k = "tool_result" THEN 1 ELSE 0)
      BY <1>8, <1>9, <1>10, <1>12, <3>1
    <3>3. QED
      BY SMTT(30), <1>12, <3>1, <3>2 DEF EventTypes
  <2>3. Cardinality(OutcomeIn(q, FailedOutcomes)) = Cardinality(OutcomeIn(os, FailedOutcomes))
    BY <1>3, <1>14, <2>1 DEF OutcomeSets
  <2>4. QED
    BY <1>2, <1>3, <1>14, <2>2, <2>3 DEF OpsTold, EventTypes
<1>15. ASSUME o \in FailedOutcomes
       PROVE  OpsTold(w, q, ds)
  <2>1. o # "success"
    BY <1>15 DEF FailedOutcomes
  <2>2. /\ CountsOf(w)["tool_failure"] = CountsOf(s)["tool_failure"] + 1
        /\ \A k \in EventTypes \ {"tool_failure", "budget_consumed"} :
             CountsOf(w)[k] = CountsOf(s)[k]
    BY <1>8, <1>11, <1>12 DEF EventTypes
  <2>3. Cardinality(OutcomeIn(q, {"success"})) = Cardinality(OutcomeIn(os, {"success"}))
    BY <1>3, <2>1 DEF OutcomeSets
  <2>4. QED
    BY <1>2, <1>3, <1>15, <2>2, <2>3 DEF OpsTold, EventTypes
<1>16. ASSUME o = "pending"
       PROVE  OpsTold(t, q, ds)
  <2>1. o # "success" /\ o \notin FailedOutcomes
    BY <1>16 DEF FailedOutcomes
  <2>2. \A k \in EventTypes \ {"budget_consumed"} : CountsOf(t)[k] = CountsOf(s)[k]
    BY <1>8, <1>12 DEF EventTypes
  <2>3. /\ Cardinality(OutcomeIn(q, FailedOutcomes)) = Cardinality(OutcomeIn(os, FailedOutcomes))
        /\ Cardinality(OutcomeIn(q, {"success"})) = Cardinality(OutcomeIn(os, {"success"}))
    BY <1>3, <2>1 DEF OutcomeSets
  <2>4. QED
    BY <1>2, <1>3, <2>2, <2>3 DEF OpsTold, EventTypes
<1>17. QED
  BY <1>13, <1>14, <1>15, <1>16 DEF m, q, t, u, v, w

(* A call that the clock ended before it was made. *)
LEMMA PendingTold ==
  ASSUME NEW s, NEW os \in Seq(OpRows), NEW ds, OpsTold(s, os, ds),
         os # <<>>, os[Len(os)].outcome = "allowed"
  PROVE  OpsTold(s, [os EXCEPT ![Len(os)].outcome = "pending"], ds)
<1> DEFINE q == [os EXCEPT ![Len(os)].outcome = "pending"]
<1>1. "pending" \in Outcomes /\ "pending" \notin FailedOutcomes
  BY DEF Outcomes, FailedOutcomes
<1>2. Len(q) = Len(os)
  OBVIOUS
<1>3. /\ Cardinality(OutcomeIn(q, {"denied"})) = Cardinality(OutcomeIn(os, {"denied"}))
      /\ Cardinality(OutcomeIn(q, FailedOutcomes)) =
           Cardinality(OutcomeIn(os, FailedOutcomes)) + (IF "pending" \in FailedOutcomes THEN 1 ELSE 0)
      /\ Cardinality(OutcomeIn(q, {"success"})) =
           Cardinality(OutcomeIn(os, {"success"})) + (IF "pending" = "success" THEN 1 ELSE 0)
      /\ \A S \in OutcomeSets : Cardinality(OutcomeIn(os, S)) \in Nat
  BY <1>1, OutcomeTold
<1> HIDE DEF q
<1>4. /\ Cardinality(OutcomeIn(q, FailedOutcomes)) = Cardinality(OutcomeIn(os, FailedOutcomes))
      /\ Cardinality(OutcomeIn(q, {"success"})) = Cardinality(OutcomeIn(os, {"success"}))
  BY <1>1, <1>3 DEF OutcomeSets
<1>5. OpsTold(s, q, ds)
  BY <1>2, <1>3, <1>4 DEF OpsTold
<1>6. QED
  BY <1>5 DEF q

(* A consumption outside a call. *)
LEMMA SpendTold ==
  ASSUME NEW s \in Seq(EventRows), NEW os, NEW ds, NEW l \in Ledgers, NEW m \in Ledgers,
         OpsTold(s, os, ds), LedgerTold(s, l), NEW kind \in Kinds \ {"tool_operation"},
         m.tool = l.tool,
         m.items = l.items + (IF kind = "evidence" THEN 1 ELSE 0),
         m.model = l.model + (IF kind = "model_call" THEN 1 ELSE 0),
         m.retries["get_alert"] + m.retries["get_events"] =
           l.retries["get_alert"] + l.retries["get_events"] + (IF kind = "retry" THEN 1 ELSE 0)
  PROVE  LET t == s \o <<Consumed(kind, 1, m)>>
         IN  OpsTold(t, os, ds) /\ LedgerTold(t, m)
<1> DEFINE t == s \o <<Consumed(kind, 1, m)>>
<1>1. /\ CountsOf(t) = [CountsOf(s) EXCEPT !["budget_consumed"] = @ + 1]
      /\ KindsOf(t) = [KindsOf(s) EXCEPT ![kind] = @ + 1]
      /\ LastSnapshot(t, m)
  BY ConsumptionEvent, Zenon
<1> HIDE DEF t
<1>2. CountsOf(s) \in [EventTypes -> Nat] /\ KindsOf(s) \in [Kinds -> Nat]
  BY CountsTyped
<1>3. OpsTold(t, os, ds)
  <2>1. \A k \in EventTypes \ {"budget_consumed"} : CountsOf(t)[k] = CountsOf(s)[k]
    BY <1>1, <1>2 DEF EventTypes
  <2>2. QED
    BY <2>1 DEF OpsTold, EventTypes
<1>4. LedgerTold(t, m)
  <2>1. \A k \in Kinds : KindsOf(t)[k] = KindsOf(s)[k] + (IF k = kind THEN 1 ELSE 0)
    BY <1>1, <1>2
  <2>2. QED
    BY <1>1, <2>1 DEF LedgerTold, Kinds
<1>5. QED
  BY <1>3, <1>4 DEF t

-----------------------------------------------------------------------------
(* The invariant is kept, part by part.                                    *)

(* A case keeps its limits, and what it has spent. *)
LEMMA OnlyMore ==
  ASSUME IInv, [Next]_vars
  PROVE  \/ \E how \in {"api", "cli"}, o \in Overrides : Create(how, o)
         \/ /\ UNCHANGED <<entry, asked, limits, grants>>
            /\ ledger.tool <= ledger'.tool /\ elapsed <= elapsed'
<1>1. ledger \in Ledgers /\ ledger.tool \in Nat /\ elapsed \in Nat
  BY ClockAssumption DEF IInv, Typed, TypeOK, Ledgers
<1>2. ASSUME NEW name \in Names, NEW permitted \in Permissions, Invoke(name, permitted)
      PROVE  /\ UNCHANGED <<entry, asked, limits, grants>>
             /\ ledger.tool <= ledger'.tool /\ elapsed <= elapsed'
  BY <1>1, <1>2 DEF Invoke, created
<1>3. ASSUME SpentMeanwhile
      PROVE  /\ UNCHANGED <<entry, asked, limits, grants>>
             /\ ledger.tool <= ledger'.tool /\ elapsed <= elapsed'
  BY <1>1, <1>3 DEF SpentMeanwhile, created
<1>4. ASSUME NEW o \in Outcomes, Run(o)
      PROVE  /\ UNCHANGED <<entry, asked, limits, grants>>
             /\ ledger.tool <= ledger'.tool /\ elapsed <= elapsed'
  <2>1. ledger' = [ledger EXCEPT !.tool = @ + 1] /\ UNCHANGED <<entry, asked, limits, grants, elapsed>>
    BY <1>4 DEF Run, created
  <2>2. ledger'.tool = ledger.tool + 1
    BY <1>1, <2>1, ToolSpent
  <2>3. QED
    BY <1>1, <2>1, <2>2
<1>5. ASSUME NEW kind, NEW l, Consumption(kind, l), Spending(kind, 1, l)
      PROVE  /\ UNCHANGED <<entry, asked, limits, grants>>
             /\ ledger.tool <= ledger'.tool /\ elapsed <= elapsed'
  <2>1. ledger' = l /\ UNCHANGED <<entry, asked, limits, grants, elapsed>>
    BY <1>5 DEF Spending, Spend, created
  <2>2. l.tool = ledger.tool
    BY <1>5, ConsumptionFacts
  <2>3. QED
    BY <1>1, <2>1, <2>2
<1>6. ASSUME UNCHANGED <<created, ledger, stored, decisions, ops, trail, spent>>,
             elapsed' = elapsed \/ Tick
      PROVE  /\ UNCHANGED <<entry, asked, limits, grants>>
             /\ ledger.tool <= ledger'.tool /\ elapsed <= elapsed'
  <2>1. elapsed <= elapsed'
    <3>1. CASE elapsed' = elapsed
      BY <1>1, <3>1
    <3>2. CASE Tick
      BY <1>1, <3>2, ClockAssumption DEF Tick
    <3>3. QED
      BY <1>6, <3>1, <3>2
  <2>2. QED
    BY <1>1, <1>6, <2>1 DEF created
<1>7. QED
  BY StepKinds, <1>2, <1>3, <1>4, <1>5, <1>6

(* What is merged is the six limits, and the request's values or defaults. *)
LEMMA MergedIs ==
  ASSUME NEW o
  PROVE  /\ DOMAIN Merged(o) = LimitNames
         /\ Merged(o) = [n \in LimitNames |-> Merged(o)[n]]
         /\ \A n \in LimitNames : Merged(o)[n] = IF n \in DOMAIN o THEN o[n] ELSE DefaultLimits[n]
BY DEF Merged

LEMMA PassedIs ==
  ASSUME NEW how, NEW o
  PROVE  /\ \A n : n \in DOMAIN Passed(how, o) <=> n \in DOMAIN o /\ ~(how = "cli" /\ o[n] = 0)
         /\ \A n \in DOMAIN Passed(how, o) : Passed(how, o)[n] = o[n]
BY DEF Passed

LEMMA WithinTyped ==
  ASSUME NEW o, Within(Merged(o))
  PROVE  Merged(o) \in [LimitNames -> Nat]
<1>1. \A n \in LimitNames : Merged(o)[n] \in Nat
  BY LimitFacts DEF Within
<1>2. QED
  BY <1>1, MergedIs

(* The limits are those asked for. *)
LEMMA LimitsKept ==
  ASSUME IInv, [Next]_vars
  PROVE  LimitsInForce'
<1>1. ASSUME NEW how \in {"api", "cli"}, NEW o \in Overrides, Create(how, o)
      PROVE  LimitsInForce'
  <2> DEFINE p == Passed(how, o)
             l == Merged(p)
  <2>1. /\ \A n : n \in DOMAIN p <=> n \in DOMAIN o /\ ~(how = "cli" /\ o[n] = 0)
        /\ \A n \in DOMAIN p : p[n] = o[n]
    BY PassedIs
  <2>2. \A n \in LimitNames : l[n] = IF n \in DOMAIN p THEN p[n] ELSE DefaultLimits[n]
    BY MergedIs
  <2> HIDE DEF p, l
  <2>3. CASE Within(l) /\ entry' = how /\ limits' = l
    <3>1. asked' = o
      BY <1>1, CreateFacts
    <3>2. \A n \in LimitNames :
            /\ limits'[n] = IF n \in DOMAIN asked' /\ ~(entry' = "cli" /\ asked'[n] = 0)
                            THEN asked'[n] ELSE DefaultLimits[n]
            /\ limits'[n] \in Bounds[n]
      BY <2>1, <2>2, <2>3, <3>1 DEF Within
    <3>3. entry' # "rejected"
      BY <2>3
    <3>4. QED
      BY <3>2, <3>3 DEF LimitsInForce, Taken
  <2>4. CASE ~Within(l) /\ entry' = "rejected"
    <3>1. asked' = o
      BY <1>1, CreateFacts
    <3>2. PICK n \in LimitNames : l[n] \notin Bounds[n]
      BY <2>4 DEF Within
    <3>3. n \in DOMAIN p
      BY <2>2, <3>2, LimitFacts
    <3>4. n \in LimitNames \cap DOMAIN asked' /\ asked'[n] \notin Bounds[n]
      BY <2>1, <2>2, <3>1, <3>2, <3>3
    <3>5. QED
      BY <2>4, <3>4 DEF LimitsInForce, Active
  <2>5. QED
    BY <1>1, <2>3, <2>4, CreateFacts DEF l, p
<1>2. ASSUME UNCHANGED <<entry, asked, limits, grants>>
      PROVE  LimitsInForce'
  BY <1>2 DEF IInv, LimitsInForce, Active, Taken
<1>3. QED
  BY <1>1, <1>2, OnlyMore

(* Variables and rows keep to their types. *)
LEMMA TypedNext ==
  ASSUME IInv,
         entry' \in {"none", "api", "cli", "rejected"}, limits' \in [LimitNames -> Nat],
         grants' \in Grants, elapsed' \in Clock, ledger' \in Ledgers, stored' \in Ledgers,
         spent' \in 0..MaxSteps,
         decisions' \in Seq(DecisionRows), ops' \in Seq(OpRows), trail' \in Seq(EventRows)
  PROVE  Typed'
<1>1. PICK ds, os, s : ds = decisions' /\ os = ops' /\ s = trail'
  OBVIOUS
<1>2. /\ \A i \in DOMAIN ds : ds[i].reason \in Reasons /\ ds[i].name \in Names
      /\ \A i \in DOMAIN os : os[i].outcome \in Outcomes \cup {"allowed", "denied"}
      /\ \A i \in DOMAIN s : s[i].type \in EventTypes
  BY <1>1, RowsSay
<1>3. TypeOK'
  BY <1>1, <1>2 DEF TypeOK
<1>4. QED
  BY <1>3 DEF Typed

LEMMA TypedKept ==
  ASSUME IInv, [Next]_vars
  PROVE  Typed'
<1>0. /\ entry \in {"none", "api", "cli", "rejected"} /\ limits \in [LimitNames -> Nat]
      /\ grants \in Grants /\ elapsed \in Clock /\ ledger \in Ledgers /\ stored \in Ledgers
      /\ spent \in 0..MaxSteps
      /\ decisions \in Seq(DecisionRows) /\ ops \in Seq(OpRows) /\ trail \in Seq(EventRows)
  BY DEF IInv, Typed, TypeOK
<1>1. ASSUME NEW how \in {"api", "cli"}, NEW o \in Overrides, Create(how, o)
      PROVE  Typed'
  <2>1. /\ entry' \in {"none", "api", "cli", "rejected"} /\ limits' \in [LimitNames -> Nat]
        /\ UNCHANGED <<grants, elapsed, ledger, stored, decisions, ops, trail, spent>>
    BY <1>0, <1>1, CreateFacts, WithinTyped
  <2>2. QED
    BY <1>0, <2>1, TypedNext
<1>2. ASSUME NEW name \in Names, NEW permitted \in Permissions, Invoke(name, permitted)
      PROVE  Typed'
  <2> DEFINE reason == Evaluate(name, permitted)
             d == [ name |-> name, permitted |-> permitted, reason |-> reason, used |-> ledger.tool ]
             op == Op(name, Len(ops) + 1, IF reason = "authorized" THEN "allowed" ELSE "denied")
             asking == (trail \o <<Requested(name)>>) \o <<Decided(name, reason)>>
  <2>1. /\ d \in DecisionRows /\ op \in OpRows
        /\ decisions' = decisions \o <<d>> /\ ops' = ops \o <<op>>
        /\ UNCHANGED <<created, elapsed, ledger, stored, spent>>
    BY <1>2, InvokeFacts
  <2>2. trail' = IF reason = "authorized" THEN asking ELSE asking \o <<Denial(name, reason)>>
    BY <1>2, InvokeTrail
  <2>3. reason \in Reasons
    BY EvaluateReasons
  <2> HIDE DEF d, op, reason
  <2>4. /\ Requested(name) \in EventRows /\ Decided(name, reason) \in EventRows
        /\ Denial(name, reason) \in EventRows
    BY <2>3, CallEvents DEF FailedOutcomes
  <2>5. asking \in Seq(EventRows) /\ asking \o <<Denial(name, reason)>> \in Seq(EventRows)
    BY <1>0, <2>4
  <2>6. trail' \in Seq(EventRows)
    BY <2>2, <2>5
  <2>7. decisions' \in Seq(DecisionRows) /\ ops' \in Seq(OpRows)
    BY <1>0, <2>1
  <2>8. UNCHANGED <<entry, limits, grants, elapsed, ledger, stored, spent>>
    BY <2>1 DEF created
  <2>9. QED
    BY <1>0, <2>6, <2>7, <2>8, TypedNext
<1>3. ASSUME SpentMeanwhile
      PROVE  Typed'
  <2>1. /\ UNCHANGED <<entry, limits, grants, elapsed, ledger, stored, decisions, trail, spent>>
        /\ InHand /\ SetOutcome("pending")
    BY <1>3 DEF SpentMeanwhile, created
  <2>2. ops' \in Seq(OpRows)
    BY <2>1, SetOutcomeFacts DEF Outcomes
  <2>3. QED
    BY <1>0, <2>1, <2>2, TypedNext
<1>4. ASSUME NEW o \in Outcomes, Run(o)
      PROVE  Typed'
  <2> DEFINE name == ops[Len(ops)].name
             l == [ledger EXCEPT !.tool = @ + 1]
             called == trail \o <<Consumed("tool_operation", 1, l)>>
  <2>1. /\ UNCHANGED <<entry, limits, grants, elapsed, decisions, spent>>
        /\ ledger' = l /\ stored' = l /\ InHand /\ SetOutcome(o)
    BY <1>4 DEF Run, created, Flushed
  <2>2. l \in Ledgers
    BY <1>0, ToolSpent
  <2>3. /\ o = "success" => trail' = (called \o <<Accessed(name)>>) \o <<Result(name)>>
        /\ o \in FailedOutcomes => trail' = called \o <<Failure(name, o)>>
        /\ o = "pending" => trail' = called
    BY <1>4, RunTrail
  <2>4. name \in Names
    BY <2>1, InHandFacts DEF OpRows
  <2> HIDE DEF l, name
  <2>5. Accessed(name) \in EventRows /\ Result(name) \in EventRows
    BY <2>4, CallEvents DEF FailedOutcomes, Reasons
  <2>6. o \in FailedOutcomes => Failure(name, o) \in EventRows
    BY <2>4, CallEvents DEF Reasons
  <2>7. Consumed("tool_operation", 1, l) \in EventRows
    BY <2>2, ConsumptionRow DEF Kinds
  <2>8. called \in Seq(EventRows)
    BY <1>0, <2>7
  <2> HIDE DEF called
  <2>9. trail' \in Seq(EventRows)
    <3>1. CASE o = "success"
      <4>1. called \o <<Accessed(name)>> \in Seq(EventRows)
        BY <2>5, <2>8
      <4>2. (called \o <<Accessed(name)>>) \o <<Result(name)>> \in Seq(EventRows)
        BY <2>5, <4>1
      <4>3. QED
        BY <2>3, <3>1, <4>2
    <3>2. CASE o \in FailedOutcomes
      BY <2>3, <2>6, <2>8, <3>2
    <3>3. CASE o = "pending"
      BY <2>3, <2>8, <3>3
    <3>4. QED
      BY <3>1, <3>2, <3>3 DEF Outcomes
  <2>10. ops' \in Seq(OpRows)
    BY <2>1, SetOutcomeFacts
  <2>11. QED
    BY <1>0, <2>1, <2>2, <2>9, <2>10, TypedNext
<1>5. ASSUME NEW kind, NEW l, Consumption(kind, l), Spending(kind, 1, l)
      PROVE  Typed'
  <2>1. /\ UNCHANGED <<entry, limits, grants, elapsed, decisions, ops>>
        /\ ledger' = l /\ stored' = l /\ spent' = spent + 1 /\ MayStep
        /\ trail' = trail \o <<Consumed(kind, 1, l)>>
    BY <1>5 DEF Spending, Spend, created, Flushed
  <2>2. l \in Ledgers /\ kind \in Kinds
    BY <1>5, ConsumptionFacts
  <2>3. Consumed(kind, 1, l) \in EventRows
    BY <2>2, ConsumptionRow
  <2>4. trail' \in Seq(EventRows)
    BY <1>0, <2>1, <2>3
  <2>5. spent' \in 0..MaxSteps
    <3>1. Len(ops) \in Nat /\ Len(ops) + spent < MaxSteps
      BY <1>0, <2>1 DEF MayStep
    <3>2. spent \in Nat /\ spent + 1 <= MaxSteps
      BY <1>0, <3>1, StepsAssumption
    <3>3. QED
      BY <2>1, <3>2, StepsAssumption
  <2>6. QED
    BY <1>0, <2>1, <2>2, <2>4, <2>5, TypedNext
<1>6. ASSUME UNCHANGED <<created, ledger, stored, decisions, ops, trail, spent>>,
             elapsed' = elapsed \/ Tick
      PROVE  Typed'
  <2>1. elapsed' \in Clock
    BY <1>0, <1>6 DEF Tick
  <2>2. UNCHANGED <<entry, limits, grants>>
    BY <1>6 DEF created
  <2>3. QED
    BY <1>0, <1>6, <2>1, <2>2, TypedNext
<1>7. QED
  BY StepKinds, <1>1, <1>2, <1>3, <1>4, <1>5, <1>6

LEMMA NothingBeforeKept ==
  ASSUME IInv, [Next]_vars
  PROVE  NothingBefore'
<1>1. ASSUME NEW how \in {"api", "cli"}, NEW o \in Overrides, Create(how, o)
      PROVE  NothingBefore'
  <2>1. /\ ledger' = ZeroLedger /\ decisions' = <<>> /\ ops' = <<>> /\ trail' = <<>>
    BY <1>1, CreateFacts
  <2>2. QED
    BY <2>1 DEF NothingBefore
<1>2. ASSUME UNCHANGED entry, Active
      PROVE  NothingBefore'
  BY <1>2 DEF NothingBefore, Active
<1>3. ASSUME UNCHANGED <<created, ledger, decisions, ops, trail>>
      PROVE  NothingBefore'
  BY <1>3 DEF IInv, NothingBefore, Active, created
<1>4. ASSUME NEW name \in Names, NEW permitted \in Permissions, Invoke(name, permitted)
      PROVE  UNCHANGED entry /\ Active
  BY <1>4 DEF Invoke, MayStep, created
<1>5. ASSUME SpentMeanwhile
      PROVE  UNCHANGED entry /\ Active
  BY <1>5, InHandFacts DEF SpentMeanwhile, created
<1>6. ASSUME NEW o \in Outcomes, Run(o)
      PROVE  UNCHANGED entry /\ Active
  BY <1>6, InHandFacts DEF Run, created
<1>7. ASSUME NEW kind, NEW l, Spending(kind, 1, l)
      PROVE  UNCHANGED entry /\ Active
  BY <1>7 DEF Spending, MayStep, created
<1>8. QED
  BY StepKinds, <1>1, <1>2, <1>3, <1>4, <1>5, <1>6, <1>7

LEMMA RowCurrentKept ==
  ASSUME IInv, [Next]_vars
  PROVE  RowCurrent'
<1>1. stored = ledger
  BY DEF IInv, RowCurrent
<1>2. ASSUME NEW how \in {"api", "cli"}, NEW o \in Overrides, Create(how, o)
      PROVE  stored' = ledger'
  BY <1>1, <1>2 DEF Create
<1>3. ASSUME NEW name \in Names, NEW permitted \in Permissions, Invoke(name, permitted)
      PROVE  stored' = ledger'
  BY <1>1, <1>3 DEF Invoke
<1>4. ASSUME NEW o \in Outcomes, Run(o)
      PROVE  stored' = ledger'
  BY <1>4 DEF Run, Flushed
<1>5. ASSUME NEW kind, NEW l, Spending(kind, 1, l)
      PROVE  stored' = ledger'
  BY <1>5 DEF Spending, Spend, Flushed
<1>6. CASE SpentMeanwhile
  BY <1>1, <1>6 DEF SpentMeanwhile, RowCurrent
<1>7. QED
  BY StepKinds, <1>1, <1>2, <1>3, <1>4, <1>5, <1>6 DEF RowCurrent

(* A call keeps the decision it was asked for with. *)
LEMMA CallsDecidedKept ==
  ASSUME IInv, [Next]_vars
  PROVE  CallsDecided'
<1>0. /\ decisions \in Seq(DecisionRows) /\ ops \in Seq(OpRows) /\ Len(ops) = Len(decisions)
      /\ \A i \in DOMAIN ops : /\ ops[i].decision = i /\ ops[i].name = decisions[i].name
                               /\ ops[i].outcome # "denied" => decisions[i].reason = "authorized"
  BY DEF IInv, Typed, CallsDecided
<1>1. ASSUME NEW name \in Names, NEW permitted \in Permissions, Invoke(name, permitted)
      PROVE  CallsDecided'
  <2> DEFINE reason == Evaluate(name, permitted)
             d == [ name |-> name, permitted |-> permitted, reason |-> reason, used |-> ledger.tool ]
             op == Op(name, Len(ops) + 1, IF reason = "authorized" THEN "allowed" ELSE "denied")
  <2>1. decisions' = decisions \o <<d>> /\ ops' = ops \o <<op>>
    BY <1>1, InvokeFacts
  <2>2. /\ d.name = name /\ d.reason = reason /\ op.name = name /\ op.decision = Len(ops) + 1
        /\ op.outcome = IF reason = "authorized" THEN "allowed" ELSE "denied"
    BY DEF Op
  <2> HIDE DEF d, op, reason
  <2>3. Len(ops') = Len(ops) + 1 /\ Len(decisions') = Len(decisions) + 1
    BY <1>0, <2>1
  <2>4. DOMAIN ops' = DOMAIN ops \cup {Len(ops) + 1} /\ DOMAIN ops = DOMAIN decisions
    BY <1>0, <2>1, AppendFacts
  <2>5. \A i \in DOMAIN ops : ops'[i] = ops[i] /\ decisions'[i] = decisions[i]
    BY <1>0, <2>1, <2>4, AppendFacts
  <2>6. ops'[Len(ops) + 1] = op /\ decisions'[Len(ops) + 1] = d
    <3>1. /\ (ops \o <<op>>)[Len(ops) + 1] = op
          /\ (decisions \o <<d>>)[Len(decisions) + 1] = d
      BY <1>0, AppendFacts
    <3>2. QED
      BY <1>0, <2>1, <3>1
  <2>7. \A i \in DOMAIN ops' :
          /\ ops'[i].decision = i /\ ops'[i].name = decisions'[i].name
          /\ ops'[i].outcome # "denied" => decisions'[i].reason = "authorized"
    BY <1>0, <2>2, <2>4, <2>5, <2>6
  <2>8. QED
    BY <1>0, <2>3, <2>7 DEF CallsDecided
<1>2. ASSUME NEW o \in Outcomes, InHand, SetOutcome(o), UNCHANGED decisions
      PROVE  CallsDecided'
  <2>1. /\ Len(ops') = Len(ops) /\ DOMAIN ops' = DOMAIN ops
        /\ \A i \in DOMAIN ops : i # Len(ops) => ops'[i] = ops[i]
        /\ ops'[Len(ops)].name = ops[Len(ops)].name
        /\ ops'[Len(ops)].decision = ops[Len(ops)].decision
    BY <1>2, SetOutcomeFacts
  <2>2. /\ ops[Len(ops)].decision = Len(ops) /\ ops[Len(ops)].name = decisions[Len(ops)].name
        /\ decisions[Len(ops)].reason = "authorized"
    BY <1>2, InHandFacts
  <2>3. \A i \in DOMAIN ops' :
          /\ ops'[i].decision = i /\ ops'[i].name = decisions'[i].name
          /\ ops'[i].outcome # "denied" => decisions'[i].reason = "authorized"
    BY <1>0, <1>2, <2>1, <2>2
  <2>4. QED
    BY <1>0, <1>2, <2>1, <2>3 DEF CallsDecided
<1>3. ASSUME UNCHANGED <<decisions, ops>>
      PROVE  CallsDecided'
  BY <1>3 DEF IInv, CallsDecided
<1>4. ASSUME NEW how \in {"api", "cli"}, NEW o \in Overrides, Create(how, o)
      PROVE  UNCHANGED <<decisions, ops>>
  BY <1>4 DEF Create
<1>5. ASSUME SpentMeanwhile
      PROVE  InHand /\ SetOutcome("pending") /\ UNCHANGED decisions
  BY <1>5 DEF SpentMeanwhile
<1>6. ASSUME NEW o \in Outcomes, Run(o)
      PROVE  InHand /\ SetOutcome(o) /\ UNCHANGED decisions
  BY <1>6 DEF Run
<1>7. ASSUME NEW kind, NEW l, Spending(kind, 1, l)
      PROVE  UNCHANGED <<decisions, ops>>
  BY <1>7 DEF Spending
<1>8. "pending" \in Outcomes
  BY DEF Outcomes
<1>9. QED
  BY StepKinds, <1>1, <1>2, <1>3, <1>4, <1>5, <1>6, <1>7, <1>8

(* A budget that has run out does not come back. *)
LEMMA ExhaustionKept ==
  ASSUME IInv, [Next]_vars, ~CanRunTool, decisions' # <<>>
  PROVE  ~CanRunTool'
<1>1. /\ ledger.tool \in Nat /\ elapsed \in Nat /\ ledger'.tool \in Nat /\ elapsed' \in Nat
      /\ limits["max_tool_operations"] \in Nat /\ limits["max_elapsed_seconds"] \in Nat
  <2>1. Typed /\ Typed'
    BY TypedKept DEF IInv
  <2>2. QED
    BY <2>1, LimitFacts, ClockAssumption DEF Typed, TypeOK, Ledgers
<1>2. UNCHANGED limits /\ ledger.tool <= ledger'.tool /\ elapsed <= elapsed'
  <2>1. ASSUME NEW how \in {"api", "cli"}, NEW o \in Overrides, Create(how, o)
        PROVE  FALSE
    BY <2>1, CreateFacts
  <2>2. QED
    BY <2>1, OnlyMore
<1>3. QED
  BY <1>1, <1>2 DEF CanRunTool

(* Decisions grow by one evaluation, or stay. *)
LEMMA DecisionsGrow ==
  ASSUME IInv, [Next]_vars
  PROVE  \/ UNCHANGED decisions
         \/ \E name \in Names, permitted \in Permissions : Invoke(name, permitted)
<1>1. ASSUME NEW how \in {"api", "cli"}, NEW o \in Overrides, Create(how, o)
      PROVE  UNCHANGED decisions
  BY <1>1 DEF Create
<1>2. ASSUME NEW o \in Outcomes, Run(o)
      PROVE  UNCHANGED decisions
  BY <1>2 DEF Run
<1>3. ASSUME NEW kind, NEW l, Spending(kind, 1, l)
      PROVE  UNCHANGED decisions
  BY <1>3 DEF Spending
<1>4. CASE SpentMeanwhile
  BY <1>4 DEF SpentMeanwhile
<1>5. QED
  BY StepKinds, <1>1, <1>2, <1>3, <1>4

(* One more decision: what its reason says. *)
LEMMA NewDecision ==
  ASSUME IInv, NEW name \in Names, NEW permitted \in Permissions, Invoke(name, permitted)
  PROVE  /\ DOMAIN decisions' = DOMAIN decisions \cup {Len(decisions) + 1}
         /\ Len(decisions) + 1 \notin DOMAIN decisions
         /\ \A i \in DOMAIN decisions : decisions'[i] = decisions[i]
         /\ decisions'[Len(decisions) + 1].name = name
         /\ decisions'[Len(decisions) + 1].permitted = permitted
         /\ decisions'[Len(decisions) + 1].reason = Evaluate(name, permitted)
         /\ decisions'[Len(decisions) + 1].used = ledger.tool
         /\ UNCHANGED <<limits, grants, ledger, elapsed>>
<1> DEFINE d == [ name |-> name, permitted |-> permitted,
                  reason |-> Evaluate(name, permitted), used |-> ledger.tool ]
<1>1. decisions \in Seq(DecisionRows)
  BY DEF IInv, Typed
<1>2. decisions' = decisions \o <<d>> /\ UNCHANGED <<limits, grants, ledger, elapsed>>
  BY DEF Invoke, created
<1>0. /\ d.name = name /\ d.permitted = permitted
      /\ d.reason = Evaluate(name, permitted) /\ d.used = ledger.tool
  OBVIOUS
<1> HIDE DEF d
<1>3. /\ DOMAIN decisions' = DOMAIN decisions \cup {Len(decisions) + 1}
      /\ Len(decisions) + 1 \notin DOMAIN decisions
      /\ decisions'[Len(decisions) + 1] = d
      /\ \A i \in DOMAIN decisions : decisions'[i] = decisions[i]
  BY <1>1, <1>2, AppendFacts
<1>4. QED
  BY <1>0, <1>2, <1>3

LEMMA StaysExhaustedKept ==
  ASSUME IInv, [Next]_vars
  PROVE  StaysExhausted'
<1>1. CASE UNCHANGED decisions
  <2>1. ASSUME NEW i \in DOMAIN decisions', decisions'[i].reason = "budget_exhausted"
        PROVE  ~CanRunTool'
    <3>1. decisions' # <<>> /\ i \in DOMAIN decisions /\ decisions[i].reason = "budget_exhausted"
      BY <1>1, <2>1
    <3>2. ~CanRunTool
      BY <3>1 DEF IInv, StaysExhausted
    <3>3. QED
      BY <3>1, <3>2, ExhaustionKept
  <2>2. QED
    BY <2>1 DEF StaysExhausted
<1>2. ASSUME NEW name \in Names, NEW permitted \in Permissions, Invoke(name, permitted)
      PROVE  StaysExhausted'
  <2>1. CanRunTool' = CanRunTool
    BY <1>2, NewDecision DEF CanRunTool
  <2>2. \A i \in DOMAIN decisions : decisions[i].reason = "budget_exhausted" => ~CanRunTool
    BY DEF IInv, StaysExhausted
  <2>3. Evaluate(name, permitted) = "budget_exhausted" => ~CanRunTool
    BY EvaluateReasons
  <2>4. \A i \in DOMAIN decisions' : decisions'[i].reason = "budget_exhausted" => ~CanRunTool
    BY <1>2, <2>2, <2>3, NewDecision
  <2>5. QED
    BY <2>1, <2>4 DEF StaysExhausted
<1>3. QED
  BY <1>1, <1>2, DecisionsGrow

LEMMA DenialStandsKept ==
  ASSUME IInv, [Next]_vars
  PROVE  DenialStands'
<1>1. CASE UNCHANGED decisions
  BY <1>1 DEF IInv, DenialStands
<1>2. ASSUME NEW name \in Names, NEW permitted \in Permissions, Invoke(name, permitted)
      PROVE  DenialStands'
  <2>1. decisions \in Seq(DecisionRows) /\ Len(decisions) \in Nat /\ DOMAIN decisions = 1..Len(decisions)
    BY DEF IInv, Typed
  <2>2. ASSUME NEW i \in DOMAIN decisions', NEW j \in DOMAIN decisions', i < j,
               decisions'[i].reason = "budget_exhausted"
        PROVE  decisions'[j].reason # "authorized"
    <3>1. i \in DOMAIN decisions /\ decisions[i].reason = "budget_exhausted"
      <4>1. DOMAIN decisions' = DOMAIN decisions \cup {Len(decisions) + 1}
        BY <1>2, NewDecision
      <4>2. i \in DOMAIN decisions
        BY <2>1, <2>2, <4>1
      <4>3. QED
        BY <1>2, <2>2, <4>2, NewDecision
    <3>2. CASE j \in DOMAIN decisions
      BY <1>2, <2>2, <3>1, <3>2, NewDecision DEF IInv, DenialStands
    <3>3. CASE j = Len(decisions) + 1
      <4>1. ~CanRunTool
        BY <3>1 DEF IInv, StaysExhausted
      <4>2. decisions'[j].reason = Evaluate(name, permitted)
        BY <1>2, <3>3, NewDecision
      <4>3. QED
        BY <4>1, <4>2, EvaluateReasons
    <3>4. QED
      BY <1>2, <3>2, <3>3, NewDecision
  <2>3. QED
    BY <2>2 DEF DenialStands
<1>3. QED
  BY <1>1, <1>2, DecisionsGrow

LEMMA LedgerKept ==
  ASSUME IInv, [Next]_vars
  PROVE  LedgerWithinLimits'
<1>1. /\ limits' \in [LimitNames -> Nat] /\ limits \in [LimitNames -> Nat] /\ ledger \in Ledgers
      /\ LedgerWithinLimits
  BY TypedKept DEF IInv, Typed, TypeOK
<1>2. ASSUME NEW how \in {"api", "cli"}, NEW o \in Overrides, Create(how, o)
      PROVE  LedgerWithinLimits'
  <2>1. ledger' = ZeroLedger
    BY <1>2, CreateFacts
  <2>2. \A n \in LimitNames : 0 <= limits'[n]
    BY <1>1
  <2>3. QED
    BY <2>1, <2>2, LimitFacts DEF LedgerWithinLimits, ZeroLedger
<1>3. ASSUME UNCHANGED <<limits, ledger>>
      PROVE  LedgerWithinLimits'
  BY <1>1, <1>3 DEF LedgerWithinLimits
<1>4. ASSUME NEW o \in Outcomes, Run(o)
      PROVE  LedgerWithinLimits'
  <2>1. ledger' = [ledger EXCEPT !.tool = @ + 1] /\ limits' = limits
        /\ ledger.tool < limits["max_tool_operations"]
    BY <1>4 DEF Run, CanRunTool, created
  <2>2. /\ ledger'.tool = ledger.tool + 1 /\ ledger'.items = ledger.items
        /\ ledger'.bytes = ledger.bytes /\ ledger'.model = ledger.model
        /\ ledger'.retries = ledger.retries
    BY <1>1, <2>1, ToolSpent
  <2>3. ledger.tool \in Nat /\ limits["max_tool_operations"] \in Nat
    BY <1>1, LimitFacts DEF Ledgers
  <2>4. QED
    BY <1>1, <2>1, <2>2, <2>3 DEF LedgerWithinLimits
<1>5. ASSUME NEW kind, NEW l, Consumption(kind, l), Spending(kind, 1, l)
      PROVE  LedgerWithinLimits'
  <2>1. ledger' = l /\ limits' = limits
    BY <1>5 DEF Spending, Spend, created
  <2>2. /\ l.tool = ledger.tool
        /\ l.items <= limits["max_evidence_items"] /\ l.bytes <= limits["max_evidence_bytes"]
        /\ l.model <= limits["max_model_calls"]
        /\ \A o \in Retried : l.retries[o] <= limits["max_retries_per_operation"]
    BY <1>5, ConsumptionFacts
  <2>3. QED
    BY <1>1, <2>1, <2>2 DEF LedgerWithinLimits
<1>6. ASSUME NEW name \in Names, NEW permitted \in Permissions, Invoke(name, permitted)
      PROVE  UNCHANGED <<limits, ledger>>
  BY <1>6 DEF Invoke, created
<1>7. CASE SpentMeanwhile
  BY <1>3, <1>7 DEF SpentMeanwhile, created
<1>8. CASE UNCHANGED <<created, ledger, stored, decisions, ops, trail, spent>>
  BY <1>3, <1>8 DEF created
<1>9. QED
  BY StepKinds, <1>2, <1>3, <1>4, <1>5, <1>6, <1>7, <1>8

(* Every access to a source in the trail is to one that may be asked. *)
AccessAllowed(s, g) ==
  \A i \in DOMAIN s :
    s[i].type = "source_accessed" => s[i].name.word \in Tools /\ ToolSource[s[i].name.word] \in g

LEMMA OneMoreAccess ==
  ASSUME NEW s \in Seq(EventRows), NEW e \in EventRows, NEW g, AccessAllowed(s, g),
         e.type = "source_accessed" => e.name.word \in Tools /\ ToolSource[e.name.word] \in g
  PROVE  s \o <<e>> \in Seq(EventRows) /\ AccessAllowed(s \o <<e>>, g)
<1>1. s \o <<e>> \in Seq(EventRows)
  OBVIOUS
<1>2. /\ DOMAIN (s \o <<e>>) = DOMAIN s \cup {Len(s) + 1} /\ (s \o <<e>>)[Len(s) + 1] = e
      /\ \A i \in DOMAIN s : (s \o <<e>>)[i] = s[i]
  BY AppendFacts
<1>3. AccessAllowed(s \o <<e>>, g)
  BY <1>2 DEF AccessAllowed
<1>4. QED
  BY <1>1, <1>3

LEMMA AccessKept ==
  ASSUME IInv, [Next]_vars
  PROVE  AccessAllowed(trail', grants')
<1>0. /\ trail \in Seq(EventRows) /\ ledger \in Ledgers
      /\ AccessAllowed(trail, grants)
  BY DEF IInv, Typed, TypeOK, AllowIsEarned, AccessAllowed
<1>1. ASSUME NEW how \in {"api", "cli"}, NEW o \in Overrides, Create(how, o)
      PROVE  AccessAllowed(trail', grants')
  <2>1. trail' = <<>>
    BY <1>1, CreateFacts
  <2>2. QED
    BY <2>1 DEF AccessAllowed
<1>2. ASSUME NEW name \in Names, NEW permitted \in Permissions, Invoke(name, permitted)
      PROVE  AccessAllowed(trail', grants')
  <2> DEFINE reason == Evaluate(name, permitted)
             a == trail \o <<Requested(name)>>
             b == a \o <<Decided(name, reason)>>
             c == b \o <<Denial(name, reason)>>
  <2>1. grants' = grants /\ trail' = IF reason = "authorized" THEN b ELSE c
    BY <1>2, InvokeTrail DEF Invoke, created
  <2>2. /\ Requested(name) \in EventRows /\ Requested(name).type = "tool_requested"
        /\ Decided(name, reason) \in EventRows
        /\ Decided(name, reason).type = "authorization_decision"
        /\ Denial(name, reason) \in EventRows /\ Denial(name, reason).type = "policy_denial"
    BY EvaluateReasons, CallEvents DEF FailedOutcomes
  <2> HIDE DEF reason
  <2>3. a \in Seq(EventRows) /\ AccessAllowed(a, grants)
    BY <1>0, <2>2, OneMoreAccess
  <2> HIDE DEF a
  <2>4. b \in Seq(EventRows) /\ AccessAllowed(b, grants)
    BY <2>2, <2>3, OneMoreAccess
  <2> HIDE DEF b
  <2>5. AccessAllowed(c, grants)
    BY <2>2, <2>4, OneMoreAccess
  <2> HIDE DEF c
  <2>6. QED
    BY <2>1, <2>4, <2>5
<1>3. ASSUME NEW o \in Outcomes, Run(o)
      PROVE  AccessAllowed(trail', grants')
  <2> DEFINE name == ops[Len(ops)].name
             l == [ledger EXCEPT !.tool = @ + 1]
             t == trail \o <<Consumed("tool_operation", 1, l)>>
             u == t \o <<Accessed(name)>>
             v == u \o <<Result(name)>>
             w == t \o <<Failure(name, o)>>
  <2>1. InHand /\ grants' = grants
    BY <1>3 DEF Run, created
  <2>2. name \in Names /\ l \in Ledgers
    BY <1>0, <2>1, InHandFacts, ToolSpent DEF OpRows
  <2>3. name.word \in Tools /\ ToolSource[name.word] \in grants
    BY <2>1, InHandFacts DEF IInv, AllowIsEarned
  <2>4. /\ o = "success" => trail' = v
        /\ o \in FailedOutcomes => trail' = w
        /\ o = "pending" => trail' = t
    BY <1>3, RunTrail
  <2> HIDE DEF name, l
  <2>5. /\ Accessed(name) \in EventRows /\ Accessed(name).name = name
        /\ Result(name) \in EventRows /\ Result(name).type = "tool_result"
    BY <2>2, CallEvents DEF FailedOutcomes, Reasons
  <2>6. o \in FailedOutcomes => /\ Failure(name, o) \in EventRows
                               /\ Failure(name, o).type = "tool_failure"
    BY <2>2, CallEvents DEF Reasons
  <2>7. /\ Consumed("tool_operation", 1, l) \in EventRows
        /\ Consumed("tool_operation", 1, l).type = "budget_consumed"
    BY <2>2, ConsumptionRow DEF Kinds
  <2>8. t \in Seq(EventRows) /\ AccessAllowed(t, grants)
    BY <1>0, <2>7, OneMoreAccess
  <2> HIDE DEF t
  <2>9. u \in Seq(EventRows) /\ AccessAllowed(u, grants)
    BY <2>3, <2>5, <2>8, OneMoreAccess
  <2> HIDE DEF u
  <2>10. AccessAllowed(v, grants)
    BY <2>5, <2>9, OneMoreAccess
  <2>11. o \in FailedOutcomes => AccessAllowed(w, grants)
    BY <2>6, <2>8, OneMoreAccess
  <2> HIDE DEF v, w
  <2>12. QED
    BY <2>1, <2>4, <2>8, <2>10, <2>11 DEF Outcomes
<1>4. ASSUME NEW kind, NEW l, Consumption(kind, l), Spending(kind, 1, l)
      PROVE  AccessAllowed(trail', grants')
  <2>1. grants' = grants /\ trail' = trail \o <<Consumed(kind, 1, l)>>
    BY <1>4 DEF Spending, Spend, created
  <2>2. l \in Ledgers /\ kind \in Kinds
    BY <1>4, ConsumptionFacts
  <2>3. Consumed(kind, 1, l) \in EventRows /\ Consumed(kind, 1, l).type = "budget_consumed"
    BY <2>2, ConsumptionRow
  <2>4. AccessAllowed(trail \o <<Consumed(kind, 1, l)>>, grants)
    BY <1>0, <2>3, OneMoreAccess
  <2>5. QED
    BY <2>1, <2>4
<1>5. ASSUME UNCHANGED <<trail, grants>>
      PROVE  AccessAllowed(trail', grants')
  BY <1>0, <1>5
<1>6. CASE SpentMeanwhile
  BY <1>5, <1>6 DEF SpentMeanwhile, created
<1>7. CASE UNCHANGED <<created, ledger, stored, decisions, ops, trail, spent>>
  BY <1>5, <1>7 DEF created
<1>8. QED
  BY StepKinds, <1>1, <1>2, <1>3, <1>4, <1>6, <1>7

(* What allows a call to go on. *)
Earned(d, g, most) ==
  d.reason = "authorized" =>
    /\ d.name.word \in d.permitted \cap Tools /\ d.name.spelt = {}
    /\ ToolSource[d.name.word] \in g
    /\ d.used < most

LEMMA EarnedKept ==
  ASSUME IInv, [Next]_vars
  PROVE  \A i \in DOMAIN decisions' : Earned(decisions'[i], grants', limits'["max_tool_operations"])
<1>0. \A i \in DOMAIN decisions : Earned(decisions[i], grants, limits["max_tool_operations"])
  BY DEF IInv, AllowIsEarned, Earned
<1>1. ASSUME NEW how \in {"api", "cli"}, NEW o \in Overrides, Create(how, o)
      PROVE  DOMAIN decisions' = {}
  BY <1>1, CreateFacts
<1>2. ASSUME NEW name \in Names, NEW permitted \in Permissions, Invoke(name, permitted)
      PROVE  \A i \in DOMAIN decisions' :
               Earned(decisions'[i], grants', limits'["max_tool_operations"])
  <2>1. Evaluate(name, permitted) = "authorized" =>
          Registered(name, permitted) /\ Authorized(name) /\ CanRunTool
    BY EvaluateReasons
  <2>2. LET d == decisions'[Len(decisions) + 1]
        IN  Earned(d, grants, limits["max_tool_operations"])
    BY <1>2, <2>1, NewDecision DEF Earned, Registered, Authorized, CanRunTool
  <2>3. QED
    BY <1>0, <1>2, <2>2, NewDecision
<1>3. CASE UNCHANGED decisions /\ UNCHANGED <<limits, grants>>
  BY <1>0, <1>3
<1>4. QED
  BY <1>1, <1>2, <1>3, DecisionsGrow, OnlyMore

LEMMA AllowKept ==
  ASSUME IInv, [Next]_vars
  PROVE  AllowIsEarned'
<1>1. CallsDecided'
  BY CallsDecidedKept
<1>2. \A i \in DOMAIN ops' :
        ops'[i].outcome # "denied" => decisions'[ops'[i].decision].reason = "authorized"
  BY <1>1 DEF CallsDecided
<1>3. \A i \in DOMAIN decisions' : Earned(decisions'[i], grants', limits'["max_tool_operations"])
  BY EarnedKept
<1>4. \A i \in DOMAIN trail' :
        trail'[i].type = "source_accessed" =>
          trail'[i].name.word \in Tools /\ ToolSource[trail'[i].name.word] \in grants'
  BY AccessKept DEF AccessAllowed
<1>5. QED
  BY <1>2, <1>3, <1>4 DEF AllowIsEarned, Earned

(* Each consumption is one of its kind. *)
LEMMA ConsumptionCounts ==
  ASSUME IInv, NEW kind, NEW m, Consumption(kind, m)
  PROVE  /\ kind \in Kinds \ {"tool_operation"}
         /\ m.items = ledger.items + (IF kind = "evidence" THEN 1 ELSE 0)
         /\ m.model = ledger.model + (IF kind = "model_call" THEN 1 ELSE 0)
         /\ m.retries["get_alert"] + m.retries["get_events"] =
              ledger.retries["get_alert"] + ledger.retries["get_events"]
                + (IF kind = "retry" THEN 1 ELSE 0)
<1>0. ledger \in Ledgers
  BY DEF IInv, Typed, TypeOK
<1>1. /\ ledger.items \in Nat /\ ledger.model \in Nat /\ ledger.retries \in [Retried -> Nat]
      /\ ledger.retries["get_alert"] \in Nat /\ ledger.retries["get_events"] \in Nat
  BY <1>0 DEF Ledgers, Retried
<1>2. ASSUME NEW size \in Sizes, kind = "evidence",
             m = [ledger EXCEPT !.items = @ + 1, !.bytes = @ + size]
      PROVE  /\ m.items = ledger.items + 1 /\ m.model = ledger.model
             /\ m.retries = ledger.retries
  BY <1>0, <1>2 DEF Ledgers
<1>3. ASSUME kind = "model_call", m = [ledger EXCEPT !.model = @ + 1]
      PROVE  /\ m.items = ledger.items /\ m.model = ledger.model + 1
             /\ m.retries = ledger.retries
  BY <1>0, <1>3 DEF Ledgers
<1>4. ASSUME NEW o \in Retried, kind = "retry", m = [ledger EXCEPT !.retries[o] = @ + 1]
      PROVE  /\ m.items = ledger.items /\ m.model = ledger.model
             /\ m.retries["get_alert"] + m.retries["get_events"] =
                  ledger.retries["get_alert"] + ledger.retries["get_events"] + 1
  <2>1. m = [ledger EXCEPT !.retries = [ledger.retries EXCEPT ![o] = ledger.retries[o] + 1]]
    BY <1>0, <1>4
  <2>2. /\ m.items = ledger.items /\ m.model = ledger.model
        /\ m.retries = [ledger.retries EXCEPT ![o] = ledger.retries[o] + 1]
    BY <1>0, <2>1 DEF Ledgers
  <2>3. CASE o = "get_alert"
    BY <1>1, <2>2, <2>3 DEF Retried
  <2>4. CASE o = "get_events"
    BY <1>1, <2>2, <2>4 DEF Retried
  <2>5. QED
    BY <2>2, <2>3, <2>4 DEF Retried
<1>5. kind \in {"evidence", "model_call", "retry"}
  BY DEF Consumption
<1>6. /\ kind = "evidence" => /\ m.items = ledger.items + 1 /\ m.model = ledger.model
                              /\ m.retries = ledger.retries
      /\ kind = "model_call" => /\ m.items = ledger.items /\ m.model = ledger.model + 1
                                /\ m.retries = ledger.retries
      /\ kind = "retry" => /\ m.items = ledger.items /\ m.model = ledger.model
                           /\ m.retries["get_alert"] + m.retries["get_events"] =
                                ledger.retries["get_alert"] + ledger.retries["get_events"] + 1
  BY <1>2, <1>3, <1>4 DEF Consumption
<1>7. CASE kind = "evidence"
  BY <1>1, <1>6, <1>7 DEF Kinds
<1>8. CASE kind = "model_call"
  BY <1>1, <1>6, <1>8 DEF Kinds
<1>9. CASE kind = "retry"
  BY <1>1, <1>6, <1>9 DEF Kinds
<1>10. QED
  BY <1>5, <1>7, <1>8, <1>9

LEMMA AccountsNext ==
  ASSUME NEW s, NEW os, NEW ds, NEW l,
         s = trail', os = ops', ds = decisions', l = ledger', OpsTold(s, os, ds), LedgerTold(s, l)
  PROVE  TrailAccounts'
BY DEF TrailAccounts, OpsTold, LedgerTold, CountsOf, KindsOf, LastSnapshot, OfTypeIn, OfKindIn,
       OutcomeIn, Number, OfType, OfKind, WithOutcome, EventTypes, Kinds

(* The trail goes on accounting for everything. *)
LEMMA AccountsKept ==
  ASSUME IInv, [Next]_vars
  PROVE  TrailAccounts'
<1>1. PICK s, os, ds, l : s = trail /\ os = ops /\ ds = decisions /\ l = ledger
  OBVIOUS
<1>2. /\ s \in Seq(EventRows) /\ os \in Seq(OpRows) /\ ds \in Seq(DecisionRows) /\ l \in Ledgers
  BY <1>1 DEF IInv, Typed, TypeOK
<1>3. OpsTold(s, os, ds) /\ LedgerTold(s, l)
  BY <1>1, TrailAccountsIs DEF IInv
<1>4. ASSUME UNCHANGED <<trail, ops, decisions, ledger>>
      PROVE  TrailAccounts'
  BY <1>1, <1>3, <1>4, AccountsNext
<1>5. ASSUME NEW how \in {"api", "cli"}, NEW o \in Overrides, Create(how, o)
      PROVE  UNCHANGED <<trail, ops, decisions, ledger>>
  BY <1>5 DEF Create
<1>6. ASSUME NEW name \in Names, NEW permitted \in Permissions, Invoke(name, permitted)
      PROVE  TrailAccounts'
  <2> DEFINE reason == Evaluate(name, permitted)
  <2>1. PICK r : r = reason
    OBVIOUS
  <2> DEFINE d == [ name |-> name, permitted |-> permitted, reason |-> reason, used |-> ledger.tool ]
             op == Op(name, Len(ops) + 1, IF reason = "authorized" THEN "allowed" ELSE "denied")
  <2>2. /\ d \in DecisionRows /\ op \in OpRows
        /\ decisions' = decisions \o <<d>> /\ ops' = ops \o <<op>> /\ ledger' = ledger
    BY <1>6, InvokeFacts
  <2>3. op.outcome = IF r = "authorized" THEN "allowed" ELSE "denied"
    BY <2>1 DEF Op
  <2>4. PICK dd, oo : dd = d /\ oo = op
    OBVIOUS
  <2>5. trail' = IF r = "authorized" THEN (s \o <<Requested(name)>>) \o <<Decided(name, r)>>
                 ELSE ((s \o <<Requested(name)>>) \o <<Decided(name, r)>>) \o <<Denial(name, r)>>
    BY <1>1, <1>6, <2>1, InvokeTrail
  <2>6. r \in Reasons
    BY <2>1, EvaluateReasons
  <2> HIDE DEF d, op, reason
  <2>7. /\ Requested(name) \in EventRows /\ Requested(name).type = "tool_requested"
        /\ Decided(name, r) \in EventRows /\ Decided(name, r).type = "authorization_decision"
        /\ Denial(name, r) \in EventRows /\ Denial(name, r).type = "policy_denial"
    BY <2>6, CallEvents DEF FailedOutcomes
  <2>8. /\ dd \in DecisionRows /\ oo \in OpRows
        /\ decisions' = ds \o <<dd>> /\ ops' = os \o <<oo>> /\ ledger' = l
        /\ oo.outcome = IF r = "authorized" THEN "allowed" ELSE "denied"
    BY <1>1, <2>2, <2>3, <2>4
  <2>9. PICK a, b, c : a = Requested(name) /\ b = Decided(name, r) /\ c = Denial(name, r)
    OBVIOUS
  <2>10. /\ oo.outcome = "allowed" =>
              /\ OpsTold((s \o <<a>>) \o <<b>>, os \o <<oo>>, ds \o <<dd>>)
              /\ LedgerTold((s \o <<a>>) \o <<b>>, l)
         /\ oo.outcome = "denied" =>
              /\ OpsTold(((s \o <<a>>) \o <<b>>) \o <<c>>, os \o <<oo>>, ds \o <<dd>>)
              /\ LedgerTold(((s \o <<a>>) \o <<b>>) \o <<c>>, l)
    BY <1>2, <1>3, <2>7, <2>8, <2>9, InvokeTold
  <2>11. CASE r = "authorized"
    BY <2>5, <2>8, <2>9, <2>10, <2>11, AccountsNext
  <2>12. CASE r # "authorized"
    BY <2>5, <2>8, <2>9, <2>10, <2>12, AccountsNext
  <2>13. QED
    BY <2>11, <2>12
<1>7. ASSUME SpentMeanwhile
      PROVE  TrailAccounts'
  <2>1. /\ ops' = [os EXCEPT ![Len(os)].outcome = "pending"]
        /\ trail' = s /\ decisions' = ds /\ ledger' = l
        /\ os # <<>> /\ os[Len(os)].outcome = "allowed"
    BY <1>1, <1>7 DEF SpentMeanwhile, SetOutcome, InHand
  <2>2. OpsTold(s, [os EXCEPT ![Len(os)].outcome = "pending"], ds)
    BY <1>2, <1>3, <2>1, PendingTold
  <2>3. QED
    BY <1>3, <2>1, <2>2, AccountsNext
<1>8. ASSUME NEW o \in Outcomes, Run(o)
      PROVE  TrailAccounts'
  <2> DEFINE m == [l EXCEPT !.tool = @ + 1]
             q == [os EXCEPT ![Len(os)].outcome = o]
             t == s \o <<Consumed("tool_operation", 1, m)>>
  <2>1. /\ ops' = q /\ decisions' = ds /\ ledger' = m /\ InHand
        /\ os # <<>> /\ os[Len(os)].outcome = "allowed"
    BY <1>1, <1>8 DEF Run, SetOutcome, InHand
  <2>2. PICK name : name = ops[Len(ops)].name
    OBVIOUS
  <2>3. name \in Names
    BY <2>1, <2>2, InHandFacts DEF OpRows
  <2>4. /\ o = "success" => trail' = (t \o <<Accessed(name)>>) \o <<Result(name)>>
        /\ o \in FailedOutcomes => trail' = t \o <<Failure(name, o)>>
        /\ o = "pending" => trail' = t
    BY <1>1, <1>8, <2>2, RunTrail
  <2>5. PICK a, b, c : /\ a = Accessed(name) /\ b = Result(name)
                       /\ c = Failure(name, IF o \in FailedOutcomes THEN o ELSE "failed")
    OBVIOUS
  <2>6. /\ a \in EventRows /\ a.type = "source_accessed" /\ b \in EventRows /\ b.type = "tool_result"
        /\ c \in EventRows /\ c.type = "tool_failure"
    <3>1. (IF o \in FailedOutcomes THEN o ELSE "failed") \in FailedOutcomes
      BY DEF FailedOutcomes
    <3>2. QED
      BY <2>3, <2>5, <3>1, CallEvents DEF Reasons
  <2>7. /\ o = "success" => OpsTold((t \o <<a>>) \o <<b>>, q, ds) /\ LedgerTold((t \o <<a>>) \o <<b>>, m)
        /\ o \in FailedOutcomes => OpsTold(t \o <<c>>, q, ds) /\ LedgerTold(t \o <<c>>, m)
        /\ o = "pending" => OpsTold(t, q, ds) /\ LedgerTold(t, m)
    BY ZenonT(60), <1>2, <1>3, <2>1, <2>6, RunTold
  <2> HIDE DEF m, q, t
  <2>8. CASE o = "success"
    BY <2>1, <2>4, <2>5, <2>7, <2>8, AccountsNext
  <2>9. CASE o \in FailedOutcomes
    BY <2>1, <2>4, <2>5, <2>7, <2>9, AccountsNext
  <2>10. CASE o = "pending"
    BY <2>1, <2>4, <2>7, <2>10, AccountsNext
  <2>11. QED
    BY <2>8, <2>9, <2>10 DEF Outcomes
<1>9. ASSUME NEW kind, NEW m, Consumption(kind, m), Spending(kind, 1, m)
      PROVE  TrailAccounts'
  <2>1. /\ UNCHANGED <<decisions, ops>> /\ ledger' = m
        /\ trail' = s \o <<Consumed(kind, 1, m)>>
    BY <1>1, <1>9 DEF Spending, Spend
  <2>2. m \in Ledgers /\ m.tool = l.tool
    BY <1>1, <1>9, ConsumptionFacts
  <2>3. /\ kind \in Kinds \ {"tool_operation"}
        /\ m.items = l.items + (IF kind = "evidence" THEN 1 ELSE 0)
        /\ m.model = l.model + (IF kind = "model_call" THEN 1 ELSE 0)
        /\ m.retries["get_alert"] + m.retries["get_events"] =
             l.retries["get_alert"] + l.retries["get_events"] + (IF kind = "retry" THEN 1 ELSE 0)
    BY <1>1, <1>2, <1>9, ConsumptionCounts
  <2>4. LET t == s \o <<Consumed(kind, 1, m)>>
        IN  OpsTold(t, os, ds) /\ LedgerTold(t, m)
    BY <1>2, <1>3, <2>2, <2>3, SpendTold
  <2>5. QED
    BY <1>1, <2>1, <2>4, AccountsNext
<1>10. CASE UNCHANGED <<created, ledger, stored, decisions, ops, trail, spent>>
  BY <1>4, <1>10
<1>11. QED
  BY StepKinds, <1>4, <1>5, <1>6, <1>7, <1>8, <1>9, <1>10

-----------------------------------------------------------------------------
(* The theorems.                                                           *)

LEMMA EnforcementInit == Init => IInv
<1> SUFFICES ASSUME Init
             PROVE  IInv
  OBVIOUS
<1>1. /\ entry = "none" /\ limits = DefaultLimits /\ grants \in Grants /\ elapsed = 0
      /\ ledger = ZeroLedger /\ stored = ZeroLedger /\ spent = 0
      /\ decisions = <<>> /\ ops = <<>> /\ trail = <<>>
  BY DEF Init
<1>2. /\ <<>> \in Seq(DecisionRows) /\ <<>> \in Seq(OpRows) /\ <<>> \in Seq(EventRows)
      /\ DOMAIN <<>> = {} /\ Len(<<>>) = 0
  OBVIOUS
<1>3. Typed
  BY <1>1, <1>2, LimitFacts, ZeroIsLedger, ClockAssumption, StepsAssumption DEF Typed, TypeOK
<1>4. NothingBefore /\ RowCurrent
  BY <1>1 DEF NothingBefore, RowCurrent
<1>5. CallsDecided /\ StaysExhausted /\ AllowIsEarned /\ DenialStands
  BY <1>1, <1>2 DEF CallsDecided, StaysExhausted, AllowIsEarned, DenialStands
<1>6. LimitsInForce
  BY <1>1 DEF LimitsInForce, Active
<1>7. LedgerWithinLimits
  <2>1. \A n \in LimitNames : 0 <= limits[n]
    BY <1>1, LimitFacts
  <2>2. QED
    BY <1>1, <2>1, LimitFacts DEF LedgerWithinLimits, ZeroLedger
<1>8. TrailAccounts
  <2>1. PICK s, l : s = <<>> /\ l = ZeroLedger
    OBVIOUS
  <2>2. /\ \A type : OfTypeIn(s, type) = {} /\ \A kind : OfKindIn(s, kind) = {}
        /\ \A S : OutcomeIn(s, S) = {}
    BY <1>2, <2>1 DEF OfTypeIn, OfKindIn, OutcomeIn
  <2>3. Cardinality({}) = 0
    BY FS_EmptySet
  <2>4. OpsTold(s, s, s)
    BY <1>2, <2>1, <2>2, <2>3 DEF OpsTold, CountsOf, EventTypes
  <2>5. LedgerTold(s, l)
    <3>1. \A kind \in Kinds : KindsOf(s)[kind] = 0
      BY <2>2, <2>3 DEF KindsOf
    <3>2. LastSnapshot(s, l)
      BY <1>2, <2>1 DEF LastSnapshot
    <3>3. /\ l.tool = 0 /\ l.model = 0 /\ l.items = 0
          /\ l.retries["get_alert"] = 0 /\ l.retries["get_events"] = 0
      BY <2>1 DEF ZeroLedger, Retried
    <3>4. QED
      BY <3>1, <3>2, <3>3 DEF LedgerTold, Kinds
  <2>6. OpsTold(trail, ops, decisions) /\ LedgerTold(trail, ledger)
    BY <1>1, <2>1, <2>4, <2>5
  <2>7. QED
    BY <2>6, TrailAccountsIs
<1>9. QED
  BY <1>3, <1>4, <1>5, <1>6, <1>7, <1>8 DEF IInv

LEMMA EnforcementNext == IInv /\ [Next]_vars => IInv'
<1> SUFFICES ASSUME IInv, [Next]_vars
             PROVE  IInv'
  OBVIOUS
<1>1. Typed' /\ NothingBefore' /\ RowCurrent' /\ CallsDecided' /\ StaysExhausted'
  BY TypedKept, NothingBeforeKept, RowCurrentKept, CallsDecidedKept, StaysExhaustedKept
<1>2. LimitsInForce' /\ LedgerWithinLimits' /\ AllowIsEarned' /\ DenialStands' /\ TrailAccounts'
  BY LimitsKept, LedgerKept, AllowKept, DenialStandsKept, AccountsKept
<1>3. QED
  BY <1>1, <1>2 DEF IInv

(* The inductive invariant: what config, policy, budget and the invoker    *)
(* keep between them after any number of calls and consumptions.           *)
THEOREM EnforcementInductive == Spec => []IInv
<1>1. Init => IInv
  BY EnforcementInit
<1>2. IInv /\ [Next]_vars => IInv'
  BY EnforcementNext
<1>3. QED
  BY <1>1, <1>2, PTL DEF Spec

(* Variables keep to their types, and a case has the six limits of         *)
(* BudgetLimits and no other, whatever the request listed.                 *)
THEOREM EnforcementTypes == Spec => []TypeOK
<1>1. IInv => TypeOK
  BY DEF IInv, Typed
<1>2. QED
  BY <1>1, EnforcementInductive, PTL

(* A created case has exactly the limits asked for, each in the bounds of   *)
(* settings.py, and defaults for the others; a refused one asked for a     *)
(* limit out of bounds.                                                    *)
THEOREM LimitsHold == Spec => []LimitsInForce
<1>1. IInv => LimitsInForce
  BY DEF IInv
<1>2. QED
  BY <1>1, EnforcementInductive, PTL

(* No order of tool operations, evidence, model calls and retries takes    *)
(* the budget service's ledger over a limit of the case.                   *)
THEOREM NeverOverLimit == Spec => []LedgerWithinLimits
<1>1. IInv => LedgerWithinLimits
  BY DEF IInv
<1>2. QED
  BY <1>1, EnforcementInductive, PTL

(* The policy engine allows, and the invoker calls, a registered operation *)
(* permitted in the state of the call, to an analyst with its source and   *)
(* with an operation left; no other source is ever accessed.               *)
THEOREM AllowEarned == Spec => []AllowIsEarned
<1>1. IInv => AllowIsEarned
  BY DEF IInv
<1>2. QED
  BY <1>1, EnforcementInductive, PTL

(* Once the policy engine has said that the budget is exhausted it never   *)
(* allows anything again, also with a budget service opened anew.          *)
THEOREM ExhaustedStays == Spec => []DenialStands
<1>1. IInv => DenialStands
  BY DEF IInv
<1>2. QED
  BY <1>1, EnforcementInductive, PTL

(* The audit trail alone tells how many operations were asked for, denied, *)
(* failed and answered, and what the ledger holds.                         *)
THEOREM TrailTellsAll == Spec => []TrailAccounts
<1>1. IInv => TrailAccounts
  BY DEF IInv
<1>2. QED
  BY <1>1, EnforcementInductive, PTL
=============================================================================
