---------------------------- MODULE AnalysisProofs ----------------------------
(***************************************************************************)
(* Proofs about what a run makes of its evidence, for any forms of         *)
(* evidence and of answers, however many items are collected and wherever  *)
(* the run stops.                                                          *)
(***************************************************************************)
EXTENDS Analysis, FiniteSetTheorems, SequenceTheorems, TLAPS

-----------------------------------------------------------------------------
(* The inductive invariant.                                                *)

Phases == {"receive", "collect", "enrich", "form", "formed", "produce", "done"}

ItemRow == [ id : Nat, source : Sources, trust : Trusts, recorded : BOOLEAN, at : Nat,
             ruled : BOOLEAN, names : SUBSET Entity,
             secret : {"label", "entity", "other", "none"} ]

SupportRow == [ type : {"direct_observation", "inference"}, of : Nat, evidence : Ids ]

(* Items are numbered in the order they are stored. *)
Numbered(items) ==
  /\ items \subseteq ItemRow /\ IsFiniteSet(items)
  /\ Cardinality(items) <= MaxItems
  /\ { i.id : i \in items } = 1..Cardinality(items)
  /\ \A i, j \in items : i.id = j.id => i = j

(* Rows keep to their types. *)
RowsTyped ==
  /\ phase \in Phases
  /\ Numbered(evidence)
  /\ claims \subseteq ClaimRow /\ supports \subseteq SupportRow
  /\ hypotheses \subseteq HypothesisRow /\ IsFiniteSet(hypotheses)
  /\ answer \in Seq(Candidates)
  /\ observed \subseteq evidence

(* What there cannot be yet in a phase, and what there must be. *)
PhaseInv ==
  /\ phase = "receive" => evidence = {}
  /\ phase \in {"receive", "collect"} => observed = {}
  /\ phase \in {"receive", "collect", "enrich"} => hypotheses = {} /\ answer = <<>>
  /\ phase \in {"formed", "produce"} => hypotheses # {}

(* The items a claim was made of. *)
RecordedOf(items) == { i \in items : i.trust = "direct_observation" /\ i.recorded }

(* Observation claims, their links and the timeline come from what was     *)
(* observed, one for each item, and entities are named there.              *)
ObservedInv ==
  /\ \A c \in claims :
       c.type = "direct_observation" => \E i \in RecordedOf(observed) : c = ObservationClaim(i)
  /\ \A i \in RecordedOf(observed) : ObservationClaim(i) \in claims
  /\ \A s \in supports :
       s.type = "direct_observation" =>
         \E i \in RecordedOf(observed) : s = Support("direct_observation", i.id, i)
  /\ \A i \in RecordedOf(observed) : Support("direct_observation", i.id, i) \in supports
  /\ \A t \in timeline : \E i \in observed : i.at # 0 /\ t = [ at |-> i.at, evidence |-> i.id ]
  /\ \A e \in entities :
       /\ e.evidence # {} /\ e.evidence \subseteq { i.id : i \in observed }
       /\ \E i \in observed : \E n \in i.names : n.type = e.type /\ n.identifier = e.identifier

(* Each inference claim is of a hypothesis of its own and as supported as  *)
(* it is, by all observations or by none.                                  *)
InferenceInv ==
  /\ Cardinality(hypotheses) + Len(answer) <= MaxCandidates
  /\ \A h \in hypotheses : h.n \in 1..Cardinality(hypotheses)
  /\ \A s \in supports : s.type = "inference" => s.of \in 1..Cardinality(hypotheses)
  /\ \A c \in claims :
       c.type = "inference" =>
         /\ c.of \in 1..Cardinality(hypotheses)
         /\ EvidenceOf(c) = IF c.status = "supported" THEN ObservationIds ELSE {}
         /\ c.status = "supported" => Observations # {}
         /\ \A h \in hypotheses : c.of = h.n => (IsSupported(h) <=> c.status = "supported")
  /\ \A h \in hypotheses :
       IsSupported(h) =>
         \E c \in claims : c.type = "inference" /\ c.of = h.n /\ c.status = "supported"

(* Proposals are those of the hypotheses. *)
ProposalsInv ==
  /\ phase \notin {"produce", "done"} => proposals = {}
  /\ proposals = {} \/ proposals = GenerateProposals

(* The report is made of the rows, and verified only if nothing is wrong. *)
ReportInv ==
  /\ phase # "done" => report = NoReport
  /\ phase = "done" => \/ report = BuildReport("partial", FALSE)
                       \/ report = BuildReport("complete", TRUE) /\ ~Problems(report)

IInv == RowsTyped /\ PhaseInv /\ ObservedInv /\ InferenceInv /\ ProposalsInv /\ ReportInv

-----------------------------------------------------------------------------
(* Facts about rows.                                                       *)

LEMMA NumberedFacts ==
  ASSUME NEW items, Numbered(items)
  PROVE  /\ Cardinality(items) \in Nat
         /\ \A i \in items : i \in ItemRow /\ i.id \in 1..Cardinality(items) /\ i.id \in Ids
<1>1. Cardinality(items) \in Nat
  BY FS_CardinalityType DEF Numbered
<1>2. \A i \in items : i \in ItemRow /\ i.id \in 1..Cardinality(items)
  BY DEF Numbered
<1>3. QED
  BY <1>1, <1>2, BoundsAssumption DEF Numbered, Ids

LEMMA NumberedAdd ==
  ASSUME NEW items, Numbered(items), Cardinality(items) < MaxItems,
         NEW x \in ItemRow, x.id = Cardinality(items) + 1
  PROVE  Numbered(items \cup {x}) /\ Cardinality(items \cup {x}) = Cardinality(items) + 1
<1>1. Cardinality(items) \in Nat /\ \A i \in items : i.id \in 1..Cardinality(items)
  BY NumberedFacts
<1>2. x \notin items
  BY <1>1
<1>3. IsFiniteSet(items \cup {x}) /\ Cardinality(items \cup {x}) = Cardinality(items) + 1
  BY <1>2, FS_AddElement DEF Numbered
<1>4. { i.id : i \in items \cup {x} } = { i.id : i \in items } \cup {x.id}
  OBVIOUS
<1>5. { i.id : i \in items \cup {x} } = 1..(Cardinality(items) + 1)
  BY <1>1, <1>4 DEF Numbered
<1>6. \A i, j \in items \cup {x} : i.id = j.id => i = j
  BY <1>1 DEF Numbered
<1>7. items \cup {x} \subseteq ItemRow /\ Cardinality(items) + 1 <= MaxItems
  BY <1>1, BoundsAssumption DEF Numbered
<1>8. QED
  BY <1>3, <1>5, <1>6, <1>7 DEF Numbered

LEMMA ItemIsRow ==
  ASSUME NEW n \in Nat, NEW k \in Kind, NEW source \in Sources, NEW trust \in Trusts
  PROVE  Item(n, k, source, trust) \in ItemRow /\ Item(n, k, source, trust).id = n
BY DEF Item, ItemRow, Kind

LEMMA ReceivedKind ==
  ASSUME NEW k \in Kind, NEW trust \in Trusts
  PROVE  [k EXCEPT !.recorded = TRUE,
                   !.at = IF trust = "analyst_provided" THEN 0 ELSE @] \in Kind
BY DEF Kind

LEMMA ObservationFacts ==
  ASSUME NEW i \in ItemRow
  PROVE  /\ ObservationClaim(i) \in ClaimRow /\ ObservationClaim(i).type = "direct_observation"
         /\ ObservationClaim(i).of = i.id /\ ObservationClaim(i).status = "supported"
BY DEF ObservationClaim, ClaimRow, ItemRow, ValidConfidences

LEMMA SupportFacts ==
  ASSUME NEW type, NEW of, NEW i
  PROVE  /\ Support(type, of, i).type = type /\ Support(type, of, i).of = of
         /\ Support(type, of, i).evidence = i.id
         /\ type \in {"direct_observation", "inference"} /\ of \in Nat /\ i.id \in Ids
              => Support(type, of, i) \in SupportRow
BY DEF Support, SupportRow

LEMMA InferenceFacts ==
  ASSUME NEW n \in Nat, NEW evaluation, NEW cand \in Candidates
  PROVE  LET c == InferenceClaim(n, evaluation, cand)
         IN  /\ c \in ClaimRow /\ c.type = "inference" /\ c.of = n
             /\ c.status = IF evaluation = "supported" THEN "supported" ELSE "inconclusive"
<1>1. cand.secret \in BOOLEAN
  BY CandidatesAssumption DEF Candidate
<1>2. Degraded(cand.confidence, ValidConfidences) \in ValidConfidences
  BY DEF Degraded, ValidConfidences
<1>3. QED
  BY <1>1, <1>2 DEF InferenceClaim, ClaimRow

LEMMA HypothesisFacts ==
  ASSUME NEW n \in Nat, NEW evaluation \in ValidEvaluations, NEW secret \in BOOLEAN
  PROVE  LET h == Hypothesis(n, evaluation, secret)
         IN  h \in HypothesisRow /\ h.n = n /\ h.evaluation = evaluation
BY DEF Hypothesis, HypothesisRow

LEMMA EvaluationFacts ==
  ASSUME NEW value
  PROVE  LET given == Degraded(value, ValidEvaluations)
         IN  /\ given \in ValidEvaluations /\ Settled(given) \in ValidEvaluations
             /\ Settled(given) = "supported" <=> given = "supported" /\ Observations # {}
             /\ LinkedEvidence(given) = IF given = "supported" THEN Observations ELSE {}
BY DEF Degraded, ValidEvaluations, Settled, LinkedEvidence

-----------------------------------------------------------------------------
(* The steps.                                                              *)

(* An item is stored. *)
Adding ==
  /\ phase \in {"receive", "collect", "enrich"}
  /\ phase' = IF phase = "enrich" THEN "enrich" ELSE "collect"
  /\ Cardinality(evidence) < MaxItems
  /\ \E x \in ItemRow : x.id = Cardinality(evidence) + 1 /\ evidence' = evidence \cup {x}
  /\ UNCHANGED <<analysis, answer, report, observed>>

(* The run is over: the report is made. *)
Ending ==
  /\ phase # "done" /\ phase' = "done"
  /\ \/ report' = BuildReport("partial", FALSE)
     \/ report' = BuildReport("complete", TRUE) /\ ~Problems(report')
  /\ UNCHANGED <<evidence, analysis, answer, observed>>

LEMMA StepKinds ==
  ASSUME IInv, [Next]_vars
  PROVE  \/ Adding \/ Normalize \/ Ask \/ SkipCandidate \/ TakeCandidate \/ AnswerDone
         \/ Propose \/ Ending \/ UNCHANGED vars
<1>1. Cardinality(evidence) + 1 \in Nat
  BY NumberedFacts DEF IInv, RowsTyped
<1>2. ASSUME NEW k \in Kinds, NEW trust \in Trusts, Receive(k, trust)
      PROVE  Adding
  <2> DEFINE kk == [k EXCEPT !.recorded = TRUE, !.at = IF trust = "analyst_provided" THEN 0 ELSE @]
             source == IF trust = "analyst_provided" THEN "analyst_submission" ELSE "alert_source"
             x == Item(Cardinality(evidence) + 1, kk, source, trust)
  <2>1. kk \in Kind /\ source \in Sources
    BY KindsAssumption, ReceivedKind DEF Sources
  <2>2. evidence' = evidence \cup {x} /\ Cardinality(evidence) < MaxItems
    BY <1>2 DEF Receive, Add
  <2> HIDE DEF kk, source
  <2>3. x \in ItemRow /\ x.id = Cardinality(evidence) + 1
    BY <1>1, <2>1, ItemIsRow
  <2> HIDE DEF x
  <2>4. QED
    BY <1>2, <2>2, <2>3 DEF Receive, Adding
<1>3. ASSUME NEW k \in Kinds, Collect(k) \/ Enrich(k)
      PROVE  Adding
  <2> DEFINE x(source) == Item(Cardinality(evidence) + 1, k, source, "direct_observation")
  <2>1. k \in Kind /\ "direct_observation" \in Trusts
    BY KindsAssumption DEF Trusts
  <2>2. PICK source \in Sources :
          evidence' = evidence \cup {x(source)} /\ Cardinality(evidence) < MaxItems
    BY <1>3 DEF Collect, Enrich, Add, Sources
  <2>3. x(source) \in ItemRow /\ x(source).id = Cardinality(evidence) + 1
    BY <1>1, <2>1, ItemIsRow
  <2> HIDE DEF x
  <2>4. QED
    BY <1>3, <2>2, <2>3 DEF Collect, Enrich, Adding
<1>4. ASSUME Produce \/ StopEarly
      PROVE  Ending
  <2>1. CASE StopEarly
    BY <2>1 DEF StopEarly, Ending
  <2>2. CASE Produce
    <3> DEFINE complete == BuildReport("complete", TRUE)
    <3>1. report' = IF Problems(complete) THEN BuildReport("partial", FALSE) ELSE complete
      BY <2>2 DEF Produce
    <3>2. CASE Problems(complete)
      BY <2>2, <3>1, <3>2 DEF Produce, Ending
    <3>3. CASE ~Problems(complete)
      <4>1. report' = complete /\ ~Problems(report')
        BY <3>1, <3>3 DEF Problems
      <4>2. QED
        BY <2>2, <4>1 DEF Produce, Ending
    <3>4. QED
      BY <3>2, <3>3
  <2>3. QED
    BY <1>4, <2>1, <2>2
<1>5. CASE Ended \/ UNCHANGED vars
  BY <1>5 DEF Ended
<1>6. QED
  BY <1>2, <1>3, <1>4, <1>5 DEF Next

(* The answer that is looked at. *)
LEMMA CutFacts ==
  ASSUME NEW entries \in Answers
  PROVE  Cut(entries) \in Seq(Candidates) /\ Len(Cut(entries)) <= MaxCandidates
<1>1. PICK n \in 0..MaxAnswer : entries \in [1..n -> Candidates]
  BY DEF Answers
<1>2. entries \in Seq(Candidates) /\ Len(entries) \in Nat
  BY <1>1, BoundsAssumption
<1>3. /\ Min2(MaxCandidates, Len(entries)) \in Nat
      /\ Min2(MaxCandidates, Len(entries)) <= MaxCandidates
      /\ Min2(MaxCandidates, Len(entries)) <= Len(entries)
  BY <1>2, BoundsAssumption DEF Min2
<1>4. QED
  BY <1>2, <1>3, SubSeqProperties DEF Cut

(* An entry makes a hypothesis h and a claim c of it. *)
TakenAs(h, c) ==
  LET n == Cardinality(hypotheses) + 1
      linked == IF IsSupported(h) THEN Observations ELSE {}
  IN  /\ h \in HypothesisRow /\ h.n = n
      /\ c \in ClaimRow /\ c.type = "inference" /\ c.of = n
      /\ c.status = "supported" <=> IsSupported(h)
      /\ IsSupported(h) => Observations # {}
      /\ hypotheses' = hypotheses \cup {h} /\ claims' = claims \cup {c}
      /\ supports' = supports \cup { Support("inference", n, i) : i \in linked }

LEMMA TakeFacts ==
  ASSUME IInv, TakeCandidate
  PROVE  /\ \E h, c : TakenAs(h, c)
         /\ phase = "form" /\ answer # <<>> /\ answer' = Tail(answer)
         /\ UNCHANGED <<phase, evidence, timeline, entities, proposals, report, observed>>
<1> DEFINE cand == Head(answer)
           given == Degraded(cand.evaluation, ValidEvaluations)
           evaluation == Settled(given)
           n == Cardinality(hypotheses) + 1
           made == IF LinkedEvidence(given) = {} THEN "inconclusive" ELSE given
           h == Hypothesis(n, evaluation, cand.secret)
           c == InferenceClaim(n, made, cand)
<1>1. /\ phase = "form" /\ answer # <<>> /\ answer' = Tail(answer)
      /\ UNCHANGED <<phase, evidence, timeline, entities, proposals, report, observed>>
  BY DEF TakeCandidate
<1>2. answer \in Seq(Candidates) /\ Cardinality(hypotheses) \in Nat
  BY FS_CardinalityType DEF IInv, RowsTyped
<1>3. cand \in Candidates
  BY <1>1, <1>2
<1>4. n \in Nat /\ cand.secret \in BOOLEAN
  BY <1>2, <1>3, CandidatesAssumption DEF Candidate
<1>5. /\ given \in ValidEvaluations /\ evaluation \in ValidEvaluations
      /\ evaluation = "supported" <=> given = "supported" /\ Observations # {}
      /\ LinkedEvidence(given) = IF given = "supported" THEN Observations ELSE {}
  BY EvaluationFacts
<1>6. /\ hypotheses' = hypotheses \cup {h} /\ claims' = claims \cup {c}
      /\ supports' = supports \cup { Support("inference", n, i) : i \in LinkedEvidence(given) }
  BY DEF TakeCandidate
<1> HIDE DEF cand, given, evaluation, n
<1>7. h \in HypothesisRow /\ h.n = n /\ h.evaluation = evaluation
  BY <1>4, <1>5, HypothesisFacts
<1>8. /\ c \in ClaimRow /\ c.type = "inference" /\ c.of = n
      /\ c.status = IF made = "supported" THEN "supported" ELSE "inconclusive"
  BY <1>3, <1>4, InferenceFacts
<1>9. made = "supported" <=> evaluation = "supported"
  BY <1>5
<1>10. LinkedEvidence(given) = IF evaluation = "supported" THEN Observations ELSE {}
  BY <1>5
<1> HIDE DEF h, c, made
<1>11. TakenAs(h, c)
  BY <1>5, <1>6, <1>7, <1>8, <1>9, <1>10 DEF TakenAs, IsSupported, n
<1>12. QED
  BY <1>1, <1>11

(* One more hypothesis. *)
LEMMA OneMoreHypothesis ==
  ASSUME IInv, NEW h \in HypothesisRow, h.n = Cardinality(hypotheses) + 1
  PROVE  /\ h \notin hypotheses /\ hypotheses \cup {h} \subseteq HypothesisRow
         /\ IsFiniteSet(hypotheses \cup {h})
         /\ Cardinality(hypotheses \cup {h}) = Cardinality(hypotheses) + 1
         /\ Cardinality(hypotheses) \in Nat
<1>1. hypotheses \subseteq HypothesisRow /\ IsFiniteSet(hypotheses)
  BY DEF IInv, RowsTyped
<1>2. Cardinality(hypotheses) \in Nat
  BY <1>1, FS_CardinalityType
<1>3. \A g \in hypotheses : g.n \in 1..Cardinality(hypotheses)
  BY DEF IInv, InferenceInv
<1>4. h \notin hypotheses
  BY <1>2, <1>3
<1>5. QED
  BY <1>1, <1>2, <1>4, FS_AddElement

(* Nothing usable was answered. *)
LEMMA AnswerDoneFacts ==
  ASSUME IInv, AnswerDone
  PROVE  /\ phase = "form" /\ phase' = "formed" /\ answer = <<>>
         /\ UNCHANGED <<evidence, timeline, entities, claims, supports, proposals, answer, report,
                        observed>>
         /\ \/ hypotheses # {} /\ hypotheses' = hypotheses
            \/ /\ hypotheses = {} /\ Cardinality(hypotheses) = 0
               /\ \E h \in HypothesisRow : h.n = 1 /\ ~IsSupported(h) /\ hypotheses' = {h}
<1>1. hypotheses = {} => Cardinality(hypotheses) = 0
  BY FS_EmptySet
<1>2. LET h == Hypothesis(1, "inconclusive", FALSE)
      IN  h \in HypothesisRow /\ h.n = 1 /\ ~IsSupported(h)
  BY HypothesisFacts DEF ValidEvaluations, IsSupported
<1>3. QED
  BY <1>1, <1>2 DEF AnswerDone

-----------------------------------------------------------------------------
(* The invariant is kept, part by part.                                    *)

(* What is not changed by any step but one is typed. *)
LEMMA RowsTypedKept ==
  ASSUME IInv, [Next]_vars
  PROVE  RowsTyped'
<1>0. /\ phase \in Phases /\ Numbered(evidence) /\ claims \subseteq ClaimRow
      /\ supports \subseteq SupportRow /\ hypotheses \subseteq HypothesisRow
      /\ IsFiniteSet(hypotheses) /\ answer \in Seq(Candidates) /\ observed \subseteq evidence
  BY DEF IInv, RowsTyped
<1>1. CASE Adding
  <2>1. PICK x \in ItemRow : x.id = Cardinality(evidence) + 1 /\ evidence' = evidence \cup {x}
    BY <1>1 DEF Adding
  <2>2. PICK ev : ev = evidence /\ evidence' = ev \cup {x}
    BY <2>1
  <2>3. Numbered(ev \cup {x})
    BY <1>0, <1>1, <2>1, <2>2, NumberedAdd DEF Adding
  <2>4. Numbered(evidence')
    BY <2>2, <2>3
  <2>5. observed' \subseteq evidence'
    BY <1>0, <1>1, <2>1 DEF Adding
  <2>6. QED
    BY <1>0, <1>1, <2>4, <2>5 DEF Adding, RowsTyped, Phases, analysis, Numbered
<1>2. CASE Normalize
  <2>1. \A i \in Claimable : i \in ItemRow /\ i.id \in Ids /\ i.id \in Nat
    BY <1>0, NumberedFacts DEF Claimable, Observations, ItemRow
  <2>2. \A i \in Claimable : ObservationClaim(i) \in ClaimRow
    BY <2>1, ObservationFacts
  <2>3. claims' \subseteq ClaimRow
    BY <1>2, <2>2 DEF Normalize
  <2>4. \A i \in Claimable : Support("direct_observation", i.id, i) \in SupportRow
    BY <2>1, SupportFacts
  <2>5. supports' \subseteq SupportRow
    BY <1>2, <2>4 DEF Normalize
  <2>6. QED
    BY <1>0, <1>2, <2>3, <2>5 DEF Normalize, RowsTyped, Phases, Numbered
<1>3. CASE Ask
  <2>1. PICK entries \in Answers : answer' = Cut(entries)
    BY <1>3 DEF Ask
  <2>2. answer' \in Seq(Candidates)
    BY <2>1, CutFacts
  <2>3. QED
    BY <1>0, <1>3, <2>2 DEF Ask, RowsTyped, Phases, Numbered, analysis
<1>4. CASE SkipCandidate
  <2>1. answer' \in Seq(Candidates)
    BY <1>0, <1>4 DEF SkipCandidate
  <2>2. QED
    BY <1>0, <1>4, <2>1 DEF SkipCandidate, RowsTyped, Phases, Numbered, analysis
<1>5. CASE TakeCandidate
  <2>1. PICK h, c : TakenAs(h, c)
    BY <1>5, TakeFacts
  <2>2. /\ answer' \in Seq(Candidates)
        /\ UNCHANGED <<phase, evidence, observed>>
    BY <1>0, <1>5, TakeFacts
  <2>3. /\ h \in HypothesisRow /\ h.n = Cardinality(hypotheses) + 1 /\ c \in ClaimRow
        /\ hypotheses' = hypotheses \cup {h} /\ claims' = claims \cup {c}
    BY <2>1 DEF TakenAs
  <2>4. hypotheses' \subseteq HypothesisRow /\ IsFiniteSet(hypotheses')
    BY <2>3, OneMoreHypothesis
  <2>5. supports' \subseteq SupportRow
    <3>1. Cardinality(hypotheses) + 1 \in Nat
      BY <1>0, FS_CardinalityType
    <3>2. \A i \in Observations : Support("inference", Cardinality(hypotheses) + 1, i) \in SupportRow
      BY <1>0, <3>1, SupportFacts, NumberedFacts DEF Observations
    <3>3. QED
      BY <1>0, <2>1, <3>2 DEF TakenAs
  <2>6. QED
    BY <1>0, <2>2, <2>3, <2>4, <2>5 DEF RowsTyped, Numbered
<1>6. CASE AnswerDone
  <2>1. hypotheses' \subseteq HypothesisRow /\ IsFiniteSet(hypotheses')
    BY ZenonT(60), <1>0, <1>6, AnswerDoneFacts, FS_Singleton
  <2>2. QED
    BY <1>0, <1>6, <2>1, AnswerDoneFacts DEF RowsTyped, Numbered, Phases
<1>7. CASE Propose
  BY <1>0, <1>7 DEF Propose, RowsTyped, Numbered, Phases
<1>8. CASE Ending
  BY <1>0, <1>8 DEF Ending, RowsTyped, Numbered, Phases, analysis
<1>9. CASE UNCHANGED vars
  BY <1>0, <1>9 DEF vars, analysis, RowsTyped, Numbered
<1>10. QED
  BY StepKinds, <1>1, <1>2, <1>3, <1>4, <1>5, <1>6, <1>7, <1>8, <1>9

LEMMA PhaseKept ==
  ASSUME IInv, [Next]_vars
  PROVE  PhaseInv'
<1>0. PhaseInv /\ phase \in Phases
  BY DEF IInv, RowsTyped
<1>1. CASE Adding
  BY <1>0, <1>1 DEF Adding, PhaseInv, analysis
<1>2. CASE Normalize
  BY <1>0, <1>2 DEF Normalize, PhaseInv
<1>3. CASE Ask
  BY <1>0, <1>3 DEF Ask, PhaseInv, analysis
<1>4. CASE SkipCandidate
  BY <1>0, <1>4 DEF SkipCandidate, PhaseInv, analysis
<1>5. CASE TakeCandidate
  BY <1>0, <1>5 DEF TakeCandidate, PhaseInv
<1>6. CASE AnswerDone
  BY <1>0, <1>6, AnswerDoneFacts DEF PhaseInv
<1>7. CASE Propose
  BY <1>0, <1>7 DEF Propose, PhaseInv
<1>8. CASE Ending
  BY <1>0, <1>8 DEF Ending, PhaseInv, analysis
<1>9. CASE UNCHANGED vars
  BY <1>0, <1>9 DEF vars, analysis, PhaseInv
<1>10. QED
  BY StepKinds, <1>1, <1>2, <1>3, <1>4, <1>5, <1>6, <1>7, <1>8, <1>9

(* What comes from the observed evidence is made once. *)
LEMMA ObservedKept ==
  ASSUME IInv, [Next]_vars
  PROVE  ObservedInv'
<1>0. /\ ObservedInv /\ Numbered(evidence)
  BY DEF IInv, RowsTyped
<1>1. CASE Normalize
  <2>1. /\ observed' = evidence /\ timeline' = BuildTimeline /\ entities' = ExtractEntities
        /\ claims' = { ObservationClaim(i) : i \in Claimable }
        /\ supports' = { Support("direct_observation", i.id, i) : i \in Claimable }
    BY <1>1 DEF Normalize
  <2>2. RecordedOf(evidence) = Claimable
    BY DEF RecordedOf, Claimable, Observations
  <2>3. RecordedOf(observed') = Claimable
    BY <2>1, <2>2 DEF RecordedOf
  <2>4. /\ \A c \in claims' : \E i \in Claimable : c = ObservationClaim(i)
        /\ \A i \in Claimable : ObservationClaim(i) \in claims'
        /\ \A s \in supports' : \E i \in Claimable : s = Support("direct_observation", i.id, i)
        /\ \A i \in Claimable : Support("direct_observation", i.id, i) \in supports'
    BY <2>1
  <2>5. \A t \in timeline' :
          \E i \in observed' : i.at # 0 /\ t = [ at |-> i.at, evidence |-> i.id ]
    BY <2>1 DEF BuildTimeline
  <2>6. \A e \in entities' :
          /\ e.evidence # {} /\ e.evidence \subseteq { i.id : i \in observed' }
          /\ \E i \in observed' : \E n \in i.names : n.type = e.type /\ n.identifier = e.identifier
    <3> TAKE e \in entities'
    <3>1. PICK n \in UNION { i.names : i \in evidence } :
            e = [ type |-> n.type, identifier |-> n.identifier,
                  evidence |-> { i.id : i \in { j \in evidence : n \in j.names } } ]
      BY <2>1 DEF ExtractEntities
    <3>2. PICK i \in evidence : n \in i.names
      OBVIOUS
    <3>3. e.evidence = { j.id : j \in { k \in evidence : n \in k.names } }
      BY <3>1
    <3>4. e.evidence # {} /\ e.evidence \subseteq { j.id : j \in evidence }
      BY <3>2, <3>3
    <3>5. QED
      BY <2>1, <3>1, <3>2, <3>4
  <2>7. QED
    BY <2>3, <2>4, <2>5, <2>6 DEF ObservedInv
<1>2. CASE TakeCandidate
  <2>1. PICK h, c : TakenAs(h, c)
    BY <1>2, TakeFacts
  <2>2. UNCHANGED <<timeline, entities, observed>>
    BY <1>2, TakeFacts
  <2>3. claims' = claims \cup {c} /\ c.type = "inference"
    BY <2>1 DEF TakenAs
  <2>4. /\ \A s \in supports' : s.type = "direct_observation" => s \in supports
        /\ supports \subseteq supports'
    BY <2>1, SupportFacts DEF TakenAs
  <2>5. QED
    BY <1>0, <2>2, <2>3, <2>4 DEF ObservedInv, RecordedOf
<1>3. ASSUME UNCHANGED <<timeline, entities, claims, supports, observed>>
      PROVE  ObservedInv'
  BY <1>0, <1>3 DEF ObservedInv, RecordedOf
<1>4. ASSUME \/ Adding \/ Ask \/ SkipCandidate \/ AnswerDone \/ Propose \/ Ending \/ UNCHANGED vars
      PROVE  UNCHANGED <<timeline, entities, claims, supports, observed>>
  BY <1>4 DEF Adding, Ask, SkipCandidate, AnswerDone, Propose, Ending, vars, analysis
<1>5. QED
  BY StepKinds, <1>1, <1>2, <1>3, <1>4

EvidenceIn(links, c) ==
  { s.evidence : s \in { t \in links : t.type = c.type /\ t.of = c.of } }

(* Links of another claim do not count. *)
LEMMA OtherLinks ==
  ASSUME NEW links, NEW more, NEW c, \A t \in more : ~(t.type = c.type /\ t.of = c.of)
  PROVE  EvidenceIn(links \cup more, c) = EvidenceIn(links, c)
<1>1. { t \in links \cup more : t.type = c.type /\ t.of = c.of } =
        { t \in links : t.type = c.type /\ t.of = c.of }
  OBVIOUS
<1>2. QED
  BY <1>1 DEF EvidenceIn

LEMMA NewLinks ==
  ASSUME NEW links, NEW items, NEW c, \A t \in links : ~(t.type = c.type /\ t.of = c.of)
  PROVE  EvidenceIn(links \cup { Support(c.type, c.of, i) : i \in items }, c) = { i.id : i \in items }
<1> DEFINE more == { Support(c.type, c.of, i) : i \in items }
<1>1. \A i \in items : /\ Support(c.type, c.of, i).type = c.type /\ Support(c.type, c.of, i).of = c.of
                       /\ Support(c.type, c.of, i).evidence = i.id
  BY SupportFacts
<1>2. { t \in links \cup more : t.type = c.type /\ t.of = c.of } = more
  BY <1>1
<1>3. { s.evidence : s \in more } = { i.id : i \in items }
  BY <1>1
<1>4. QED
  BY <1>2, <1>3 DEF EvidenceIn

LEMMA InferenceKept ==
  ASSUME IInv, [Next]_vars
  PROVE  InferenceInv'
<1>0. /\ InferenceInv /\ PhaseInv /\ Cardinality(hypotheses) \in Nat /\ answer \in Seq(Candidates)
      /\ claims \subseteq ClaimRow /\ supports \subseteq SupportRow
  BY FS_CardinalityType DEF IInv, RowsTyped
<1>1. CASE Adding
  <2>1. /\ hypotheses = {} /\ hypotheses' = {} /\ answer' = answer /\ claims' = claims
        /\ supports' = supports /\ hypotheses' = hypotheses
    BY <1>0, <1>1 DEF Adding, PhaseInv, analysis
  <2>2. Cardinality(hypotheses) = 0
    BY <2>1, FS_EmptySet
  <2>3. /\ \A c \in claims' : c.type # "inference"
        /\ \A s \in supports' : s.type # "inference"
    BY <1>0, <2>1, <2>2 DEF InferenceInv
  <2>4. QED
    BY <1>0, <2>1, <2>3 DEF InferenceInv
<1>2. CASE Normalize
  <2>1. /\ hypotheses = {} /\ hypotheses' = hypotheses /\ answer' = answer
        /\ claims' = { ObservationClaim(i) : i \in Claimable }
        /\ supports' = { Support("direct_observation", i.id, i) : i \in Claimable }
    BY <1>0, <1>2 DEF Normalize, PhaseInv
  <2>2. /\ \A i : ObservationClaim(i).type # "inference"
        /\ \A i : Support("direct_observation", i.id, i).type # "inference"
    BY DEF ObservationClaim, Support
  <2>3. /\ \A c \in claims' : c.type # "inference"
        /\ \A s \in supports' : s.type # "inference"
    BY <2>1, <2>2
  <2>4. QED
    BY <1>0, <2>1, <2>3 DEF InferenceInv
<1>3. CASE Ask
  <2>1. PICK entries \in Answers : answer' = Cut(entries)
    BY <1>3 DEF Ask
  <2>2. Len(answer') \in Nat /\ Len(answer') <= MaxCandidates
    BY <2>1, CutFacts
  <2>3. /\ hypotheses = {} /\ hypotheses' = {}
        /\ UNCHANGED <<evidence, analysis>>
    BY <1>0, <1>3 DEF Ask, PhaseInv, analysis
  <2>4. Cardinality(hypotheses) = 0 /\ Cardinality(hypotheses') = 0
    BY <2>3, FS_EmptySet
  <2>5. Cardinality(hypotheses') + Len(answer') <= MaxCandidates
    BY <2>2, <2>4
  <2>6. /\ \A c \in claims' : c.type # "inference"
        /\ \A s \in supports' : s.type # "inference"
    BY <1>0, <2>3, <2>4 DEF InferenceInv, analysis
  <2>7. QED
    BY <2>3, <2>5, <2>6 DEF InferenceInv
<1>4. ASSUME UNCHANGED <<evidence, claims, supports, hypotheses>>,
             Len(answer') \in Nat, Len(answer') <= Len(answer)
      PROVE  InferenceInv'
  <2>1. Cardinality(hypotheses') + Len(answer') <= MaxCandidates
    BY <1>0, <1>4, BoundsAssumption DEF InferenceInv
  <2>2. QED
    BY <1>0, <1>4, <2>1 DEF InferenceInv, EvidenceOf, ObservationIds, Observations, IsSupported
<1>5. CASE SkipCandidate
  <2>1. Len(answer') \in Nat /\ Len(answer') <= Len(answer)
    BY <1>0, <1>5 DEF SkipCandidate
  <2>2. UNCHANGED <<evidence, claims, supports, hypotheses>>
    BY <1>5 DEF SkipCandidate, analysis
  <2>3. QED
    BY <1>4, <2>1, <2>2
<1>6. CASE TakeCandidate
  <2>1. PICK h, c : TakenAs(h, c)
    BY <1>6, TakeFacts
  <2>2. PICK n : n = Cardinality(hypotheses) + 1
    OBVIOUS
  <2>3. PICK linked : linked = IF IsSupported(h) THEN Observations ELSE {}
    OBVIOUS
  <2>4. /\ h \in HypothesisRow /\ h.n = n /\ c \in ClaimRow /\ c.type = "inference" /\ c.of = n
        /\ c.status = "supported" <=> IsSupported(h)
        /\ IsSupported(h) => Observations # {}
        /\ hypotheses' = hypotheses \cup {h} /\ claims' = claims \cup {c}
        /\ supports' = supports \cup { Support("inference", n, i) : i \in linked }
    BY <2>1, <2>2, <2>3 DEF TakenAs
  <2>5. /\ answer # <<>> /\ answer' = Tail(answer)
        /\ UNCHANGED <<evidence, observed>>
    BY <1>6, TakeFacts
  <2>6. Cardinality(hypotheses') = n /\ n \in Nat /\ n > 0
    <3>1. Cardinality(hypotheses \cup {h}) = Cardinality(hypotheses) + 1
      BY <2>2, <2>4, OneMoreHypothesis
    <3>2. QED
      BY <1>0, <2>2, <2>4, <3>1
  <2>7. Len(answer') \in Nat /\ Len(answer') + 1 = Len(answer)
    BY <1>0, <2>5
  <2>8. Cardinality(hypotheses') + Len(answer') <= MaxCandidates
    BY <1>0, <2>2, <2>6, <2>7, BoundsAssumption DEF InferenceInv
  <2>9. /\ \A g \in hypotheses : g.n \in 1..(n - 1)
        /\ \A s \in supports : s.type = "inference" => s.of \in 1..(n - 1)
        /\ \A d \in claims : d.type = "inference" => d.of \in 1..(n - 1)
    BY <1>0, <2>2 DEF InferenceInv
  <2>10. \A g \in hypotheses' : g.n \in 1..n
    BY <2>4, <2>6, <2>9
  <2>11. \A s \in supports' : s.type = "inference" => s.of \in 1..n
    BY <2>4, <2>6, <2>9, SupportFacts
  <2>12. Observations' = Observations /\ ObservationIds' = ObservationIds
    BY <2>5 DEF Observations, ObservationIds
  <2>13. ASSUME NEW d \in claims, d.type = "inference"
         PROVE  /\ d.of \in 1..n
                /\ EvidenceIn(supports', d) = IF d.status = "supported" THEN ObservationIds ELSE {}
                /\ d.status = "supported" => Observations # {}
                /\ \A g \in hypotheses' : d.of = g.n => (IsSupported(g) <=> d.status = "supported")
    <3>1. d.of \in 1..(n - 1) /\ d.of # n
      BY <2>6, <2>9, <2>13
    <3>2. \A t \in { Support("inference", n, i) : i \in linked } : ~(t.type = d.type /\ t.of = d.of)
      BY <3>1, SupportFacts
    <3>3. EvidenceIn(supports', d) = EvidenceIn(supports, d)
      BY <2>4, <3>2, OtherLinks
    <3>4. /\ EvidenceIn(supports, d) = IF d.status = "supported" THEN ObservationIds ELSE {}
          /\ d.status = "supported" => Observations # {}
          /\ \A g \in hypotheses : d.of = g.n => (IsSupported(g) <=> d.status = "supported")
      BY <1>0, <2>13 DEF InferenceInv, EvidenceOf, EvidenceIn
    <3>5. QED
      BY <2>4, <2>6, <3>1, <3>3, <3>4
  <2>14. /\ EvidenceIn(supports', c) = IF c.status = "supported" THEN ObservationIds ELSE {}
         /\ \A g \in hypotheses' : c.of = g.n => (IsSupported(g) <=> c.status = "supported")
    <3>1. \A t \in supports : ~(t.type = c.type /\ t.of = c.of)
      BY <2>4, <2>6, <2>9
    <3>2. EvidenceIn(supports', c) = { i.id : i \in linked }
      <4>1. supports' = supports \cup { Support(c.type, c.of, i) : i \in linked }
        BY <2>4
      <4>2. EvidenceIn(supports \cup { Support(c.type, c.of, i) : i \in linked }, c) =
              { i.id : i \in linked }
        BY <3>1, NewLinks
      <4>3. QED
        BY <4>1, <4>2
    <3>3. { i.id : i \in linked } = IF c.status = "supported" THEN ObservationIds ELSE {}
      BY <2>3, <2>4 DEF ObservationIds
    <3>4. \A g \in hypotheses : c.of # g.n
      BY <2>4, <2>6, <2>9
    <3>5. QED
      BY <2>4, <3>2, <3>3, <3>4
  <2>15. \A d \in claims' :
           d.type = "inference" =>
             /\ d.of \in 1..n
             /\ EvidenceIn(supports', d) = IF d.status = "supported" THEN ObservationIds ELSE {}
             /\ d.status = "supported" => Observations # {}
             /\ \A g \in hypotheses' : d.of = g.n => (IsSupported(g) <=> d.status = "supported")
    <3>1. c.of \in 1..n
      BY <2>4, <2>6
    <3>2. \A d \in claims' : d \in claims \/ d = c
      BY <2>4
    <3>3. QED
      BY <2>4, <2>13, <2>14, <3>1, <3>2
  <2>16. \A g \in hypotheses' :
           IsSupported(g) =>
             \E d \in claims' : d.type = "inference" /\ d.of = g.n /\ d.status = "supported"
    BY <1>0, <2>4 DEF InferenceInv
  <2>17. QED
    BY <2>6, <2>8, <2>10, <2>11, <2>12, <2>15, <2>16
    DEF InferenceInv, EvidenceOf, EvidenceIn, IsSupported
<1>7. CASE AnswerDone
  <2>0. UNCHANGED <<evidence, claims, supports, answer>> /\ answer = <<>>
    BY <1>7, AnswerDoneFacts
  <2>1. CASE hypotheses' = hypotheses
    BY <1>0, <1>4, <2>0, <2>1
  <2>2. CASE /\ hypotheses = {} /\ Cardinality(hypotheses) = 0
             /\ \E h \in HypothesisRow : h.n = 1 /\ ~IsSupported(h) /\ hypotheses' = {h}
    <3>1. PICK h \in HypothesisRow : h.n = 1 /\ ~IsSupported(h) /\ hypotheses' = {h}
      BY <2>2
    <3>2. Cardinality(hypotheses') = 1
      BY <3>1, FS_Singleton
    <3>3. /\ \A c \in claims' : c.type # "inference"
          /\ \A s \in supports' : s.type # "inference"
      <4>1. \A k : k \notin 1..Cardinality(hypotheses)
        BY <2>2
      <4>2. QED
        BY <1>0, <2>0, <4>1 DEF InferenceInv
    <3>4. Len(answer') = 0
      BY <2>0
    <3>5. Cardinality(hypotheses') + Len(answer') <= MaxCandidates
      BY <3>2, <3>4, BoundsAssumption
    <3>6. \A g \in hypotheses' : g.n \in 1..Cardinality(hypotheses') /\ ~IsSupported(g)
      BY <3>1, <3>2
    <3>7. QED
      BY <3>3, <3>5, <3>6 DEF InferenceInv, IsSupported
  <2>3. QED
    BY <1>7, <2>1, <2>2, AnswerDoneFacts
<1>8. CASE Propose \/ Ending \/ UNCHANGED vars
  <2>1. UNCHANGED <<evidence, claims, supports, hypotheses, answer>>
    BY <1>8 DEF Propose, Ending, vars, analysis
  <2>2. QED
    BY <1>0, <1>4, <2>1
<1>9. QED
  BY StepKinds, <1>1, <1>2, <1>3, <1>5, <1>6, <1>7, <1>8

LEMMA ProposalsKept ==
  ASSUME IInv, [Next]_vars
  PROVE  ProposalsInv'
<1>0. ProposalsInv /\ phase \in Phases
  BY DEF IInv, RowsTyped
<1>1. CASE Propose
  BY <1>1 DEF Propose, ProposalsInv, GenerateProposals, Supported, IsSupported, Named, Observations
<1>2. CASE Ending \/ UNCHANGED vars
  <2>1. UNCHANGED <<evidence, entities, hypotheses, proposals>> /\ (phase' = "done" \/ phase' = phase)
    BY <1>2 DEF Ending, vars, analysis
  <2>2. QED
    BY <1>0, <2>1
    DEF ProposalsInv, GenerateProposals, Supported, IsSupported, Named, Observations
<1>3. ASSUME Adding \/ Normalize \/ Ask \/ SkipCandidate \/ TakeCandidate \/ AnswerDone
      PROVE  ProposalsInv'
  <2>1. proposals' = proposals /\ phase \notin {"produce", "done"} /\ phase' \notin {"produce", "done"}
    BY <1>3 DEF Adding, Normalize, Ask, SkipCandidate, TakeCandidate, AnswerDone, analysis
  <2>2. QED
    BY <1>0, <2>1 DEF ProposalsInv
<1>4. QED
  BY StepKinds, <1>1, <1>2, <1>3

LEMMA ReportKept ==
  ASSUME IInv, [Next]_vars
  PROVE  ReportInv'
<1>0. ReportInv
  BY DEF IInv
<1>1. CASE Ending
  <2>1. CASE report' = BuildReport("partial", FALSE)
    BY <1>1, <2>1
    DEF Ending, ReportInv, analysis, BuildReport, Finding, EvidenceOf, Severity, Supported,
        IsSupported, LacksEvidence, SecretShown, Summarised, Ruled, Problems
  <2>2. CASE report' = BuildReport("complete", TRUE) /\ ~Problems(report')
    BY <1>1, <2>2
    DEF Ending, ReportInv, analysis, BuildReport, Finding, EvidenceOf, Severity, Supported,
        IsSupported, LacksEvidence, SecretShown, Summarised, Ruled, Problems
  <2>3. QED
    BY <1>1, <2>1, <2>2 DEF Ending
<1>2. CASE UNCHANGED vars
  BY <1>0, <1>2
  DEF ReportInv, vars, analysis, BuildReport, Finding, EvidenceOf, Severity, Supported,
      IsSupported, LacksEvidence, SecretShown, Summarised, Ruled, Problems
<1>3. ASSUME \/ Adding \/ Normalize \/ Ask \/ SkipCandidate \/ TakeCandidate \/ AnswerDone
             \/ Propose
      PROVE  ReportInv'
  <2>1. report' = report /\ phase # "done" /\ phase' # "done"
    BY <1>3 DEF Adding, Normalize, Ask, SkipCandidate, TakeCandidate, AnswerDone, Propose
  <2>2. QED
    BY <1>0, <2>1 DEF ReportInv
<1>4. QED
  BY StepKinds, <1>1, <1>2, <1>3

LEMMA AnalysisInit == Init => IInv
<1> SUFFICES ASSUME Init
             PROVE  IInv
  OBVIOUS
<1>1. /\ phase = "receive" /\ evidence = {} /\ timeline = {} /\ entities = {} /\ claims = {}
      /\ supports = {} /\ hypotheses = {} /\ proposals = {} /\ answer = <<>>
      /\ report = NoReport /\ observed = {}
  BY DEF Init
<1>2. IsFiniteSet({}) /\ Cardinality({}) = 0
  BY FS_EmptySet
<1>3. Numbered({})
  BY <1>2, BoundsAssumption DEF Numbered
<1>4. RowsTyped
  BY <1>1, <1>2, <1>3 DEF RowsTyped, Phases
<1>5. PhaseInv /\ ProposalsInv /\ ReportInv
  BY <1>1 DEF PhaseInv, ProposalsInv, ReportInv
<1>6. ObservedInv
  BY <1>1 DEF ObservedInv, RecordedOf
<1>7. InferenceInv
  BY <1>1, <1>2, BoundsAssumption DEF InferenceInv
<1>8. QED
  BY <1>4, <1>5, <1>6, <1>7 DEF IInv

(* The inductive invariant: how the rows of a run are made of its evidence *)
(* and of the model's answer, whatever both say and wherever it stops.     *)
THEOREM AnalysisInductive == Spec => []IInv
<1>1. Init => IInv
  BY AnalysisInit
<1>2. IInv /\ [Next]_vars => IInv'
  <2> SUFFICES ASSUME IInv, [Next]_vars
               PROVE  IInv'
    OBVIOUS
  <2>1. RowsTyped' /\ PhaseInv' /\ ObservedInv' /\ InferenceInv' /\ ProposalsInv' /\ ReportInv'
    BY RowsTypedKept, PhaseKept, ObservedKept, InferenceKept, ProposalsKept, ReportKept
  <2>2. QED
    BY <2>1 DEF IInv
<1>3. QED
  BY <1>1, <1>2, PTL DEF Spec

-----------------------------------------------------------------------------
(* What follows.                                                           *)

(* An observation claim's evidence is the one item it is of. *)
LEMMA ObservationEvidence ==
  ASSUME IInv, NEW i \in RecordedOf(observed), NEW c, c = ObservationClaim(i)
  PROVE  c \in claims /\ EvidenceOf(c) = {i.id} /\ i \in evidence /\ i \in Observations
<1>1. /\ observed \subseteq evidence /\ Numbered(evidence) /\ ObservedInv
  BY DEF IInv, RowsTyped
<1>2. i \in evidence /\ i \in Observations /\ i \in ItemRow
  BY <1>1, NumberedFacts DEF RecordedOf, Observations
<1>3. c \in claims /\ c.type = "direct_observation" /\ c.of = i.id
  BY <1>1, <1>2, ObservationFacts DEF ObservedInv
<1>4. Support("direct_observation", i.id, i) \in supports
  BY <1>1 DEF ObservedInv
<1>5. i.id \in EvidenceOf(c)
  <2>1. PICK s \in supports : s = Support("direct_observation", i.id, i)
    BY <1>4
  <2>2. s.type = c.type /\ s.of = c.of /\ s.evidence = i.id
    BY <1>3, <2>1, SupportFacts
  <2>3. QED
    BY <2>2 DEF EvidenceOf
<1>6. ASSUME NEW s \in supports, s.type = c.type, s.of = c.of
      PROVE  s.evidence = i.id
  <2>1. PICK j \in RecordedOf(observed) : s = Support("direct_observation", j.id, j)
    BY <1>1, <1>3, <1>6 DEF ObservedInv
  <2>2. s.of = j.id /\ s.evidence = j.id
    BY <2>1, SupportFacts
  <2>3. QED
    BY <1>3, <1>6, <2>2
<1>7. QED
  BY <1>2, <1>3, <1>5, <1>6 DEF EvidenceOf

(* What a claim rests on. *)
LEMMA ClaimsGrounded ==
  ASSUME IInv, NEW c \in claims
  PROVE  /\ c.type \in {"direct_observation", "inference"}
         /\ c.status = "supported" => EvidenceOf(c) # {}
         /\ EvidenceOf(c) \subseteq ObservationIds
         /\ c.type = "inference" =>
              EvidenceOf(c) = IF c.status = "supported" THEN ObservationIds ELSE {}
<1>1. claims \subseteq ClaimRow /\ ObservedInv /\ InferenceInv
  BY DEF IInv, RowsTyped
<1>2. c.type \in {"direct_observation", "inference"}
  BY <1>1 DEF ClaimRow
<1>3. CASE c.type = "direct_observation"
  <2>1. PICK i \in RecordedOf(observed) : c = ObservationClaim(i)
    BY <1>1, <1>3 DEF ObservedInv
  <2>2. EvidenceOf(c) = {i.id} /\ i \in Observations
    BY <2>1, ObservationEvidence
  <2>3. EvidenceOf(c) \subseteq ObservationIds
    BY <2>2 DEF ObservationIds
  <2>4. QED
    BY <1>3, <2>2, <2>3
<1>4. CASE c.type = "inference"
  <2>1. /\ EvidenceOf(c) = IF c.status = "supported" THEN ObservationIds ELSE {}
        /\ c.status = "supported" => Observations # {}
    BY <1>1, <1>4 DEF InferenceInv
  <2>2. Observations # {} => ObservationIds # {}
    BY DEF ObservationIds
  <2>3. QED
    BY <1>4, <2>1, <2>2
<1>5. QED
  BY <1>2, <1>3, <1>4

(* What is in a report, whatever its kind. *)
LEMMA ReportFields ==
  ASSUME IInv, Reported
  PROVE  /\ \A f \in report.findings : \E c \in claims : f = Finding(c)
         /\ \A c \in claims : Finding(c) \in report.findings
         /\ report.hypotheses = hypotheses /\ report.severity = Severity
         /\ report.missing = { c \in claims : LacksEvidence(c) }
         /\ report.timeline = timeline /\ report.entities = entities
         /\ report.proposals = proposals
<1> DEFINE good(kind, verified) ==
      LET r == BuildReport(kind, verified)
      IN  /\ \A f \in r.findings : \E c \in claims : f = Finding(c)
          /\ \A c \in claims : Finding(c) \in r.findings
          /\ r.hypotheses = hypotheses /\ r.severity = Severity
          /\ r.missing = { c \in claims : LacksEvidence(c) }
          /\ r.timeline = timeline /\ r.entities = entities
          /\ r.proposals = proposals
<1>1. good("partial", FALSE) /\ good("complete", TRUE)
  BY DEF BuildReport
<1>2. CASE report = BuildReport("partial", FALSE)
  BY <1>1, <1>2
<1>3. CASE report = BuildReport("complete", TRUE) /\ ~Problems(report)
  BY <1>1, <1>3
<1>4. QED
  BY <1>2, <1>3 DEF IInv, ReportInv, Reported

LEMMA FindingFacts ==
  ASSUME NEW c
  PROVE  Finding(c).claim = c /\ Finding(c).supporting = EvidenceOf(c)
BY DEF Finding


(* The rows of a run keep to the values their columns are meant to hold,   *)
(* whatever the model answers.                                             *)
THEOREM AnalysisTypes == Spec => []TypeOK
<1>1. IInv => TypeOK
  <2> SUFFICES ASSUME IInv
               PROVE  TypeOK
    OBVIOUS
  <2>1. RowsTyped /\ ObservedInv /\ ProposalsInv
    BY DEF IInv
  <2>2. Numbered(evidence) /\ observed \subseteq evidence
    BY <2>1 DEF RowsTyped
  <2>3. \A i \in evidence : i \in ItemRow /\ i.id \in Ids
    BY <2>2, NumberedFacts
  <2>4. { i.id : i \in evidence } = 1..Cardinality(evidence)
    BY <2>2 DEF Numbered
  <2>5. \A i \in evidence : i.trust \in Trusts /\ i.source \in Sources
    BY <2>3 DEF ItemRow
  <2>6. timeline \subseteq [ at : Nat \ {0}, evidence : Ids ]
    <3> SUFFICES ASSUME NEW t \in timeline
                 PROVE  t \in [ at : Nat \ {0}, evidence : Ids ]
      OBVIOUS
    <3>1. PICK i \in observed : i.at # 0 /\ t = [ at |-> i.at, evidence |-> i.id ]
      BY <2>1 DEF ObservedInv
    <3>2. i.at \in Nat \ {0} /\ i.id \in Ids
      BY <2>2, <2>3, <3>1 DEF ItemRow
    <3>3. QED
      BY <3>1, <3>2
  <2>7. \A e \in entities : e.evidence # {} /\ e.evidence \subseteq Ids
    BY <2>1, <2>2, <2>3 DEF ObservedInv
  <2>8. \A p \in proposals : p.type \in {"endpoint", "user"} /\ p.evidence \subseteq Ids
    <3>1. { i.id : i \in Observations } \subseteq Ids
      BY <2>3 DEF Observations
    <3>2. ASSUME NEW p \in GenerateProposals
          PROVE  p.type \in {"endpoint", "user"} /\ p.evidence \subseteq Ids
      BY <3>1 DEF GenerateProposals
    <3>3. QED
      BY <2>1, <3>2 DEF ProposalsInv
  <2>9. QED
    BY <2>1, <2>2, <2>3, <2>4, <2>5, <2>6, <2>7, <2>8
    DEF TypeOK, RowsTyped, Phases, SupportRow
<1>2. QED
  BY <1>1, AnalysisInductive, PTL

(* What the report presents as supported leads to observations, whatever   *)
(* the model claims and wherever the run stops: the links and the settled  *)
(* evaluation of orchestrator/nodes.py.                                    *)
THEOREM ReportIsGrounded == Spec => []SupportIsGrounded
<1>1. IInv => SupportIsGrounded
  <2> SUFFICES ASSUME IInv, Reported
               PROVE  SupportIsGrounded
    BY DEF SupportIsGrounded
  <2>1. /\ \A f \in report.findings : \E c \in claims : f = Finding(c)
        /\ \A c \in claims : Finding(c) \in report.findings
        /\ report.hypotheses = hypotheses /\ report.severity = Severity
    BY ReportFields
  <2>2. \A f \in report.findings :
          f.claim.status = "supported" =>
            f.supporting # {} /\ f.supporting \subseteq ObservationIds
    BY <2>1, ClaimsGrounded, FindingFacts
  <2>3. ASSUME NEW h \in hypotheses, IsSupported(h)
        PROVE  \E f \in report.findings :
                 f.claim.type = "inference" /\ f.claim.of = h.n /\ f.claim.status = "supported"
    <3>1. PICK c \in claims : c.type = "inference" /\ c.of = h.n /\ c.status = "supported"
      BY <2>3 DEF IInv, InferenceInv
    <3>2. Finding(c) \in report.findings /\ Finding(c).claim = c
      BY <2>1, FindingFacts
    <3>3. QED
      BY <3>1, <3>2
  <2>4. report.severity = "high" => \E h \in hypotheses : IsSupported(h)
    BY <2>1 DEF Severity, Supported
  <2>5. QED
    BY <2>1, <2>2, <2>3, <2>4 DEF SupportIsGrounded
<1>2. QED
  BY <1>1, AnalysisInductive, PTL

(* A supported inference and every proposal rest on all observations of    *)
(* the run, those of the enrichment included.                              *)
THEOREM InferencesSeeAll == Spec => []InferenceSeesAll
<1>1. IInv => InferenceSeesAll
  <2> SUFFICES ASSUME IInv, Reported
               PROVE  InferenceSeesAll
    BY DEF InferenceSeesAll
  <2>1. /\ \A f \in report.findings : \E c \in claims : f = Finding(c)
        /\ report.proposals = proposals
    BY ReportFields
  <2>2. ASSUME NEW f \in report.findings, f.claim.type = "inference"
        PROVE  /\ f.supporting \in {{}, ObservationIds}
               /\ f.claim.status = "supported" => f.supporting = ObservationIds
    <3>1. PICK c \in claims : f = Finding(c)
      BY <2>1
    <3>2. f.claim = c /\ f.supporting = EvidenceOf(c)
      BY <3>1, FindingFacts
    <3>3. EvidenceOf(c) = IF c.status = "supported" THEN ObservationIds ELSE {}
      BY <2>2, <3>2, ClaimsGrounded
    <3>4. QED
      BY <3>2, <3>3
  <2>3. \A p \in proposals : p.evidence = ObservationIds
    BY DEF IInv, ProposalsInv, GenerateProposals, ObservationIds
  <2>4. QED
    BY <2>1, <2>2, <2>3 DEF InferenceSeesAll
<1>2. QED
  BY <1>1, AnalysisInductive, PTL

(* An item is presented as an observed fact once if it was observed and    *)
(* recorded before claims were made, and never otherwise.                  *)
THEOREM ObservedFactsOnce == Spec => []ObservedOnce
<1>1. IInv => ObservedOnce
  <2> SUFFICES ASSUME IInv, Reported, NEW i \in evidence
               PROVE  Cardinality({ f \in report.findings :
                          f.claim.type = "direct_observation" /\ i.id \in f.supporting }) =
                        IF i \in observed /\ i.recorded /\ i.trust = "direct_observation"
                        THEN 1 ELSE 0
    BY DEF ObservedOnce
  <2> DEFINE presented == { f \in report.findings :
                              f.claim.type = "direct_observation" /\ i.id \in f.supporting }
  <2>1. /\ \A f \in report.findings : \E c \in claims : f = Finding(c)
        /\ \A c \in claims : Finding(c) \in report.findings
    BY ReportFields
  <2>2. /\ observed \subseteq evidence /\ Numbered(evidence) /\ ObservedInv
    BY DEF IInv, RowsTyped
  <2>3. ASSUME NEW f \in presented
        PROVE  i \in RecordedOf(observed) /\ f = Finding(ObservationClaim(i))
    <3>1. PICK c \in claims : f = Finding(c)
      BY <2>1
    <3>2. c.type = "direct_observation" /\ i.id \in EvidenceOf(c)
      BY <3>1, FindingFacts
    <3>3. PICK j \in RecordedOf(observed) : c = ObservationClaim(j)
      BY <2>2, <3>2 DEF ObservedInv
    <3>4. EvidenceOf(c) = {j.id} /\ j \in evidence
      BY <3>3, ObservationEvidence
    <3>5. i = j
      BY <2>2, <3>2, <3>4 DEF Numbered
    <3>6. QED
      BY <3>1, <3>3, <3>5
  <2>4. ASSUME i \in RecordedOf(observed)
        PROVE  Finding(ObservationClaim(i)) \in presented
    <3>1. ObservationClaim(i) \in claims /\ EvidenceOf(ObservationClaim(i)) = {i.id}
      BY <2>4, ObservationEvidence
    <3>2. ObservationClaim(i).type = "direct_observation"
      BY <2>2, NumberedFacts, ObservationFacts
    <3>3. QED
      BY <2>1, <3>1, <3>2, FindingFacts
  <2>5. i \in RecordedOf(observed) <=>
          i \in observed /\ i.recorded /\ i.trust = "direct_observation"
    BY DEF RecordedOf
  <2> HIDE DEF presented
  <2>6. CASE i \in RecordedOf(observed)
    <3>1. presented = {Finding(ObservationClaim(i))}
      BY <2>3, <2>4, <2>6
    <3>2. Cardinality(presented) = 1
      BY <3>1, FS_Singleton
    <3>3. QED
      BY <2>5, <2>6, <3>2 DEF presented
  <2>7. CASE i \notin RecordedOf(observed)
    <3>1. presented = {}
      BY <2>3, <2>7
    <3>2. Cardinality(presented) = 0
      BY <3>1, FS_EmptySet
    <3>3. QED
      BY <2>5, <2>7, <3>2 DEF presented
  <2>8. QED
    BY <2>6, <2>7
<1>2. QED
  BY <1>1, AnalysisInductive, PTL

(* Proposals are made only when the report calls a hypothesis supported,   *)
(* at most one of each type, about entities the evidence names.            *)
THEOREM ProposalsFollow == Spec => []ProposalsFollowSupport
<1>1. IInv => ProposalsFollowSupport
  <2> SUFFICES ASSUME IInv, Reported
               PROVE  ProposalsFollowSupport
    BY DEF ProposalsFollowSupport
  <2>1. report.hypotheses = hypotheses /\ report.proposals = proposals
    BY ReportFields
  <2>2. \A p \in proposals : p \in GenerateProposals
    BY DEF IInv, ProposalsInv
  <2>3. proposals # {} => \E h \in hypotheses : IsSupported(h)
    BY <2>2 DEF GenerateProposals, Supported
  <2>4. \A p \in proposals : p.resources = Named(p.type) /\ Named(p.type) # {}
    BY <2>2 DEF GenerateProposals
  <2>5. \A p, q \in proposals : p.type = q.type => p = q
    <3> DEFINE made(t) == [ type |-> t, resources |-> Named(t),
                            evidence |-> { i.id : i \in Observations } ]
    <3>1. \A p \in proposals : \E t : p = made(t)
      BY <2>2 DEF GenerateProposals
    <3>2. \A t : made(t).type = t
      OBVIOUS
    <3> HIDE DEF made
    <3>3. \A p \in proposals : p = made(p.type)
      BY <3>1, <3>2
    <3>4. QED
      BY <3>3
  <2>6. ASSUME NEW p \in proposals, NEW r \in p.resources
        PROVE  \E i \in observed, n \in UNION { j.names : j \in observed } :
                 n \in i.names /\ n.type = p.type /\ n.identifier = r
    <3>1. r \in Named(p.type)
      BY <2>4, <2>6
    <3>2. PICK e \in entities : e.type = p.type /\ e.identifier = r
      BY <3>1 DEF Named
    <3>3. PICK i \in observed : \E n \in i.names : n.type = e.type /\ n.identifier = e.identifier
      BY DEF IInv, ObservedInv
    <3>4. PICK n \in i.names : n.type = e.type /\ n.identifier = e.identifier
      BY <3>3
    <3>5. n \in UNION { j.names : j \in observed }
      BY <3>4
    <3>6. QED
      BY <3>2, <3>4, <3>5
  <2>7. QED
    BY <2>1, <2>3, <2>4, <2>5, <2>6 DEF ProposalsFollowSupport
<1>2. QED
  BY <1>1, AnalysisInductive, PTL

(* Any answer of the model leaves between one and MaxCandidates            *)
(* hypotheses, each as supported as the claim made of it.                  *)
THEOREM AnswersTotal == Spec => []HypothesesTotal
<1>1. IInv => HypothesesTotal
  <2> SUFFICES ASSUME IInv
               PROVE  HypothesesTotal
    OBVIOUS
  <2>1. IsFiniteSet(hypotheses) /\ answer \in Seq(Candidates) /\ PhaseInv /\ InferenceInv
    BY DEF IInv, RowsTyped
  <2>2. Cardinality(hypotheses) \in Nat /\ Len(answer) \in Nat
    BY <2>1, FS_CardinalityType
  <2>3. Cardinality(hypotheses) + Len(answer) <= MaxCandidates
    BY <2>1 DEF InferenceInv
  <2>4. Cardinality(hypotheses) <= MaxCandidates
    BY <2>2, <2>3, BoundsAssumption
  <2>5. QED
    BY <2>1, <2>4 DEF HypothesesTotal, PhaseInv, InferenceInv
<1>2. QED
  BY <1>1, AnalysisInductive, PTL

(* The provenance route and the report say the same of every claim.        *)
THEOREM RoutesAgreeWithReport == Spec => []ProvenanceAgrees
<1>1. IInv => ProvenanceAgrees
  <2> SUFFICES ASSUME IInv, Reported, NEW f \in report.findings
               PROVE  /\ ClaimEvidence(f.claim).evidence = f.supporting
                      /\ ClaimEvidence(f.claim).missing <=> f.claim \in report.missing
    BY DEF ProvenanceAgrees
  <2>1. PICK c \in claims : f = Finding(c)
    BY ReportFields
  <2>2. f.claim = c /\ f.supporting = EvidenceOf(c)
    BY <2>1, FindingFacts
  <2>3. report.missing = { d \in claims : LacksEvidence(d) }
    BY ReportFields
  <2>4. /\ ClaimEvidence(c).evidence = EvidenceOf(c)
        /\ ClaimEvidence(c).missing = SaysMissing(c)
    BY DEF ClaimEvidence
  <2>5. SaysMissing(c) <=> LacksEvidence(c)
    <3>1. c.status \in {"supported", "inconclusive"}
      BY DEF IInv, RowsTyped, ClaimRow
    <3>2. c.status = "supported" => EvidenceOf(c) # {}
      BY ClaimsGrounded
    <3>3. QED
      BY <3>1, <3>2 DEF SaysMissing, LacksEvidence
  <2>6. QED
    BY <2>2, <2>3, <2>4, <2>5
<1>2. QED
  BY <1>1, AnalysisInductive, PTL
=============================================================================
