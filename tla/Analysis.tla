------------------------------ MODULE Analysis ------------------------------
(***************************************************************************)
(* What one run makes of its evidence: the rows of analysis/timeline.py,   *)
(* entities.py, claims.py and proposals.py, the untrusted answer of the    *)
(* model, and the report and the verifier that read these rows.  When the  *)
(* run stops early, at any point, is not its business: Investigation says  *)
(* what makes it stop, here any step may be the last.                      *)
(***************************************************************************)
EXTENDS Naturals, FiniteSets, Sequences

CONSTANTS
  Kinds,          \* forms of evidence content: see Kind
  Candidates,     \* forms of one entry of the model's answer: see Candidate
  MaxAnswer,      \* bound: entries in an answer
  MaxCandidates,  \* how many of them are looked at (10 in the code)
  MaxItems        \* bound: evidence items of a run

Trusts == {"direct_observation", "analyst_provided"}
ValidEvaluations == {"supported", "rejected", "inconclusive"}
ValidConfidences == {"high", "medium", "low", "inconclusive"}

(* at is the event's time, 0 if it has none that parses; recorded, whether  *)
(* it has a source record id; ruled, whether it has a rule_name; names, the *)
(* entities its fields name; secret, where a value sits that the verifier's *)
(* pattern matches: in the fields a claim or the timeline quotes, in an     *)
(* entity's name, in others, or nowhere.                                   *)
Entity == [ type : {"endpoint", "user", "ip_address"}, identifier : STRING ]
Kind == [ at : Nat, recorded : BOOLEAN, ruled : BOOLEAN, names : SUBSET Entity,
          secret : {"label", "entity", "other", "none"} ]

(* enrichment: the endpoint telemetry and the identity context. *)
Sources == {"alert_source", "analyst_submission", "enrichment"}

(* usable: an object with a statement.  A list or an object given for the  *)
(* evaluation or the confidence cannot be looked up in a set.              *)
Candidate == [ usable : BOOLEAN, secret : BOOLEAN,
               evaluation : ValidEvaluations \cup {"absent", "other", "unhashable"},
               confidence : ValidConfidences \cup {"absent", "other", "unhashable"} ]

ASSUME KindsAssumption == Kinds \subseteq Kind
ASSUME CandidatesAssumption == Candidates \subseteq Candidate
ASSUME BoundsAssumption ==
  MaxAnswer \in Nat /\ MaxCandidates \in Nat \ {0} /\ MaxItems \in Nat \ {0}

VARIABLES
  phase,       \* where the run is
  evidence,    \* evidence_items
  timeline,    \* timeline_events
  entities,    \* affected_entities
  claims,      \* claims
  supports,    \* claim_evidence_links (no code writes another relationship)
  hypotheses,  \* hypotheses
  proposals,   \* response_action_proposals
  answer,      \* entries of the model's answer still to be looked at
  report,      \* the stored report
  observed     \* history: the evidence there was when claims were made of it

analysis == <<timeline, entities, claims, supports, hypotheses, proposals>>
vars == <<phase, evidence, analysis, answer, report, observed>>

NoReport == [ kind |-> "none" ]

Init ==
  /\ phase = "receive"
  /\ evidence = {} /\ timeline = {} /\ entities = {} /\ claims = {}
  /\ supports = {} /\ hypotheses = {} /\ proposals = {}
  /\ answer = <<>>
  /\ report = NoReport
  /\ observed = {}

-----------------------------------------------------------------------------
(* Evidence.                                                               *)

Item(n, k, source, trust) ==
  [ id |-> n, source |-> source, trust |-> trust, recorded |-> k.recorded, at |-> k.at,
    ruled |-> k.ruled, names |-> k.names, secret |-> k.secret ]

Add(k, source, trust) ==
  /\ Cardinality(evidence) < MaxItems
  /\ evidence' = evidence \cup {Item(Cardinality(evidence) + 1, k, source, trust)}

(* The alert, stored under its id: from its source, or from the analyst,   *)
(* whose content is given no time.                                         *)
Receive(k, trust) ==
  /\ phase = "receive"
  /\ Add([k EXCEPT !.recorded = TRUE, !.at = IF trust = "analyst_provided" THEN 0 ELSE @],
         IF trust = "analyst_provided" THEN "analyst_submission" ELSE "alert_source", trust)
  /\ phase' = "collect"
  /\ UNCHANGED <<analysis, answer, report, observed>>

(* A related event. *)
Collect(k) ==
  /\ phase = "collect"
  /\ Add(k, "alert_source", "direct_observation")
  /\ UNCHANGED <<phase, analysis, answer, report, observed>>

(* An endpoint's events, an asset or a user, after normalisation. *)
Enrich(k) ==
  /\ phase = "enrich"
  /\ \E e \in entities : e.type \in {"endpoint", "user"}
  /\ Add(k, "enrichment", "direct_observation")
  /\ UNCHANGED <<phase, analysis, answer, report, observed>>

Observations == { i \in evidence : i.trust = "direct_observation" }

-----------------------------------------------------------------------------
(* NORMALIZE_EVIDENCE: timeline (its rows; the order is left out), entities, *)
(* observation claims.                                                     *)

BuildTimeline == { [ at |-> i.at, evidence |-> i.id ] : i \in { j \in evidence : j.at # 0 } }

ExtractEntities ==
  { [ type |-> n.type, identifier |-> n.identifier,
      evidence |-> { i.id : i \in { j \in evidence : n \in j.names } } ] :
        n \in UNION { i.names : i \in evidence } }

(* Items with a record, the analyst's own content included. *)
ClaimableAnyTrust == { i \in evidence : i.recorded }

(* Items claims are made of: an analyst's own content is not observed. *)
Claimable == { i \in Observations : i.recorded }

ObservationClaim(i) ==
  [ type |-> "direct_observation", of |-> i.id, status |-> "supported",
    confidence |-> "high", secret |-> i.secret = "label" ]

Support(type, of, i) == [ type |-> type, of |-> of, evidence |-> i.id ]

Normalize ==
  /\ phase = "collect"
  /\ timeline' = BuildTimeline
  /\ entities' = ExtractEntities
  /\ claims' = { ObservationClaim(i) : i \in Claimable }
  /\ supports' = { Support("direct_observation", i.id, i) : i \in Claimable }
  /\ observed' = evidence
  /\ phase' = "enrich"
  /\ UNCHANGED <<evidence, hypotheses, proposals, answer, report>>

-----------------------------------------------------------------------------
(* FORM_HYPOTHESES: the answer is cut, and its entries are taken in turn.  *)

Min2(a, b) == IF a < b THEN a ELSE b

(* The answer taken whole. *)
CutNot(entries) == entries

Cut(entries) == SubSeq(entries, 1, Min2(MaxCandidates, Len(entries)))

Answers == UNION { [1..n -> Candidates] : n \in 0..MaxAnswer }

(* An answer that is no JSON, no object, or without a list counts as empty. *)
Ask ==
  /\ phase = "enrich"
  /\ \E entries \in Answers : answer' = Cut(entries)
  /\ phase' = "form"
  /\ UNCHANGED <<evidence, analysis, report, observed>>

(* A value from the model kept as it is. *)
DegradedNot(value, valid) == value

Degraded(value, valid) == IF value \in valid THEN value ELSE "inconclusive"

(* Only what observation claims were made of. *)
LinkedEvidenceClaimed(evaluation) ==
  IF evaluation = "supported" THEN { i \in Observations : i \in observed } ELSE {}

(* What a supported hypothesis is linked to. *)
LinkedEvidence(evaluation) == IF evaluation = "supported" THEN Observations ELSE {}

(* The hypothesis keeping the model's evaluation. *)
SettledAsGiven(evaluation) == evaluation

(* Without an observation it is not presented as supported. *)
Settled(evaluation) ==
  IF evaluation = "supported" /\ LinkedEvidence(evaluation) = {} THEN "inconclusive"
  ELSE evaluation

Hypothesis(n, evaluation, secret) ==
  [ n |-> n, evaluation |-> evaluation, secret |-> secret ]

InferenceClaim(n, evaluation, cand) ==
  [ type |-> "inference", of |-> n,
    status |-> IF evaluation = "supported" THEN "supported" ELSE "inconclusive",
    confidence |-> Degraded(cand.confidence, ValidConfidences), secret |-> cand.secret ]

Unhashable(cand) == cand.evaluation = "unhashable" \/ cand.confidence = "unhashable"

(* An entry that is no object, or has no statement. *)
SkipCandidate ==
  /\ phase = "form"
  /\ answer # <<>> /\ ~Head(answer).usable
  /\ answer' = Tail(answer)
  /\ UNCHANGED <<phase, evidence, analysis, report, observed>>

TakeCandidate ==
  LET cand == Head(answer)
      given == Degraded(cand.evaluation, ValidEvaluations)
      evaluation == Settled(given)
      n == Cardinality(hypotheses) + 1
  IN  /\ phase = "form"
      /\ answer # <<>> /\ cand.usable /\ ~Unhashable(cand)
      /\ hypotheses' = hypotheses \cup {Hypothesis(n, evaluation, cand.secret)}
      /\ claims' = claims \cup
           {InferenceClaim(n, IF LinkedEvidence(given) = {} THEN "inconclusive" ELSE given, cand)}
      /\ supports' = supports \cup { Support("inference", n, i) : i \in LinkedEvidence(given) }
      /\ answer' = Tail(answer)
      /\ UNCHANGED <<phase, evidence, timeline, entities, proposals, report, observed>>

(* Nothing usable: an explicit inconclusive hypothesis, without a claim. *)
AnswerDone ==
  /\ phase = "form"
  /\ answer = <<>>
  /\ hypotheses' = IF hypotheses = {} THEN {Hypothesis(1, "inconclusive", FALSE)} ELSE hypotheses
  /\ phase' = "formed"
  /\ UNCHANGED <<evidence, timeline, entities, claims, supports, proposals, answer, report, observed>>

-----------------------------------------------------------------------------
(* VALIDATE_HYPOTHESES: proposals, one for endpoints and one for users.    *)

IsSupported(h) == h.evaluation = "supported"

(* Inconclusive hypotheses counted as supported. *)
NotRejected == { h \in hypotheses : h.evaluation # "rejected" }

Supported == { h \in hypotheses : IsSupported(h) }

Named(type) == { e.identifier : e \in { f \in entities : f.type = type } }

GenerateProposals ==
  IF Supported = {} THEN {}
  ELSE { [ type |-> t, resources |-> Named(t), evidence |-> { i.id : i \in Observations } ] :
           t \in { u \in {"endpoint", "user"} : Named(u) # {} } }

Propose ==
  /\ phase = "formed"
  /\ proposals' = GenerateProposals
  /\ phase' = "produce"
  /\ UNCHANGED <<evidence, timeline, entities, claims, supports, hypotheses, answer, report, observed>>

-----------------------------------------------------------------------------
(* The report, its verification, and what is stored.                       *)

EvidenceOf(c) ==
  { s.evidence : s \in { t \in supports : t.type = c.type /\ t.of = c.of } }

Finding(c) == [ claim |-> c, supporting |-> EvidenceOf(c) ]

Severity ==
  IF Supported # {} THEN "high"
  ELSE IF \E h \in hypotheses : h.evaluation = "inconclusive" THEN "medium"
  ELSE "low"

LacksEvidence(c) == c.status \in {"inconclusive", "unsupported"}

(* The alert summary quotes the first item of the alert source that names a *)
(* rule: the alert itself, or else a related event.                        *)
Ruled == { i \in evidence : i.source = "alert_source" /\ i.ruled }

Summarised(i) == i \in Ruled /\ \A j \in Ruled : i.id <= j.id

(* Where a matching value comes into the report. *)
SecretShown ==
  \/ \E c \in claims : c.secret
  \/ \E h \in hypotheses : h.secret
  \/ \E t \in timeline, i \in evidence : t.evidence = i.id /\ i.secret = "label"
  \/ \E e \in entities, i \in evidence : i.id \in e.evidence /\ i.secret = "entity"
  \/ \E i \in evidence : Summarised(i) /\ i.secret = "label"

BuildReport(kind, verified) ==
  [ kind |-> kind, verified |-> verified,
    findings |-> { Finding(c) : c \in claims },
    hypotheses |-> hypotheses, severity |-> Severity,
    missing |-> { c \in claims : LacksEvidence(c) },
    timeline |-> timeline, entities |-> entities, proposals |-> proposals,
    secret |-> SecretShown ]

(* verify_report: no secret, no supported finding without evidence. *)
Problems(r) ==
  r.secret \/ \E f \in r.findings : f.claim.status = "supported" /\ f.supporting = {}

(* The content is built and verified, and built again for the record. *)
Produce ==
  /\ phase = "produce"
  /\ LET complete == BuildReport("complete", TRUE)
     IN  report' = IF Problems(complete) THEN BuildReport("partial", FALSE) ELSE complete
  /\ phase' = "done"
  /\ UNCHANGED <<evidence, analysis, answer, observed>>

(* The run ends before: an exhausted budget, a cancellation, an exception  *)
(* (one is an entry with an unhashable value).  Nothing is verified.       *)
StopEarly ==
  /\ phase # "done"
  /\ report' = BuildReport("partial", FALSE)
  /\ phase' = "done"
  /\ UNCHANGED <<evidence, analysis, answer, observed>>

Ended == phase = "done" /\ UNCHANGED vars

Next ==
  \/ \E k \in Kinds :
       \/ \E trust \in Trusts : Receive(k, trust)
       \/ Collect(k)
       \/ Enrich(k)
  \/ Normalize
  \/ Ask
  \/ SkipCandidate
  \/ TakeCandidate
  \/ AnswerDone
  \/ Propose
  \/ Produce
  \/ StopEarly
  \/ Ended

Spec == Init /\ [][Next]_vars

-----------------------------------------------------------------------------
(* GET claims/{id}/evidence (evidence/provenance.py), for rows that exist. *)

(* Something missing for unsupported claims only. *)
SaysMissingUnsupported(c) == c.status = "unsupported"

SaysMissing(c) == LacksEvidence(c) \/ EvidenceOf(c) = {}

ClaimEvidence(c) == [ evidence |-> EvidenceOf(c), missing |-> SaysMissing(c) ]

-----------------------------------------------------------------------------
(* Correctness.                                                            *)

Ids == 1..MaxItems
ClaimRow == [ type : {"direct_observation", "inference"}, of : Nat,
              status : {"supported", "inconclusive"}, confidence : ValidConfidences,
              secret : BOOLEAN ]
HypothesisRow == [ n : Nat, evaluation : ValidEvaluations, secret : BOOLEAN ]

(* Rows keep to the values their columns are meant to hold, whatever the   *)
(* model answers.                                                          *)
TypeOK ==
  /\ phase \in {"receive", "collect", "enrich", "form", "formed", "produce", "done"}
  /\ { i.id : i \in evidence } = 1..Cardinality(evidence)
  /\ \A i \in evidence : i.id \in Ids /\ i.trust \in Trusts /\ i.source \in Sources
  /\ timeline \subseteq [ at : Nat \ {0}, evidence : Ids ]
  /\ \A e \in entities : e.evidence # {} /\ e.evidence \subseteq Ids
  /\ claims \subseteq ClaimRow
  /\ supports \subseteq [ type : {"direct_observation", "inference"}, of : Nat, evidence : Ids ]
  /\ hypotheses \subseteq HypothesisRow
  /\ \A p \in proposals : p.type \in {"endpoint", "user"} /\ p.evidence \subseteq Ids
  /\ answer \in Seq(Candidates)
  /\ observed \subseteq evidence

Reported == phase = "done"
ObservationIds == { i.id : i \in Observations }

(* Whatever the model claims and wherever the run stops, what the report   *)
(* presents as supported leads to observations: each such finding, each    *)
(* supported hypothesis through the claim made of it, and a high severity  *)
(* through one of those (FR-007, FR-011).                                  *)
SupportIsGrounded ==
  Reported =>
    /\ \A f \in report.findings :
         f.claim.status = "supported" => f.supporting # {} /\ f.supporting \subseteq ObservationIds
    /\ \A h \in report.hypotheses :
         IsSupported(h) => \E f \in report.findings :
           f.claim.type = "inference" /\ f.claim.of = h.n /\ f.claim.status = "supported"
    /\ report.severity = "high" =>
         \E f \in report.findings : f.claim.type = "inference" /\ f.claim.status = "supported"

(* A supported inference, and every proposal, rests on all observations of *)
(* the run, those the enrichment brought after the claims were made        *)
(* included.                                                               *)
InferenceSeesAll ==
  Reported =>
    /\ \A f \in report.findings :
         f.claim.type = "inference" => f.supporting \in {{}, ObservationIds}
    /\ \A f \in report.findings :
         f.claim.type = "inference" /\ f.claim.status = "supported" => f.supporting = ObservationIds
    /\ \A p \in report.proposals : p.evidence = ObservationIds

(* An item is presented as an observed fact once if it was observed and    *)
(* recorded before claims were made, and never otherwise: not an analyst's *)
(* own content, nothing without a record, nothing enrichment brought.      *)
ObservedOnce ==
  Reported =>
    \A i \in evidence :
      Cardinality({ f \in report.findings :
                      f.claim.type = "direct_observation" /\ i.id \in f.supporting }) =
        IF i \in observed /\ i.recorded /\ i.trust = "direct_observation" THEN 1 ELSE 0

(* Proposals are made only when the report calls a hypothesis supported,   *)
(* at most one of each type, about entities the evidence names (FR-016).   *)
ProposalsFollowSupport ==
  Reported =>
    /\ report.proposals # {} => \E h \in report.hypotheses : IsSupported(h)
    /\ \A p, q \in report.proposals : p.type = q.type => p = q
    /\ \A p \in report.proposals :
         /\ p.resources # {}
         /\ \A r \in p.resources : \E i \in observed, n \in UNION { j.names : j \in observed } :
              n \in i.names /\ n.type = p.type /\ n.identifier = r

(* Any answer leaves between one and MaxCandidates hypotheses, and each is *)
(* as supported as the claim made of it.                                   *)
HypothesesTotal ==
  /\ phase \in {"formed", "produce"} => hypotheses # {}
  /\ Cardinality(hypotheses) <= MaxCandidates
  /\ \A h \in hypotheses, c \in claims :
       c.type = "inference" /\ c.of = h.n => (IsSupported(h) <=> c.status = "supported")

(* The provenance route and the report say the same of every claim: the    *)
(* same evidence, and something missing for the same claims (FR-012).      *)
ProvenanceAgrees ==
  Reported =>
    \A f \in report.findings :
      /\ ClaimEvidence(f.claim).evidence = f.supporting
      /\ ClaimEvidence(f.claim).missing <=> f.claim \in report.missing
=============================================================================
