SPECIFICATION Spec
CONSTANTS
  Kinds <- MCKinds
  Candidates <- MCCandidates
  MaxAnswer = 3
  MaxCandidates = 2
  MaxItems = 3
INVARIANTS
  TypeOK
  SupportIsGrounded
  InferenceSeesAll
  ObservedOnce
  ProposalsFollowSupport
  HypothesesTotal
  ProvenanceAgrees
