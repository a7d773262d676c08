SPECIFICATION Spec
CONSTANTS
  Cases <- MCCases
  Creations = {"createA", "createB"}
  Runs = {"runA"}
  Links = {"linkAB", "linkBA"}
  Feedbacks = {"feedbackA"}
  Subject <- MCSubject
  Backends = {"sqlite", "rows"}
  MaxDamage = 0
  NoRequest = "nobody"
INVARIANTS
  TypeOK
  ChainUnbroken
  LinkOnBoth
  NoConflictUnderLock
PROPERTIES
  LogSpec
  EveryRequestEnds
