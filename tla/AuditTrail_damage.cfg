SPECIFICATION Spec
CONSTANTS
  Cases <- MCOneCase
  Creations = {"createA"}
  Runs = {"runA"}
  Links = {}
  Feedbacks = {"feedback1", "feedback2"}
  Subject <- MCOneSubject
  Backends = {"sqlite", "rows"}
  MaxDamage = 2
  NoRequest = "nobody"
INVARIANT
  VerdictExact
