SPECIFICATION Spec
CONSTANTS
  Cases <- MCOneCase
  Creations = {"createA"}
  Runs = {"runA"}
  Links = {}
  Feedbacks = {"feedback1", "feedback2"}
  Subject <- MCOneSubject
  Backends = {"sqlite", "rows"}
  MaxDamage = 1
  NoRequest = "nobody"
INVARIANT
  EveryChangeDetected
