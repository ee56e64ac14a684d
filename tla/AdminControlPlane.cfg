CONSTANTS
  Replicas = {p1, p2}
  Bindings = {f1, f2}
  NoBinding = NoBinding
  Sites = {s1, s2}
  Tokens = {t1, t2}
  Subjects = {u1}
  NoRecord = NoRecord
  MaxEpoch = 3
SPECIFICATION Spec
SYMMETRY Symmetry
INVARIANTS BindingRespected
PROPERTIES ControlRowSteps
CHECK_DEADLOCK FALSE
