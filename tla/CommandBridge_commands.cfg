\* Two replicas of the bridge, one command, two faults (timeouts included).
SPECIFICATION Spec
CONSTANTS
  Replicas = {b1, b2}
  Reconcilers = {b1, b2}
  Commands = {c1}
  Malformed = {}
  Nil = Nil
  ReplyBuffer = 1
  MaxConns = 2
  MaxFaults = 2
CHECK_DEADLOCK FALSE
SYMMETRY Symmetry
INVARIANTS
  CommandsAreSafe
  NoSilentLoss
