CONSTANTS
  heat = heat
  cool = cool
  target = target
  Leaf = {target}
  Value = {1, 2}
  Absent = Absent
  Near <- MCExactly
  Writer = {w1, w2}
  Nobody = Nobody
  Pair = {}
  Command <- MCSingleCommand
  Hydrated <- MCSingleHydrated
  Permitted <- MCAllPayloads
  PushView <- MCSingleView
  Faults <- MCReadFaults
  MaxHistory = 3
  MaxLag = 1
  MaxRemovals = 0
SYMMETRY MCSymmetry
SPECIFICATION Spec
PROPERTIES
  AcceptedWriteDoesNotFail
