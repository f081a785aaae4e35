CONSTANTS
  heat = heat
  cool = cool
  target = target
  Leaf = {target}
  Value = {1, 2}
  Absent = Absent
  Near <- MCExactly
  Writer = {w1, w2}
  Nobody = Nobody
  Pair = {}
  Command <- MCSingleCommand
  Hydrated <- MCSingleHydrated
  Permitted <- MCAllPayloads
  PushView <- MCSingleView
  Faults <- MCProgressFaults
  MaxHistory = 3
  MaxLag = 0
  MaxRemovals = 0
SPECIFICATION FairSpec
PROPERTIES
  CallsReturn
  ReconciliationEnds
  OverlayResolves
