CONSTANTS
  heat = heat
  cool = cool
  target = target
  Leaf = {heat, cool}
  Value = {1, 2}
  Absent = Absent
  Near <- MCExactly
  Writer = {w1, w2}
  Nobody = Nobody
  Pair = {heat, cool}
  Command <- MCPairCommand
  Hydrated <- MCPairHydrated
  Permitted <- MCPairPermitted
  PushView <- MCPairView
  Faults <- MCPartialFaults
  MaxHistory = 3
  MaxLag = 1
  MaxRemovals = 0
SYMMETRY MCSymmetry
SPECIFICATION Spec
INVARIANTS
  OverlayOwned
