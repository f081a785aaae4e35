--------------------------- MODULE MCDeviceWrites ---------------------------
(***************************************************************************)
(* Instances of DeviceWrites for TLC.  MCPair* is the thermostat's         *)
(* setpoint pair, whose command carries two leaves; MCSingle* is a command *)
(* of one leaf, such as a humidity target.                                 *)
(***************************************************************************)
EXTENDS DeviceWrites, TLC

CONSTANTS heat, cool, target

MCSymmetry == Permutations(Writer)

\* A request for one leaf only.
Request(l, v) == [m \in Leaf |-> IF m = l THEN v ELSE Absent]

MCExactly == {<<v, v>> : v \in Value}
MCAllPayloads == Settings

\* Either request keeps the heat setpoint at or below the cool setpoint; the two
\* together do not, so the later one is refused once it sees the earlier one.
MCPairHydrated == {[l \in Leaf |-> IF l = heat THEN 1 ELSE 2]}
MCPairCommand == {Request(heat, 2), Request(cool, 1)}
MCPairPermitted == {p \in Settings : p[heat] # Absent /\ p[cool] # Absent /\ p[heat] <= p[cool]}
MCPairView == {Leaf, {heat}}
MCPairFaults == {"api", "auth", "foreign"}

MCSingleHydrated == {[l \in Leaf |-> 1]}
MCSingleCommand == {Request(target, v) : v \in Value}
MCSingleView == {Leaf}
MCLifecycleFaults == {"api", "cancel", "remove", "stop"}
MCAuthFaults == {"auth"}
MCReadFaults == {"api"}
MCPartialFaults == {"foreign"}
MCProgressFaults == {"api", "cancel", "unstamped"}
=============================================================================
