\* Two invocations at a time, two browser flows, two rotations, one fault.
CONSTANTS
    Process = {p1, p2}
    MaxFlows = 2
    MaxTurns = 2
    MaxVersion = 5
    MaxLease = 6
    MaxFaults = 1
SYMMETRY Alike
SPECIFICATION Spec
INVARIANTS DisconnectForgets ConnectedIsKept RotationStored
  
CHECK_DEADLOCK FALSE
