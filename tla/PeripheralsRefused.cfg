\* A call that the driver refuses and the port does not report.
CONSTANTS
    Draws = 3
    MaxInits = 3
    MaxJobs = 3
SPECIFICATION Spec
INVARIANTS PlaintextOverwritten
