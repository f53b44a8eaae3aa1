\* The MAC's interrupt preempts a join; the generator fails.
CONSTANTS
    Draws = 3
    MaxInits = 3
    MaxJobs = 3
SPECIFICATION Spec
INVARIANTS TypeOK InterruptKeyed MainKeyed RandomWritten
