\* The key a context has set and the one its blocks are ciphered with.
CONSTANTS
    Draws = 3
    MaxInits = 3
    MaxJobs = 3
SPECIFICATION Spec
INVARIANTS CallersKeyUsed
