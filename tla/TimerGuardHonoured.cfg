\* Words of 24 values, a period of 18 ticks, a guard of 2.
CONSTANTS
    Q = 6
    Guard = 2
    MaxLag = 1
    MaxPast = 2
    MaxReplace = 1
SPECIFICATION Spec
PROPERTIES GuardHonoured
