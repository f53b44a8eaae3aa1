\* Main loop and two interrupt priorities; sections nest twice.
CONSTANTS
    Levels = 2
    MaxNest = 2
SPECIFICATION Spec
INVARIANTS TypeOK MutualExclusion MaskRestored
PROPERTIES KeyStable
