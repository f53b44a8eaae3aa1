------------------------------ MODULE MCRadio ------------------------------
(***************************************************************************)
(* Instances of Radio for TLC: an empty frame and two frames that differ   *)
(* in contents.                                                            *)
(***************************************************************************)
EXTENDS Radio, TLC

CONSTANTS h1, h2, h3, h4

MCHandle == {h1, h2, h3, h4}

MCFrame == {[len |-> 0, data |-> 1], [len |-> 1, data |-> 1], [len |-> 1, data |-> 2]}

\* One frame to transmit is longer than allowed.
MCPsdu == {[len |-> 1, data |-> 1], [len |-> 3, data |-> 2]}

\* For liveness, which symmetry does not preserve: fewer handles, one frame.
MCThreeHandles == {h1, h2, h3}

MCOneFrame == {[len |-> 1, data |-> 1]}

HandleSymmetry == Permutations(MCHandle)

=============================================================================
