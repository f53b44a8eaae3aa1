-------------------------------- MODULE Stack --------------------------------
(***************************************************************************)
(* The life of the network stack as embenet_node.h and                     *)
(* embenet_node_event_handlers.h describe it: initialized once, told to    *)
(* join a network (or, on a root, to start one), joined, and initialized   *)
(* again when it has left.  main.c looks at no result but that of Init and *)
(* goes on whatever it is.                                                 *)
(***************************************************************************)
EXTENDS Integers

CONSTANTS
    MaxJoins,     \* bound on how often the node joins
    StackRejoins  \* whether the stack itself tries again after it lost the network

ASSUME StackAssumption == MaxJoins \in Nat /\ StackRejoins \in BOOLEAN

VARIABLES
    stack,  \* the state of the stack
    joins   \* how often it has joined

StackState == {"uninitialized", "initialized", "joining", "joined"}

joined == stack = "joined"

\* EMBENET_NODE_Init: what it may leave behind.
EMBENET_NODE_Init == {"initialized", "uninitialized"}

\* EMBENET_NODE_Join begins to join, or refuses.
EMBENET_NODE_Join(s) == IF s = "initialized" THEN {"joining", s} ELSE {s}

\* EMBENET_NODE_RootStart begins to act as a root, or the library has no root
\* capabilities.
EMBENET_NODE_RootStart(s) == IF s = "initialized" THEN {"joining", s} ELSE {s}

\* EMBENET_NODE_Proc calls the callbacks and tasks of an initialized stack.
ProcRuns == stack # "uninitialized"

\* Why the handlers are called.
JoinAttempted == stack = "joining"

Joined ==
    /\ stack = "joining" /\ joins < MaxJoins
    /\ stack' = "joined" /\ joins' = joins + 1

\* "If the node wishes to join the network again, it should go through the join
\* or quick join procedure", which nothing in main.c does.
Left ==
    /\ joined
    /\ stack' = IF StackRejoins THEN "joining" ELSE "initialized"
    /\ UNCHANGED joins

=============================================================================
