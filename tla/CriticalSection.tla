-------------------------- MODULE CriticalSection --------------------------
(***************************************************************************)
(* The nestable critical section of the port,                              *)
(* embenet_node_port/src/embenet_critical_section.c, used by the main loop *)
(* and by the interrupt handlers of one Cortex-M core.                     *)
(*                                                                         *)
(* Execution contexts are numbered by priority: 0 is the main loop, a      *)
(* larger number is a software or hardware interrupt that preempts every   *)
(* smaller one.  Only the most urgent active context executes, and an      *)
(* interrupt is taken only while PRIMASK is clear.  Enter and Exit are     *)
(* split where the compiled code can be interrupted: the test of the       *)
(* counter, HwiP_disable, and the load and the store of ++ and --.         *)
(***************************************************************************)
EXTENDS Integers

CONSTANTS
    Levels,    \* number of interrupt priorities above the main loop
    MaxNest    \* bound on how deep one context nests its sections

ASSUME LevelsAssumption == Levels \in Nat
ASSUME MaxNestAssumption == MaxNest \in Nat \ {0}

Contexts == 0 .. Levels

VARIABLES
    active,            \* contexts that have started and not returned
    primask,           \* the PRIMASK register; 1: the core takes no interrupt
    key,               \* the static `key`: PRIMASK as HwiP_disable found it
    irqNestCounter,    \* the static nesting counter
    pc,                \* where a context is inside Enter or Exit
    reg,               \* the register that ++ and -- load the counter into
    depth,             \* sections a context holds (Enter returned, Exit not called)
    foreign            \* 1: the context masked interrupts itself, outside this module

vars == <<active, primask, key, irqNestCounter, pc, reg, depth, foreign>>

Labels == {"caller", "disable", "incLoad", "incStore",
           "decLoad", "decStore", "test"}

Running(c) == c \in active /\ \A d \in active : d =< c

Goto(c, label) == pc' = [pc EXCEPT ![c] = label]

Init ==
    /\ active = {0}
    /\ primask = 0
    /\ key = 0
    /\ irqNestCounter = 0
    /\ pc = [c \in Contexts |-> "caller"]
    /\ reg = [c \in Contexts |-> 0]
    /\ depth = [c \in Contexts |-> 0]
    /\ foreign = [c \in Contexts |-> 0]

----------------------------------------------------------------------------
(* The core and the callers (external).                                    *)

\* An interrupt of a higher priority is taken.
Interrupt(c) ==
    /\ primask = 0
    /\ \A d \in active : d < c
    /\ active' = active \cup {c}
    /\ UNCHANGED <<primask, key, irqNestCounter, pc, reg, depth, foreign>>

\* An interrupt handler returns; it has left every section it entered.
Return(c) ==
    /\ c # 0 /\ Running(c)
    /\ pc[c] = "caller" /\ depth[c] = 0 /\ foreign[c] = 0
    /\ active' = active \ {c}
    /\ UNCHANGED <<primask, key, irqNestCounter, pc, reg, depth, foreign>>

\* A driver masks interrupts with HwiP_disable around code that may itself
\* enter a critical section, and unmasks them again with HwiP_restore.
ForeignDisable(c) ==
    /\ Running(c) /\ pc[c] = "caller" /\ depth[c] = 0 /\ foreign[c] = 0
    /\ primask' = 1
    /\ foreign' = [foreign EXCEPT ![c] = 1]
    /\ UNCHANGED <<active, key, irqNestCounter, pc, reg, depth>>

ForeignRestore(c) ==
    /\ Running(c) /\ pc[c] = "caller" /\ depth[c] = 0 /\ foreign[c] = 1
    /\ primask' = 0
    /\ foreign' = [foreign EXCEPT ![c] = 0]
    /\ UNCHANGED <<active, key, irqNestCounter, pc, reg, depth>>

----------------------------------------------------------------------------
(* EMBENET_CRITICAL_SECTION_Enter.                                         *)

\* Fault: Enter only counts and never masks.
EnterTestNeverDisables(c) ==
    /\ Running(c) /\ pc[c] = "caller" /\ depth[c] < MaxNest
    /\ Goto(c, "incLoad")
    /\ UNCHANGED <<active, primask, key, irqNestCounter, reg, depth, foreign>>

\* Fault: every Enter masks and saves, nested ones too.
EnterTestAlwaysDisables(c) ==
    /\ Running(c) /\ pc[c] = "caller" /\ depth[c] < MaxNest
    /\ Goto(c, "disable")
    /\ UNCHANGED <<active, primask, key, irqNestCounter, reg, depth, foreign>>

\* if (0 == irqNestCounter)
EnterTest(c) ==
    /\ Running(c) /\ pc[c] = "caller" /\ depth[c] < MaxNest
    /\ Goto(c, IF irqNestCounter = 0 THEN "disable" ELSE "incLoad")
    /\ UNCHANGED <<active, primask, key, irqNestCounter, reg, depth, foreign>>

\* key = HwiP_disable();
\* The store follows the masking, so nothing can come between them.
EnterDisable(c) ==
    /\ Running(c) /\ pc[c] = "disable"
    /\ key' = primask
    /\ primask' = 1
    /\ Goto(c, "incLoad")
    /\ UNCHANGED <<active, irqNestCounter, reg, depth, foreign>>

\* Fault: the counter is stored twice raised.
EnterStoreTwice(c) ==
    /\ Running(c) /\ pc[c] = "incStore"
    /\ irqNestCounter' = reg[c] + 2
    /\ depth' = [depth EXCEPT ![c] = @ + 1]
    /\ Goto(c, "caller")
    /\ UNCHANGED <<active, primask, key, reg, foreign>>

\* ++irqNestCounter; first its load, then its store and the return.
EnterLoad(c) ==
    /\ Running(c) /\ pc[c] = "incLoad"
    /\ reg' = [reg EXCEPT ![c] = irqNestCounter]
    /\ Goto(c, "incStore")
    /\ UNCHANGED <<active, primask, key, irqNestCounter, depth, foreign>>

EnterStore(c) ==
    /\ Running(c) /\ pc[c] = "incStore"
    /\ irqNestCounter' = reg[c] + 1
    /\ depth' = [depth EXCEPT ![c] = @ + 1]
    /\ Goto(c, "caller")
    /\ UNCHANGED <<active, primask, key, reg, foreign>>

----------------------------------------------------------------------------
(* EMBENET_CRITICAL_SECTION_Exit.  Callers pair it with Enter.             *)

ExitCall(c) ==
    /\ Running(c) /\ pc[c] = "caller" /\ depth[c] > 0
    /\ depth' = [depth EXCEPT ![c] = @ - 1]
    /\ Goto(c, "decLoad")
    /\ UNCHANGED <<active, primask, key, irqNestCounter, reg, foreign>>

ExitLoad(c) ==
    /\ Running(c) /\ pc[c] = "decLoad"
    /\ reg' = [reg EXCEPT ![c] = irqNestCounter]
    /\ Goto(c, "decStore")
    /\ UNCHANGED <<active, primask, key, irqNestCounter, depth, foreign>>

\* --irqNestCounter; if (irqNestCounter < 0) irqNestCounter = 0;
ExitStore(c) ==
    /\ Running(c) /\ pc[c] = "decStore"
    /\ irqNestCounter' = IF reg[c] - 1 < 0 THEN 0 ELSE reg[c] - 1
    /\ Goto(c, "test")
    /\ UNCHANGED <<active, primask, key, reg, depth, foreign>>

\* Fault: Exit enables interrupts instead of restoring what Enter found.
ExitRestoreEnables(c) ==
    /\ Running(c) /\ pc[c] = "test"
    /\ primask' = IF irqNestCounter = 0 THEN 0 ELSE primask
    /\ Goto(c, "caller")
    /\ UNCHANGED <<active, key, irqNestCounter, reg, depth, foreign>>

\* if (0 == irqNestCounter && 0 == previousIrqState) HwiP_restore(key);
\* previousIrqState is a static that no statement of the program assigns.
ExitRestore(c) ==
    /\ Running(c) /\ pc[c] = "test"
    /\ primask' = IF irqNestCounter = 0 THEN key ELSE primask
    /\ Goto(c, "caller")
    /\ UNCHANGED <<active, key, irqNestCounter, reg, depth, foreign>>

----------------------------------------------------------------------------
EnterStep(c) == EnterTest(c) \/ EnterDisable(c) \/ EnterLoad(c) \/ EnterStore(c)

ExitStep(c) == ExitCall(c) \/ ExitLoad(c) \/ ExitStore(c) \/ ExitRestore(c)

CoreStep(c) ==
    Interrupt(c) \/ Return(c) \/ ForeignDisable(c) \/ ForeignRestore(c)

Next == \E c \in Contexts : CoreStep(c) \/ EnterStep(c) \/ ExitStep(c)

Spec == Init /\ [][Next]_vars

----------------------------------------------------------------------------
(* Properties.                                                             *)

\* Every variable has its type; the counter is never negative and never
\* larger than the deepest nesting, so its clamp is never needed.
TypeOK ==
    /\ active \in SUBSET Contexts
    /\ primask \in {0, 1} /\ key \in {0, 1}
    /\ irqNestCounter \in 0 .. MaxNest
    /\ pc \in [Contexts -> Labels]
    /\ reg \in [Contexts -> 0 .. MaxNest]
    /\ depth \in [Contexts -> 0 .. MaxNest]
    /\ foreign \in [Contexts -> {0, 1}]

\* embenet_critical_section.c:22-30: a context that is inside a section is
\* the one that executes, so no interrupt handler can see the data that the
\* section protects, wherever the handler's own Enter and Exit interleave
\* with the start of this one.
MutualExclusion == \A c \in Contexts : depth[c] > 0 => Running(c) /\ primask = 1

\* embenet_critical_section.c:32-41: outside its sections a context runs with
\* exactly the interrupt mask it had chosen itself: the outermost Exit unmasks
\* "provided that handling was enabled before entering critical section"
\* (embenet_critical_section.h:33), although `key` is shared by all contexts.
MaskRestored ==
    \A c \in Contexts :
        Running(c) /\ pc[c] = "caller" /\ depth[c] = 0 => primask = foreign[c]

\* embenet_critical_section.c:24: while a section is open no step replaces
\* the saved mask that its outermost Exit will restore.
KeyStable == [][(\E c \in Contexts : depth[c] > 0) => key' = key]_vars

=============================================================================
