----------------------- MODULE CriticalSectionProofs -----------------------
(***************************************************************************)
(* For every number of priorities and every nesting bound, the critical    *)
(* section excludes all other contexts and restores the mask it found.     *)
(***************************************************************************)
EXTENDS CriticalSection, TLAPS

\* The context is between the masking in Enter and the end of its last Exit.
Holds(c) == depth[c] > 0 \/ pc[c] \notin {"caller", "disable"}

\* What the statics and PRIMASK are while c executes: the counter is c's depth
\* up to the call in progress, the mask is set for a section or by c itself,
\* and the saved mask is the one c had before its outermost Enter.
Local(c) ==
    /\ primask = IF Holds(c) THEN 1 ELSE foreign[c]
    /\ irqNestCounter =
           IF pc[c] \in {"decLoad", "decStore"} THEN depth[c] + 1 ELSE depth[c]
    /\ pc[c] \in {"incStore", "decStore"} => reg[c] = irqNestCounter
    /\ pc[c] \in {"incLoad", "incStore"} => depth[c] < MaxNest
    /\ pc[c] = "disable" => depth[c] = 0
    /\ Holds(c) => key = foreign[c]

\* A context that does not execute holds no section and masks nothing; it may
\* have been interrupted between the test in Enter and HwiP_disable.
Quiet(c) ==
    /\ depth[c] = 0 /\ foreign[c] = 0
    /\ IF c \in active THEN pc[c] \in {"caller", "disable"} ELSE pc[c] = "caller"

Executing == \A c \in Contexts : IF Running(c) THEN Local(c) ELSE Quiet(c)

\* Nobody holds a section while interrupts are enabled.
UnmaskedFree == primask = 0 => irqNestCounter = 0

IInv == TypeOK /\ 0 \in active /\ Executing /\ UnmaskedFree

----------------------------------------------------------------------------
\* At most one context executes.
LEMMA RunningUnique ==
    ASSUME TypeOK, NEW c \in Contexts, NEW d \in Contexts, Running(c), Running(d)
    PROVE  c = d
  BY DEF TypeOK, Running, Contexts

\* The program starts in the inductive invariant.
LEMMA InitIInv == Init => IInv
<1> SUFFICES ASSUME Init PROVE IInv
  OBVIOUS
<1> USE LevelsAssumption, MaxNestAssumption DEF Init
<1>1. TypeOK /\ 0 \in active /\ UnmaskedFree
  BY DEF TypeOK, Contexts, Labels, UnmaskedFree
<1>2. ASSUME NEW c \in Contexts PROVE Local(c) /\ (~Running(c) => Quiet(c))
  BY DEF Local, Quiet, Holds, Contexts
<1> QED BY <1>1, <1>2 DEF IInv, Executing

\* A step of the executing context that touches no other context need only
\* keep the facts about the context itself.
LEMMA StepOfRunning ==
    ASSUME IInv, NEW c \in Contexts, Running(c), active' = active,
           TypeOK', Local(c)', UnmaskedFree',
           \A d \in Contexts \ {c} :
               pc'[d] = pc[d] /\ depth'[d] = depth[d] /\ foreign'[d] = foreign[d]
    PROVE  IInv'
<1>1. ASSUME NEW d \in Contexts, d # c PROVE ~Running(d)' /\ Quiet(d)'
  <2>1. ~Running(d)
    BY <1>1, RunningUnique DEF IInv
  <2>2. Quiet(d)
    BY <2>1 DEF IInv, Executing
  <2> QED BY <1>1, <2>1, <2>2 DEF Quiet, Running
<1>2. Running(c)'
  BY DEF Running
<1> QED BY <1>1, <1>2 DEF IInv, Executing

\* Taking an interrupt: whoever executed held nothing, because interrupts
\* were enabled.
LEMMA InterruptKeepsIInv ==
    ASSUME IInv, NEW c \in Contexts, Interrupt(c) PROVE IInv'
<1> USE DEF Interrupt
<1>1. TypeOK'
  BY DEF IInv, TypeOK
<1>2. Quiet(c) /\ c \notin active /\ irqNestCounter = 0 /\ primask = 0
  BY DEF IInv, TypeOK, Executing, Running, Contexts, UnmaskedFree
<1>3. Running(c)' /\ Local(c)'
  BY <1>2, MaxNestAssumption DEF Running, Local, Quiet, Holds, IInv, TypeOK, Contexts
<1>4. ASSUME NEW d \in Contexts, d # c PROVE ~Running(d)' /\ Quiet(d)'
  <2>1. ~Running(d)'
    BY <1>1, <1>3, <1>4, RunningUnique DEF IInv, TypeOK, Running, Contexts
  <2>2. CASE Running(d)
    BY <1>2, <1>4, <2>1, <2>2 DEF IInv, Executing, Local, Quiet, Holds, Running, TypeOK
  <2>3. CASE ~Running(d)
    BY <1>4, <2>1, <2>3 DEF IInv, Executing, Quiet
  <2> QED BY <2>1, <2>2, <2>3
<1> QED BY <1>1, <1>2, <1>3, <1>4 DEF IInv, Executing, UnmaskedFree

\* Returning: the context that executes next finds the mask and the counter
\* as it left them.
LEMMA ReturnKeepsIInv ==
    ASSUME IInv, NEW c \in Contexts, Return(c) PROVE IInv'
<1> USE DEF Return
<1>1. TypeOK' /\ 0 \in active'
  BY DEF IInv, TypeOK
<1>2. primask = 0 /\ irqNestCounter = 0
  BY DEF IInv, Executing, Local, Holds, UnmaskedFree
<1>3. Quiet(c)' /\ ~Running(c)'
  BY DEF Quiet, Running
<1>4. ASSUME NEW d \in Contexts, d # c
      PROVE  IF Running(d)' THEN Local(d)' ELSE Quiet(d)'
  <2>1. Quiet(d)
    BY <1>4, RunningUnique DEF IInv, Executing
  <2>2. Quiet(d)'
    BY <1>4, <2>1 DEF Quiet
  <2>3. Local(d)'
    BY <1>2, <1>4, <2>1, MaxNestAssumption DEF Local, Quiet, Holds
  <2> QED BY <2>2, <2>3
<1> QED BY <1>1, <1>2, <1>3, <1>4 DEF IInv, Executing, UnmaskedFree

\* A driver that masks interrupts for itself, or unmasks them.
LEMMA ForeignKeepsIInv ==
    ASSUME IInv, NEW c \in Contexts, ForeignDisable(c) \/ ForeignRestore(c)
    PROVE  IInv'
<1>1. Running(c) /\ Local(c) /\ pc[c] = "caller" /\ depth[c] = 0
  BY DEF IInv, Executing, ForeignDisable, ForeignRestore
<1>2. TypeOK'
  BY DEF IInv, TypeOK, ForeignDisable, ForeignRestore
<1>3. Local(c)' /\ UnmaskedFree'
  BY <1>1 DEF IInv, TypeOK, Local, Holds, UnmaskedFree, ForeignDisable, ForeignRestore
<1> QED BY <1>1, <1>2, <1>3, StepOfRunning DEF ForeignDisable, ForeignRestore, IInv, TypeOK

\* Every instruction of EMBENET_CRITICAL_SECTION_Enter keeps it.
LEMMA EnterKeepsIInv ==
    ASSUME IInv, NEW c \in Contexts, EnterStep(c) PROVE IInv'
<1>1. Running(c) /\ Local(c) /\ TypeOK
  BY DEF EnterStep, EnterTest, EnterDisable, EnterLoad, EnterStore, IInv, Executing
<1> USE <1>1, MaxNestAssumption DEF Goto
<1>2. CASE EnterTest(c)
  <2>1. TypeOK'
    BY <1>2 DEF EnterTest, TypeOK, Labels, Local
  <2>2. Local(c)' /\ UnmaskedFree'
    BY <1>2, <2>1 DEF EnterTest, TypeOK, Local, Holds, UnmaskedFree, IInv
  <2> QED BY <1>2, <2>1, <2>2, StepOfRunning DEF EnterTest, TypeOK
<1>3. CASE EnterDisable(c)
  <2>1. TypeOK'
    BY <1>3 DEF EnterDisable, TypeOK, Labels, Local
  <2>2. Local(c)' /\ UnmaskedFree'
    BY <1>3, <2>1 DEF EnterDisable, TypeOK, Local, Holds, UnmaskedFree, IInv
  <2> QED BY <1>3, <2>1, <2>2, StepOfRunning DEF EnterDisable, TypeOK
<1>4. CASE EnterLoad(c)
  <2>1. TypeOK'
    BY <1>4 DEF EnterLoad, TypeOK, Labels, Local
  <2>2. Local(c)' /\ UnmaskedFree'
    BY <1>4, <2>1 DEF EnterLoad, TypeOK, Local, Holds, UnmaskedFree, IInv
  <2> QED BY <1>4, <2>1, <2>2, StepOfRunning DEF EnterLoad, TypeOK
<1>5. CASE EnterStore(c)
  <2>1. TypeOK'
    BY <1>5 DEF EnterStore, TypeOK, Labels, Local
  <2>2. Local(c)' /\ UnmaskedFree'
    BY <1>5, <2>1 DEF EnterStore, TypeOK, Local, Holds, UnmaskedFree, IInv
  <2> QED BY <1>5, <2>1, <2>2, StepOfRunning DEF EnterStore, TypeOK
<1> QED BY <1>2, <1>3, <1>4, <1>5 DEF EnterStep

\* Every instruction of EMBENET_CRITICAL_SECTION_Exit keeps it.
LEMMA ExitKeepsIInv ==
    ASSUME IInv, NEW c \in Contexts, ExitStep(c) PROVE IInv'
<1>1. Running(c) /\ Local(c) /\ TypeOK
  BY DEF ExitStep, ExitCall, ExitLoad, ExitStore, ExitRestore, IInv, Executing
<1> USE <1>1, MaxNestAssumption DEF Goto
<1>2. CASE ExitCall(c)
  <2>1. TypeOK'
    BY <1>2 DEF ExitCall, TypeOK, Labels, Local
  <2>2. Local(c)' /\ UnmaskedFree'
    BY <1>2, <2>1 DEF ExitCall, TypeOK, Local, Holds, UnmaskedFree, IInv
  <2> QED BY <1>2, <2>1, <2>2, StepOfRunning DEF ExitCall, TypeOK
<1>3. CASE ExitLoad(c)
  <2>1. TypeOK'
    BY <1>3 DEF ExitLoad, TypeOK, Labels, Local
  <2>2. Local(c)' /\ UnmaskedFree'
    BY <1>3, <2>1 DEF ExitLoad, TypeOK, Local, Holds, UnmaskedFree, IInv
  <2> QED BY <1>3, <2>1, <2>2, StepOfRunning DEF ExitLoad, TypeOK
<1>4. CASE ExitStore(c)
  <2>1. TypeOK'
    BY <1>4 DEF ExitStore, TypeOK, Labels, Local
  <2>2. Local(c)' /\ UnmaskedFree'
    BY <1>4, <2>1 DEF ExitStore, TypeOK, Local, Holds, UnmaskedFree, IInv
  <2> QED BY <1>4, <2>1, <2>2, StepOfRunning DEF ExitStore, TypeOK
<1>5. CASE ExitRestore(c)
  <2>1. TypeOK'
    BY <1>5 DEF ExitRestore, TypeOK, Labels, Local
  <2>2. Local(c)' /\ UnmaskedFree'
    BY <1>5, <2>1 DEF ExitRestore, TypeOK, Local, Holds, UnmaskedFree, IInv
  <2> QED BY <1>5, <2>1, <2>2, StepOfRunning DEF ExitRestore, TypeOK
<1> QED BY <1>2, <1>3, <1>4, <1>5 DEF ExitStep

----------------------------------------------------------------------------
\* The inductive invariant holds in every reachable state.
THEOREM Inductive == Spec => []IInv
<1>1. Init => IInv
  BY InitIInv
<1>2. IInv /\ [Next]_vars => IInv'
  <2> SUFFICES ASSUME IInv, [Next]_vars PROVE IInv'
    OBVIOUS
  <2>1. CASE Next
    <3>1. PICK c \in Contexts : CoreStep(c) \/ EnterStep(c) \/ ExitStep(c)
      BY <2>1 DEF Next
    <3>2. CASE CoreStep(c)
      BY <3>2, InterruptKeepsIInv, ReturnKeepsIInv, ForeignKeepsIInv DEF CoreStep
    <3> QED BY <3>1, <3>2, EnterKeepsIInv, ExitKeepsIInv
  <2>2. CASE UNCHANGED vars
    BY <2>2 DEF vars, IInv, TypeOK, Executing, UnmaskedFree, Local, Quiet, Holds, Running
  <2> QED BY <2>1, <2>2
<1> QED BY <1>1, <1>2, PTL DEF Spec

\* The counter of embenet_critical_section.c stays between zero and the
\* deepest nesting and every other variable has its type.
THEOREM TypeCorrect == Spec => []TypeOK
<1>1. IInv => TypeOK
  BY DEF IInv
<1> QED BY <1>1, Inductive, PTL

\* No interrupt handler runs while another context is inside a section of
\* EMBENET_CRITICAL_SECTION_Enter and Exit.
THEOREM Exclusion == Spec => []MutualExclusion
<1>1. IInv => MutualExclusion
  BY DEF IInv, MutualExclusion, Executing, Local, Quiet, Holds, TypeOK
<1> QED BY <1>1, Inductive, PTL

\* The outermost EMBENET_CRITICAL_SECTION_Exit leaves PRIMASK as its caller
\* had it, whoever else used the shared key in between.
THEOREM MaskIsRestored == Spec => []MaskRestored
<1>1. IInv => MaskRestored
  BY DEF IInv, MaskRestored, Executing, Local, Holds, TypeOK
<1> QED BY <1>1, Inductive, PTL

\* No step overwrites the saved mask of an open section.
THEOREM KeyIsStable == Spec => KeyStable
<1>1. IInv /\ [Next]_vars => [(\E c \in Contexts : depth[c] > 0) => key' = key]_vars
  <2> SUFFICES ASSUME IInv, Next, NEW c \in Contexts, depth[c] > 0 PROVE key' = key
    BY DEF vars
  <2>1. Running(c) /\ Local(c)
    BY DEF IInv, Executing, Quiet
  <2>2. PICK d \in Contexts : CoreStep(d) \/ EnterStep(d) \/ ExitStep(d)
    BY DEF Next
  <2>3. CASE EnterDisable(d)
    <3>1. d = c
      BY <2>1, <2>3, RunningUnique DEF EnterDisable, IInv
    <3> QED BY <2>1, <2>3, <3>1 DEF EnterDisable, Local
  <2>4. CASE ~EnterDisable(d)
    BY <2>2, <2>4 DEF CoreStep, EnterStep, ExitStep, Interrupt, Return,
        ForeignDisable, ForeignRestore, EnterTest, EnterLoad, EnterStore,
        ExitCall, ExitLoad, ExitStore, ExitRestore
  <2> QED BY <2>3, <2>4
<1> QED BY <1>1, Inductive, PTL DEF Spec, KeyStable
=============================================================================
