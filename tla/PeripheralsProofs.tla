------------------------- MODULE PeripheralsProofs -------------------------
(***************************************************************************)
(* Proofs about the AES engine and the random number generator             *)
(* (Peripherals.tla), for any number of draws, jobs and initializations.   *)
(***************************************************************************)
EXTENDS Peripherals, TLAPS

\* The power of a peripheral is held exactly while its driver is in use,
\* unless the program has hung.
Powered ==
    /\ handle => power["CRYPTO"] = 1
    /\ ~handle /\ ~aborted => power["CRYPTO"] = 0
    /\ random.stage = "drawing" => power["TRNG"] = 1 /\ ~aborted
    /\ random.stage # "drawing" /\ ~aborted => power["TRNG"] = 0

\* From its first byte to the end of its job the key storage, and from the
\* load of the key the engine, is the interrupt's.
Preempted ==
    /\ stage["isr"] # "none" => keyStorage[1] = "isr"
    /\ stage["isr"] \in {"keyed", "begun", "operating"} => keyStorage = OwnKey("isr")
    /\ stage["isr"] = "operating" => crypto.key = OwnKey("isr")

\* Of a job of the main loop the same holds until one of the interrupt begins;
\* until then the interrupt has none.
Undisturbed ==
    stage["main"] # "none" /\ ~preempted =>
        /\ stage["isr"] = "none"
        /\ keyStorage[1] = "main"
        /\ stage["main"] \in {"keyed", "begun", "operating"} => keyStorage = OwnKey("main")
        /\ stage["main"] = "operating" => crypto.key = OwnKey("main")
        /\ block["main"] \in {ZeroKey, OwnKey("main")}

\* Between its jobs, and until its key is set, a context has no block.
NoBlock == \A c \in Context : stage[c] \in {"none", "copying"} => block[c] = ZeroKey

\* A draw that succeeds leaves a number.
Drawn == random.stage = "drawing" /\ random.result => random.written

\* The engine is held exactly by the context that is in an operation.
Owned == \A c \in Context : crypto.owner = c <=> Operating(c)

\* What the two contexts know of the key and the engine.
Keyed == Owned /\ Preempted /\ InterruptKeyed /\ Undisturbed /\ NoBlock

\* The inductive invariant.
IInv == TypeOK /\ Powered /\ Keyed /\ Drawn /\ RandomWritten

USE DEF Context, Nobody, ZeroKey, OwnKey, Plain, Key

\* Two conjuncts of TypeOK.
RandomType ==
    random \in [stage : {"none", "drawing", "returned"}, draws : 0 .. Draws,
                result : BOOLEAN, written : BOOLEAN]

PowerType == power \in [{"CRYPTO", "TRNG"} -> 0 .. 1]

\* Taking or releasing the dependency on one peripheral leaves the other alone.
LEMMA PowerStep ==
    ASSUME PowerType, NEW p \in {"CRYPTO", "TRNG"}, NEW n \in 0 .. 1,
           power' = [power EXCEPT ![p] = n]
    PROVE  /\ PowerType'
           /\ \A q \in {"CRYPTO", "TRNG"} : power'[q] = IF q = p THEN n ELSE power[q]
  BY DEF PowerType

\* The call of the generator as it begins.
LEMMA CallType ==
    ASSUME NEW s \in {"none", "drawing"}
    PROVE  Call(s) \in [stage : {"none", "drawing", "returned"}, draws : 0 .. Draws,
                        result : BOOLEAN, written : BOOLEAN]
  BY DrawsAssumption DEF Call

\* The statics and the drivers' initial state establish the invariant.
LEMMA InitIInv == Init => IInv
  <1> SUFFICES ASSUME Init PROVE IInv
    OBVIOUS
  <1> USE DrawsAssumption, BoundAssumption
  <1>1. power \in [{"CRYPTO", "TRNG"} -> 0 .. 1]
    BY DEF Init
  <1>2. random \in [stage : {"none", "drawing", "returned"}, draws : 0 .. Draws,
                    result : BOOLEAN, written : BOOLEAN]
    BY CallType DEF Init, NoCall
  <1>3. crypto \in [owner : Context \cup {Nobody}, key : Key]
    BY DEF Init, FreeCrypto
  <1>4. /\ stage \in [Context -> {"none", "copying", "keyed", "begun", "operating"}]
        /\ block \in [Context -> Key \cup {Plain}]
    BY DEF Init
  <1>5. inits \in 0 .. MaxInits /\ jobs \in 0 .. MaxJobs
    BY DEF Init
  <1>6. keyStorage \in Key /\ handle \in BOOLEAN /\ aborted \in BOOLEAN /\ preempted \in BOOLEAN
    BY DEF Init
  <1>7. TypeOK
    BY <1>1, <1>2, <1>3, <1>4, <1>5, <1>6 DEF TypeOK
  <1>8. Powered /\ Keyed /\ Drawn /\ RandomWritten
    BY DEF Init, Powered, Keyed, Owned, Operating, Preempted, Undisturbed, NoBlock, InterruptKeyed, Drawn,
       RandomWritten, NoCall, Call, Owned, Operating, FreeCrypto
  <1> QED
    BY <1>7, <1>8 DEF IInv

\* embenet_aes128.c: the functions of AES, and the steps of the engine, of
\* either context.
LEMMA AesKeepsIInv == IInv /\ Aes => IInv'
  <1> SUFFICES ASSUME IInv, Aes PROVE IInv'
    OBVIOUS
  <1> USE DrawsAssumption, BoundAssumption
  <1>1. CASE EMBENET_AES128_Init
    <2>1. power["CRYPTO"] = 0 /\ random = NoCall /\ ~aborted
      BY <1>1 DEF IInv, Powered, EMBENET_AES128_Init, MainLoop, NoCall, Call
    <2>2. power["CRYPTO"] \in Nat /\ PowerType
      BY DEF IInv, TypeOK, PowerType
    <2>3. power' = [power EXCEPT !["CRYPTO"] = 1]
      BY <1>1, <2>1, <2>2 DEF EMBENET_AES128_Init, Power_setDependency
    <2>4. PowerType' /\ \A q \in {"CRYPTO", "TRNG"} : power'[q] = IF q = "CRYPTO" THEN 1 ELSE power[q]
      BY <2>2, <2>3, PowerStep
    <2>5. /\ UNCHANGED <<keyStorage, crypto, stage, block, random, preempted, jobs>> /\ inits' \in 0 .. MaxInits
          /\ \/ handle' = TRUE /\ UNCHANGED aborted
             \/ aborted' = TRUE /\ UNCHANGED handle
      BY <1>1 DEF IInv, TypeOK, EMBENET_AES128_Init
    <2>6. Keyed'
      BY <2>5 DEF IInv, Keyed, Owned, Operating, Preempted, Undisturbed, NoBlock, InterruptKeyed
    <2>7. TypeOK'
      BY <2>4, <2>5 DEF IInv, TypeOK, PowerType
    <2>8. Powered' /\ Drawn' /\ RandomWritten'
      BY <2>1, <2>4, <2>5 DEF IInv, Powered, Drawn, RandomWritten, NoCall, Call
    <2> QED BY <2>6, <2>7, <2>8 DEF IInv
  <1>2. CASE EMBENET_AES128_Deinit
    <2>1. power["CRYPTO"] = 1 /\ random = NoCall /\ ~aborted /\ stage["isr"] = "none"
      BY <1>2 DEF IInv, Powered, EMBENET_AES128_Deinit, MainLoop, NoCall, Call
    <2>2. power["CRYPTO"] \in Nat /\ PowerType
      BY DEF IInv, TypeOK, PowerType
    <2>3. power' = [power EXCEPT !["CRYPTO"] = 0]
      BY <1>2, <2>1, <2>2 DEF EMBENET_AES128_Deinit, Power_releaseDependency
    <2>4. PowerType' /\ \A q \in {"CRYPTO", "TRNG"} : power'[q] = IF q = "CRYPTO" THEN 0 ELSE power[q]
      BY <2>2, <2>3, PowerStep
    <2>5. /\ handle' = FALSE /\ keyStorage' = ZeroKey
          /\ UNCHANGED <<crypto, stage, block, random, aborted, bounds>>
      BY <1>2 DEF IInv, TypeOK, EMBENET_AES128_Deinit
    <2>6. Keyed'
      BY <1>2, <2>5 DEF IInv, Keyed, Owned, Operating, Preempted, Undisturbed, NoBlock, InterruptKeyed,
         EMBENET_AES128_Deinit, MainLoop, bounds
    <2>7. TypeOK'
      BY <2>4, <2>5 DEF IInv, TypeOK, PowerType, bounds
    <2>8. Powered' /\ Drawn' /\ RandomWritten'
      BY <2>1, <2>4, <2>5 DEF IInv, Powered, Drawn, RandomWritten, NoCall, Call
    <2> QED BY <2>6, <2>7, <2>8 DEF IInv
  <1>3. ASSUME NEW c \in Context, SetKeyBegin(c) PROVE IInv'
    <2>1. TypeOK'
      BY <1>3 DEF IInv, TypeOK, SetKeyBegin, Step, Runs
    <2>2. Keyed'
      <3>1. CASE c = "main"
        BY <1>3, <3>1 DEF IInv, TypeOK, Keyed, Owned, Operating, Preempted, Undisturbed, NoBlock, InterruptKeyed,
           SetKeyBegin, Step, Runs
      <3>2. CASE c = "isr"
        <4>1. /\ stage["isr"] = "none" /\ stage' = [stage EXCEPT !["isr"] = "copying"]
              /\ keyStorage' = [keyStorage EXCEPT ![1] = "isr"]
              /\ preempted' = (preempted \/ stage["main"] # "none")
              /\ UNCHANGED <<crypto, block>>
          BY <1>3, <3>2 DEF SetKeyBegin, Step
        <4>2. /\ stage \in [Context -> {"none", "copying", "keyed", "begun", "operating"}]
              /\ keyStorage \in Key /\ preempted \in BOOLEAN
          BY DEF IInv, TypeOK
        <4>3. /\ stage'["isr"] = "copying" /\ stage'["main"] = stage["main"]
              /\ keyStorage'[1] = "isr"
          BY <4>1, <4>2
        <4>4. Preempted' /\ InterruptKeyed' /\ NoBlock'
          BY <4>1, <4>3 DEF IInv, Keyed, Preempted, InterruptKeyed, Operating, NoBlock
        <4>5. Undisturbed'
          BY <4>1, <4>2, <4>3 DEF Undisturbed
        <4>6. Owned'
          BY <4>1, <4>2 DEF IInv, Keyed, Owned, Operating
        <4> QED
          BY <4>4, <4>5, <4>6 DEF Keyed
      <3> QED
        BY <3>1, <3>2
    <2> QED
      BY <1>3, <2>1, <2>2 DEF IInv, Powered, Drawn, RandomWritten, SetKeyBegin
  <1>4. ASSUME NEW c \in Context, SetKeyEnd(c) PROVE IInv'
    BY <1>4 DEF IInv, TypeOK, Powered, Keyed, Owned, Operating, Preempted, Undisturbed, NoBlock,
       InterruptKeyed, Drawn, RandomWritten, SetKeyEnd, Step, Runs, bounds
  <1>5. ASSUME NEW c \in Context, OperationBegins(c) PROVE IInv'
    <2>1. CASE crypto.owner = Nobody
      BY <1>5, <2>1 DEF IInv, TypeOK, Powered, Keyed, Owned, Operating, Preempted, Undisturbed, NoBlock,
         InterruptKeyed, Drawn, RandomWritten, OperationBegins, Step, Runs, bounds
    <2>2. CASE crypto.owner # Nobody
      BY <1>5, <2>2 DEF IInv, TypeOK, Powered, Keyed, Owned, Operating, Preempted, Undisturbed, NoBlock,
         InterruptKeyed, Drawn, RandomWritten, OperationBegins, Step, Runs, bounds
    <2> QED
      BY <2>1, <2>2
  <1>6. ASSUME NEW c \in Context, LoadKey(c) PROVE IInv'
    BY <1>6 DEF IInv, TypeOK, Powered, Keyed, Owned, Operating, Preempted, Undisturbed, NoBlock,
       InterruptKeyed, Drawn, RandomWritten, LoadKey, Step, Runs, bounds
  <1>7. ASSUME NEW c \in Context, OperationEnds(c) PROVE IInv'
    <2>1. /\ handle /\ stage[c] = "operating" /\ stage' = [stage EXCEPT ![c] = "keyed"]
          /\ c = "main" => stage["isr"] = "none"
          /\ block' = [block EXCEPT ![c] = crypto.key]
          /\ crypto' = FreeCrypto
          /\ UNCHANGED <<power, handle, keyStorage, random, aborted, bounds>>
      BY <1>7 DEF OperationEnds, Step, Runs
    <2>2. TypeOK'
      BY <2>1 DEF IInv, TypeOK, FreeCrypto, bounds
    <2>3. crypto.owner = c
      BY <2>1 DEF IInv, Keyed, Owned, Operating
    <2>4. \A d \in Context : ~Operating(d)'
      BY <2>1, <2>3 DEF IInv, TypeOK, Keyed, Owned, Operating
    <2>5. Owned'
      BY <2>1, <2>4 DEF Owned, FreeCrypto
    <2>6. Preempted' /\ Undisturbed' /\ NoBlock'
      BY <2>1 DEF IInv, TypeOK, Keyed, Preempted, Undisturbed, NoBlock, bounds
    <2>7. InterruptKeyed'
      <3>1. CASE c = "isr"
        BY <2>1, <3>1 DEF IInv, TypeOK, Keyed, Preempted, InterruptKeyed
      <3>2. CASE c = "main"
        BY <2>1, <3>2 DEF IInv, TypeOK, Keyed, NoBlock, InterruptKeyed
      <3> QED
        BY <3>1, <3>2
    <2> QED
      BY <2>1, <2>2, <2>5, <2>6, <2>7 DEF IInv, Powered, Drawn, RandomWritten, Keyed, bounds
  <1>8. ASSUME NEW c \in Context, JobEnds(c) PROVE IInv'
    BY <1>8 DEF IInv, TypeOK, Powered, Keyed, Owned, Operating, Preempted, Undisturbed, NoBlock,
       InterruptKeyed, Drawn, RandomWritten, JobEnds, Step, Runs, bounds
  <1> QED
    BY <1>1, <1>2, <1>3, <1>4, <1>5, <1>6, <1>7, <1>8
       DEF Aes, EMBENET_AES128_Encrypt, EMBENET_AES128_Decrypt

\* embenet_random.c: the call of the generator, draw by draw.
LEMMA RandomKeepsIInv == IInv /\ Random => IInv'
  <1> SUFFICES ASSUME IInv, Random PROVE IInv'
    OBVIOUS
  <1> USE DrawsAssumption, BoundAssumption
  <1>1. CASE RandomOpen
    <2>1. power["TRNG"] = 0 /\ random = NoCall /\ ~aborted
      BY <1>1 DEF IInv, Powered, RandomOpen, MainLoop, NoCall, Call
    <2>2. power["TRNG"] \in Nat /\ PowerType
      BY DEF IInv, TypeOK, PowerType
    <2>3. power' = [power EXCEPT !["TRNG"] = 1]
      BY <1>1, <2>1, <2>2 DEF RandomOpen, Power_setDependency
    <2>4. PowerType' /\ \A q \in {"CRYPTO", "TRNG"} : power'[q] = IF q = "TRNG" THEN 1 ELSE power[q]
      BY <2>2, <2>3, PowerStep
    <2>5. /\ UNCHANGED <<aes, preempted, jobs>> /\ inits' \in 0 .. MaxInits
          /\ \/ random' = Call("drawing") /\ UNCHANGED aborted
             \/ aborted' = TRUE /\ UNCHANGED random
      BY <1>1 DEF IInv, TypeOK, RandomOpen
    <2>6. RandomType' /\ Drawn' /\ RandomWritten'
      BY <2>1, <2>5, CallType DEF RandomType, Drawn, RandomWritten, NoCall, Call
    <2>7. Powered'
      BY <2>1, <2>4, <2>5 DEF IInv, TypeOK, Powered, NoCall, Call, aes
    <2> QED
      BY <2>4, <2>5, <2>6, <2>7 DEF IInv, TypeOK, PowerType, RandomType, Keyed, Owned, Operating, Preempted,
         Undisturbed, NoBlock, InterruptKeyed, aes, bounds
  <1>2. CASE RandomDraw
    <2>1. PICK success \in BOOLEAN :
             random' = [random EXCEPT !.draws = @ + 1, !.result = success, !.written = @ \/ success]
      BY <1>2 DEF RandomDraw
    <2>2. RandomType /\ random.stage = "drawing" /\ random.draws + 1 \in 0 .. Draws
      BY <1>2 DEF IInv, TypeOK, RandomType, RandomDraw
    <2>3. RandomType' /\ random'.stage = "drawing"
      BY <2>1, <2>2 DEF RandomType
    <2>4. Drawn'
      BY <2>1, <2>2 DEF RandomType, Drawn
    <2>5. UNCHANGED <<power, aes, aborted, bounds>>
      BY <1>2 DEF RandomDraw
    <2> QED
      BY <2>2, <2>3, <2>4, <2>5 DEF IInv, TypeOK, RandomType, Powered, Keyed, Owned, Operating, Preempted,
         Undisturbed, NoBlock, InterruptKeyed, RandomWritten, aes, bounds
  <1>3. CASE RandomReturn
    <2>1. power["TRNG"] = 1 /\ random.stage = "drawing" /\ ~aborted
      BY <1>3 DEF IInv, Powered, RandomReturn, MainLoop, NoCall, Call
    <2>2. power["TRNG"] \in Nat /\ PowerType
      BY DEF IInv, TypeOK, PowerType
    <2>3. power' = [power EXCEPT !["TRNG"] = 0]
      BY <1>3, <2>1, <2>2 DEF RandomReturn, Power_releaseDependency
    <2>4. PowerType' /\ \A q \in {"CRYPTO", "TRNG"} : power'[q] = IF q = "TRNG" THEN 0 ELSE power[q]
      BY <2>2, <2>3, PowerStep
    <2>5. /\ UNCHANGED <<aes, bounds>>
          /\ \/ random.result /\ random' = [random EXCEPT !.stage = "returned"] /\ UNCHANGED aborted
             \/ random' = NoCall /\ aborted' = TRUE
      BY <1>3 DEF IInv, TypeOK, RandomReturn
    <2>6. RandomType /\ Drawn
      BY DEF IInv, TypeOK, RandomType
    <2>7. CASE random' = NoCall
      BY <2>1, <2>4, <2>5, <2>7, CallType DEF IInv, TypeOK, PowerType, Powered, Keyed, Owned, Operating, Preempted,
         Undisturbed, NoBlock, InterruptKeyed, Drawn, RandomWritten, NoCall, Call, aes, bounds
    <2>8. CASE random.result /\ random' = [random EXCEPT !.stage = "returned"] /\ UNCHANGED aborted
      <3>1. RandomType' /\ Drawn' /\ RandomWritten'
        BY <2>1, <2>6, <2>8 DEF RandomType, Drawn, RandomWritten
      <3>2. random'.stage = "returned"
        BY <2>6, <2>8 DEF RandomType
      <3> QED
        BY <2>1, <2>4, <2>5, <2>8, <3>1, <3>2 DEF IInv, TypeOK, PowerType, RandomType, Powered,
           Keyed, Owned, Operating, Preempted, Undisturbed, NoBlock, InterruptKeyed, aes, bounds
    <2> QED
      BY <2>5, <2>7, <2>8
  <1>4. CASE RandomUsed
    BY <1>4 DEF IInv, TypeOK, Powered, Keyed, Owned, Operating, Preempted, Undisturbed, NoBlock,
       InterruptKeyed, Drawn, RandomWritten, RandomUsed, NoCall, Call, aes, bounds
  <1> QED
    BY <1>1, <1>2, <1>3, <1>4 DEF Random

\* IInv is an invariant of the two peripherals.
THEOREM Inductive == Spec => []IInv
  <1>1. IInv /\ [Next]_vars => IInv'
    <2> SUFFICES ASSUME IInv, [Next]_vars PROVE IInv'
      OBVIOUS
    <2>1. CASE UNCHANGED vars
      BY <2>1 DEF IInv, TypeOK, Powered, Keyed, Owned, Operating, Preempted, Undisturbed, NoBlock, InterruptKeyed,
         Drawn, RandomWritten, vars, aes, bounds
    <2> QED
      BY <2>1, AesKeepsIInv, RandomKeepsIInv DEF Next, Abort, Done
  <1> QED
    BY <1>1, InitIInv, PTL DEF Spec

\* The variables keep their types: no dependency on the power of a peripheral
\* is released that is not held, and none is taken twice.
THEOREM TypeCorrect == Spec => []TypeOK
  <1>1. IInv => TypeOK
    BY DEF IInv
  <1> QED
    BY <1>1, Inductive, PTL

\* embenet_aes128.c:55-77: what the interrupt has ciphered is ciphered with its
\* own whole key; it is refused only while the main loop's operation that it
\* preempts is not over.
THEOREM InterruptIsKeyed == Spec => []InterruptKeyed
  <1>1. IInv => InterruptKeyed
    BY DEF IInv, Keyed
  <1> QED
    BY <1>1, Inductive, PTL

\* embenet_aes128.c:55-77: the main loop's blocks are ciphered with its own whole
\* key, and none is refused, until a job of the interrupt begins within its own.
THEOREM MainIsKeyed == Spec => []MainKeyed
  <1>1. IInv => MainKeyed
    BY DEF IInv, TypeOK, Keyed, Undisturbed, NoBlock, MainKeyed
  <1> QED
    BY <1>1, Inductive, PTL

\* embenet_random.c:33-43: a number that is returned was written.
THEOREM RandomIsWritten == Spec => []RandomWritten
  <1>1. IInv => RandomWritten
    BY DEF IInv
  <1> QED
    BY <1>1, Inductive, PTL

=============================================================================
