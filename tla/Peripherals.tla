---------------------------- MODULE Peripherals ----------------------------
(***************************************************************************)
(* The AES engine and the random number generator of the port,             *)
(* embenet_aes128.c and embenet_random.c, over TI's drivers (external).    *)
(*                                                                         *)
(* Two contexts cipher: the main loop (the join protocol of the stack, in  *)
(* CBC mode) and the interrupt of the MAC (frame security, in CCM mode).   *)
(* A job of either is a call of SetKey and calls of Encrypt or Decrypt.    *)
(* The interrupt preempts the main loop anywhere and runs to completion.   *)
(* A key is a pair of halves, each named by the context whose key it is    *)
(* from, because copying a key takes several instructions.  A block the    *)
(* driver has refused is Plain: the data are as the caller left them.      *)
(***************************************************************************)
EXTENDS Naturals

CONSTANTS
    Draws,     \* how often EMBENET_RANDOM_Get reads the generator: 100
    MaxInits,  \* bound on the initializations
    MaxJobs    \* bound on the jobs

ASSUME DrawsAssumption == Draws \in Nat \ {0}
ASSUME BoundAssumption == MaxInits \in Nat /\ MaxJobs \in Nat

Context == {"main", "isr"}
Nobody == "nobody"
ZeroKey == <<Nobody, Nobody>>
OwnKey(c) == <<c, c>>
Plain == <<"plain", "plain">>

VARIABLES
    power,       \* of each peripheral, the dependencies on its power
    handle,      \* whether the AES driver is open
    keyStorage,
    crypto,      \* who holds the crypto resource of the driver, and its key
    stage,       \* of each context, how far its job is
    block,       \* of each context, the key its latest block is ciphered with,
                 \* Plain if it was refused, or ZeroKey if there is none
    random,      \* the call of EMBENET_RANDOM_Get
    aborted,     \* the main loop is in EXPECT_OnAbortHandler
    preempted,   \* history: a job of the interrupt began within the main loop's
    inits, jobs

aes == <<handle, keyStorage, crypto, stage, block>>
bounds == <<preempted, inits, jobs>>
vars == <<power, aes, random, aborted, bounds>>

FreeCrypto == [owner |-> Nobody, key |-> ZeroKey]
Call(s) == [stage |-> s, draws |-> 0, result |-> FALSE, written |-> FALSE]
NoCall == Call("none")

Init ==
    /\ power = [p \in {"CRYPTO", "TRNG"} |-> 0]
    /\ handle = FALSE /\ keyStorage = ZeroKey /\ crypto = FreeCrypto
    /\ stage = [c \in Context |-> "none"] /\ block = [c \in Context |-> ZeroKey]
    /\ random = NoCall /\ aborted = FALSE /\ preempted = FALSE
    /\ inits = 0 /\ jobs = 0

Power_setDependency(p) == power' = [power EXCEPT ![p] = @ + 1]
Power_releaseDependency(p) == power' = [power EXCEPT ![p] = @ - 1]

\* The main loop executes, and is not in a call of AES or of Random.
MainLoop == ~aborted /\ stage = [c \in Context |-> "none"] /\ random = NoCall

----------------------------------------------------------------------------
(* embenet_aes128.c                                                        *)

\* AESECB_open may fail.
EMBENET_AES128_Init ==
    /\ MainLoop /\ ~handle /\ inits < MaxInits
    /\ inits' = inits + 1
    /\ Power_setDependency("CRYPTO")
    /\ \/ handle' = TRUE /\ UNCHANGED aborted
       \/ aborted' = TRUE /\ UNCHANGED handle
    /\ UNCHANGED <<keyStorage, crypto, stage, block, random, preempted, jobs>>

\* Fault: the power dependency is kept.
DeinitKeepsPower ==
    /\ MainLoop /\ handle
    /\ handle' = FALSE /\ keyStorage' = ZeroKey
    /\ UNCHANGED <<power, crypto, stage, block, random, aborted, bounds>>

EMBENET_AES128_Deinit ==
    /\ MainLoop /\ handle
    /\ handle' = FALSE
    /\ Power_releaseDependency("CRYPTO")
    /\ keyStorage' = ZeroKey
    /\ UNCHANGED <<crypto, stage, block, random, aborted, bounds>>

\* The interrupt may come at any time, the main loop goes on when it is over.
Runs(c) == handle /\ (c = "main" => ~aborted /\ stage["isr"] = "none" /\ random = NoCall)

Step(c, from, to) == Runs(c) /\ stage[c] = from /\ stage' = [stage EXCEPT ![c] = to]

\* EMBENET_AES128_SetKey, the first bytes of memcpy; a job begins.
SetKeyBegin(c) ==
    /\ Step(c, "none", "copying") /\ jobs < MaxJobs
    /\ jobs' = jobs + 1
    /\ keyStorage' = [keyStorage EXCEPT ![1] = c]
    /\ preempted' = (c = "isr" /\ (preempted \/ stage["main"] # "none"))
    /\ UNCHANGED <<power, handle, crypto, block, random, aborted, inits>>

\* Fault: sizeof of the parameter, a pointer, as the length of the key.
SetKeyEndShort(c) ==
    /\ Step(c, "copying", "keyed")
    /\ UNCHANGED <<power, handle, keyStorage, crypto, block, random, aborted, bounds>>

\* The rest of memcpy.
SetKeyEnd(c) ==
    /\ Step(c, "copying", "keyed")
    /\ keyStorage' = [keyStorage EXCEPT ![2] = c]
    /\ UNCHANGED <<power, handle, crypto, block, random, aborted, bounds>>

\* The driver (external) takes the crypto resource for a polled operation, or
\* returns AESECB_STATUS_RESOURCE_UNAVAILABLE.
OperationBegins(c) ==
    /\ IF crypto.owner = Nobody
       THEN /\ Step(c, "keyed", "begun")
            /\ crypto' = [crypto EXCEPT !.owner = c]
            /\ UNCHANGED block
       ELSE /\ Step(c, "keyed", "keyed")
            /\ block' = [block EXCEPT ![c] = Plain]
            /\ UNCHANGED crypto
    /\ UNCHANGED <<power, handle, keyStorage, random, aborted, bounds>>

\* EMBENET_AES128_Encrypt: a failure is ignored, the data stay as they are.
EMBENET_AES128_Encrypt(c) == OperationBegins(c)

\* EMBENET_AES128_Decrypt; the security of the MAC does without it.
EMBENET_AES128_Decrypt == OperationBegins("main")

\* The driver writes the key to the engine's key store (external).
LoadKey(c) ==
    /\ Step(c, "begun", "operating")
    /\ crypto' = [crypto EXCEPT !.key = keyStorage]
    /\ UNCHANGED <<power, handle, keyStorage, block, random, aborted, bounds>>

\* The engine is done; the block is overwritten in place.
OperationEnds(c) ==
    /\ Step(c, "operating", "keyed")
    /\ block' = [block EXCEPT ![c] = crypto.key]
    /\ crypto' = FreeCrypto
    /\ UNCHANGED <<power, handle, keyStorage, random, aborted, bounds>>

\* The caller has no more blocks.
JobEnds(c) ==
    /\ Step(c, "keyed", "none")
    /\ block' = [block EXCEPT ![c] = ZeroKey]
    /\ UNCHANGED <<power, handle, keyStorage, crypto, random, aborted, bounds>>

----------------------------------------------------------------------------
(* EMBENET_RANDOM_Get, from the main loop.                                 *)

\* TRNG_open may fail.
RandomOpen ==
    /\ MainLoop /\ inits < MaxInits
    /\ inits' = inits + 1
    /\ Power_setDependency("TRNG")
    /\ \/ random' = Call("drawing") /\ UNCHANGED aborted
       \/ aborted' = TRUE /\ UNCHANGED random
    /\ UNCHANGED <<aes, preempted, jobs>>

\* One call of TRNG_getRandomBytes, which writes v if it succeeds.
RandomDraw ==
    /\ random.stage = "drawing" /\ random.draws < Draws
    /\ \E success \in BOOLEAN :
          random' = [random EXCEPT !.draws = @ + 1, !.result = success,
                                   !.written = @ \/ success]
    /\ UNCHANGED <<power, aes, aborted, bounds>>

\* Fault: the result is not looked at.
RandomReturnAlways ==
    /\ random.stage = "drawing" /\ random.draws = Draws
    /\ Power_releaseDependency("TRNG")
    /\ random' = [random EXCEPT !.stage = "returned"]
    /\ UNCHANGED <<aes, aborted, bounds>>

\* The result of the last draw decides.
RandomReturn ==
    /\ random.stage = "drawing" /\ random.draws = Draws
    /\ Power_releaseDependency("TRNG")
    /\ IF random.result
       THEN random' = [random EXCEPT !.stage = "returned"] /\ UNCHANGED aborted
       ELSE random' = NoCall /\ aborted' = TRUE
    /\ UNCHANGED <<aes, bounds>>

RandomUsed ==
    /\ random.stage = "returned"
    /\ random' = NoCall
    /\ UNCHANGED <<power, aes, aborted, bounds>>

----------------------------------------------------------------------------
Aes ==
    \/ EMBENET_AES128_Init \/ EMBENET_AES128_Deinit \/ EMBENET_AES128_Decrypt
    \/ \E c \in Context :
          \/ SetKeyBegin(c) \/ SetKeyEnd(c) \/ EMBENET_AES128_Encrypt(c)
          \/ LoadKey(c) \/ OperationEnds(c) \/ JobEnds(c)

Random == RandomOpen \/ RandomDraw \/ RandomReturn \/ RandomUsed

\* EXPECT_OnAbortHandler: the main loop hangs.
Abort == aborted /\ UNCHANGED vars

\* The bound on the initializations is reached.
Done == MainLoop /\ ~handle /\ inits = MaxInits /\ UNCHANGED vars

Next == Aes \/ Random \/ Abort \/ Done

Spec == Init /\ [][Next]_vars

----------------------------------------------------------------------------
(* Properties.                                                             *)

Key == {Nobody, "main", "isr"} \X {Nobody, "main", "isr"}

\* Every variable has its type.
TypeOK ==
    /\ power \in [{"CRYPTO", "TRNG"} -> 0 .. 1]
    /\ handle \in BOOLEAN /\ keyStorage \in Key
    /\ crypto \in [owner : Context \cup {Nobody}, key : Key]
    /\ stage \in [Context -> {"none", "copying", "keyed", "begun", "operating"}]
    /\ block \in [Context -> Key \cup {Plain}]
    /\ random \in [stage : {"none", "drawing", "returned"}, draws : 0 .. Draws,
                   result : BOOLEAN, written : BOOLEAN]
    /\ aborted \in BOOLEAN /\ preempted \in BOOLEAN
    /\ inits \in 0 .. MaxInits /\ jobs \in 0 .. MaxJobs

Operating(c) == stage[c] \in {"begun", "operating"}

\* embenet_aes128.c:55-77: what the interrupt has the engine cipher is ciphered
\* with its own whole key, wherever it preempts the main loop, and it is refused
\* only while the operation of the main loop that it preempts is not over: no
\* operation leaves the engine held or with another's key.
InterruptKeyed ==
    \/ block["isr"] \in {ZeroKey, OwnKey("isr")}
    \/ block["isr"] = Plain /\ Operating("main")

\* embenet_aes128.c:55-77: the main loop has its own whole key and is not refused
\* as long as no job of the interrupt has begun since it set its key, whatever
\* other jobs have left in the key storage and in the engine, and in its later
\* blocks as in its first.
MainKeyed == ~preempted => block["main"] \in {ZeroKey, OwnKey("main")}

\* embenet_random.c:33-43: a number that is returned was written by the
\* generator, whichever of the draws failed.
RandomWritten == random.stage = "returned" => random.written

\* embenet_aes128.h:44: "The key set by this function should be used during the
\* subsequent calls to EMBENET_AES128_Encrypt and EMBENET_AES128_Decrypt".
CallersKeyUsed == \A c \in Context : block[c] \in {ZeroKey, Plain, OwnKey(c)}

\* embenet_aes128.h:53: "This function should encrypt the given 16 bytes of data
\* overwriting the original plaintext data with the ciphered representation."
PlaintextOverwritten == \A c \in Context : block[c] # Plain

=============================================================================
