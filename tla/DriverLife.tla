----------------------------- MODULE DriverLife ------------------------------
(***************************************************************************)
(* The life of nt351sse.sys on a running machine: DriverEntry with its     *)
(* refusals and failures, the installation of the two hooks, enabling SSE, *)
(* DriverUnload, and loading again.  Threads run, trap and switch between  *)
(* any two steps during which interrupts are on (XmmSwitch!Running).       *)
(*                                                                         *)
(* DriverEntry and DriverUnload run in one system thread, Loader; pc is    *)
(* where it is.  Up to the first write to the IDT and after the last one   *)
(* nothing else can reach the driver's data, so there a step is a whole    *)
(* function, or a turn of a loop over the pool or the table; in between it *)
(* is one store another thread could see.  A critical section starts with  *)
(* the step that holds its cli and ends with the step that holds its sti.  *)
(*                                                                         *)
(* Loading the image sets its static data to zero, so the variables of the *)
(* driver start afresh with every load, and the registers do not.          *)
(***************************************************************************)
EXTENDS XmmSwitch

CONSTANTS
  Processors        \* the processors considered, each as the set of its features;
                    \* "CPUID" is one of them

VARIABLES
  processor,        \* the features of this machine's processor
  pc,               \* the next step of DriverEntry or DriverUnload
  IF_flag,          \* EFLAGS.IF
  gate,             \* vector 7's descriptor: where its two halves point
  swapCode,         \* SwapContext's first bytes: opcode, and the 4 that follow
  heap,             \* the driver's allocations
  g_FxImageRaw,     \* is the scratch image allocated?
  g_KernelNmResume, \* is the resume address set?
  g_SwapTrampoline, \* does it hold a built trampoline?
  g_BuffersBuilt    \* how many pre-fills succeeded

life == <<pc, IF_flag, gate, swapCode, heap, g_FxImageRaw,
          g_KernelNmResume, g_SwapTrampoline, g_BuffersBuilt>>

allVars == <<vars, life, processor>>

machine == <<hardware, kernel, history>>
hooks   == <<nmHooked, swapHooked>>
code    == <<IF_flag, gate, swapCode>>
statics == <<g_FxImageRaw, g_KernelNmResume, g_SwapTrampoline, g_BuffersBuilt>>

-----------------------------------------------------------------------------

Node(b)    == <<"node", b>>       \* an SSE_BUFFER
RawBase(b) == <<"raw", b>>        \* its save area
Image      == <<"image", 0>>
Trampoline == <<"trampoline", 0>>

Blocks(bs) == {Node(b) : b \in bs} \cup {RawBase(b) : b \in bs}

OnFreeList == {g_FreeList[i] : i \in DOMAIN g_FreeList}
InTable    == {g_Table[s].Buffer : s \in Slots} \ {NULL}

\* Control moves from one step of Loader to another.
Goto(from, to) ==
  /\ cur = Loader
  /\ pc = from /\ pc' = to

\* PoolDrain pops and frees until the list is empty.
PoolDrain(freed) ==
  /\ heap' = heap \ (freed \cup Blocks(OnFreeList))
  /\ g_FreeList' = <<>>

-----------------------------------------------------------------------------
(* DriverEntry up to the hooks.                                            *)

\* ZwLoadDriver brings the image in, its static data zeroed.
LoadDriver ==
  /\ Goto("unloaded", "gates")
  /\ heap' = {}                     \* what an earlier load left is out of reach
  /\ g_Table' = [s \in Slots |-> EmptySlot]
  /\ g_FreeList' = <<>>
  /\ g_FxOwner' = NULL
  /\ g_FxImageRaw' = FALSE /\ g_KernelNmResume' = FALSE /\ g_SwapTrampoline' = FALSE
  /\ g_BuffersBuilt' = 0
  /\ UNCHANGED <<machine, hooks, code, save, g_FxImage>>

\* The ForceNpxEmulation opt-out and the CPUID gates (module LoadGates): the
\* load may be declined on any processor.
CheckGates ==
  /\ \/ Goto("gates", "pool") /\ {"CPUID", "FXSR", "SSE"} \subseteq processor
     \/ Goto("gates", "unloaded")
  /\ UNCHANGED <<vars, code, statics, heap>>

\* Mutant: the new save area holds what the memory held.
PoolBuildOne_NoDefaults ==
  /\ Goto("pool", "pool")
  /\ \E b \in Buffers :
       /\ b = g_BuffersBuilt + 1
       /\ heap' = heap \cup Blocks({b})
       /\ PoolPush(b)
       /\ g_BuffersBuilt' = b
  /\ UNCHANGED <<machine, hooks, code, save, g_FxOwner, g_FxImage, g_Table,
                 g_FxImageRaw, g_KernelNmResume, g_SwapTrampoline>>

\* PoolBuildOne: two allocations, the first one freed if the second fails.  The
\* new save area holds the defaults.
PoolBuildOne ==
  /\ Goto("pool", "pool")
  /\ \E b \in Buffers :
       /\ b = g_BuffersBuilt + 1
       /\ heap' = heap \cup Blocks({b})
       /\ save' = [save EXCEPT ![b] = DefaultXmm]
       /\ PoolPush(b)
       /\ g_BuffersBuilt' = b
  /\ UNCHANGED <<machine, hooks, code, g_FxOwner, g_FxImage, g_Table,
                 g_FxImageRaw, g_KernelNmResume, g_SwapTrampoline>>

\* The pre-fill loop ends, at PREFILL_BUFFERS or at an allocation that failed.
PoolBuilt ==
  /\ \/ Goto("pool", "assign") /\ g_BuffersBuilt # 0
     \/ Goto("pool", "unloaded") /\ g_BuffersBuilt = 0
  /\ UNCHANGED <<vars, code, statics, heap>>

\* Mutant: the test ends by emptying the table, not by releasing its entry.
SelfTest_EmptiesTable ==
  /\ \/ \E a \in Buffers \cup {NULL} :
          /\ \/ Goto("assign", "lookup")
             \/ Goto("lookup", "release")
             \/ Goto("assign_again", "release_again")
          /\ TableLookupOrAssign(cur, a)
     \/ Goto("release", "assign_again") /\ TableRelease(cur)
     \/ /\ Goto("release_again", "image")
        /\ g_Table' = [s \in Slots |-> EmptySlot]
        /\ UNCHANGED g_FreeList
  /\ UNCHANGED <<machine, hooks, code, statics, save, g_FxOwner, g_FxImage,
                 heap>>

\* The self-test: assign and look up again, release, assign and release.  With a
\* buffer on the list and an empty table both lookups return the same buffer, so
\* the branch for a test that failed is never taken; it would only print.
SelfTest ==
  /\ \/ \E a \in Buffers \cup {NULL} :
          /\ \/ Goto("assign", "lookup")
             \/ Goto("lookup", "release")
             \/ Goto("assign_again", "release_again")
          /\ TableLookupOrAssign(cur, a)
     \/ /\ \/ Goto("release", "assign_again")
           \/ Goto("release_again", "image")
        /\ TableRelease(cur)
  /\ UNCHANGED <<machine, hooks, code, statics, save, g_FxOwner, g_FxImage,
                 heap>>

AllocateFxImage ==
  /\ Goto("image", "install_nm")
  /\ heap' = heap \cup {Image}
  /\ g_FxImageRaw' = TRUE
  /\ g_FxImage' = [x87 |-> InitX87, xmm |-> ZeroedXmm]
  /\ g_FxOwner' = NULL
  /\ UNCHANGED <<machine, hooks, code, save, poolVars, g_KernelNmResume,
                 g_SwapTrampoline, g_BuffersBuilt>>

FxImageAllocationFails ==
  /\ Goto("image", "unloaded")
  /\ PoolDrain({})
  /\ UNCHANGED <<machine, hooks, code, statics, save, g_FxOwner, g_FxImage,
                 g_Table>>

-----------------------------------------------------------------------------
(* The hooks.                                                              *)

\* Mutant: no cli.
SetGateLow_NoCli(target) ==
  /\ gate' = [gate EXCEPT !.low = target]
  /\ UNCHANGED IF_flag

\* SetGateTarget: the low half under cli, then the high half and sti.
SetGateLow(target) ==
  /\ IF_flag' = FALSE
  /\ gate' = [gate EXCEPT !.low = target]

SetGateHigh(target) ==
  /\ gate' = [gate EXCEPT !.high = target]
  /\ IF_flag' = TRUE

\* InstallNmHook, when the live prologue is the one NmHandler starts with.
NmPrologueMatches ==
  /\ Goto("install_nm", "gate_low")
  /\ g_KernelNmResume' = TRUE
  /\ UNCHANGED <<vars, code, heap, g_FxImageRaw, g_SwapTrampoline, g_BuffersBuilt>>

NmPrologueMismatch ==
  /\ Goto("install_nm", "unloaded")
  /\ PoolDrain({Image})
  /\ g_FxImageRaw' = FALSE
  /\ UNCHANGED <<machine, hooks, code, save, g_FxOwner, g_FxImage, g_Table,
                 g_KernelNmResume, g_SwapTrampoline, g_BuffersBuilt>>

GateLow ==
  /\ \/ Goto("gate_low", "gate_high") /\ SetGateLow("NmHandler")
     \/ Goto("remove_nm", "ungate_high") /\ SetGateLow("kernel")
     \/ Goto("back_out", "back_out_high") /\ SetGateLow("kernel")
  /\ UNCHANGED <<vars, statics, swapCode, heap>>

\* The gate is whole again: from here a #NM goes to where both halves point.
GateHigh ==
  /\ \/ Goto("gate_high", "install_swap") /\ SetGateHigh("NmHandler")
     \/ Goto("ungate_high", "forget_owner") /\ SetGateHigh("kernel")
     \/ Goto("back_out_high", "give_up") /\ SetGateHigh("kernel")
  /\ nmHooked' = (gate' = [low |-> "NmHandler", high |-> "NmHandler"])
  /\ UNCHANGED <<machine, statics, swapHooked, save, g_FxOwner, g_FxImage,
                 poolVars, swapCode, heap>>

\* InstallSwapHook, when the bytes are the expected ones and memory is there.
BuildTrampoline ==
  /\ Goto("install_swap", "patch_op")
  /\ heap' = heap \cup {Trampoline}
  /\ g_SwapTrampoline' = TRUE
  /\ UNCHANGED <<vars, code, g_FxImageRaw, g_KernelNmResume, g_BuffersBuilt>>

\* Mutant: the result is not looked at.
SwapHookFails_Ignored ==
  /\ Goto("install_swap", "enable")
  /\ UNCHANGED <<vars, code, statics, heap>>

\* InstallSwapHook returns FALSE: other bytes, or no memory for the trampoline.
SwapHookFails ==
  /\ Goto("install_swap", "back_out")
  /\ UNCHANGED <<vars, code, statics, heap>>

\* DriverEntry after RemoveNmHook: the buffers the pool has left are freed.
GiveUp ==
  /\ Goto("give_up", "unloaded")
  /\ PoolDrain({Image})
  /\ g_FxImageRaw' = FALSE
  /\ UNCHANGED <<machine, hooks, code, save, g_FxOwner, g_FxImage, g_Table,
                 g_KernelNmResume, g_SwapTrampoline, g_BuffersBuilt>>

\* The five bytes are written under cli, the first one first.
PatchFirst ==
  /\ \/ Goto("patch_op", "patch_rel") /\ swapCode' = [swapCode EXCEPT !.op = "jmp"]
     \/ Goto("unload", "unpatch_rel") /\ swapCode' = [swapCode EXCEPT !.op = "kernel"]
  /\ IF_flag' = FALSE
  /\ UNCHANGED <<vars, statics, gate, heap>>

PatchRest ==
  /\ \/ Goto("patch_rel", "enable") /\ swapCode' = [swapCode EXCEPT !.rel = "jmp"]
     \/ Goto("unpatch_rel", "free_trampoline")
        /\ swapCode' = [swapCode EXCEPT !.rel = "kernel"]
  /\ IF_flag' = TRUE
  /\ swapHooked' = (swapCode' = [op |-> "jmp", rel |-> "jmp"])
  /\ UNCHANGED <<machine, statics, nmHooked, save, g_FxOwner, g_FxImage,
                 poolVars, gate, heap>>

-----------------------------------------------------------------------------
(* Enabling SSE.                                                           *)

EnableSse ==
  /\ Goto("enable", "ldmxcsr")
  /\ EnableSseThisCpu
  /\ UNCHANGED <<code, statics, heap>>

\* DriverEntry returns STATUS_SUCCESS.
Loaded ==
  /\ Goto("ldmxcsr", "loaded")
  /\ LdmxcsrDone
  /\ UNCHANGED <<code, statics, heap>>

-----------------------------------------------------------------------------
(* DriverUnload: unpatch (PatchFirst, PatchRest), then:                    *)

\* Mutant: g_SwapHooked was never set, so the patch stays.
NetStop_PatchStays ==
  /\ Goto("loaded", "free_trampoline")
  /\ UNCHANGED <<vars, code, statics, heap>>

NetStop ==
  /\ Goto("loaded", "unload")
  /\ UNCHANGED <<vars, code, statics, heap>>

FreeTrampoline ==
  /\ Goto("free_trampoline", "remove_nm")
  /\ heap' = heap \ {Trampoline}
  /\ UNCHANGED <<vars, code, statics>>

\* After RemoveNmHook (GateLow, GateHigh).
ForgetOwner ==
  /\ Goto("forget_owner", "free_image")
  /\ g_FxOwner' = NULL
  /\ UNCHANGED <<machine, hooks, code, statics, save, g_FxImage, poolVars, heap>>

FreeFxImage ==
  /\ Goto("free_image", "disable")
  /\ heap' = heap \ {Image}
  /\ g_FxImageRaw' = FALSE
  /\ UNCHANGED <<vars, code, g_KernelNmResume, g_SwapTrampoline, g_BuffersBuilt>>

\* KeRaiseIrql, the CR4 write and KeLowerIrql: nothing in between touches FP.
DisableSseThisCpu ==
  /\ Goto("disable", "reclaim")
  /\ osfxsr' = FALSE
  /\ UNCHANGED <<code, statics, cr0ts, xmm, x87, kernel, driver, history, heap>>

\* The loop over g_Table looks for an entry that still holds a buffer.
StillHeld(s) == g_Table[s].Thread # NULL /\ g_Table[s].Buffer # NULL

\* Mutant: the entry is cleared without returning its buffer.
Reclaim_NoPush ==
  /\ Goto("reclaim", "reclaim")
  /\ \E s \in Slots :
       /\ StillHeld(s) /\ \A r \in 0 .. s - 1 : ~StillHeld(r)
       /\ g_Table' = [g_Table EXCEPT ![s] = EmptySlot]
  /\ UNCHANGED <<machine, hooks, code, statics, save, g_FxOwner, g_FxImage,
                 g_FreeList, heap>>

\* The next such entry in table order: its buffer goes back to the pool.
Reclaim ==
  /\ Goto("reclaim", "reclaim")
  /\ \E s \in Slots :
       /\ StillHeld(s) /\ \A r \in 0 .. s - 1 : ~StillHeld(r)
       /\ PoolPush(g_Table[s].Buffer)
       /\ g_Table' = [g_Table EXCEPT ![s] = EmptySlot]
  /\ UNCHANGED <<machine, hooks, code, statics, save, g_FxOwner, g_FxImage,
                 heap>>

Reclaimed ==
  /\ Goto("reclaim", "drain")
  /\ \A s \in Slots : ~StillHeld(s)
  /\ UNCHANGED <<vars, code, statics, heap>>

Unloaded ==
  /\ Goto("drain", "unloaded")
  /\ PoolDrain({})
  /\ UNCHANGED <<machine, hooks, code, statics, save, g_FxOwner, g_FxImage,
                 g_Table>>

-----------------------------------------------------------------------------
(* The specification starts on a freshly booted machine.                   *)

LifeInit(booted) ==
  /\ processor \in Processors
  /\ g_Table = [s \in Slots |-> EmptySlot]
  /\ g_FreeList = <<>>
  /\ MachineInit(booted)
  /\ pc = "unloaded"
  /\ IF_flag = TRUE
  /\ gate = [low |-> "kernel", high |-> "kernel"]
  /\ swapCode = [op |-> "kernel", rel |-> "kernel"]
  /\ heap = {}
  /\ g_FxImageRaw = FALSE /\ g_KernelNmResume = FALSE /\ g_SwapTrampoline = FALSE
  /\ g_BuffersBuilt = 0

DriverEntry ==
  \/ LoadDriver
  \/ CheckGates
  \/ PoolBuildOne
  \/ PoolBuilt
  \/ SelfTest
  \/ AllocateFxImage
  \/ FxImageAllocationFails
  \/ NmPrologueMatches
  \/ NmPrologueMismatch
  \/ BuildTrampoline
  \/ SwapHookFails
  \/ GiveUp
  \/ EnableSse
  \/ Loaded

DriverUnload ==
  \/ FreeTrampoline
  \/ ForgetOwner
  \/ FreeFxImage
  \/ DisableSseThisCpu
  \/ Reclaim
  \/ Reclaimed
  \/ Unloaded

\* The four kinds of store to kernel text and tables, of loading and unloading.
PatchKernel ==
  \/ GateLow
  \/ GateHigh
  \/ PatchFirst
  \/ PatchRest

DriverStep == DriverEntry \/ PatchKernel \/ DriverUnload

\* A step of whatever thread runs, Loader between two of its own included.
Interleaved == IF_flag /\ Running /\ UNCHANGED life

LifeNext == (DriverStep \/ NetStop \/ Interleaved) /\ UNCHANGED processor

LifeSpec == LifeInit(Threads) /\ [][LifeNext]_allVars

\* The scheduler runs Loader again and again, and it goes on from where it was;
\* what a trap waits for is in the trapping thread's own step.  Nothing obliges
\* anyone to load or unload the driver.
FairLifeSpec ==
  /\ LifeSpec
  /\ SF_allVars(Interleaved /\ cur' = Loader /\ cur # Loader /\ UNCHANGED processor)
  /\ SF_allVars(DriverStep /\ pc # "unloaded" /\ UNCHANGED processor)
  /\ SF_allVars(Interleaved /\ NmTrap /\ UNCHANGED processor)

-----------------------------------------------------------------------------
(* Properties.                                                             *)

LifeTypeOK ==
  /\ TypeOK
  /\ processor \in Processors
  /\ IF_flag \in BOOLEAN
  /\ gate \in [low : {"kernel", "NmHandler"}, high : {"kernel", "NmHandler"}]
  /\ swapCode \in [op : {"kernel", "jmp"}, rel : {"kernel", "jmp"}]
  /\ heap \subseteq Blocks(Buffers) \cup {Image, Trampoline}
  /\ {g_FxImageRaw, g_KernelNmResume, g_SwapTrampoline} \subseteq BOOLEAN
  /\ g_BuffersBuilt \in 0 .. PREFILL_BUFFERS

\* "Interrupts off while the two halves are inconsistent" (nt351sse.c:771) and
\* "while the instruction stream is half-written" (nt351sse.c:885): whenever
\* anything but the patching thread can run, a #NM and a SwapContext call meet a
\* whole address and a whole instruction, on every path that patches or restores.
NoTornJump ==
  IF_flag => gate.low = gate.high /\ swapCode.op = swapCode.rel

\* "BEFORE freeing anything the hooks touch" (nt351sse.c:1030): everything the
\* trap path reaches through a live hook is allocated and set up, through every
\* failure, while other threads trap and switch in between: the image, the resume
\* address, the trampoline, each area in the table or on the free list, the owner.
TrapPathMemory ==
  /\ nmHooked \/ swapHooked =>
       /\ pc # "unloaded" /\ g_FxImageRaw /\ Image \in heap
       /\ Blocks(OnFreeList \cup InTable \cup ({g_FxOwner} \ {NULL})) \subseteq heap
  /\ nmHooked => g_KernelNmResume
  /\ swapHooked => g_SwapTrampoline /\ Trampoline \in heap

\* No area is lost or owned twice at any step of loading, running and unloading:
\* those allocated are exactly those on the free list and in the table.
AreasAccounted ==
  /\ heap \cap Blocks(Buffers) = Blocks(OnFreeList \cup InTable)
  /\ OnFreeList \cap InTable = {}
  /\ Cardinality(OnFreeList) = Len(g_FreeList)
  /\ Cardinality(InTable) = Cardinality({s \in Slots : g_Table[s].Thread # NULL})

\* Unloading returns all memory; a load that fails returns all but the areas of
\* threads that trapped between the two hooks, which PoolDrain does not find.
MemoryReturned == pc = "unloaded" => heap = Blocks(InTable)

\* "The hooks go in BEFORE OSFXSR is enabled" (nt351sse.c:1164) and "DriverUnload
\* ... then clears OSFXSR" (README.md:663): SSE is on only with both hooks in,
\* but for the unload's own steps, and never after a failed or finished load.
UnloadSteps == {"unpatch_rel", "free_trampoline", "remove_nm", "ungate_high",
                "forget_owner", "free_image", "disable"}

SseOnlyWhileHooked ==
  osfxsr => (nmHooked /\ swapHooked) \/ pc \in UnloadSteps

\* "Initialise the pool and table" (nt351sse.c:1114) and the self-test that "exercises
\* pool pop/push" (nt351sse.c:1142): whatever earlier loads left behind, the gate is
\* hooked with nothing in the table, no owner, and every buffer this load has built
\* back on the free list, once, and still holding the defaults.
HooksStartClean ==
  pc \in {"install_nm", "gate_low", "gate_high"} =>
    /\ InTable = {} /\ g_FxOwner = NULL
    /\ g_BuffersBuilt > 0 /\ Len(g_FreeList) = g_BuffersBuilt
    /\ OnFreeList = 1 .. g_BuffersBuilt
    /\ \A b \in OnFreeList : save[b] = DefaultXmm

\* Isolation, over loads, unloads and reloads: while the #NM hook is in, with the
\* detour or before and after it, a thread's area holds, and a thread finds in the
\* registers, nothing another thread stored.  (Loader apart, which executes no SSE
\* instruction but may own the x87 registers from the load before.)
IsolationWhileHooked ==
  nmHooked =>
    /\ \A t \in Threads, b \in Buffers : Holds(t, b) => save[b] \in XmmOf(t)
    /\ osfxsr /\ ~cr0ts /\ cur # Loader => xmm \in XmmOf(cur)

\* A load ends, loaded or not, and so does an unload, with traps, switches and
\* failures in between.
Settles == /\ pc # "unloaded" ~> pc \in {"loaded", "unloaded"}
           /\ pc = "unload" ~> pc = "unloaded"

-----------------------------------------------------------------------------
(* What the documentation says and the code does not do.                   *)

\* "so two SSE programs no longer clobber each other" (nt351sse.c:30): as long as
\* SSE executes, a thread that may use it without a trap finds in the registers
\* nothing another thread stored.
IsolationWhileSse ==
  osfxsr /\ irql = "PASSIVE" /\ ~cr0ts /\ cur # Loader => xmm \in XmmOf(cur)
=============================================================================
