------------------------ MODULE DriverIsolationProofs ------------------------
(***************************************************************************)
(* Isolation over the whole life of the driver: loads, reloads after an    *)
(* unload or a failure, threads that trap between the two hooks and end    *)
(* there, and registers that still hold what a thread stored under the     *)
(* load before.  Where FXSAVE and FXRSTOR leave out XMM state until CR4    *)
(* allows it, a thread that traps before that may be left with those, so   *)
(* that isolation of every thread needs a processor on which they do not.  *)
(*                                                                         *)
(* Before the hooks only the areas matter, and the pool's accounting       *)
(* (DriverMemoryProofs) says that the table is empty and the owner NULL    *)
(* when the gate becomes whole, and all areas on the free list are new.    *)
(* From there on each area holds a value of its thread, and an owner goes  *)
(* with the live registers.                                                *)
(*                                                                         *)
(* Two sections follow on what else survives: the x87 state, through every *)
(* step of loading and unloading, and what a thread has stored under a     *)
(* loaded driver that knew the owner, until the thread stores again.       *)
(***************************************************************************)
EXTENDS DriverMemoryProofs, PreservationProofs

-----------------------------------------------------------------------------
(* The invariant.                                                          *)

\* TS is clear exactly for the thread whose registers are live, and only the step
\* between the CR4 write and KeLowerIrql keeps other threads out.
WhoRuns ==
  /\ cr0ts <=> npx # cur
  /\ irql = "DISPATCH" => pc = "ldmxcsr" /\ cur = Loader

PoolInUse == {"pool", "assign", "lookup", "release", "assign_again", "release_again",
              "image", "install_nm", "gate_low", "gate_high"}

\* F[t]: what thread t may find in the registers and in its area, the defaults at
\* least.  Isolation is the case of XmmOf; a program that stores only certain values
\* finds only those.
MayFind(F) == \A t \in Threads : DefaultXmm \in F[t]

\* No trap writes to an area before the gate is whole.
NewAreasAreDefault ==
  pc \in PoolInUse => \A b \in Areas : save[b] = DefaultXmm

\* Each area holds a value its thread may find, the free ones the defaults.
AreasIsolated(F) ==
  /\ \A t \in Threads, b \in Buffers : Holds(t, b) => save[b] \in F[t]
  /\ \A b \in OnFreeList : save[b] = DefaultXmm

\* The owner is the area of a thread that may find what the registers and the image
\* hold: that of npx, unless it has ended.
OwnerIsolated(F) ==
  g_FxOwner # NULL =>
    \E t \in Threads : /\ Holds(t, g_FxOwner)
                       /\ xmm \in F[t] /\ g_FxImage.xmm \in F[t]
                       /\ npx \in {t, NULL}

\* Once SSE executes, the registers hold what the thread they belong to may find.
\* Loader may own them from before its LDMXCSR, with whatever they held then.
RegistersIsolated(F) ==
  osfxsr /\ irql = "PASSIVE" /\ npx \notin {NULL, Loader} => xmm \in F[npx]

IsolationInv(F) ==
  /\ WhoRuns
  /\ NewAreasAreDefault
  /\ nmHooked => AreasIsolated(F) /\ OwnerIsolated(F) /\ RegistersIsolated(F)

-----------------------------------------------------------------------------
(* Who runs, and what the areas hold before the hooks.                     *)

LEMMA WhoRunsHolds ==
  ASSUME TypeOK, WhoRuns, [LifeNext]_allVars
  PROVE  WhoRuns'
<1> USE DEF WhoRuns, Goto, machine, hardware, kernel
<1>1. CASE UNCHANGED <<hardware, kernel>> /\ pc # "ldmxcsr"
  BY <1>1
<1>2. CASE LoadDriver \/ CheckGates \/ PoolBuildOne \/ PoolBuilt \/ SelfTest
         \/ AllocateFxImage \/ FxImageAllocationFails
         \/ NmPrologueMatches \/ NmPrologueMismatch
  BY <1>1, <1>2 DEF LoadDriver, CheckGates, PoolBuildOne, PoolBuilt, SelfTest,
     AllocateFxImage, FxImageAllocationFails, NmPrologueMatches, NmPrologueMismatch, vars
<1>3. CASE GateLow \/ GateHigh \/ BuildTrampoline \/ SwapHookFails \/ GiveUp
         \/ PatchFirst \/ PatchRest \/ NetStop
  BY <1>1, <1>3 DEF GateLow, GateHigh, BuildTrampoline, SwapHookFails, GiveUp,
     PatchFirst, PatchRest, NetStop, vars
<1>4. CASE EnableSse
  BY <1>4 DEF EnableSse, EnableSseThisCpu
<1>5. CASE Loaded
  BY <1>5 DEF Loaded, LdmxcsrDone
<1>6. CASE FreeTrampoline \/ ForgetOwner \/ FreeFxImage \/ Reclaim \/ Reclaimed
         \/ Unloaded
  BY <1>1, <1>6 DEF FreeTrampoline, ForgetOwner, FreeFxImage, Reclaim, Reclaimed,
     Unloaded, vars
<1>7. CASE DisableSseThisCpu
  BY <1>7 DEF DisableSseThisCpu
<1>8. CASE Interleaved
  <2>1. Running /\ UNCHANGED pc
    BY <1>8 DEF Interleaved, life
  <2>2. CASE NmTrap
    BY <2>1, <2>2 DEF NmTrap, KernelNmHandler
  <2>3. ASSUME NEW v, SseStore(v) \/ X87Store(v)
        PROVE  WhoRuns'
    BY <2>1, <2>3 DEF SseStore, X87Store
  <2>4. ASSUME NEW t \in Threads, Switch(t) \/ ThreadExit(t)
        PROVE  WhoRuns'
    BY <2>1, <2>4 DEF Switch, ThreadExit, KernelSwapContext
  <2>5. ASSUME NEW t \in Threads, ThreadCreate(t)
        PROVE  WhoRuns'
    BY <2>1, <2>5 DEF ThreadCreate
  <2>6. QED
    BY <2>1, <2>2, <2>3, <2>4, <2>5 DEF Running
<1>9. CASE UNCHANGED allVars
  BY <1>9 DEF allVars, vars, life
<1>10. QED
  BY LifeSteps, <1>2, <1>3, <1>4, <1>5, <1>6, <1>7, <1>8, <1>9

\* The accounting says which areas there are: those whose blocks are allocated.
AreasAreAllocated ==
  Areas \subseteq Buffers /\ \A b \in Buffers : b \in Areas <=> Node(b) \in heap

LEMMA AreasOfHeap == MemoryInv => AreasAreAllocated
<1> SUFFICES ASSUME MemoryInv PROVE AreasAreAllocated
  OBVIOUS
<1>1. Areas \subseteq Buffers
  BY AreasAreBuffers DEF MemoryInv, LifeTypeOK, TypeOK, Areas
<1>2. heap \cap Blocks(Buffers) = Blocks(Areas)
  BY DEF MemoryInv, PoolKept, Areas
<1>3. \A b \in Buffers : Node(b) \in Blocks(Buffers)
  BY BlocksOfAreas
<1>4. \A b \in Buffers : Node(b) \in Blocks(Areas) <=> b \in Areas
  BY BlocksOfAreas
<1>5. QED
  BY <1>1, <1>2, <1>3, <1>4 DEF AreasAreAllocated

\* While nothing is hooked no thread's step writes to an area, the pool or g_FxOwner.
LEMMA RunningUnhooked ==
  ASSUME Running, ~nmHooked, ~swapHooked
  PROVE  UNCHANGED <<save, g_FxOwner, poolVars>>
BY DEF Running, NmTrap, SseStore, X87Store, Switch, ThreadExit, ThreadCreate,
   SwapContextEntry, driver

LEMMA NewAreasHolds ==
  ASSUME LifeInv, MemoryInv, NewAreasAreDefault, [LifeNext]_allVars
  PROVE  NewAreasAreDefault'
<1>1. AreasAreAllocated
  BY AreasOfHeap
<1>2. MemoryInv'
  BY MemoryHolds
<1>3. AreasAreAllocated'
  BY <1>2, AreasOfHeap, PTL
<1>4. /\ Areas \subseteq Buffers /\ Areas' \subseteq Buffers
      /\ \A b \in Buffers : /\ b \in Areas <=> Node(b) \in heap
                            /\ b \in Areas' <=> Node(b) \in heap'
  BY <1>1, <1>3 DEF AreasAreAllocated, Buffers, Node
<1>5. save \in [Buffers -> Xmm]
  BY DEF MemoryInv, LifeTypeOK, TypeOK
<1>6. ASSUME UNCHANGED save, pc' \in PoolInUse => pc \in PoolInUse,
             \A b \in Buffers : Node(b) \in heap' => Node(b) \in heap
      PROVE  NewAreasAreDefault'
  BY <1>4, <1>6 DEF NewAreasAreDefault
<1> USE DEF Goto, PoolInUse
<1>7. CASE LoadDriver
  BY <1>7 DEF LoadDriver, NewAreasAreDefault
<1>8. CASE CheckGates
  <2>1. CASE pc' = "pool"
    <3>1. pc = "gates" /\ UNCHANGED poolVars
      BY <1>8, <2>1 DEF CheckGates, vars, driver
    <3>2. OnFreeList = {} /\ InTable = {}
      BY <3>1, EmptyTableIsInOrder
      DEF MemoryInv, PoolAt, NoEntryYet, NoPool, OnFreeList
    <3>3. Areas' = {}
      BY <3>1, <3>2 DEF Areas, OnFreeList, InTable, poolVars
    <3>4. QED
      BY <3>3 DEF NewAreasAreDefault
  <2>2. CASE pc' # "pool"
    BY <1>8, <2>2 DEF CheckGates, NewAreasAreDefault
  <2>3. QED
    BY <2>1, <2>2
<1>9. CASE PoolBuildOne
  <2>1. PICK b \in Buffers : /\ heap' = heap \cup Blocks({b})
                             /\ save' = [save EXCEPT ![b] = DefaultXmm]
    BY <1>9 DEF PoolBuildOne
  <2>2. \A c \in Buffers : Node(c) \in Blocks({b}) <=> c = b
    BY BlocksOfAreas
  <2>3. \A c \in Areas' : c = b \/ c \in Areas
    BY <1>4, <2>1, <2>2
  <2>4. pc = "pool"
    BY <1>9 DEF PoolBuildOne
  <2>5. QED
    BY <1>4, <1>5, <2>1, <2>3, <2>4 DEF NewAreasAreDefault
<1>10. CASE PoolBuilt \/ SelfTest \/ NmPrologueMatches
  BY <1>6, <1>10 DEF PoolBuilt, SelfTest, NmPrologueMatches, vars, driver
<1>11. CASE AllocateFxImage
  <2>1. \A b \in Buffers : Node(b) # Image
    BY DEF Node, Image
  <2>2. QED
    BY <1>6, <1>11, <2>1 DEF AllocateFxImage
<1>12. CASE GateLow
  BY <1>6, <1>12 DEF GateLow, vars, driver, NewAreasAreDefault
<1>13. CASE FxImageAllocationFails \/ NmPrologueMismatch \/ GiveUp \/ GateHigh
         \/ BuildTrampoline \/ SwapHookFails \/ PatchFirst \/ PatchRest
         \/ EnableSse \/ Loaded \/ NetStop
         \/ FreeTrampoline \/ ForgetOwner \/ FreeFxImage \/ DisableSseThisCpu
         \/ Reclaim \/ Reclaimed \/ Unloaded
  <2>1. pc' \notin PoolInUse
    BY <1>13 DEF FxImageAllocationFails, NmPrologueMismatch, GiveUp, GateHigh,
       BuildTrampoline, SwapHookFails, PatchFirst, PatchRest, EnableSse, Loaded,
       NetStop, FreeTrampoline, ForgetOwner, FreeFxImage, DisableSseThisCpu,
       Reclaim, Reclaimed, Unloaded
  <2>2. QED
    BY <2>1 DEF NewAreasAreDefault
<1>14. CASE Interleaved
  <2>1. Running /\ UNCHANGED <<pc, heap>>
    BY <1>14 DEF Interleaved, life
  <2>2. pc \in PoolInUse => ~nmHooked /\ ~swapHooked
    BY DEF LifeInv, Installed, LowIn, HighIn, RelIn
  <2>3. QED
    BY <1>6, <2>1, <2>2, RunningUnhooked DEF NewAreasAreDefault
<1>15. CASE UNCHANGED allVars
  BY <1>6, <1>15 DEF allVars, vars, driver, life
<1>16. QED
  BY LifeSteps, <1>7, <1>8, <1>9, <1>10, <1>11, <1>12, <1>13, <1>14, <1>15

\* On every load, the first one or a later one after an unload or a failure, the gate
\* is hooked with nothing in the table and no owner, and with every buffer this load
\* has built on the free list, holding the defaults: the self-test loses none, and
\* nothing that threads do before can reach the pool.
THEOREM TrapPathStartsClean == LifeSpec => []HooksStartClean
<1>1. LifeInit(Threads) => LifeInv /\ MemoryInv /\ NewAreasAreDefault
  <2>1. LifeInit(Threads) => NewAreasAreDefault
    BY DEF LifeInit, NewAreasAreDefault, PoolInUse
  <2>2. QED
    BY <2>1, LifeInvFirst, MemoryFirst
<1>2. /\ LifeInv /\ MemoryInv /\ NewAreasAreDefault /\ [LifeNext]_allVars
      => (LifeInv /\ MemoryInv /\ NewAreasAreDefault)'
  BY LifeInvHolds, MemoryHolds, NewAreasHolds
<1>3. LifeInv /\ MemoryInv /\ NewAreasAreDefault => HooksStartClean
  BY PoolWholeAtHooks DEF HooksStartClean, NewAreasAreDefault, PoolInUse, Areas
<1>4. QED
  BY <1>1, <1>2, <1>3, PTL DEF LifeSpec

-----------------------------------------------------------------------------
(* Isolation while the #NM hook is in.                                     *)

\* What isolation means of a state in which the #NM hook is in.
IsolatedNow(F) == AreasIsolated(F) /\ OwnerIsolated(F) /\ RegistersIsolated(F)

\* A flush, which stores the live registers, puts into each area only what its
\* thread may find there.
LEMMA FlushIsolates ==
  ASSUME NEW F, TypeOK, PoolInv, AreasIsolated(F), OwnerIsolated(F)
  PROVE  /\ \A t \in Threads, b \in Buffers : Holds(t, b) => Flushed[b] \in F[t]
         /\ \A b \in OnFreeList : Flushed[b] = DefaultXmm
<1>0. /\ NULL \notin Buffers /\ save \in [Buffers -> Xmm]
      /\ g_FxOwner \in Buffers \cup {NULL} /\ OnFreeList \subseteq Buffers
  BY DataLayerAssumption, AreasAreBuffers DEF Buffers, TypeOK
<1>1. CASE g_FxOwner = NULL
  BY <1>1 DEF Flushed, AreasIsolated
<1>2. CASE g_FxOwner # NULL
  <2>1. \A b \in Buffers : Flushed[b] = IF b = g_FxOwner THEN FxsavedXmm ELSE save[b]
    BY <1>0, <1>2 DEF Flushed, FlushTo
  <2>2. PICK t \in Threads : Holds(t, g_FxOwner) /\ xmm \in F[t] /\ g_FxImage.xmm \in F[t]
    BY <1>2 DEF OwnerIsolated
  <2>3. /\ \A u \in Threads : Holds(u, g_FxOwner) => u = t
        /\ g_FxOwner \notin OnFreeList
    BY <1>0, <1>2, <2>2, OneHolderPerBuffer DEF OnFreeList
  <2>4. FxsavedXmm \in F[t]
    BY <2>2 DEF FxsavedXmm
  <2>5. QED
    BY <1>0, <2>1, <2>2, <2>3, <2>4 DEF AreasIsolated
<1>3. QED
  BY <1>1, <1>2

\* A thread that traps before SSE executes finds, where FXRSTOR leaves out XMM while CR4
\* does not allow it, registers with values of the load before.
TrapsTell(F) == NmTrap /\ ~osfxsr => FxsrMovesXmm \/ F[cur] = Xmm

\* The #NM handler and the kernel's part of the trap.
LEMMA TrapIsolates ==
  ASSUME NEW F, MayFind(F), TrapsTell(F), TypeOK, PoolInv, IsolatedNow(F),
         nmHooked, NmTrap
  PROVE  IsolatedNow(F)'
<1> USE DEF IsolatedNow
<1>0. /\ NULL \notin Threads /\ NULL \notin Buffers /\ cur \in Threads
      /\ OnFreeList \subseteq Buffers
  BY DataLayerAssumption, AreasAreBuffers DEF Buffers, TypeOK
<1>1. PICK area \in Buffers \cup {NULL} :
        /\ TrapLookupSaveArea(cur, area)
        /\ save' = Flushed
        /\ g_FxOwner' = area
        /\ g_FxImage' = [x87 |-> x87,
                         xmm |-> IF area = NULL THEN DefaultXmm ELSE save'[area]]
        /\ xmm' = FxrstoredXmm(g_FxImage')
  BY DEF NmTrap, NmHandler, Flushed
<1>2. npx' = cur /\ UNCHANGED <<cur, irql, osfxsr>>
  BY DEF NmTrap, KernelNmHandler
<1>. PICK t \in Threads : t = cur
  BY <1>0
<1>3. /\ area # NULL => Holds(t, area)'
      /\ \A u \in Threads, b \in Buffers :
           Holds(u, b)' => \/ Holds(u, b)
                           \/ /\ u = t /\ b = area
                              /\ \E i \in DOMAIN g_FreeList : g_FreeList[i] = b
      /\ \A i \in DOMAIN g_FreeList' :
           \E j \in DOMAIN g_FreeList : g_FreeList'[i] = g_FreeList[j]
  BY <1>1, LookupPreservesPool
<1>4. \A u \in Threads, b \in Buffers : Holds(u, b)' => save'[b] \in F[u]
  BY <1>1, <1>3, FlushIsolates DEF MayFind, OnFreeList
<1>5. \A b \in OnFreeList' : save'[b] = DefaultXmm
  <2>1. OnFreeList' \subseteq OnFreeList
    BY <1>3 DEF OnFreeList
  <2>2. QED
    BY <1>1, <2>1, FlushIsolates
<1>6. g_FxImage'.xmm \in F[t] /\ xmm' \in F[t]
  <2>1. g_FxImage'.xmm \in F[t]
    BY <1>1, <1>3, <1>4 DEF MayFind
  <2>2. QED
    BY <1>1, <2>1 DEF FxrstoredXmm, TrapsTell, TypeOK
<1>7. AreasIsolated(F)'
  BY <1>4, <1>5 DEF AreasIsolated, DefaultXmm, Buffers
<1>8. OwnerIsolated(F)'
  BY <1>1, <1>2, <1>3, <1>6 DEF OwnerIsolated, DefaultXmm
<1>9. RegistersIsolated(F)'
  BY <1>2, <1>6 DEF RegistersIsolated, DefaultXmm
<1>10. QED
  BY <1>7, <1>8, <1>9

\* SwapContext, with the detour or without it, and the end of a thread.
LEMMA SwapIsolates ==
  ASSUME NEW F, TypeOK, PoolInv, IsolatedNow(F), SwapContextEntry,
         npx' \in {npx, NULL}, UNCHANGED <<irql, osfxsr, xmm, poolVars>>
  PROVE  IsolatedNow(F)'
<1> USE DEF IsolatedNow
<1>1. \A t, b : Holds(t, b)' <=> Holds(t, b)
  BY DEF Holds, poolVars
<1>2. OnFreeList' = OnFreeList
  BY DEF OnFreeList, poolVars
<1>3. \/ save' = Flushed /\ g_FxOwner' = NULL
      \/ save' = save /\ g_FxOwner' = g_FxOwner /\ g_FxImage' = g_FxImage
  BY DEF SwapContextEntry, SwapDetour, Flushed
<1>4. AreasIsolated(F)'
  <2>1. \A t \in Threads, b \in Buffers : Holds(t, b)' => save'[b] \in F[t]
    BY <1>1, <1>3, FlushIsolates DEF AreasIsolated
  <2>2. \A b \in OnFreeList' : save'[b] = DefaultXmm
    BY <1>2, <1>3, FlushIsolates DEF AreasIsolated
  <2>3. QED
    BY <2>1, <2>2 DEF AreasIsolated, DefaultXmm, Buffers
<1>5. OwnerIsolated(F)'
  <2>1. g_FxOwner' # NULL => g_FxOwner' = g_FxOwner /\ g_FxImage' = g_FxImage
    BY <1>3
  <2>2. QED
    BY <1>1, <2>1 DEF OwnerIsolated, DefaultXmm
<1>6. RegistersIsolated(F)'
  BY DEF RegistersIsolated, DefaultXmm
<1>7. QED
  BY <1>4, <1>5, <1>6

\* Steps that leave the areas, their owner, the image and the registers alone.
LEMMA LeftIsolated ==
  ASSUME NEW F, IsolatedNow(F), UNCHANGED <<save, g_FxOwner, g_FxImage, xmm, npx, poolVars>>,
         osfxsr' /\ irql' = "PASSIVE" => npx = Loader \/ (osfxsr /\ irql = "PASSIVE")
  PROVE  IsolatedNow(F)'
<1> USE DEF IsolatedNow
<1>1. \A t, b : Holds(t, b)' <=> Holds(t, b)
  BY DEF Holds, poolVars
<1>2. OnFreeList' = OnFreeList
  BY DEF OnFreeList, poolVars
<1>3. AreasIsolated(F)'
  BY <1>1, <1>2 DEF AreasIsolated, DefaultXmm, Buffers
<1>4. OwnerIsolated(F)'
  BY <1>1 DEF OwnerIsolated, DefaultXmm
<1>5. RegistersIsolated(F)'
  BY DEF RegistersIsolated, DefaultXmm
<1>6. QED
  BY <1>3, <1>4, <1>5

\* What a thread stores in this step it may find again.
OnlyFitting(F) == \A v \in StoredXmm(cur) : SseStore(v) => v \in F[cur]

\* Whatever a thread does while the #NM hook is in.
LEMMA RunningIsolates ==
  ASSUME NEW F, MayFind(F), OnlyFitting(F), TrapsTell(F),
         TypeOK, PoolInv, WhoRuns, IsolatedNow(F), nmHooked, Running
  PROVE  IsolatedNow(F)'
<1>0. NULL \notin Threads /\ cur \in Threads
  BY DataLayerAssumption DEF TypeOK
<1>1. CASE NmTrap
  BY <1>1, TrapIsolates
<1>2. ASSUME NEW v \in StoredXmm(cur), SseStore(v)
      PROVE  IsolatedNow(F)'
  <2>. PICK t \in Threads : t = cur
    BY <1>0
  <2>1. /\ npx = t /\ osfxsr /\ xmm' = v
        /\ UNCHANGED <<cur, irql, osfxsr, npx, save, g_FxOwner, g_FxImage, poolVars>>
    BY <1>2 DEF SseStore, kernel, driver, WhoRuns
  <2>2. xmm' \in F[t]
    BY <1>2, <2>1 DEF OnlyFitting
  <2>3. \A u, b : Holds(u, b)' <=> Holds(u, b)
    BY <2>1 DEF Holds, poolVars
  <2>4. OnFreeList' = OnFreeList
    BY <2>1 DEF OnFreeList, poolVars
  <2>5. AreasIsolated(F)'
    BY <2>1, <2>3, <2>4
    DEF IsolatedNow, AreasIsolated, DefaultXmm, Buffers
  <2>6. OwnerIsolated(F)'
    <3>1. g_FxOwner # NULL => Holds(t, g_FxOwner) /\ g_FxImage.xmm \in F[t]
      BY <1>0, <2>1 DEF IsolatedNow, OwnerIsolated
    <3>2. QED
      BY <2>1, <2>2, <2>3, <3>1 DEF OwnerIsolated, DefaultXmm
  <2>7. RegistersIsolated(F)'
    BY <2>1, <2>2 DEF RegistersIsolated, DefaultXmm
  <2>8. QED
    BY <2>5, <2>6, <2>7 DEF IsolatedNow
<1>3. ASSUME NEW v \in StoredX87(cur), X87Store(v)
      PROVE  IsolatedNow(F)'
  BY <1>3, LeftIsolated DEF X87Store, kernel, driver
<1>4. ASSUME NEW t \in Threads, Switch(t)
      PROVE  IsolatedNow(F)'
  BY <1>4, SwapIsolates DEF Switch
<1>5. ASSUME NEW t \in Threads, ThreadExit(t)
      PROVE  IsolatedNow(F)'
  BY <1>5, SwapIsolates DEF ThreadExit
<1>6. ASSUME NEW t \in Threads, ThreadCreate(t)
      PROVE  IsolatedNow(F)'
  BY <1>6, LeftIsolated DEF ThreadCreate, hardware, driver
<1>7. QED
  BY <1>1, <1>2, <1>3, <1>4, <1>5, <1>6 DEF Running

\* The gate becomes whole: the table is empty, and every area has the defaults.
LEMMA HookedIsolated ==
  ASSUME NEW F, LifeInv, MemoryInv, NewAreasAreDefault, GateHigh, pc = "gate_high"
  PROVE  IsolatedNow(F)'
<1>1. EmptyTable /\ g_FxOwner = NULL /\ ~osfxsr
  BY DEF MemoryInv, PoolAt, NoEntryYet, OwnerAt, LifeInv, Installed, SseOn, UnloadSteps
<1>2. UNCHANGED <<save, g_FxOwner, poolVars, osfxsr>>
  BY DEF GateHigh, machine, hardware
<1>3. \A b \in OnFreeList : save[b] = DefaultXmm
  BY DEF NewAreasAreDefault, PoolInUse, Areas
<1>4. \A t \in Threads, b \in Buffers : ~Holds(t, b)
  BY <1>1, DataLayerAssumption DEF Holds, EmptyTable, EmptySlot
<1>5. AreasIsolated(F)'
  BY <1>2, <1>3, <1>4 DEF AreasIsolated, Holds, poolVars, OnFreeList
<1>6. OwnerIsolated(F)' /\ RegistersIsolated(F)'
  BY <1>1, <1>2 DEF OwnerIsolated, RegistersIsolated
<1>7. QED
  BY <1>5, <1>6 DEF IsolatedNow

LEMMA IsolationFirst ==
  ASSUME NEW F, NEW booted \in SUBSET Threads, LifeInit(booted)
  PROVE  IsolationInv(F)
<1>1. pc = "unloaded" /\ irql = "PASSIVE" /\ ~nmHooked /\ cr0ts = (npx # cur)
  BY DEF LifeInit, MachineInit
<1>2. QED
  BY <1>1 DEF IsolationInv, WhoRuns, NewAreasAreDefault, PoolInUse

LEMMA IsolationHolds ==
  ASSUME NEW F, MayFind(F), nmHooked => OnlyFitting(F) /\ TrapsTell(F),
         LifeInv, MemoryInv, IsolationInv(F), [LifeNext]_allVars
  PROVE  IsolationInv(F)'
<1>0. TypeOK /\ WhoRuns /\ (nmHooked => IsolatedNow(F))
  BY DEF MemoryInv, LifeTypeOK, IsolationInv, IsolatedNow
<1>1. WhoRuns'
  BY <1>0, WhoRunsHolds
<1>2. NewAreasAreDefault'
  BY NewAreasHolds DEF IsolationInv
<1>3. LifeInv'
  BY LifeInvHolds
<1>4. nmHooked' => IsolatedNow(F)'
  <2> SUFFICES ASSUME nmHooked' PROVE IsolatedNow(F)'
    OBVIOUS
  <2>1. pc' \in HighIn
    BY <1>3 DEF LifeInv, Installed
  <2>2. ASSUME UNCHANGED <<save, g_FxOwner, g_FxImage, xmm, npx, poolVars, nmHooked>>,
               osfxsr' /\ irql' = "PASSIVE" =>
                 npx = Loader \/ (osfxsr /\ irql = "PASSIVE")
        PROVE  IsolatedNow(F)'
    BY <1>0, <2>2, LeftIsolated
  <2> USE DEF Goto, HighIn, LowIn
  <2>3. CASE GateHigh
    <3>1. pc = "gate_high"
      BY <2>1, <2>3 DEF GateHigh
    <3>2. QED
      BY <2>3, <3>1, HookedIsolated DEF IsolationInv
  <2>4. CASE EnableSse
    BY <2>2, <2>4 DEF EnableSse, EnableSseThisCpu, driver
  <2>5. CASE Loaded
    <3>1. npx = Loader
      BY <1>0, <2>5 DEF Loaded, LdmxcsrDone, WhoRuns
    <3>2. QED
      BY <2>2, <2>5, <3>1 DEF Loaded, LdmxcsrDone, hardware, driver
  <2>6. CASE GateLow \/ BuildTrampoline \/ SwapHookFails \/ PatchFirst \/ NetStop
           \/ FreeTrampoline
    BY <2>2, <2>6 DEF GateLow, BuildTrampoline, SwapHookFails, PatchFirst, NetStop,
                      FreeTrampoline, vars, hardware, kernel, driver
  <2>7. CASE PatchRest
    BY <2>2, <2>7 DEF PatchRest, machine, hardware, kernel
  <2>8. CASE LoadDriver \/ CheckGates \/ PoolBuildOne \/ PoolBuilt \/ SelfTest
           \/ AllocateFxImage \/ FxImageAllocationFails
           \/ NmPrologueMatches \/ NmPrologueMismatch \/ GiveUp
           \/ ForgetOwner \/ FreeFxImage \/ DisableSseThisCpu
           \/ Reclaim \/ Reclaimed \/ Unloaded
    <3>1. pc' \notin HighIn
      BY <2>8 DEF LoadDriver, CheckGates, PoolBuildOne, PoolBuilt, SelfTest,
         AllocateFxImage, FxImageAllocationFails, NmPrologueMatches,
         NmPrologueMismatch, GiveUp, ForgetOwner, FreeFxImage, DisableSseThisCpu,
         Reclaim, Reclaimed, Unloaded
    <3>2. QED
      BY <2>1, <3>1
  <2>9. CASE Interleaved
    <3>1. Running
      BY <2>9 DEF Interleaved
    <3>2. nmHooked
      BY <3>1, RunningKeepsHooks
    <3>3. PoolInv
      BY <3>2 DEF LifeInv, Installed, MemoryInv, LifeTypeOK, TypeOK, PoolKept, PoolInv
    <3>4. QED
      BY <1>0, <3>1, <3>2, <3>3, RunningIsolates
  <2>10. CASE UNCHANGED allVars
    BY <2>2, <2>10 DEF allVars, vars, hardware, kernel, driver
  <2>11. QED
    BY LifeSteps, <2>3, <2>4, <2>5, <2>6, <2>7, <2>8, <2>9, <2>10
<1>5. QED
  BY <1>0, <1>1, <1>2, <1>4 DEF IsolationInv, IsolatedNow

-----------------------------------------------------------------------------

\* What any thread may store it may find.
Own == [t \in Threads |-> XmmOf(t)]

LEMMA OwnFits ==
  MayFind(Own) /\ (cur \in Threads => OnlyFitting(Own)) /\ (FxsrMovesXmm => TrapsTell(Own))
BY DEF MayFind, OnlyFitting, TrapsTell, Own, XmmOf

XmmIsolated == IsolationInv(Own)

\* No thread sees XMM state of another through any sequence of loads, failures,
\* unloads and reloads, from the moment the #NM gate is whole to the moment it is
\* the kernel's again, on a processor whose FXSAVE moves XMM whatever CR4 says.
THEOREM IsolatedWhileHooked == FxsrMovesXmm /\ LifeSpec => []IsolationWhileHooked
<1>. SUFFICES ASSUME FxsrMovesXmm PROVE LifeSpec => []IsolationWhileHooked
  OBVIOUS
<1>1. LifeInit(Threads) => LifeInv /\ MemoryInv /\ XmmIsolated
  BY LifeInvFirst, MemoryFirst, IsolationFirst DEF XmmIsolated
<1>2. LifeInv /\ MemoryInv /\ XmmIsolated /\ [LifeNext]_allVars
        => (LifeInv /\ MemoryInv /\ XmmIsolated)'
  <2> SUFFICES ASSUME LifeInv, MemoryInv, XmmIsolated, [LifeNext]_allVars
               PROVE  (LifeInv /\ MemoryInv /\ XmmIsolated)'
    OBVIOUS
  <2>1. IsolationInv(Own)'
    BY OwnFits, IsolationHolds DEF LifeInv, XmmIsolated
  <2>2. XmmIsolated'
    BY <2>1 DEF XmmIsolated
  <2>3. QED
    BY <2>2, LifeInvHolds, MemoryHolds
<1>3. LifeInv /\ MemoryInv /\ XmmIsolated => IsolationWhileHooked
  <2> SUFFICES ASSUME MemoryInv, XmmIsolated, nmHooked PROVE IsolationWhileHooked
    BY DEF IsolationWhileHooked
  <2>1. /\ NULL \notin Threads /\ cur \in Threads /\ irql \in {"PASSIVE", "DISPATCH"}
        /\ \A t \in Threads : Own[t] = XmmOf(t)
    BY DataLayerAssumption DEF MemoryInv, LifeTypeOK, TypeOK, Own
  <2>2. ~cr0ts /\ cur # Loader => npx = cur /\ irql = "PASSIVE"
    BY <2>1 DEF XmmIsolated, IsolationInv, WhoRuns
  <2>3. \A t \in Threads, b \in Buffers : Holds(t, b) => save[b] \in XmmOf(t)
    BY <2>1 DEF XmmIsolated, IsolationInv, AreasIsolated
  <2>4. osfxsr /\ ~cr0ts /\ cur # Loader => xmm \in XmmOf(cur)
    BY <2>1, <2>2 DEF XmmIsolated, IsolationInv, RegistersIsolated
  <2>5. QED
    BY <2>3, <2>4 DEF IsolationWhileHooked
<1>4. QED
  BY <1>1, <1>2, <1>3, PTL DEF LifeSpec

-----------------------------------------------------------------------------
(* The x87 state, whatever the processor.                                  *)

\* The driver starts no thread, ends none and switches to none, and touches no x87 register.
LEMMA DriverLeavesThreads ==
  ASSUME DriverStep \/ NetStop
  PROVE  UNCHANGED <<cur, alive, x87, npx, x87Saved, history>>
<1>. USE DEF machine, hardware, kernel
<1>1. CASE \/ LoadDriver \/ CheckGates \/ PoolBuildOne \/ PoolBuilt \/ SelfTest
           \/ AllocateFxImage \/ FxImageAllocationFails
           \/ NmPrologueMatches \/ NmPrologueMismatch \/ GateLow \/ GateHigh
  BY <1>1 DEF LoadDriver, CheckGates, PoolBuildOne, PoolBuilt, SelfTest,
     AllocateFxImage, FxImageAllocationFails, NmPrologueMatches, NmPrologueMismatch,
     GateLow, GateHigh, vars
<1>2. CASE \/ BuildTrampoline \/ SwapHookFails \/ GiveUp \/ PatchFirst \/ PatchRest
           \/ EnableSse \/ Loaded \/ NetStop
  BY <1>2 DEF BuildTrampoline, SwapHookFails, GiveUp, PatchFirst, PatchRest,
     EnableSse, EnableSseThisCpu, Loaded, LdmxcsrDone, NetStop, vars
<1>3. CASE \/ FreeTrampoline \/ ForgetOwner \/ FreeFxImage \/ DisableSseThisCpu
           \/ Reclaim \/ Reclaimed \/ Unloaded
  BY <1>3 DEF FreeTrampoline, ForgetOwner, FreeFxImage, DisableSseThisCpu,
     Reclaim, Reclaimed, Unloaded, vars
<1>4. QED
  BY <1>1, <1>2, <1>3 DEF DriverStep, DriverEntry, PatchKernel, DriverUnload

LEMMA X87First ==
  ASSUME NEW booted \in SUBSET Threads, Loader \in booted, LifeInit(booted)
  PROVE  X87Inv /\ WhoRuns
BY DEF LifeInit, MachineInit, X87Inv, X87Preserved, WhoRuns

LEMMA X87Holds ==
  ASSUME LifeTypeOK, WhoRuns, X87Inv, [LifeNext]_allVars
  PROVE  X87Inv' /\ WhoRuns'
<1>0. TypeOK /\ (~cr0ts => npx = cur)
  BY DEF LifeTypeOK, WhoRuns
<1>1. WhoRuns'
  BY <1>0, WhoRunsHolds
<1>2. ASSUME UNCHANGED <<cur, alive, x87, npx, x87Saved, history>>
      PROVE  X87Inv'
  BY <1>2 DEF X87Inv, X87Preserved, history
<1>3. DriverStep \/ NetStop => X87Inv'
  BY <1>2, DriverLeavesThreads
<1>4. Interleaved => X87Inv'
  BY <1>0, RunningX87 DEF Interleaved
<1>5. UNCHANGED allVars => X87Inv'
  BY <1>2 DEF allVars, vars, hardware, kernel
<1>6. QED
  BY <1>1, <1>3, <1>4, <1>5 DEF LifeNext

\* "x87 is left to the kernel" (nt351sse.c:46), in every step of loading, running and
\* unloading: each thread finds the x87 registers as its program left them.
THEOREM X87ThroughLoads == LifeSpec => []X87Preserved
<1>1. LifeInit(Threads) => LifeInv /\ MemoryInv /\ X87Inv /\ WhoRuns
  BY LifeInvFirst, MemoryFirst, X87First, TrapPathAssumption
<1>2. LifeInv /\ MemoryInv /\ X87Inv /\ WhoRuns /\ [LifeNext]_allVars
        => (LifeInv /\ MemoryInv /\ X87Inv /\ WhoRuns)'
  BY LifeInvHolds, MemoryHolds, X87Holds DEF MemoryInv
<1>3. X87Inv => X87Preserved
  BY DEF X87Inv
<1>4. QED
  BY <1>1, <1>2, <1>3, PTL DEF LifeSpec

-----------------------------------------------------------------------------
(* Preservation under a loaded driver, after any loads before it.          *)

\* Both hooks are in and SSE executes; an owner's area is that of the thread whose
\* registers are live, unless the load found an owner that has ended since.
InService ==
  /\ TypeOK /\ PoolInv /\ WhoRuns
  /\ nmHooked /\ swapHooked /\ osfxsr
  /\ g_FxOwner # NULL => \E t \in Threads : Holds(t, g_FxOwner) /\ npx \in {t, NULL}

\* The driver will not lose what thread t finds: it has an area, and the registers
\* are ahead of it only as long as they will be flushed to it.
Secured(t) ==
  /\ Area(t) # NULL
  /\ g_FxOwner = Area(t) => npx = t
  /\ npx = t /\ g_FxOwner = NULL => Kept(t) = xmm

\* A flush reaches what a secured thread finds, and nobody else's area.
LEMMA SecuredFlush ==
  ASSUME InService, NEW t \in Threads, Secured(t)
  PROVE  /\ Area(t) \in Buffers
         /\ Flushed[Area(t)] = View(t)
<1>0. /\ NULL \notin Threads /\ NULL \notin Buffers
      /\ save \in [Buffers -> Xmm] /\ g_FxOwner \in Buffers \cup {NULL}
  BY DataLayerAssumption DEF Buffers, InService, TypeOK
<1>1. /\ Area(t) \in Buffers
      /\ \A u \in Threads : Holds(u, g_FxOwner) /\ g_FxOwner # NULL => Area(u) = g_FxOwner
  BY <1>0, AreaIsHeld DEF AreasKnown, Secured, InService
<1>2. CASE g_FxOwner = NULL
  BY <1>1, <1>2 DEF Flushed, Secured, View, Kept
<1>3. CASE g_FxOwner = Area(t)
  BY <1>0, <1>1, <1>3 DEF Flushed, FlushTo, FxsavedXmm, InService, Secured, View
<1>4. CASE g_FxOwner # NULL /\ g_FxOwner # Area(t)
  <2>1. npx # t
    BY <1>0, <1>1, <1>4 DEF InService
  <2>2. QED
    BY <1>0, <1>1, <1>4, <2>1 DEF Flushed, FlushTo, View, Kept
<1>5. QED
  BY <1>2, <1>3, <1>4

\* No trap, no switch, no end of a thread and no new thread, and no store but its own,
\* changes what a secured thread finds.
LEMMA SecuredKept ==
  ASSUME InService, Running, NEW t \in Threads, Secured(t),
         cur = t => \A v \in StoredXmm(cur) : ~SseStore(v)
  PROVE  Secured(t)' /\ View(t)' = View(t)
<1>0. /\ NULL \notin Threads /\ NULL \notin Buffers /\ cur \in Threads /\ PoolInv
      /\ Area(t) \in Buffers /\ Flushed[Area(t)] = View(t)
  BY DataLayerAssumption, SecuredFlush DEF Buffers, InService, TypeOK
<1>1. CASE NmTrap
  <2>. PICK r \in Threads : r = cur
    BY <1>0
  <2>1. PICK area \in Buffers \cup {NULL} :
          /\ TrapLookupSaveArea(r, area)
          /\ save' = Flushed
          /\ g_FxOwner' = area
          /\ g_FxImage'.xmm = IF area = NULL THEN DefaultXmm ELSE save'[area]
          /\ xmm' = FxrstoredXmm(g_FxImage')
    BY <1>1 DEF InService, NmTrap, NmHandler, Flushed
  <2>2. npx' = r /\ osfxsr
    BY <1>1 DEF NmTrap, KernelNmHandler, InService
  <2>3. /\ Area(r)' = area
        /\ \/ Area(r) = area
           \/ Area(r) = NULL /\ \E i \in DOMAIN g_FreeList : area = g_FreeList[i]
        /\ \A u \in Threads : u # r => Area(u)' = Area(u)
    BY <1>0, <2>1, LookupAreas
  <2>4. Area(t)' = Area(t)
    BY <1>0, <2>3 DEF Secured
  <2>5. Kept(t)' = View(t)
    BY <1>0, <2>1, <2>4 DEF Kept
  <2>6. CASE t = r
    <3>1. xmm' = View(t)
      BY <1>0, <2>1, <2>2, <2>3, <2>4, <2>6 DEF FxrstoredXmm
    <3>2. QED
      BY <1>0, <2>2, <2>4, <2>5, <2>6, <3>1 DEF Secured, View
  <2>7. CASE t # r
    <3>1. g_FxOwner' # Area(t)'
      <4>1. /\ Holds(t, Area(t))
            /\ Area(r) = area /\ area # NULL => Holds(r, area)
        BY <1>0, <2>1, AreaIsHeld DEF AreasKnown
      <4>2. \A i \in DOMAIN g_FreeList : g_FreeList[i] # Area(t)
        BY <1>0, <4>1, OneHolderPerBuffer
      <4>3. ~Holds(r, Area(t))
        BY <1>0, <2>7, <4>1, OneHolderPerBuffer
      <4>4. area # Area(t)
        BY <1>0, <2>3, <4>1, <4>2, <4>3
      <4>5. QED
        BY <2>1, <2>4, <4>4
    <3>2. QED
      BY <1>0, <2>2, <2>4, <2>5, <2>7, <3>1 DEF Secured, View
  <2>8. QED
    BY <2>6, <2>7
<1>2. ASSUME NEW to \in Threads, Switch(to) \/ ThreadExit(to)
      PROVE  Secured(t)' /\ View(t)' = View(t)
  <2>1. /\ save' = Flushed /\ g_FxOwner' = NULL
        /\ npx' \in {npx, NULL} /\ UNCHANGED <<xmm, poolVars>>
    BY <1>2 DEF Switch, ThreadExit, InService, SwapContextEntry, SwapDetour, Flushed
  <2>2. Area(t)' = Area(t) /\ Kept(t)' = View(t)
    <3>1. Area(t)' = Area(t)
      BY <2>1 DEF Area, HasArea, poolVars
    <3>2. QED
      BY <1>0, <2>1, <3>1 DEF Kept
  <2>3. npx' = t => npx = t /\ View(t) = xmm
    BY <1>0, <2>1 DEF View
  <2>4. QED
    BY <1>0, <2>1, <2>2, <2>3 DEF Secured, View
<1>3. ASSUME UNCHANGED <<save, g_FxOwner, npx, xmm, poolVars>>
      PROVE  Secured(t)' /\ View(t)' = View(t)
  <2>1. Area(t)' = Area(t) /\ Kept(t)' = Kept(t)
    BY <1>3 DEF Kept, Area, HasArea, poolVars
  <2>2. QED
    BY <1>3, <2>1 DEF Secured, View
<1>4. ASSUME NEW v \in StoredX87(cur), X87Store(v)
      PROVE  Secured(t)' /\ View(t)' = View(t)
  BY <1>3, <1>4 DEF X87Store, kernel, driver
<1>5. ASSUME NEW n \in Threads, ThreadCreate(n)
      PROVE  Secured(t)' /\ View(t)' = View(t)
  BY <1>3, <1>5 DEF ThreadCreate, hardware, driver
<1>6. ASSUME NEW v \in StoredXmm(cur), SseStore(v)
      PROVE  Secured(t)' /\ View(t)' = View(t)
  <2>1. cur # t /\ npx = cur /\ UNCHANGED <<npx, save, g_FxOwner, poolVars>>
    BY <1>6 DEF SseStore, kernel, driver, InService, WhoRuns
  <2>2. Area(t)' = Area(t) /\ Kept(t)' = Kept(t)
    BY <2>1 DEF Kept, Area, HasArea, poolVars
  <2>3. QED
    BY <2>1, <2>2 DEF Secured, View
<1>7. QED
  BY <1>1, <1>2, <1>4, <1>5, <1>6 DEF Running

\* A store that the driver knows the owner of secures its thread.
LEMMA SecuredByStore ==
  ASSUME InService, NEW t \in Threads, t = cur, NEW v, SseStore(v), g_FxOwner # NULL
  PROVE  Secured(t)' /\ View(t)' = v
<1>1. /\ NULL \notin Threads /\ NULL \notin Buffers
      /\ g_FxOwner \in Buffers \cup {NULL} /\ PoolInv
  BY DataLayerAssumption DEF Buffers, InService, TypeOK
<1>2. /\ npx = t /\ cur' = t /\ npx' = t /\ xmm' = v /\ UNCHANGED <<g_FxOwner, poolVars>>
  BY DEF SseStore, kernel, driver, InService, WhoRuns
<1>3. Holds(t, g_FxOwner)
  BY <1>1, <1>2 DEF InService
<1>4. Area(t) = g_FxOwner
  BY <1>1, <1>3, AreaIsHeld DEF AreasKnown
<1>5. Area(t)' = Area(t)
  BY <1>2 DEF Area, HasArea, poolVars
<1>6. QED
  BY <1>2, <1>4, <1>5, <1>1 DEF Secured, View
=============================================================================
