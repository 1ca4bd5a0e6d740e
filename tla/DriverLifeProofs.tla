-------------------------- MODULE DriverLifeProofs ---------------------------
(***************************************************************************)
(* Proofs about DriverLife: what is installed at each step of loading and  *)
(* unloading, and that the memory behind the hooks outlives them, for any  *)
(* number of threads, buffers and slots, through every failure.            *)
(*                                                                         *)
(* The trap path's own lemmas (XmmSwitchProofs) say what a lookup does to  *)
(* the table and the free list.                                            *)
(***************************************************************************)
EXTENDS DriverLife, XmmSwitchProofs

-----------------------------------------------------------------------------
(* The steps at which each thing is in place.                              *)

LowIn   == {"gate_high", "install_swap", "patch_op", "back_out", "patch_rel",
            "enable", "ldmxcsr", "loaded", "unload", "unpatch_rel",
            "free_trampoline", "remove_nm"}
HighIn  == (LowIn \ {"gate_high"}) \cup {"ungate_high", "back_out_high"}
OpIn    == {"patch_rel", "enable", "ldmxcsr", "loaded", "unload"}
RelIn   == {"enable", "ldmxcsr", "loaded", "unload", "unpatch_rel"}
Halfway == {"gate_high", "ungate_high", "back_out_high", "patch_rel", "unpatch_rel"}
SseOn   == {"ldmxcsr", "loaded", "unload"} \cup UnloadSteps

Before  == {"gates", "pool", "assign", "lookup", "release", "assign_again",
            "release_again", "image", "install_nm", "gate_low"}
After   == {"give_up", "forget_owner", "free_image", "disable", "reclaim", "drain",
            "unloaded"}

\* The driver's memory is in order from the load to the removal of the last hook.
InOrder == Before \cup LowIn \cup HighIn

\* Interrupts are off exactly where a hook is half in or half out, and each half
\* is where pc says.
Installed ==
  /\ pc \in InOrder \cup After
  /\ IF_flag => pc \notin Halfway
  /\ gate \in [low : {"kernel", "NmHandler"}, high : {"kernel", "NmHandler"}]
  /\ gate.low = "NmHandler" <=> pc \in LowIn
  /\ gate.high = "NmHandler" <=> pc \in HighIn
  /\ swapCode \in [op : {"kernel", "jmp"}, rel : {"kernel", "jmp"}]
  /\ swapCode.op = "jmp" <=> pc \in OpIn
  /\ swapCode.rel = "jmp" <=> pc \in RelIn
  /\ nmHooked <=> pc \in HighIn
  /\ swapHooked <=> pc \in RelIn
  /\ osfxsr <=> pc \in SseOn

\* What the trap path reaches through the hooks' own pointers.
Pointed ==
  /\ pc \in LowIn \cup HighIn => /\ g_FxImageRaw /\ Image \in heap
                                 /\ g_KernelNmResume
  /\ pc = "gate_low" => g_FxImageRaw /\ Image \in heap /\ g_KernelNmResume
  /\ pc = "install_nm" => g_FxImageRaw /\ Image \in heap
  /\ pc \in OpIn \cup RelIn \cup {"patch_op"} =>
       g_SwapTrampoline /\ Trampoline \in heap

\* The free list and the table have their types, an entry has its area, and all
\* that they and g_FxOwner name is allocated.
Allocated ==
  pc \in InOrder =>
    /\ PoolTypeOK
    /\ \A s \in Slots : g_Table[s].Thread = NULL <=> g_Table[s].Buffer = NULL
    /\ Blocks(OnFreeList \cup InTable) \subseteq heap
    /\ g_FxOwner # NULL => g_FxOwner \in InTable
    /\ pc \in Before => g_FxOwner = NULL

LifeInv == cur \in Threads /\ Installed /\ Pointed /\ Allocated

-----------------------------------------------------------------------------
(* What threads do leaves the hooks and CR4 as they are.                   *)

LEMMA RunningKeepsHooks ==
  ASSUME Running
  PROVE  UNCHANGED <<nmHooked, swapHooked, osfxsr>>
<1>1. CASE NmTrap
  BY <1>1 DEF NmTrap
<1>2. ASSUME NEW v \in StoredXmm(cur), SseStore(v)
      PROVE  UNCHANGED <<nmHooked, swapHooked, osfxsr>>
  BY <1>2 DEF SseStore, driver
<1>3. ASSUME NEW v \in StoredX87(cur), X87Store(v)
      PROVE  UNCHANGED <<nmHooked, swapHooked, osfxsr>>
  BY <1>3 DEF X87Store, driver
<1>4. ASSUME NEW t \in Threads, Switch(t)
      PROVE  UNCHANGED <<nmHooked, swapHooked, osfxsr>>
  BY <1>4 DEF Switch
<1>5. ASSUME NEW t \in Threads, ThreadExit(t)
      PROVE  UNCHANGED <<nmHooked, swapHooked, osfxsr>>
  BY <1>5 DEF ThreadExit
<1>6. ASSUME NEW t \in Threads, ThreadCreate(t)
      PROVE  UNCHANGED <<nmHooked, swapHooked, osfxsr>>
  BY <1>6 DEF ThreadCreate, hardware, driver
<1>7. QED
  BY <1>1, <1>2, <1>3, <1>4, <1>5, <1>6 DEF Running

\* Loader's steps, and what runs between them.
LEMMA LifeSteps ==
  ASSUME [LifeNext]_allVars
  PROVE  \/ LoadDriver \/ CheckGates \/ PoolBuildOne \/ PoolBuilt \/ SelfTest
         \/ AllocateFxImage \/ FxImageAllocationFails
         \/ NmPrologueMatches \/ NmPrologueMismatch \/ GateLow \/ GateHigh
         \/ BuildTrampoline \/ SwapHookFails \/ GiveUp \/ PatchFirst \/ PatchRest
         \/ EnableSse \/ Loaded \/ NetStop
         \/ FreeTrampoline \/ ForgetOwner \/ FreeFxImage \/ DisableSseThisCpu
         \/ Reclaim \/ Reclaimed \/ Unloaded
         \/ Interleaved \/ UNCHANGED allVars
BY DEF LifeNext, DriverStep, DriverEntry, DriverUnload, PatchKernel

-----------------------------------------------------------------------------
(* Installed.                                                              *)

\* Whichever threads there are when the machine is up.
LEMMA InstalledFirst ==
  ASSUME NEW booted \in SUBSET Threads, LifeInit(booted)
  PROVE  Installed
BY DEF LifeInit, MachineInit, Installed, InOrder, Before, After, LowIn, HighIn,
       OpIn, RelIn, Halfway, SseOn, UnloadSteps

LEMMA InstalledHolds ==
  ASSUME Installed, [LifeNext]_allVars
  PROVE  Installed'
<1> USE DEF Installed, Goto, InOrder, Before, After, LowIn, HighIn, OpIn, RelIn,
            Halfway, SseOn, UnloadSteps, machine, hardware, kernel, hooks, code
<1>1. CASE LoadDriver
  BY <1>1 DEF LoadDriver
<1>2. CASE CheckGates
  BY <1>2 DEF CheckGates, vars, driver
<1>3. CASE PoolBuildOne
  BY <1>3 DEF PoolBuildOne
<1>4. CASE PoolBuilt
  BY <1>4 DEF PoolBuilt, vars, driver
<1>5. CASE SelfTest
  BY <1>5 DEF SelfTest
<1>6. CASE AllocateFxImage
  BY <1>6 DEF AllocateFxImage
<1>7. CASE FxImageAllocationFails
  BY <1>7 DEF FxImageAllocationFails
<1>8. CASE NmPrologueMatches
  BY <1>8 DEF NmPrologueMatches, vars, driver
<1>9. CASE NmPrologueMismatch
  BY <1>9 DEF NmPrologueMismatch
<1>10. CASE GateLow
  BY <1>10 DEF GateLow, SetGateLow, vars, driver
<1>11. CASE GateHigh
  <2>1. /\ gate'.low = gate.low
        /\ gate' \in [low : {"kernel", "NmHandler"}, high : {"kernel", "NmHandler"}]
    BY <1>11 DEF GateHigh, SetGateHigh
  <2>2. nmHooked' <=> gate'.low = "NmHandler" /\ gate'.high = "NmHandler"
    <3>1. nmHooked' = (gate' = [low |-> "NmHandler", high |-> "NmHandler"])
      BY <1>11 DEF GateHigh
    <3>2. gate' = [low |-> "NmHandler", high |-> "NmHandler"]
            <=> gate'.low = "NmHandler" /\ gate'.high = "NmHandler"
      BY <2>1
    <3>3. QED
      BY <3>1, <3>2, Zenon
  <2>3. gate'.high = "NmHandler" <=> pc' \in HighIn
    BY <1>11 DEF GateHigh, SetGateHigh
  <2>4. QED
    BY <1>11, <2>1, <2>2, <2>3 DEF GateHigh, SetGateHigh
<1>12. CASE BuildTrampoline
  BY <1>12 DEF BuildTrampoline, vars, driver
<1>13. CASE SwapHookFails
  BY <1>13 DEF SwapHookFails, vars, driver
<1>14. CASE GiveUp
  BY <1>14 DEF GiveUp
<1>15. CASE PatchFirst
  BY <1>15 DEF PatchFirst, vars, driver
<1>16. CASE PatchRest
  <2>1. /\ swapCode'.op = swapCode.op
        /\ swapCode' \in [op : {"kernel", "jmp"}, rel : {"kernel", "jmp"}]
    BY <1>16 DEF PatchRest
  <2>2. swapHooked' <=> swapCode'.op = "jmp" /\ swapCode'.rel = "jmp"
    <3>1. swapHooked' = (swapCode' = [op |-> "jmp", rel |-> "jmp"])
      BY <1>16 DEF PatchRest
    <3>2. swapCode' = [op |-> "jmp", rel |-> "jmp"]
            <=> swapCode'.op = "jmp" /\ swapCode'.rel = "jmp"
      BY <2>1
    <3>3. QED
      BY <3>1, <3>2, Zenon
  <2>3. swapCode'.rel = "jmp" <=> pc' \in RelIn
    BY <1>16 DEF PatchRest
  <2>4. QED
    BY <1>16, <2>1, <2>2, <2>3 DEF PatchRest
<1>17. CASE EnableSse
  BY <1>17 DEF EnableSse, EnableSseThisCpu, driver
<1>18. CASE Loaded
  BY <1>18 DEF Loaded, LdmxcsrDone, driver
<1>19. CASE NetStop
  BY <1>19 DEF NetStop, vars, driver
<1>20. CASE FreeTrampoline
  BY <1>20 DEF FreeTrampoline, vars, driver
<1>21. CASE ForgetOwner
  BY <1>21 DEF ForgetOwner
<1>22. CASE FreeFxImage
  BY <1>22 DEF FreeFxImage, vars, driver
<1>23. CASE DisableSseThisCpu
  BY <1>23 DEF DisableSseThisCpu, driver
<1>24. CASE Reclaim
  BY <1>24 DEF Reclaim
<1>25. CASE Reclaimed
  BY <1>25 DEF Reclaimed, vars, driver
<1>26. CASE Unloaded
  BY <1>26 DEF Unloaded
<1>27. CASE Interleaved
  BY <1>27, RunningKeepsHooks DEF Interleaved, life
<1>28. CASE UNCHANGED allVars
  BY <1>28 DEF allVars, vars, life, driver
<1>29. QED
  BY LifeSteps, <1>1, <1>2, <1>3, <1>4, <1>5, <1>6, <1>7, <1>8, <1>9, <1>10, <1>11, <1>12, <1>13, <1>14, <1>15, <1>16, <1>17, <1>18, <1>19, <1>20, <1>21, <1>22, <1>23, <1>24, <1>25, <1>26, <1>27, <1>28

-----------------------------------------------------------------------------
(* Pointed.                                                                *)

LEMMA BlocksApart ==
  ASSUME NEW bs
  PROVE  Image \notin Blocks(bs) /\ Trampoline \notin Blocks(bs) /\ Image # Trampoline
BY DEF Blocks, Node, RawBase, Image, Trampoline

LEMMA PointedHolds ==
  ASSUME Pointed, [LifeNext]_allVars
  PROVE  Pointed'
<1> USE BlocksApart
    DEF Pointed, Goto, Before, After, LowIn, HighIn, OpIn, RelIn, statics
<1>1. CASE LoadDriver
  BY <1>1 DEF LoadDriver
<1>2. CASE CheckGates
  BY <1>2 DEF CheckGates
<1>3. CASE PoolBuildOne
  BY <1>3 DEF PoolBuildOne
<1>4. CASE PoolBuilt
  BY <1>4 DEF PoolBuilt
<1>5. CASE SelfTest
  BY <1>5 DEF SelfTest
<1>6. CASE AllocateFxImage
  BY <1>6 DEF AllocateFxImage
<1>7. CASE FxImageAllocationFails
  BY <1>7 DEF FxImageAllocationFails
<1>8. CASE NmPrologueMatches
  BY <1>8 DEF NmPrologueMatches
<1>9. CASE NmPrologueMismatch
  BY <1>9 DEF NmPrologueMismatch
<1>10. CASE GateLow
  BY <1>10 DEF GateLow
<1>11. CASE GateHigh
  BY <1>11 DEF GateHigh
<1>12. CASE BuildTrampoline
  BY <1>12 DEF BuildTrampoline
<1>13. CASE SwapHookFails
  BY <1>13 DEF SwapHookFails
<1>14. CASE GiveUp
  BY <1>14 DEF GiveUp
<1>15. CASE PatchFirst
  BY <1>15 DEF PatchFirst
<1>16. CASE PatchRest
  BY <1>16 DEF PatchRest
<1>17. CASE EnableSse
  BY <1>17 DEF EnableSse
<1>18. CASE Loaded
  BY <1>18 DEF Loaded
<1>19. CASE NetStop
  BY <1>19 DEF NetStop
<1>20. CASE FreeTrampoline
  BY <1>20 DEF FreeTrampoline
<1>21. CASE ForgetOwner
  BY <1>21 DEF ForgetOwner
<1>22. CASE FreeFxImage
  BY <1>22 DEF FreeFxImage
<1>23. CASE DisableSseThisCpu
  BY <1>23 DEF DisableSseThisCpu
<1>24. CASE Reclaim
  BY <1>24 DEF Reclaim
<1>25. CASE Reclaimed
  BY <1>25 DEF Reclaimed
<1>26. CASE Unloaded
  BY <1>26 DEF Unloaded
<1>27. CASE Interleaved
  BY <1>27 DEF Interleaved, life
<1>28. CASE UNCHANGED allVars
  BY <1>28 DEF allVars, life
<1>29. QED
  BY LifeSteps, <1>1, <1>2, <1>3, <1>4, <1>5, <1>6, <1>7, <1>8, <1>9, <1>10, <1>11, <1>12, <1>13, <1>14, <1>15, <1>16, <1>17, <1>18, <1>19, <1>20, <1>21, <1>22, <1>23, <1>24, <1>25, <1>26, <1>27, <1>28

-----------------------------------------------------------------------------
(* Allocated: first what the operations do to the areas they can reach.    *)

\* The part of Allocated that is about the data layer.
Entries ==
  /\ PoolTypeOK
  /\ \A s \in Slots : g_Table[s].Thread = NULL <=> g_Table[s].Buffer = NULL

LEMMA LookupKeepsAreas ==
  ASSUME Entries, NEW t \in Threads, NEW area, TrapLookupSaveArea(t, area)
  PROVE  /\ Entries'
         /\ InTable \subseteq InTable'
         /\ OnFreeList' \cup InTable' \subseteq OnFreeList \cup InTable
         /\ area # NULL => area \in InTable'
<1>1. NULL \notin Threads /\ NULL \notin Buffers
  BY DataLayerAssumption DEF Buffers
<1>2. CASE UNCHANGED poolVars /\ area = NULL
  BY <1>2 DEF poolVars, Entries, PoolTypeOK, OnFreeList, InTable
<1>3. CASE UNCHANGED poolVars /\ \E s \in Slots : /\ g_Table[s].Thread = t
                                                 /\ area = g_Table[s].Buffer
  BY <1>3 DEF poolVars, Entries, PoolTypeOK, OnFreeList, InTable
<1>4. CASE \E p \in Slots : Assigns(t, area, p)
  <2>1. PICK p \in Slots : Assigns(t, area, p)
    BY <1>4
  <2>2. /\ g_FreeList \in Seq(Buffers) /\ g_FreeList # <<>>
        /\ area = Head(g_FreeList) /\ g_FreeList' = Tail(g_FreeList)
    BY <2>1 DEF Assigns, PoolPop, Entries, PoolTypeOK
  <2>3. area \in Buffers /\ area \in OnFreeList
    BY <2>2 DEF OnFreeList
  <2>4. g_FreeList' \in Seq(Buffers) /\ OnFreeList' \subseteq OnFreeList
    BY <2>2 DEF OnFreeList
  <2>5. \A s \in Slots : g_Table'[s] = IF s = p THEN [Thread |-> t, Buffer |-> area]
                                                ELSE g_Table[s]
    BY <2>1 DEF Assigns, Entries, PoolTypeOK
  <2>6. g_Table[p].Buffer = NULL
    BY <2>1 DEF Assigns, Entries
  <2>7. PoolTypeOK'
    BY <2>1, <2>3, <2>4 DEF Assigns, Entries, PoolTypeOK
  <2>8. Entries'
    BY <1>1, <2>3, <2>5, <2>7 DEF Entries
  <2>9. InTable' = InTable \cup {area}
    BY <1>1, <2>3, <2>5, <2>6 DEF InTable
  <2>10. QED
    BY <2>3, <2>4, <2>8, <2>9
<1>5. QED
  BY <1>2, <1>3, <1>4, LookupCases

LEMMA PushAddsOne ==
  ASSUME g_FreeList \in Seq(Buffers), NEW b \in Buffers, g_FreeList' = <<b>> \o g_FreeList
  PROVE  g_FreeList' \in Seq(Buffers) /\ OnFreeList' \subseteq OnFreeList \cup {b}
<1>1. Len(g_FreeList) \in Nat /\ DOMAIN g_FreeList = 1 .. Len(g_FreeList)
  OBVIOUS
<1>2. g_FreeList' \in Seq(Buffers) /\ DOMAIN g_FreeList' = 1 .. Len(g_FreeList) + 1
  BY <1>1
<1>3. \A n \in DOMAIN g_FreeList' :
        g_FreeList'[n] = IF n = 1 THEN b ELSE g_FreeList[n - 1]
  BY <1>1
<1>4. QED
  BY <1>1, <1>2, <1>3 DEF OnFreeList

LEMMA ReleaseKeepsAreas ==
  ASSUME Entries, NEW t \in Threads, TableRelease(t)
  PROVE  Entries' /\ OnFreeList' \cup InTable' \subseteq OnFreeList \cup InTable
<1>1. NULL \notin Threads /\ NULL \notin Buffers
  BY DataLayerAssumption DEF Buffers
<1>2. CASE UNCHANGED poolVars
  BY <1>2 DEF poolVars, Entries, PoolTypeOK, OnFreeList, InTable
<1>3. CASE \E i \in Slots : ProbeEndsAt(t, i) /\ g_Table[Probe(t, i)].Thread = t
  <2> DEFINE i == CHOOSE k \in Slots : ProbeEndsAt(t, k)
             p == Probe(t, i)
             b == g_Table[p].Buffer
  <2>1. PICK k \in Slots : ProbeEndsAt(t, k) /\ g_Table[Probe(t, k)].Thread = t
    BY <1>3
  <2>2. i \in Slots /\ ProbeEndsAt(t, i)
    BY <2>1
  <2>3. i = k
    BY <2>1, <2>2, ProbeEndsOnce
  <2>4. p \in Slots /\ g_Table[p].Thread = t
    <3> HIDE DEF i
    <3>1. i \in Nat
      BY <2>2, DataLayerAssumption DEF Slots
    <3>2. QED
      BY <2>1, <2>3, <3>1, ProbeInTable
  <2>5. b \in Buffers /\ b \in InTable
    BY <1>1, <2>4 DEF Entries, PoolTypeOK, InTable
  <2>6. g_FreeList' = <<b>> \o g_FreeList /\ g_Table' = [g_Table EXCEPT ![p] = EmptySlot]
    BY <1>3 DEF TableRelease, PoolPush
  <2> HIDE DEF i, p, b
  <2>7. \A s \in Slots : g_Table'[s] = IF s = p THEN EmptySlot ELSE g_Table[s]
    BY <2>4, <2>6 DEF Entries, PoolTypeOK
  <2>8. PoolTypeOK'
    BY <2>4, <2>5, <2>6 DEF Entries, PoolTypeOK, EmptySlot
  <2>9. Entries'
    BY <2>7, <2>8 DEF Entries, EmptySlot
  <2>10. InTable' \subseteq InTable
    BY <2>7 DEF InTable, EmptySlot
  <2>11. OnFreeList' \subseteq OnFreeList \cup {b}
    BY <2>5, <2>6, PushAddsOne DEF Entries, PoolTypeOK
  <2>12. QED
    BY <2>5, <2>9, <2>10, <2>11
<1>4. QED
  BY <1>2, <1>3 DEF TableRelease

LEMMA RunningThread ==
  ASSUME cur \in Threads, Running
  PROVE  cur' \in Threads
<1>1. ASSUME NEW v, SseStore(v) \/ X87Store(v)
      PROVE  cur' = cur
  BY <1>1 DEF SseStore, X87Store, kernel
<1>2. ASSUME NEW t \in Threads, Switch(t) \/ ThreadExit(t) \/ ThreadCreate(t)
      PROVE  cur' \in Threads
  BY <1>2 DEF Switch, ThreadExit, ThreadCreate, KernelSwapContext
<1>3. NmTrap => cur' = cur
  BY DEF NmTrap
<1>4. QED
  BY <1>1, <1>2, <1>3 DEF Running

LEMMA RunningKeepsAreas ==
  ASSUME cur \in Threads, Entries, g_FxOwner # NULL => g_FxOwner \in InTable, Running
  PROVE  /\ cur' \in Threads
         /\ Entries'
         /\ OnFreeList' \cup InTable' \subseteq OnFreeList \cup InTable
         /\ g_FxOwner' # NULL => g_FxOwner' \in InTable'
         /\ ~nmHooked /\ g_FxOwner = NULL => g_FxOwner' = NULL
<1> DEFINE Same == /\ UNCHANGED poolVars
                   /\ g_FxOwner' \in {g_FxOwner, NULL}
                   /\ cur' \in Threads
<1>1. CASE Same
  BY <1>1 DEF poolVars, Entries, PoolTypeOK, OnFreeList, InTable
<1>2. CASE NmTrap /\ nmHooked
  <2>1. PICK area \in Buffers \cup {NULL} :
          TrapLookupSaveArea(cur, area) /\ g_FxOwner' = area
    BY <1>2 DEF NmTrap, NmHandler
  <2>2. QED
    BY <1>2, <2>1, LookupKeepsAreas DEF NmTrap
<1>3. NmTrap /\ ~nmHooked => Same
  BY DEF NmTrap
<1>4. SwapContextEntry => g_FxOwner' \in {g_FxOwner, NULL}
  BY DEF SwapContextEntry, SwapDetour
<1>5. ASSUME NEW v, SseStore(v) \/ X87Store(v)
      PROVE  Same
  BY <1>5 DEF SseStore, X87Store, kernel, driver
<1>6. ASSUME NEW t \in Threads, Switch(t) \/ ThreadExit(t)
      PROVE  Same
  BY <1>4, <1>6 DEF Switch, ThreadExit, KernelSwapContext
<1>7. ASSUME NEW t \in Threads, ThreadCreate(t)
      PROVE  Same
  BY <1>7 DEF ThreadCreate, driver
<1> HIDE DEF Same
<1>8. QED
  BY <1>1, <1>2, <1>3, <1>5, <1>6, <1>7 DEF Running

LEMMA AllocatedHolds ==
  ASSUME cur \in Threads, Installed, Allocated, [LifeNext]_allVars
  PROVE  cur' \in Threads /\ Allocated'
<1> DEFINE OwnerHolds == g_FxOwner # NULL => g_FxOwner \in InTable
           Here == /\ Entries
                   /\ Blocks(OnFreeList \cup InTable) \subseteq heap
                   /\ OwnerHolds
                   /\ pc \in Before => g_FxOwner = NULL
           Still == UNCHANGED <<poolVars, g_FxOwner, cur>>
<1>0. Allocated <=> (pc \in InOrder => Here)
  BY DEF Allocated, Entries
<1>00. Allocated' <=> (pc' \in InOrder => Here')
  BY DEF Allocated, Entries
<1>1. ASSUME Still, pc \in InOrder, pc' \in Before => pc \in Before,
             heap \ {Trampoline} \subseteq heap'
      PROVE  cur' \in Threads /\ Allocated'
  BY <1>0, <1>00, <1>1, BlocksApart
     DEF poolVars, Entries, PoolTypeOK, OnFreeList, InTable
<1> USE DEF InOrder, Before, After, LowIn, HighIn, OpIn, RelIn, Goto,
            machine, kernel
<1>2. ASSUME UNCHANGED cur, pc' \in After
      PROVE  cur' \in Threads /\ Allocated'
  BY <1>2 DEF Allocated
<1>3. CASE LoadDriver
  BY <1>3 DEF LoadDriver, Allocated, PoolTypeOK, EmptySlot, OnFreeList, InTable, Blocks
<1>4. CASE CheckGates
  BY <1>1, <1>2, <1>4 DEF CheckGates, vars, driver
<1>5. CASE PoolBuildOne
  <2>1. PICK b \in Buffers : /\ heap' = heap \cup Blocks({b})
                             /\ g_FreeList' = <<b>> \o g_FreeList
    BY <1>5 DEF PoolBuildOne, PoolPush
  <2>2. Here /\ g_FxOwner = NULL
    BY <1>0, <1>5 DEF PoolBuildOne
  <2>3. g_FreeList' \in Seq(Buffers) /\ OnFreeList' \subseteq OnFreeList \cup {b}
    BY <2>1, <2>2, PushAddsOne DEF Entries, PoolTypeOK
  <2>4. Entries' /\ InTable' = InTable
    BY <1>5, <2>2, <2>3 DEF PoolBuildOne, Entries, PoolTypeOK, InTable
  <2>5. Blocks(OnFreeList' \cup InTable') \subseteq heap'
    BY <2>1, <2>2, <2>3, <2>4 DEF Blocks
  <2>6. Here' /\ cur' = cur
    BY <1>5, <2>2, <2>4, <2>5 DEF PoolBuildOne
  <2>7. QED
    BY <1>00, <2>6
<1>6. CASE PoolBuilt
  BY <1>1, <1>2, <1>6 DEF PoolBuilt, vars, driver
<1>7. CASE SelfTest
  <2>1. /\ Here /\ g_FxOwner = NULL
        /\ UNCHANGED <<cur, heap, g_FxOwner>>
    BY <1>0, <1>7 DEF SelfTest
  <2>2. Entries' /\ OnFreeList' \cup InTable' \subseteq OnFreeList \cup InTable
    <3>1. (\E a \in Buffers \cup {NULL} : TrapLookupSaveArea(cur, a)) \/ TableRelease(cur)
      BY <1>7 DEF SelfTest, TableLookupOrAssign
    <3>2. QED
      BY <2>1, <3>1, LookupKeepsAreas, ReleaseKeepsAreas
  <2>3. Blocks(OnFreeList' \cup InTable') \subseteq heap'
    BY <2>1, <2>2 DEF Blocks
  <2>4. Here'
    BY <2>1, <2>2, <2>3
  <2>5. QED
    BY <1>00, <2>1, <2>4
<1>8. CASE AllocateFxImage
  <2>1. /\ Here
        /\ UNCHANGED <<cur, poolVars>> /\ heap \subseteq heap' /\ g_FxOwner' = NULL
    BY <1>0, <1>8 DEF AllocateFxImage
  <2>2. Here'
    BY <2>1 DEF poolVars, Entries, PoolTypeOK, OnFreeList, InTable
  <2>3. QED
    BY <1>00, <2>1, <2>2
<1>9. CASE FxImageAllocationFails \/ NmPrologueMismatch \/ GiveUp
  BY <1>2, <1>9 DEF FxImageAllocationFails, NmPrologueMismatch, GiveUp
<1>10. CASE NmPrologueMatches
  BY <1>1, <1>10 DEF NmPrologueMatches, vars, driver
<1>11. CASE GateLow
  BY <1>1, <1>11 DEF GateLow, vars, driver
<1>12. CASE GateHigh
  BY <1>1, <1>2, <1>12 DEF GateHigh
<1>13. CASE BuildTrampoline
  BY <1>1, <1>13 DEF BuildTrampoline, vars, driver
<1>14. CASE SwapHookFails
  BY <1>1, <1>14 DEF SwapHookFails, vars, driver
<1>15. CASE PatchFirst
  BY <1>1, <1>15 DEF PatchFirst, vars, driver
<1>16. CASE PatchRest
  BY <1>1, <1>16 DEF PatchRest
<1>17. CASE EnableSse
  BY <1>1, <1>17 DEF EnableSse, EnableSseThisCpu, driver
<1>18. CASE Loaded
  BY <1>1, <1>18 DEF Loaded, LdmxcsrDone, driver
<1>19. CASE NetStop
  BY <1>1, <1>19 DEF NetStop, vars, driver
<1>20. CASE FreeTrampoline
  BY <1>1, <1>20 DEF FreeTrampoline, vars, driver
<1>21. CASE ForgetOwner \/ FreeFxImage \/ DisableSseThisCpu
         \/ Reclaim \/ Reclaimed \/ Unloaded
  BY <1>2, <1>21 DEF ForgetOwner, FreeFxImage, DisableSseThisCpu, Reclaim,
                     Reclaimed, Unloaded, vars, driver
<1>22. CASE Interleaved
  <2>1. Running /\ UNCHANGED <<pc, heap>>
    BY <1>22 DEF Interleaved, life
  <2>2. CASE pc \in InOrder
    <3>1. /\ Here
          /\ pc \in Before => ~nmHooked
      BY <1>0, <2>2 DEF Installed
    <3>2. /\ cur' \in Threads
          /\ Entries'
          /\ OnFreeList' \cup InTable' \subseteq OnFreeList \cup InTable
          /\ OwnerHolds'
          /\ ~nmHooked /\ g_FxOwner = NULL => g_FxOwner' = NULL
      BY <2>1, <3>1, RunningKeepsAreas
    <3>3. Blocks(OnFreeList' \cup InTable') \subseteq heap'
      BY <2>1, <3>1, <3>2 DEF Blocks
    <3>4. Here'
      BY <2>1, <3>1, <3>2, <3>3
    <3>5. QED
      BY <1>00, <3>2, <3>4
  <2>3. CASE pc \notin InOrder
    BY <2>1, <2>3, RunningThread DEF Allocated
  <2>4. QED
    BY <2>2, <2>3
<1>23. CASE UNCHANGED allVars
  <2>1. Still /\ UNCHANGED <<pc, heap>>
    BY <1>23 DEF allVars, vars, life, driver
  <2>2. QED
    BY <1>1, <2>1 DEF Allocated
<1>24. QED
  BY LifeSteps, <1>3, <1>4, <1>5, <1>6, <1>7, <1>8, <1>9, <1>10, <1>11, <1>12, <1>13, <1>14, <1>15, <1>16, <1>17, <1>18, <1>19, <1>20, <1>21, <1>22, <1>23

-----------------------------------------------------------------------------
(* The invariant and what follows from it.                                 *)

LEMMA LifeInvFirst ==
  ASSUME NEW booted \in SUBSET Threads, LifeInit(booted)
  PROVE  LifeInv
<1>1. cur \in Threads /\ pc = "unloaded"
  BY TrapPathAssumption DEF LifeInit, MachineInit
<1>2. QED
  BY <1>1, InstalledFirst DEF LifeInv, Pointed, Allocated, InOrder, Before, LowIn,
                              HighIn, OpIn, RelIn

LEMMA LifeInvHolds ==
  ASSUME LifeInv, [LifeNext]_allVars
  PROVE  LifeInv'
BY InstalledHolds, PointedHolds, AllocatedHolds DEF LifeInv

\* Whatever fails and whoever runs in between, each part of the driver is where
\* the step it has come to says, and what is hooked finds its memory.
THEOREM LifeIsInOrder == LifeSpec => []LifeInv
<1>1. LifeInit(Threads) => LifeInv
  BY LifeInvFirst
<1>2. LifeInv /\ [LifeNext]_allVars => LifeInv'
  BY LifeInvHolds
<1>3. QED
  BY <1>1, <1>2, PTL DEF LifeSpec

\* Neither vector 7's gate nor the first bytes of SwapContext are met half
\* written: the cli of SetGateTarget and of the two patch routines spans every
\* state in which they are.
THEOREM HooksAreWhole == LifeSpec => []NoTornJump
<1>1. ASSUME LifeInv
      PROVE  NoTornJump
  <2> USE DEF LowIn, HighIn, OpIn, RelIn, Halfway, Before, After, InOrder
  <2>1. CASE IF_flag
    <3>1. Installed /\ pc \notin Halfway
      BY <1>1, <2>1 DEF LifeInv, Installed
    <3>2. pc \in LowIn <=> pc \in HighIn
      BY <3>1
    <3>3. pc \in OpIn <=> pc \in RelIn
      BY <3>1
    <3>4. gate.low = gate.high
      BY <3>1, <3>2 DEF Installed
    <3>5. swapCode.op = swapCode.rel
      BY <3>1, <3>3 DEF Installed
    <3>6. QED
      BY <3>4, <3>5 DEF NoTornJump
  <2>2. QED
    BY <2>1 DEF NoTornJump
<1>2. QED
  BY <1>1, LifeIsInOrder, PTL

\* Every pointer the trap path follows leads to memory that is allocated: the hooks
\* go in after what they use is built, and come out before any of it is freed.
THEOREM HooksFindTheirMemory == LifeSpec => []TrapPathMemory
<1>1. ASSUME LifeInv
      PROVE  TrapPathMemory
  <2>1. CASE nmHooked \/ swapHooked
    <3>1. /\ pc \in InOrder /\ pc # "unloaded"
          /\ pc \in HighIn \/ pc \in RelIn
          /\ pc \in LowIn \cup HighIn
      BY <1>1, <2>1 DEF LifeInv, Installed, InOrder, LowIn, HighIn, RelIn
    <3>2. /\ g_FxImageRaw /\ Image \in heap /\ g_KernelNmResume
          /\ swapHooked => g_SwapTrampoline /\ Trampoline \in heap
      BY <1>1, <3>1 DEF LifeInv, Installed, Pointed
    <3>3. /\ Blocks(OnFreeList \cup InTable) \subseteq heap
          /\ {g_FxOwner} \ {NULL} \subseteq InTable
      BY <1>1, <3>1 DEF LifeInv, Allocated
    <3>4. OnFreeList \cup InTable \cup ({g_FxOwner} \ {NULL}) = OnFreeList \cup InTable
      BY <3>3
    <3>5. QED
      BY <3>1, <3>2, <3>3, <3>4 DEF TrapPathMemory
  <2>2. QED
    BY <2>1 DEF TrapPathMemory
<1>2. QED
  BY <1>1, LifeIsInOrder, PTL

\* CR4.OSFXSR is set after both hooks are in, and a load that fails never gets to
\* it; only the steps of an unload run with it after the detour is out.
THEOREM SseComesLast == LifeSpec => []SseOnlyWhileHooked
<1>1. ASSUME LifeInv
      PROVE  SseOnlyWhileHooked
  BY <1>1 DEF LifeInv, Installed, SseOnlyWhileHooked, SseOn, LowIn, HighIn, RelIn
<1>2. QED
  BY <1>1, LifeIsInOrder, PTL
=============================================================================
