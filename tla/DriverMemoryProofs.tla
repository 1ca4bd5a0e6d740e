-------------------------- MODULE DriverMemoryProofs --------------------------
(***************************************************************************)
(* More proofs about DriverLife: every save area is accounted for at each  *)
(* step of loading, running and unloading, all buffers are on the free     *)
(* list when the gate is hooked, and an unload returns all memory; for any *)
(* number of threads, buffers and slots, through every failure.            *)
(*                                                                         *)
(* The invariant follows the pool through the life of the driver: what is  *)
(* on the free list and in the table at each pc, and that exactly those    *)
(* areas are allocated.                                                    *)
(***************************************************************************)
EXTENDS DriverLifeProofs, FiniteSetTheorems

-----------------------------------------------------------------------------
(* The invariant.                                                          *)

EmptyTable == \A s \in Slots : g_Table[s] = EmptySlot

\* The entry the self-test has assigned is the only one.
OnlyLoadersEntry ==
  \E s \in Slots : /\ g_Table[s].Thread = Loader
                   /\ \A r \in Slots \ {s} : g_Table[r] = EmptySlot

SelfTestHolds == {"lookup", "release", "release_again"}
NoEntryYet    == {"gates", "pool", "assign", "assign_again", "image", "install_nm",
                  "gate_low", "gate_high"}
PoolFilled    == NoEntryYet \ {"gates", "pool"}
NoPool        == {"unloaded", "gates"}
PoolWhole     == NoEntryYet \cup SelfTestHolds

\* The areas in reach.
Areas == OnFreeList \cup InTable

\* What the table and the free list hold before the trap path can use them, all the
\* buffers built so far among it, and after the last entry has been reclaimed.
PoolAt ==
  /\ pc \in NoEntryYet \cup {"drain"} => EmptyTable
  /\ pc \in SelfTestHolds => OnlyLoadersEntry
  /\ pc \in PoolFilled => g_FreeList # <<>>
  /\ pc \in NoPool => g_FreeList = <<>>
  /\ pc \in PoolWhole => Areas = 1 .. g_BuffersBuilt

\* No area is in two places, those allocated are those in some place, and but for
\* the reclaiming loop, which leaves holes, every entry is in reach of its probe.
PoolKept ==
  /\ NoneTwice
  /\ pc # "reclaim" => ProbeReachesEntry
  /\ heap \cap Blocks(Buffers) = Blocks(OnFreeList \cup InTable)

\* The other two allocations exist no longer than the hooks need them.
ImageHeld      == {"install_nm", "gate_low", "give_up", "forget_owner", "free_image"}
                    \cup LowIn \cup HighIn
TrampolineHeld == {"patch_op", "patch_rel", "enable", "ldmxcsr", "loaded", "unload",
                   "unpatch_rel", "free_trampoline"}

OthersHeld ==
  /\ Image \in heap => pc \in ImageHeld
  /\ Trampoline \in heap => pc \in TrampolineHeld

\* The first half of the gate's address is in, and no trap has been serviced yet.
OwnerAt == pc = "gate_high" => g_FxOwner = NULL

MemoryInv == LifeTypeOK /\ PoolAt /\ PoolKept /\ OthersHeld /\ OwnerAt

-----------------------------------------------------------------------------
(* What the pool's operations do to the areas.                             *)

\* Two areas have four blocks, and none of them is another allocation.
LEMMA BlocksOfAreas ==
  ASSUME NEW A, NEW B
  PROVE  /\ \A b : Node(b) \in Blocks(A) <=> b \in A
         /\ \A b : RawBase(b) \in Blocks(A) <=> b \in A
         /\ A \subseteq B => Blocks(A) \subseteq Blocks(B)
         /\ Blocks(A) \ Blocks(B) = Blocks(A \ B)
         /\ Blocks(A) \cup Blocks(B) = Blocks(A \cup B)
         /\ \A x \in Blocks(A) : \E b \in A : x = Node(b) \/ x = RawBase(b)
<1>1. \A b, c : /\ Node(b) = Node(c) <=> b = c
                /\ RawBase(b) = RawBase(c) <=> b = c
                /\ Node(b) # RawBase(c)
  BY DEF Node, RawBase
<1>2. \A C, x : x \in Blocks(C) <=> \E b \in C : x = Node(b) \/ x = RawBase(b)
  BY DEF Blocks
<1> HIDE DEF Node, RawBase
<1>3. QED
  BY <1>1, <1>2

\* Every area is a buffer, and InTable and OnFreeList are where Somewhere looks.
LEMMA AreasAreBuffers ==
  ASSUME PoolTypeOK
  PROVE  /\ OnFreeList \subseteq Buffers /\ InTable \subseteq Buffers
         /\ \A b \in Buffers : b \in Areas <=> Somewhere(b)
         /\ NoneTwice => OnFreeList \cap InTable = {}
<1>1. NULL \notin Buffers
  BY DataLayerAssumption DEF Buffers
<1>2. OnFreeList \subseteq Buffers /\ InTable \subseteq Buffers
  BY DEF PoolTypeOK, OnFreeList, InTable
<1>3. QED
  BY <1>1, <1>2 DEF OnFreeList, InTable, Areas, Somewhere, NoneTwice

\* The list after a PoolPush of a buffer that was not on it.
LEMMA PushedList ==
  ASSUME g_FreeList \in Seq(Buffers), NEW b \in Buffers, PoolPush(b), b \notin OnFreeList,
         \A i, j \in DOMAIN g_FreeList : g_FreeList[i] = g_FreeList[j] => i = j
  PROVE  /\ g_FreeList' \in Seq(Buffers) /\ g_FreeList' # <<>>
         /\ Len(g_FreeList') = Len(g_FreeList) + 1
         /\ OnFreeList' = OnFreeList \cup {b}
         /\ \A i, j \in DOMAIN g_FreeList' : g_FreeList'[i] = g_FreeList'[j] => i = j
<1>1. Len(g_FreeList) \in Nat /\ DOMAIN g_FreeList = 1 .. Len(g_FreeList)
  OBVIOUS
<1>2. /\ g_FreeList' \in Seq(Buffers) /\ DOMAIN g_FreeList' = 1 .. Len(g_FreeList) + 1
      /\ Len(g_FreeList') = Len(g_FreeList) + 1
  BY <1>1 DEF PoolPush
<1>3. \A n \in DOMAIN g_FreeList' :
        g_FreeList'[n] = IF n = 1 THEN b ELSE g_FreeList[n - 1]
  BY <1>1 DEF PoolPush
<1>4. \A i \in DOMAIN g_FreeList : i + 1 \in DOMAIN g_FreeList' /\ g_FreeList'[i + 1] = g_FreeList[i]
  BY <1>1, <1>2, <1>3
<1>5. 1 \in DOMAIN g_FreeList' /\ g_FreeList'[1] = b
  BY <1>1, <1>2, <1>3
<1>6. \A n \in DOMAIN g_FreeList' : n # 1 => n - 1 \in DOMAIN g_FreeList
  BY <1>1, <1>2
<1>7. OnFreeList' = OnFreeList \cup {b}
  <2>1. OnFreeList' \subseteq OnFreeList \cup {b}
    BY <1>3, <1>6 DEF OnFreeList
  <2>2. OnFreeList \cup {b} \subseteq OnFreeList'
    BY <1>4, <1>5 DEF OnFreeList
  <2>3. QED
    BY <2>1, <2>2
<1>8. \A i, j \in DOMAIN g_FreeList' : g_FreeList'[i] = g_FreeList'[j] => i = j
  <2> SUFFICES ASSUME NEW i \in DOMAIN g_FreeList', NEW j \in DOMAIN g_FreeList',
                      g_FreeList'[i] = g_FreeList'[j]
               PROVE  i = j
    OBVIOUS
  <2>1. i # 1 => g_FreeList'[i] # b
    BY <1>3, <1>6 DEF OnFreeList
  <2>2. j # 1 => g_FreeList'[j] # b
    BY <1>3, <1>6 DEF OnFreeList
  <2>3. i # 1 /\ j # 1 => i = j
    <3>1. i # 1 /\ j # 1 => i - 1 = j - 1
      BY <1>3, <1>6
    <3>2. QED
      BY <3>1, <1>1, <1>2
  <2>4. QED
    BY <1>5, <2>1, <2>2, <2>3
<1>9. QED
  BY <1>2, <1>7, <1>8

\* A new buffer joins the pool.
LEMMA BuiltIsAdded ==
  ASSUME PoolTypeOK, NoneTwice, NEW b \in Buffers, b \notin Areas,
         PoolPush(b), UNCHANGED g_Table
  PROVE  /\ PoolTypeOK' /\ NoneTwice' /\ Areas' = Areas \cup {b}
         /\ Len(g_FreeList') = Len(g_FreeList) + 1
         /\ OnFreeList' = OnFreeList \cup {b}
<1>1. NULL \notin Buffers /\ b \notin OnFreeList /\ b \notin InTable
  BY DataLayerAssumption DEF Buffers, Areas
<1>2. /\ g_FreeList' \in Seq(Buffers)
      /\ Len(g_FreeList') = Len(g_FreeList) + 1
      /\ OnFreeList' = OnFreeList \cup {b}
      /\ \A i, j \in DOMAIN g_FreeList' : g_FreeList'[i] = g_FreeList'[j] => i = j
  BY <1>1, PushedList DEF PoolTypeOK, NoneTwice
<1>3. PoolTypeOK' /\ Areas' = Areas \cup {b}
  BY <1>2 DEF PoolTypeOK, Areas, InTable
<1>4. \A s \in Slots, i \in DOMAIN g_FreeList' : g_Table'[s].Buffer # g_FreeList'[i]
  <2>1. OnFreeList' \cap InTable = {}
    BY <1>1, <1>2, AreasAreBuffers
  <2>2. \A i \in DOMAIN g_FreeList' : g_FreeList'[i] \in OnFreeList' /\ g_FreeList'[i] # NULL
    BY <1>1, <1>2 DEF OnFreeList
  <2>3. QED
    BY <2>1, <2>2 DEF InTable
<1>5. NoneTwice'
  BY <1>2, <1>4 DEF NoneTwice
<1>6. QED
  BY <1>2, <1>3, <1>5

\* An entry is emptied and its buffer returned.
LEMMA EmptiedIsReturned ==
  ASSUME PoolTypeOK, NoneTwice, NEW p \in Slots, g_Table[p].Buffer # NULL,
         PoolPush(g_Table[p].Buffer), g_Table' = [g_Table EXCEPT ![p] = EmptySlot]
  PROVE  /\ PoolTypeOK' /\ NoneTwice' /\ Areas' = Areas
         /\ g_FreeList' # <<>>
         /\ \A s \in Slots : g_Table'[s] = IF s = p THEN EmptySlot ELSE g_Table[s]
<1> DEFINE b == g_Table[p].Buffer
<1>1. /\ NULL \notin Buffers /\ b \in Buffers /\ b \in InTable
      /\ \A s \in Slots : g_Table'[s] = IF s = p THEN EmptySlot ELSE g_Table[s]
      /\ EmptySlot.Thread = NULL /\ EmptySlot.Buffer = NULL
  BY DataLayerAssumption DEF Buffers, PoolTypeOK, InTable, EmptySlot
<1>2. b \notin OnFreeList
  BY <1>1, AreasAreBuffers
<1>3. /\ g_FreeList' \in Seq(Buffers) /\ g_FreeList' # <<>>
      /\ OnFreeList' = OnFreeList \cup {b}
      /\ \A i, j \in DOMAIN g_FreeList' : g_FreeList'[i] = g_FreeList'[j] => i = j
  BY <1>1, <1>2, PushedList DEF PoolTypeOK, NoneTwice
<1>4. PoolTypeOK'
  BY <1>3 DEF PoolTypeOK, EmptySlot
<1>5. InTable' = InTable \ {b}
  BY <1>1 DEF InTable, NoneTwice
<1>6. Areas' = Areas
  BY <1>1, <1>3, <1>5 DEF Areas
<1>7. NoneTwice'
  <2>1. OnFreeList' \cap InTable' = {}
    BY <1>3, <1>5, AreasAreBuffers
  <2>2. \A i \in DOMAIN g_FreeList' : g_FreeList'[i] \in OnFreeList' /\ g_FreeList'[i] # NULL
    BY <1>1, <1>3 DEF OnFreeList
  <2>3. \A s \in Slots, i \in DOMAIN g_FreeList' : g_Table'[s].Buffer # g_FreeList'[i]
    BY <2>1, <2>2 DEF InTable
  <2>4. \A s \in Slots : g_Table'[s].Thread = NULL <=> g_Table'[s].Buffer = NULL
    BY <1>1 DEF NoneTwice
  <2>5. \A r, s \in Slots :
          g_Table'[r].Buffer # NULL /\ g_Table'[r].Buffer = g_Table'[s].Buffer => r = s
    BY <1>1 DEF NoneTwice
  <2>6. QED
    BY <1>3, <2>3, <2>4, <2>5 DEF NoneTwice
<1>8. QED
  BY <1>1, <1>3, <1>4, <1>6, <1>7

\* A lookup gives no area away and makes none up.
LEMMA LookupKeepsAccount ==
  ASSUME PoolInv, NEW t \in Threads, NEW area, TrapLookupSaveArea(t, area)
  PROVE  Areas' = Areas
<1>1. Entries
  BY DEF PoolInv, NoneTwice, Entries
<1>2. Areas' \subseteq Areas
  BY <1>1, LookupKeepsAreas DEF Areas
<1>3. PoolTypeOK /\ PoolTypeOK'
  BY <1>1, LookupKeepsAreas DEF Entries
<1>4. \A b \in Buffers : Somewhere(b) => Somewhere(b)'
  BY LookupLosesNone
<1>5. Areas \subseteq Buffers
  BY <1>3, AreasAreBuffers DEF Areas
<1>6. \A b \in Buffers : Somewhere(b)' => b \in Areas'
  BY DataLayerAssumption DEF Somewhere, Areas, OnFreeList, InTable, Buffers
<1>7. \A b \in Buffers : b \in Areas => Somewhere(b)
  BY <1>3, AreasAreBuffers
<1>8. QED
  BY <1>2, <1>4, <1>5, <1>6, <1>7

-----------------------------------------------------------------------------
(* The self-test.                                                          *)

\* With the table empty and the pool not, the lookup assigns.
LEMMA FirstAssignment ==
  ASSUME PoolInv, EmptyTable, g_FreeList # <<>>,
         NEW area, TrapLookupSaveArea(Loader, area)
  PROVE  \E p \in Slots : Assigns(Loader, area, p)
<1>1. Loader \in Threads /\ NULL \notin Threads /\ 0 \in Slots
  BY DataLayerAssumption, TrapPathAssumption DEF Slots
<1>2. \A i \in Slots : Probe(Loader, i) \in Slots
  BY <1>1, ProbeInTable, DataLayerAssumption DEF Slots
<1>3. \A i \in Slots : g_Table[Probe(Loader, i)].Thread = NULL
  BY <1>2 DEF EmptyTable, EmptySlot
<1>4. PICK i \in Slots : /\ ProbeEndsAt(Loader, i)
                         /\ PoolPop(area)
                         /\ g_Table' = [g_Table EXCEPT ![Probe(Loader, i)] =
                                          [Thread |-> Loader, Buffer |-> area]]
  BY <1>1, <1>3 DEF TrapLookupSaveArea
<1>5. QED
  BY <1>2, <1>3, <1>4 DEF Assigns

\* With Loader's entry in the table, the lookup returns it and changes nothing.
LEMMA SecondLookup ==
  ASSUME PoolInv, OnlyLoadersEntry, NEW area, TrapLookupSaveArea(Loader, area)
  PROVE  UNCHANGED poolVars
<1>1. Loader \in Threads /\ NULL \notin Threads
  BY DataLayerAssumption, TrapPathAssumption
<1>2. PICK s \in Slots : g_Table[s].Thread = Loader
  BY DEF OnlyLoadersEntry
<1>3. PICK i \in Slots : ProbeEndsAt(Loader, i) /\ Probe(Loader, i) = s
  BY <1>1, <1>2 DEF PoolInv, ProbeReachesEntry
<1>4. \A j \in Slots : ProbeEndsAt(Loader, j) => g_Table[Probe(Loader, j)].Thread # NULL
  BY <1>1, <1>2, <1>3, ProbeEndsOnce
<1>5. g_Table[Probe(Loader, i)].Thread \in {Loader, NULL}
  BY <1>2, <1>3
<1>6. QED
  BY <1>4, <1>5 DEF TrapLookupSaveArea

\* The release empties that entry and returns its buffer.
LEMMA ReleaseEmpties ==
  ASSUME PoolInv, OnlyLoadersEntry, TableRelease(Loader)
  PROVE  /\ PoolTypeOK' /\ NoneTwice' /\ Areas' = Areas
         /\ EmptyTable' /\ g_FreeList' # <<>>
<1>1. Loader \in Threads /\ NULL \notin Threads
  BY DataLayerAssumption, TrapPathAssumption
<1>2. PICK s \in Slots : /\ g_Table[s].Thread = Loader
                         /\ \A r \in Slots \ {s} : g_Table[r] = EmptySlot
  BY DEF OnlyLoadersEntry
<1>3. PICK k \in Slots : ProbeEndsAt(Loader, k) /\ Probe(Loader, k) = s
  BY <1>1, <1>2 DEF PoolInv, ProbeReachesEntry
<1> DEFINE i == CHOOSE j \in Slots : ProbeEndsAt(Loader, j)
<1>4. i \in Slots /\ ProbeEndsAt(Loader, i)
  BY <1>3
<1>5. PoolPush(g_Table[Probe(Loader, i)].Buffer)
      /\ g_Table' = [g_Table EXCEPT ![Probe(Loader, i)] = EmptySlot]
  BY <1>2, <1>3 DEF TableRelease
<1> HIDE DEF i
<1>6. Probe(Loader, i) = s
  BY <1>1, <1>3, <1>4, ProbeEndsOnce
<1>7. g_Table[s].Buffer # NULL
  BY <1>1, <1>2 DEF PoolInv, NoneTwice
<1>8. /\ PoolTypeOK' /\ NoneTwice' /\ Areas' = Areas /\ g_FreeList' # <<>>
      /\ \A r \in Slots : g_Table'[r] = IF r = s THEN EmptySlot ELSE g_Table[r]
  BY <1>5, <1>6, <1>7, EmptiedIsReturned DEF PoolInv
<1>9. EmptyTable'
  BY <1>2, <1>8 DEF EmptyTable, EmptySlot, Slots
<1>10. QED
  BY <1>8, <1>9

\* An empty table has no entry out of reach, and no area.
LEMMA EmptyTableIsInOrder ==
  ASSUME EmptyTable
  PROVE  ProbeReachesEntry /\ InTable = {}
BY DEF EmptyTable, EmptySlot, ProbeReachesEntry, InTable

-----------------------------------------------------------------------------
(* Type correctness.                                                       *)

LEMMA LifeTypeFirst ==
  ASSUME NEW booted \in SUBSET Threads, LifeInit(booted)
  PROVE  LifeTypeOK
<1> USE DEF LifeInit, MachineInit
<1>1. /\ NULL \notin Threads /\ NULL \notin Buffers /\ Loader \in Threads
  BY DataLayerAssumption, TrapPathAssumption DEF Buffers
<1>2. PoolTypeOK
  BY DEF PoolTypeOK, EmptySlot
<1>3. TypeOK
  BY <1>1, <1>2, StoredTyped DEF TypeOK
<1>4. g_BuffersBuilt \in 0 .. PREFILL_BUFFERS
  BY DataLayerAssumption
<1>5. QED
  BY <1>3, <1>4 DEF LifeTypeOK

\* The types of the trap path's variables.
LEMMA LifeTypesOfPath ==
  ASSUME LifeTypeOK, LifeInv, nmHooked => PoolInv, PoolTypeOK', [LifeNext]_allVars
  PROVE  TypeOK'
<1> USE DEF LifeTypeOK, machine, hardware, kernel, history, hooks
<1>1. CASE UNCHANGED vars
  BY <1>1 DEF vars, driver, TypeOK
<1>2. CASE LoadDriver
  BY <1>2 DEF LoadDriver, TypeOK
<1>3. CASE PoolBuildOne
  <2>1. save' \in [Buffers -> Xmm]
    BY <1>3, StoredTyped, TrapPathAssumption DEF PoolBuildOne, TypeOK
  <2>2. QED
    BY <1>3, <2>1 DEF PoolBuildOne, TypeOK
<1>4. CASE SelfTest
  BY <1>4 DEF SelfTest, TypeOK
<1>5. CASE AllocateFxImage
  <2>1. ZeroedXmm \in Xmm /\ InitX87 \in X87
    BY StoredTyped, TrapPathAssumption
  <2>2. g_FxImage' \in [x87 : X87, xmm : Xmm]
    BY <1>5, <2>1 DEF AllocateFxImage
  <2>3. QED
    BY <1>5, <2>2 DEF AllocateFxImage, TypeOK
<1>6. CASE FxImageAllocationFails \/ NmPrologueMismatch \/ GiveUp \/ Unloaded
  BY <1>6 DEF FxImageAllocationFails, NmPrologueMismatch, GiveUp, Unloaded, TypeOK
<1>7. CASE GateHigh
  <2>1. nmHooked' \in BOOLEAN
    BY <1>7 DEF GateHigh
  <2>2. QED
    BY <1>7, <2>1 DEF GateHigh, TypeOK
<1>8. CASE PatchRest
  <2>1. swapHooked' \in BOOLEAN
    BY <1>8 DEF PatchRest
  <2>2. QED
    BY <1>8, <2>1 DEF PatchRest, TypeOK
<1>9. CASE EnableSse
  BY <1>9 DEF EnableSse, EnableSseThisCpu, driver, TypeOK
<1>10. CASE Loaded
  BY <1>10 DEF Loaded, LdmxcsrDone, driver, TypeOK
<1>11. CASE ForgetOwner
  BY <1>11 DEF ForgetOwner, TypeOK
<1>12. CASE DisableSseThisCpu
  BY <1>12 DEF DisableSseThisCpu, driver, TypeOK
<1>13. CASE Reclaim
  BY <1>13 DEF Reclaim, TypeOK
<1>14. CASE Interleaved
  <2>1. [Next]_vars
    BY <1>14 DEF Interleaved, Next
  <2>2. QED
    BY <2>1, NextTypes
<1>15. CASE CheckGates \/ PoolBuilt \/ NmPrologueMatches \/ GateLow \/ BuildTrampoline
         \/ SwapHookFails \/ PatchFirst \/ NetStop \/ FreeTrampoline \/ FreeFxImage
         \/ Reclaimed
  BY <1>1, <1>15 DEF CheckGates, PoolBuilt, NmPrologueMatches, GateLow, BuildTrampoline,
     SwapHookFails, PatchFirst, NetStop, FreeTrampoline, FreeFxImage, Reclaimed
<1>16. CASE UNCHANGED allVars
  BY <1>1, <1>16 DEF allVars
<1>17. QED
  BY LifeSteps, <1>2, <1>3, <1>4, <1>5, <1>6, <1>7, <1>8, <1>9, <1>10, <1>11, <1>12,
     <1>13, <1>14, <1>15, <1>16

\* The types of the variables of loading and unloading.
LEMMA LifeTypesOfLoad ==
  ASSUME LifeTypeOK, LifeInv', [LifeNext]_allVars
  PROVE  /\ processor' \in Processors /\ IF_flag' \in BOOLEAN
         /\ gate' \in [low : {"kernel", "NmHandler"}, high : {"kernel", "NmHandler"}]
         /\ swapCode' \in [op : {"kernel", "jmp"}, rel : {"kernel", "jmp"}]
         /\ heap' \subseteq Blocks(Buffers) \cup {Image, Trampoline}
         /\ {g_FxImageRaw, g_KernelNmResume, g_SwapTrampoline}' \subseteq BOOLEAN
         /\ g_BuffersBuilt' \in 0 .. PREFILL_BUFFERS
<1> USE DEF LifeTypeOK
<1>1. processor' \in Processors
  BY DEF LifeNext, allVars
<1>2. /\ gate' \in [low : {"kernel", "NmHandler"}, high : {"kernel", "NmHandler"}]
      /\ swapCode' \in [op : {"kernel", "jmp"}, rel : {"kernel", "jmp"}]
  BY DEF LifeInv, Installed
<1>3. CASE UNCHANGED <<IF_flag, heap, statics>>
  BY <1>1, <1>2, <1>3 DEF statics
<1>4. CASE heap' \subseteq heap /\ UNCHANGED <<IF_flag, statics>>
  BY <1>1, <1>2, <1>4 DEF statics
<1>5. CASE PoolBuildOne
  <2>1. PICK b \in Buffers : heap' = heap \cup Blocks({b}) /\ g_BuffersBuilt' = b
    BY <1>5 DEF PoolBuildOne
  <2>2. Blocks({b}) \subseteq Blocks(Buffers)
    BY BlocksOfAreas
  <2>3. g_BuffersBuilt' \in 0 .. PREFILL_BUFFERS
    BY <2>1, DataLayerAssumption DEF Buffers
  <2>4. QED
    BY <1>1, <1>2, <1>5, <2>1, <2>2, <2>3 DEF PoolBuildOne, code
<1>6. CASE AllocateFxImage \/ NmPrologueMatches \/ BuildTrampoline
  BY <1>1, <1>2, <1>6
  DEF AllocateFxImage, NmPrologueMatches, BuildTrampoline, code
<1>7. CASE NmPrologueMismatch \/ GiveUp \/ FreeFxImage
  BY <1>1, <1>2, <1>7
  DEF NmPrologueMismatch, GiveUp, FreeFxImage, PoolDrain, code
<1>8. CASE GateLow \/ GateHigh \/ PatchFirst \/ PatchRest
  <2>1. IF_flag' \in BOOLEAN /\ UNCHANGED <<heap, statics>>
    BY <1>8 DEF GateLow, GateHigh, SetGateLow, SetGateHigh, PatchFirst, PatchRest
  <2>2. QED
    BY <1>1, <1>2, <2>1 DEF statics
<1>9. CASE FxImageAllocationFails \/ FreeTrampoline \/ Unloaded
  BY <1>4, <1>9 DEF FxImageAllocationFails, FreeTrampoline, Unloaded,
                    PoolDrain, code
<1>10. CASE CheckGates \/ PoolBuilt \/ SelfTest \/ SwapHookFails \/ EnableSse \/ Loaded
         \/ NetStop \/ ForgetOwner \/ DisableSseThisCpu \/ Reclaim \/ Reclaimed
  BY <1>3, <1>10 DEF CheckGates, PoolBuilt, SelfTest, SwapHookFails, EnableSse, Loaded,
     NetStop, ForgetOwner, DisableSseThisCpu, Reclaim, Reclaimed, code
<1>11. CASE Interleaved \/ UNCHANGED allVars
  BY <1>3, <1>11 DEF Interleaved, allVars, life, statics
<1>12. CASE LoadDriver
  <2>1. g_BuffersBuilt' \in 0 .. PREFILL_BUFFERS
    BY <1>12, DataLayerAssumption DEF LoadDriver
  <2>2. UNCHANGED IF_flag /\ heap' = {}
    BY <1>12 DEF LoadDriver, code
  <2>3. {g_FxImageRaw, g_KernelNmResume, g_SwapTrampoline}' \subseteq BOOLEAN
    BY <1>12 DEF LoadDriver
  <2>4. QED
    BY <1>1, <1>2, <2>1, <2>2, <2>3
<1>13. QED
  BY LifeSteps, <1>5, <1>6, <1>7, <1>8, <1>9, <1>10, <1>11, <1>12

-----------------------------------------------------------------------------
(* The image and the trampoline, and the owner before the first trap.      *)

LEMMA OthersHolds ==
  ASSUME OthersHeld, [LifeNext]_allVars
  PROVE  OthersHeld'
<1> USE BlocksApart
    DEF OthersHeld, Goto, ImageHeld, TrampolineHeld, LowIn, HighIn, PoolDrain
<1>1. CASE LoadDriver \/ CheckGates \/ PoolBuilt \/ SelfTest \/ AllocateFxImage
  BY <1>1 DEF LoadDriver, CheckGates, PoolBuilt, SelfTest, AllocateFxImage
<1>2. CASE PoolBuildOne
  BY <1>2 DEF PoolBuildOne
<1>3. CASE FxImageAllocationFails \/ NmPrologueMatches \/ NmPrologueMismatch \/ GiveUp
  BY <1>3 DEF FxImageAllocationFails, NmPrologueMatches, NmPrologueMismatch, GiveUp
<1>4. CASE GateLow
  BY <1>4 DEF GateLow
<1>5. CASE GateHigh
  BY <1>5 DEF GateHigh
<1>6. CASE BuildTrampoline \/ SwapHookFails \/ EnableSse \/ Loaded \/ NetStop
  BY <1>6 DEF BuildTrampoline, SwapHookFails, EnableSse, Loaded, NetStop
<1>7. CASE PatchFirst
  BY <1>7 DEF PatchFirst
<1>8. CASE PatchRest
  BY <1>8 DEF PatchRest
<1>9. CASE FreeTrampoline \/ ForgetOwner \/ FreeFxImage \/ DisableSseThisCpu
  BY <1>9 DEF FreeTrampoline, ForgetOwner, FreeFxImage, DisableSseThisCpu
<1>10. CASE Reclaim \/ Reclaimed \/ Unloaded
  BY <1>10 DEF Reclaim, Reclaimed, Unloaded
<1>11. CASE Interleaved \/ UNCHANGED allVars
  BY <1>11 DEF Interleaved, allVars, life
<1>12. QED
  BY LifeSteps, <1>1, <1>2, <1>3, <1>4, <1>5, <1>6, <1>7, <1>8, <1>9, <1>10, <1>11

\* Only GateLow leads to gate_high, from where g_FxOwner is still NULL, and with
\* interrupts off no thread runs there.
LEMMA OwnerAtHolds ==
  ASSUME LifeInv, OwnerAt, [LifeNext]_allVars
  PROVE  OwnerAt'
<1> USE DEF OwnerAt, Goto
<1>1. CASE GateLow
  <2>1. pc' = "gate_high" => pc = "gate_low" /\ UNCHANGED vars
    BY <1>1 DEF GateLow
  <2>2. QED
    BY <2>1 DEF LifeInv, Allocated, InOrder, Before, vars, driver
<1>2. CASE Interleaved
  BY <1>2 DEF Interleaved, LifeInv, Installed, Halfway, life
<1>3. CASE UNCHANGED allVars
  BY <1>3 DEF allVars, vars, driver, life
<1>4. CASE LoadDriver \/ CheckGates \/ PoolBuildOne \/ PoolBuilt \/ SelfTest
         \/ AllocateFxImage \/ FxImageAllocationFails
         \/ NmPrologueMatches \/ NmPrologueMismatch \/ GateHigh
         \/ BuildTrampoline \/ SwapHookFails \/ GiveUp \/ PatchFirst \/ PatchRest
         \/ EnableSse \/ Loaded \/ NetStop
         \/ FreeTrampoline \/ ForgetOwner \/ FreeFxImage \/ DisableSseThisCpu
         \/ Reclaim \/ Reclaimed \/ Unloaded
  <2>1. pc' # "gate_high"
    BY <1>4 DEF LoadDriver, CheckGates, PoolBuildOne, PoolBuilt, SelfTest,
       AllocateFxImage, FxImageAllocationFails, NmPrologueMatches, NmPrologueMismatch,
       GateHigh, BuildTrampoline, SwapHookFails, GiveUp, PatchFirst, PatchRest,
       EnableSse, Loaded, NetStop, FreeTrampoline, ForgetOwner, FreeFxImage,
       DisableSseThisCpu, Reclaim, Reclaimed, Unloaded
  <2>2. QED
    BY <2>1
<1>5. QED
  BY LifeSteps, <1>1, <1>2, <1>3, <1>4

-----------------------------------------------------------------------------
(* The pool, from the load to the last PoolDrain.                          *)

\* Steps that leave the pool and its blocks alone.
LEMMA PoolLeftAlone ==
  ASSUME PoolTypeOK, PoolKept, UNCHANGED poolVars,
         \A x \in Blocks(Buffers) : x \in heap' <=> x \in heap,
         pc = "reclaim" => pc' = "reclaim" \/ EmptyTable
  PROVE  PoolTypeOK' /\ PoolKept' /\ Areas' = Areas
         /\ (EmptyTable => EmptyTable') /\ (OnlyLoadersEntry => OnlyLoadersEntry')
<1> USE DEF poolVars
<1>1. PoolTypeOK'
  BY DEF PoolTypeOK
<1>2. OnFreeList' = OnFreeList /\ InTable' = InTable
  BY DEF OnFreeList, InTable
<1>3. NoneTwice'
  BY DEF PoolKept, NoneTwice
<1>4. pc' # "reclaim" => ProbeReachesEntry'
  <2>1. pc' # "reclaim" => ProbeReachesEntry
    BY EmptyTableIsInOrder DEF PoolKept
  <2>2. ProbeReachesEntry => ProbeReachesEntry'
    BY DEF ProbeReachesEntry, ProbeEndsAt, Probe, TableHash
  <2>3. QED
    BY <2>1, <2>2
<1>5. heap' \cap Blocks(Buffers) = Blocks(OnFreeList' \cup InTable')
  BY <1>2 DEF PoolKept
<1>6. QED
  BY <1>1, <1>2, <1>3, <1>4, <1>5
  DEF PoolKept, EmptyTable, OnlyLoadersEntry, Blocks, Buffers, Areas

\* PoolDrain frees what is on the list, and leaves what the table holds.
LEMMA Drained ==
  ASSUME PoolTypeOK, PoolKept, NEW freed, freed \subseteq {Image, Trampoline},
         PoolDrain(freed), UNCHANGED g_Table, pc # "reclaim"
  PROVE  PoolTypeOK' /\ PoolKept' /\ g_FreeList' = <<>>
<1>1. g_FreeList' = <<>> /\ heap' = heap \ (freed \cup Blocks(OnFreeList))
  BY DEF PoolDrain
<1>2. PoolTypeOK' /\ OnFreeList' = {} /\ InTable' = InTable
  BY <1>1 DEF PoolTypeOK, OnFreeList, InTable
<1>3. NoneTwice'
  BY <1>1 DEF PoolKept, NoneTwice
<1>4. ProbeReachesEntry'
  BY DEF PoolKept, ProbeReachesEntry, ProbeEndsAt, Probe, TableHash
<1>5. Blocks(OnFreeList \cup InTable) \ Blocks(OnFreeList) = Blocks(InTable)
  <2>1. (OnFreeList \cup InTable) \ OnFreeList = InTable
    BY AreasAreBuffers DEF PoolKept
  <2>2. Blocks(OnFreeList \cup InTable) \ Blocks(OnFreeList)
          = Blocks((OnFreeList \cup InTable) \ OnFreeList)
    BY BlocksOfAreas
  <2>3. QED
    BY <2>1, <2>2
<1>6. heap' \cap Blocks(Buffers) = (heap \cap Blocks(Buffers)) \ Blocks(OnFreeList)
  BY <1>1, BlocksApart
<1>7. heap' \cap Blocks(Buffers) = Blocks(OnFreeList' \cup InTable')
  BY <1>2, <1>5, <1>6 DEF PoolKept
<1>8. QED
  BY <1>1, <1>2, <1>3, <1>4, <1>7 DEF PoolKept, Blocks, Buffers

LEMMA PoolHolds ==
  ASSUME LifeInv, MemoryInv, [LifeNext]_allVars
  PROVE  PoolTypeOK' /\ PoolAt' /\ PoolKept'
<1>0. PoolTypeOK /\ PoolAt /\ PoolKept /\ NoneTwice /\ cur \in Threads
      /\ g_BuffersBuilt \in 0 .. PREFILL_BUFFERS /\ PREFILL_BUFFERS \in Nat
      /\ (pc # "reclaim" => PoolInv)
  BY DataLayerAssumption DEF MemoryInv, LifeTypeOK, TypeOK, PoolKept, PoolInv
<1> DEFINE Quiet == /\ UNCHANGED <<poolVars, g_BuffersBuilt>>
                    /\ \A x \in Blocks(Buffers) : x \in heap' <=> x \in heap
           Pool == PoolTypeOK' /\ PoolAt' /\ PoolKept'
<1>1. ASSUME Quiet, pc # "reclaim", pc' # "reclaim",
             pc' \in NoEntryYet \cup {"drain"} => EmptyTable,
             pc' \in SelfTestHolds => OnlyLoadersEntry,
             pc' \in PoolFilled => g_FreeList # <<>>,
             pc' \in NoPool => g_FreeList = <<>>,
             pc' \in PoolWhole => Areas = 1 .. g_BuffersBuilt
      PROVE  Pool
  <2>1. PoolTypeOK' /\ PoolKept' /\ Areas' = Areas
        /\ (EmptyTable => EmptyTable') /\ (OnlyLoadersEntry => OnlyLoadersEntry')
    BY <1>0, <1>1, PoolLeftAlone
  <2>2. PoolAt'
    BY <1>1, <2>1 DEF PoolAt, poolVars
  <2>3. QED
    BY <2>1, <2>2
<1>2. \A x \in Blocks(Buffers) : x # Image /\ x # Trampoline
  BY BlocksApart
<1> USE DEF Goto, NoEntryYet, SelfTestHolds, PoolFilled, NoPool, PoolWhole, statics
<1>3. CASE LoadDriver
  <2>1. /\ \A s \in Slots : g_Table'[s] = EmptySlot
        /\ g_FreeList' = <<>> /\ heap' = {} /\ pc' = "gates" /\ g_BuffersBuilt' = 0
    BY <1>3 DEF LoadDriver
  <2>2. EmptyTable' /\ PoolTypeOK'
    BY <1>3, <2>1 DEF LoadDriver, EmptyTable, PoolTypeOK, EmptySlot
  <2>3. NoneTwice' /\ OnFreeList' = {}
    BY <2>1 DEF NoneTwice, EmptySlot, OnFreeList
  <2>4. ProbeReachesEntry' /\ InTable' = {}
    BY <2>1 DEF ProbeReachesEntry, EmptySlot, InTable
  <2>5. PoolKept'
    BY <2>1, <2>3, <2>4 DEF PoolKept, Blocks
  <2>6. PoolAt'
    BY <2>1, <2>2, <2>3, <2>4 DEF PoolAt, Areas
  <2>7. QED
    BY <2>2, <2>5, <2>6
<1>4. CASE CheckGates
  <2>1. Quiet
    BY <1>4 DEF CheckGates, vars, driver
  <2>2. pc = "gates" /\ pc' \in {"pool", "unloaded"} /\ g_FreeList = <<>> /\ EmptyTable
        /\ Areas = 1 .. g_BuffersBuilt
    BY <1>0, <1>4 DEF CheckGates, PoolAt
  <2>3. QED
    BY <1>1, <2>1, <2>2
<1>5. CASE PoolBuildOne
  <2>1. PICK b \in Buffers : /\ b = g_BuffersBuilt + 1 /\ g_BuffersBuilt' = b
                             /\ heap' = heap \cup Blocks({b}) /\ PoolPush(b)
    BY <1>5 DEF PoolBuildOne
  <2>2. /\ pc = "pool" /\ pc' = "pool" /\ UNCHANGED g_Table /\ EmptyTable
        /\ Areas = 1 .. g_BuffersBuilt
    BY <1>0, <1>5 DEF PoolBuildOne, PoolAt
  <2>5. b \notin Areas
    BY <1>0, <2>1, <2>2
  <2>6. /\ PoolTypeOK' /\ NoneTwice' /\ Areas' = Areas \cup {b}
        /\ Len(g_FreeList') = Len(g_FreeList) + 1
        /\ OnFreeList' = OnFreeList \cup {b}
    BY <1>0, <2>1, <2>2, <2>5, BuiltIsAdded
  <2>7. EmptyTable' /\ ProbeReachesEntry'
    BY <2>2 DEF EmptyTable, EmptySlot, ProbeReachesEntry
  <2>8. heap' \cap Blocks(Buffers) = Blocks(OnFreeList' \cup InTable')
    <3>1. Blocks({b}) \subseteq Blocks(Buffers)
      BY BlocksOfAreas
    <3>2. Blocks(Areas) \cup Blocks({b}) = Blocks(Areas \cup {b})
      BY BlocksOfAreas
    <3>3. heap \cap Blocks(Buffers) = Blocks(Areas)
      BY <1>0 DEF PoolKept, Areas
    <3>4. heap' \cap Blocks(Buffers) = Blocks(Areas')
      BY <2>1, <2>6, <3>1, <3>2, <3>3
    <3>5. QED
      BY <3>4 DEF Areas
  <2>9. Areas' = 1 .. g_BuffersBuilt'
    BY <1>0, <2>1, <2>2, <2>6
  <2>10. PoolKept'
    BY <2>6, <2>7, <2>8 DEF PoolKept, Blocks, Buffers
  <2>11. PoolAt'
    BY <2>2, <2>7, <2>9 DEF PoolAt
  <2>12. QED
    BY <2>6, <2>10, <2>11
<1>6. CASE PoolBuilt
  <2>1. Quiet
    BY <1>6 DEF PoolBuilt, vars, driver
  <2>2. /\ pc = "pool" /\ EmptyTable
        /\ Areas = 1 .. g_BuffersBuilt
        /\ \/ pc' = "assign" /\ g_BuffersBuilt # 0
           \/ pc' = "unloaded" /\ g_BuffersBuilt = 0
    BY <1>0, <1>6 DEF PoolBuilt, PoolAt
  <2>3. OnFreeList = 1 .. g_BuffersBuilt
    BY <2>2, EmptyTableIsInOrder DEF Areas
  <2>4. g_BuffersBuilt = 0 <=> g_FreeList = <<>>
    <3>1. g_FreeList = <<>> <=> OnFreeList = {}
      <4>1. g_FreeList # <<>> => 1 \in DOMAIN g_FreeList
        BY <1>0 DEF PoolTypeOK
      <4>2. QED
        BY <4>1 DEF OnFreeList
    <3>2. QED
      BY <1>0, <2>3, <3>1
  <2>5. QED
    BY <1>1, <2>1, <2>2, <2>4
<1>7. CASE SelfTest
  <2>1. /\ cur = Loader /\ Loader \in Threads
        /\ UNCHANGED <<heap, g_BuffersBuilt>>
        /\ Areas = 1 .. g_BuffersBuilt
    BY <1>0, <1>7, TrapPathAssumption DEF SelfTest, PoolAt
  <2>2. ASSUME PoolTypeOK', NoneTwice', Areas' = Areas, ProbeReachesEntry'
        PROVE  PoolKept'
    BY <1>0, <2>1, <2>2 DEF PoolKept, Areas, Blocks, Buffers
  <2>3. ASSUME NEW a, TableLookupOrAssign(cur, a),
               Goto("assign", "lookup") \/ Goto("assign_again", "release_again")
        PROVE  Pool
    <3>1. EmptyTable /\ g_FreeList # <<>> /\ PoolInv /\ TrapLookupSaveArea(Loader, a)
      BY <1>0, <2>1, <2>3 DEF PoolAt, TableLookupOrAssign
    <3>2. PICK p \in Slots : Assigns(Loader, a, p)
      BY <3>1, FirstAssignment
    <3>3. PoolInv' /\ Areas' = Areas
      BY <2>1, <3>1, <3>2, AssignPreservesPool, LookupKeepsAccount
    <3>4. OnlyLoadersEntry'
      <4>1. \A s \in Slots : g_Table'[s] = IF s = p THEN [Thread |-> Loader, Buffer |-> a]
                                                    ELSE g_Table[s]
        BY <1>0, <3>2 DEF Assigns, PoolTypeOK
      <4>2. QED
        BY <3>1, <3>2, <4>1 DEF OnlyLoadersEntry, EmptyTable, Assigns, Slots, EmptySlot
    <3>5. PoolAt' /\ PoolKept'
      BY <2>1, <2>2, <2>3, <3>3, <3>4 DEF PoolAt, PoolInv
    <3>6. QED
      BY <3>3, <3>5 DEF PoolInv
  <2>4. ASSUME NEW a, TableLookupOrAssign(cur, a), Goto("lookup", "release")
        PROVE  Pool
    <3>1. OnlyLoadersEntry /\ PoolInv /\ TrapLookupSaveArea(Loader, a)
      BY <1>0, <2>1, <2>4 DEF PoolAt, TableLookupOrAssign
    <3>2. Quiet
      BY <2>1, <3>1, SecondLookup
    <3>3. QED
      BY <1>1, <2>1, <2>4, <3>1, <3>2
  <2>5. ASSUME TableRelease(cur),
               Goto("release", "assign_again") \/ Goto("release_again", "image")
        PROVE  Pool
    <3>1. OnlyLoadersEntry /\ PoolInv /\ TableRelease(Loader)
      BY <1>0, <2>1, <2>5 DEF PoolAt
    <3>2. PoolTypeOK' /\ NoneTwice' /\ Areas' = Areas /\ EmptyTable' /\ g_FreeList' # <<>>
      BY <3>1, ReleaseEmpties
    <3>3. ProbeReachesEntry'
      BY <3>2 DEF EmptyTable, EmptySlot, ProbeReachesEntry
    <3>4. PoolAt' /\ PoolKept'
      BY <2>1, <2>2, <2>5, <3>2, <3>3 DEF PoolAt
    <3>5. QED
      BY <3>2, <3>4
  <2>6. QED
    <3>1. \/ /\ \E a : TableLookupOrAssign(cur, a)
             /\ \/ Goto("assign", "lookup") \/ Goto("assign_again", "release_again")
                \/ Goto("lookup", "release")
          \/ /\ TableRelease(cur)
             /\ Goto("release", "assign_again") \/ Goto("release_again", "image")
      BY <1>7 DEF SelfTest
    <3>2. QED
      BY <2>3, <2>4, <2>5, <3>1
<1>8. CASE AllocateFxImage
  <2>1. Quiet
    BY <1>2, <1>8 DEF AllocateFxImage
  <2>2. pc = "image" /\ pc' = "install_nm" /\ g_FreeList # <<>> /\ EmptyTable
        /\ Areas = 1 .. g_BuffersBuilt
    BY <1>0, <1>8 DEF AllocateFxImage, PoolAt
  <2>3. QED
    BY <1>1, <2>1, <2>2
<1>9. CASE FxImageAllocationFails \/ NmPrologueMismatch \/ GiveUp \/ Unloaded
  <2>1. /\ PoolDrain({}) \/ PoolDrain({Image})
        /\ UNCHANGED g_Table /\ pc # "reclaim" /\ pc' = "unloaded"
    BY <1>9 DEF FxImageAllocationFails, NmPrologueMismatch, GiveUp, Unloaded
  <2>2. PoolTypeOK' /\ PoolKept' /\ g_FreeList' = <<>>
    BY <1>0, <2>1, Drained
  <2>3. PoolAt'
    BY <2>1, <2>2 DEF PoolAt
  <2>4. QED
    BY <2>2, <2>3
<1>10. CASE NmPrologueMatches
  <2>1. Quiet
    BY <1>10 DEF NmPrologueMatches, vars, driver
  <2>2. pc = "install_nm" /\ pc' = "gate_low" /\ g_FreeList # <<>> /\ EmptyTable
        /\ Areas = 1 .. g_BuffersBuilt
    BY <1>0, <1>10 DEF NmPrologueMatches, PoolAt
  <2>3. QED
    BY <1>1, <2>1, <2>2
<1>11. CASE GateLow
  <2>1. Quiet
    BY <1>11 DEF GateLow, vars, driver
  <2>2. \/ /\ pc = "gate_low" /\ pc' = "gate_high" /\ g_FreeList # <<>> /\ EmptyTable
           /\ Areas = 1 .. g_BuffersBuilt
        \/ pc = "remove_nm" /\ pc' = "ungate_high"
        \/ pc = "back_out" /\ pc' = "back_out_high"
    BY <1>0, <1>11 DEF GateLow, PoolAt
  <2>3. QED
    BY <1>1, <2>1, <2>2
<1>12. CASE GateHigh
  <2>1. Quiet
    BY <1>12 DEF GateHigh
  <2>2. pc # "reclaim" /\ pc' \in {"install_swap", "forget_owner", "give_up"}
    BY <1>12 DEF GateHigh
  <2>3. QED
    BY <1>1, <2>1, <2>2
<1>13. CASE \/ BuildTrampoline \/ SwapHookFails \/ PatchFirst \/ PatchRest
            \/ EnableSse \/ Loaded \/ NetStop \/ FreeTrampoline \/ ForgetOwner
            \/ FreeFxImage
  <2>1. Quiet
    BY <1>2, <1>13 DEF BuildTrampoline, SwapHookFails, PatchFirst, PatchRest, EnableSse,
       EnableSseThisCpu, Loaded, LdmxcsrDone, NetStop, FreeTrampoline, ForgetOwner,
       FreeFxImage, vars, driver
  <2>2. pc # "reclaim"
        /\ pc' \in {"patch_op", "back_out", "patch_rel", "unpatch_rel", "enable",
                    "free_trampoline", "ldmxcsr", "loaded", "unload", "remove_nm",
                    "free_image", "disable"}
    BY <1>13 DEF BuildTrampoline, SwapHookFails, PatchFirst, PatchRest, EnableSse,
       Loaded, NetStop, FreeTrampoline, ForgetOwner, FreeFxImage
  <2>3. QED
    BY <1>1, <2>1, <2>2
<1>14. CASE DisableSseThisCpu
  <2>1. Quiet /\ pc = "disable" /\ pc' = "reclaim"
    BY <1>14 DEF DisableSseThisCpu, driver
  <2>2. PoolTypeOK' /\ PoolKept'
    BY <1>0, <2>1, PoolLeftAlone
  <2>3. PoolAt'
    BY <2>1 DEF PoolAt
  <2>4. QED
    BY <2>2, <2>3
<1>15. CASE Reclaim
  <2>1. PICK s \in Slots : /\ StillHeld(s)
                           /\ PoolPush(g_Table[s].Buffer)
                           /\ g_Table' = [g_Table EXCEPT ![s] = EmptySlot]
    BY <1>15 DEF Reclaim
  <2>2. pc' = "reclaim" /\ UNCHANGED heap
    BY <1>15 DEF Reclaim
  <2>3. PoolTypeOK' /\ NoneTwice' /\ Areas' = Areas
    BY <1>0, <2>1, EmptiedIsReturned DEF StillHeld
  <2>4. PoolKept'
    BY <1>0, <2>2, <2>3 DEF PoolKept, Areas, Blocks, Buffers
  <2>5. PoolAt'
    BY <2>2 DEF PoolAt
  <2>6. QED
    BY <2>3, <2>4, <2>5
<1>16. CASE Reclaimed
  <2>1. Quiet /\ pc = "reclaim" /\ pc' = "drain"
    BY <1>16 DEF Reclaimed, vars, driver
  <2>2. EmptyTable
    <3> SUFFICES ASSUME NEW s \in Slots PROVE g_Table[s] = EmptySlot
      BY DEF EmptyTable
    <3>1. g_Table[s].Thread = NULL /\ g_Table[s].Buffer = NULL
      BY <1>0, <1>16 DEF Reclaimed, StillHeld, NoneTwice
    <3>2. QED
      BY <1>0, <3>1 DEF PoolTypeOK, EmptySlot
  <2>3. PoolTypeOK' /\ PoolKept' /\ EmptyTable'
    BY <1>0, <2>1, <2>2, PoolLeftAlone
  <2>4. PoolAt'
    BY <2>1, <2>3 DEF PoolAt
  <2>5. QED
    BY <2>3, <2>4
<1>17. ASSUME Quiet, pc' = pc
       PROVE  Pool
  <2>1. PoolTypeOK' /\ PoolKept' /\ Areas' = Areas
        /\ (EmptyTable => EmptyTable') /\ (OnlyLoadersEntry => OnlyLoadersEntry')
    BY <1>0, <1>17, PoolLeftAlone
  <2>2. PoolAt'
    BY <1>0, <1>17, <2>1 DEF PoolAt, poolVars
  <2>3. QED
    BY <2>1, <2>2
<1>18. CASE Interleaved
  <2>1. Running /\ UNCHANGED <<pc, heap, g_BuffersBuilt>>
    BY <1>18 DEF Interleaved, life
  <2>2. CASE UNCHANGED poolVars
    BY <1>17, <2>1, <2>2
  <2>3. CASE NmTrap /\ nmHooked
    <3>1. pc \in HighIn
      BY <2>3 DEF LifeInv, Installed
    <3>2. /\ PoolInv
          /\ pc \notin PoolWhole \cup {"drain"} \cup NoPool
      BY <1>0, <3>1 DEF HighIn, LowIn
    <3>3. PICK area : TrapLookupSaveArea(cur, area)
      BY <2>3 DEF NmTrap, NmHandler
    <3>4. PoolInv' /\ Areas' = Areas
      BY <1>0, <3>2, <3>3, LookupPreservesPool, LookupKeepsAccount
    <3>5. PoolKept'
      BY <1>0, <2>1, <3>4 DEF PoolKept, PoolInv, Areas, Blocks, Buffers
    <3>6. PoolAt'
      BY <2>1, <3>2 DEF PoolAt
    <3>7. QED
      BY <3>4, <3>5, <3>6 DEF PoolInv
  <2>4. UNCHANGED poolVars \/ (NmTrap /\ nmHooked)
    BY <2>1 DEF Running, NmTrap, SseStore, X87Store, Switch, ThreadExit, ThreadCreate,
       driver
  <2>5. QED
    BY <2>2, <2>3, <2>4
<1>19. CASE UNCHANGED allVars
  BY <1>17, <1>19 DEF allVars, vars, driver, life
<1>20. QED
  BY LifeSteps, <1>3, <1>4, <1>5, <1>6, <1>7, <1>8, <1>9, <1>10, <1>11, <1>12, <1>13,
     <1>14, <1>15, <1>16, <1>18, <1>19

-----------------------------------------------------------------------------
(* The invariant, and what follows from it.                                *)

LEMMA MemoryFirst ==
  ASSUME NEW booted \in SUBSET Threads, LifeInit(booted)
  PROVE  MemoryInv
<1>1. LifeTypeOK
  BY LifeTypeFirst
<1>2. /\ pc = "unloaded" /\ heap = {} /\ g_FreeList = <<>>
      /\ \A s \in Slots : g_Table[s] = EmptySlot
  BY DEF LifeInit
<1>3. PoolAt /\ OthersHeld /\ OwnerAt
  BY <1>2 DEF PoolAt, OthersHeld, OwnerAt, NoEntryYet, SelfTestHolds, PoolFilled, PoolWhole
<1>4. NoneTwice /\ ProbeReachesEntry /\ OnFreeList = {} /\ InTable = {}
  BY <1>2 DEF NoneTwice, ProbeReachesEntry, OnFreeList, InTable, EmptySlot
<1>5. PoolKept
  BY <1>2, <1>4 DEF PoolKept, Blocks
<1>6. QED
  BY <1>1, <1>3, <1>5 DEF MemoryInv

LEMMA MemoryHolds ==
  ASSUME LifeInv, MemoryInv, [LifeNext]_allVars
  PROVE  MemoryInv'
<1>1. PoolTypeOK' /\ PoolAt' /\ PoolKept'
  BY PoolHolds
<1>2. OthersHeld' /\ OwnerAt'
  BY OthersHolds, OwnerAtHolds DEF MemoryInv
<1>3. nmHooked => PoolInv
  BY DEF LifeInv, Installed, HighIn, LowIn, MemoryInv, LifeTypeOK, TypeOK, PoolKept,
         PoolInv
<1>4. TypeOK'
  BY <1>1, <1>3, LifeTypesOfPath DEF MemoryInv
<1>5. LifeTypeOK'
  <2>1. LifeInv'
    BY LifeInvHolds
  <2>2. /\ processor' \in Processors /\ IF_flag' \in BOOLEAN
        /\ gate' \in [low : {"kernel", "NmHandler"}, high : {"kernel", "NmHandler"}]
        /\ swapCode' \in [op : {"kernel", "jmp"}, rel : {"kernel", "jmp"}]
        /\ heap' \subseteq Blocks(Buffers) \cup {Image, Trampoline}
        /\ {g_FxImageRaw, g_KernelNmResume, g_SwapTrampoline}' \subseteq BOOLEAN
        /\ g_BuffersBuilt' \in 0 .. PREFILL_BUFFERS
    BY <2>1, LifeTypesOfLoad DEF MemoryInv
  <2>3. QED
    BY <1>4, <2>2 DEF LifeTypeOK, Blocks, Buffers, Image, Trampoline, Node, RawBase
<1>6. QED
  BY <1>1, <1>2, <1>5 DEF MemoryInv

\* What is allocated, what is on the free list and what is in the table belong
\* together at every step, whatever fails and whoever runs in between.
THEOREM MemoryIsInOrder == LifeSpec => [](LifeInv /\ MemoryInv)
<1>1. LifeInit(Threads) => LifeInv /\ MemoryInv
  BY LifeInvFirst, MemoryFirst
<1>2. LifeInv /\ MemoryInv /\ [LifeNext]_allVars => (LifeInv /\ MemoryInv)'
  BY LifeInvHolds, MemoryHolds
<1>3. QED
  BY <1>1, <1>2, PTL DEF LifeSpec

\* Every variable of the loaded driver, the machine and the load keeps its type.
THEOREM LifeTypeCorrect == LifeSpec => []LifeTypeOK
<1>1. MemoryInv => LifeTypeOK
  BY DEF MemoryInv
<1>2. QED
  BY <1>1, MemoryIsInOrder, PTL

\* The free list is as long as it has areas on it, each entry holds one of its own.
LEMMA AreasCounted ==
  ASSUME PoolTypeOK, NoneTwice
  PROVE  /\ Cardinality(OnFreeList) = Len(g_FreeList)
         /\ Cardinality(InTable) = Cardinality({s \in Slots : g_Table[s].Thread # NULL})
<1>1. Cardinality(OnFreeList) = Len(g_FreeList)
  <2> DEFINE D == 1 .. Len(g_FreeList)
             f == [i \in D |-> g_FreeList[i]]
  <2>1. Len(g_FreeList) \in Nat /\ DOMAIN g_FreeList = D
    BY DEF PoolTypeOK
  <2>2. IsFiniteSet(D) /\ Cardinality(D) = Len(g_FreeList)
    <3>1. \A n \in Nat : IsFiniteSet(1 .. n) /\ Cardinality(1 .. n) = n
      <4> SUFFICES ASSUME NEW n \in Nat
                   PROVE  IsFiniteSet(1 .. n) /\ Cardinality(1 .. n) = n
        OBVIOUS
      <4>1. IsFiniteSet(1 .. n) /\ Cardinality(1 .. n) = IF 1 > n THEN 0 ELSE n - 1 + 1
        BY FS_Interval
      <4>2. QED
        BY <4>1
    <3>2. QED
      BY <2>1, <3>1
  <2>3. f \in Bijection(D, OnFreeList)
    <3>1. f \in [D -> OnFreeList]
      BY <2>1 DEF OnFreeList
    <3>2. IsInjective(f)
      BY <2>1 DEF IsInjective, NoneTwice
    <3>3. \A b \in OnFreeList : \E i \in D : f[i] = b
      BY <2>1 DEF OnFreeList
    <3>4. QED
      BY <3>1, <3>2, <3>3 DEF Bijection, Injection, Surjection
  <2>4. ExistsBijection(D, OnFreeList)
    BY <2>3 DEF ExistsBijection
  <2>5. QED
    BY <2>2, <2>4, FS_Bijection
<1>2. Cardinality(InTable) = Cardinality({s \in Slots : g_Table[s].Thread # NULL})
  <2> DEFINE D == {s \in Slots : g_Table[s].Thread # NULL}
             f == [s \in D |-> g_Table[s].Buffer]
  <2>1. IsFiniteSet(D)
    <3>1. IsFiniteSet(Slots)
      BY FS_Interval, DataLayerAssumption DEF Slots
    <3>2. D \in SUBSET Slots
      OBVIOUS
    <3>3. QED
      BY <3>1, <3>2, FS_Subset
  <2>2. f \in Bijection(D, InTable)
    <3>1. f \in [D -> InTable]
      BY DEF InTable, NoneTwice
    <3>2. IsInjective(f)
      BY DEF IsInjective, NoneTwice
    <3>3. \A b \in InTable : \E s \in D : f[s] = b
      BY DEF InTable, NoneTwice
    <3>4. QED
      BY <3>1, <3>2, <3>3 DEF Bijection, Injection, Surjection
  <2>3. ExistsBijection(D, InTable)
    BY <2>2 DEF ExistsBijection
  <2>4. QED
    BY <2>1, <2>3, FS_Bijection
<1>3. QED
  BY <1>1, <1>2

\* No save area is lost, freed too early or in two places: at every step those
\* allocated are the ones on the free list and in the table, each once.
THEOREM NoAreaUnaccounted == LifeSpec => []AreasAccounted
<1>1. MemoryInv => AreasAccounted
  BY AreasCounted, AreasAreBuffers
  DEF MemoryInv, LifeTypeOK, TypeOK, PoolKept, AreasAccounted
<1>2. QED
  BY <1>1, MemoryIsInOrder, PTL

\* With the driver out, whether its load failed or it was unloaded, nothing is
\* left allocated but the areas still in the table: after a failed load those of
\* threads that trapped between the two hooks.
THEOREM AllElseIsFreed == LifeSpec => []MemoryReturned
<1>1. MemoryInv => MemoryReturned
  <2> SUFFICES ASSUME MemoryInv, pc = "unloaded"
               PROVE  heap = Blocks(InTable)
    BY DEF MemoryReturned
  <2>1. Image \notin heap /\ Trampoline \notin heap
    BY DEF MemoryInv, OthersHeld, ImageHeld, TrampolineHeld, LowIn, HighIn
  <2>2. heap \subseteq Blocks(Buffers)
    BY <2>1 DEF MemoryInv, LifeTypeOK
  <2>3. OnFreeList = {}
    BY DEF MemoryInv, PoolAt, NoPool, OnFreeList
  <2>4. OnFreeList \cup InTable = InTable
    BY <2>3
  <2>5. QED
    BY <2>2, <2>4 DEF MemoryInv, PoolKept
<1>2. QED
  BY <1>1, MemoryIsInOrder, PTL

\* Before the gate is whole every buffer this load has built is on the free list.
LEMMA PoolWholeAtHooks ==
  ASSUME LifeInv, MemoryInv, pc \in {"install_nm", "gate_low", "gate_high"}
  PROVE  /\ InTable = {} /\ g_FxOwner = NULL
         /\ g_BuffersBuilt > 0 /\ Len(g_FreeList) = g_BuffersBuilt
         /\ OnFreeList = 1 .. g_BuffersBuilt
<1>1. /\ EmptyTable /\ g_FreeList # <<>> /\ Areas = 1 .. g_BuffersBuilt
      /\ PoolTypeOK /\ NoneTwice /\ g_BuffersBuilt \in Nat
  BY DataLayerAssumption
  DEF MemoryInv, PoolAt, NoEntryYet, PoolFilled, PoolWhole, LifeTypeOK, TypeOK, PoolKept
<1>2. g_FxOwner = NULL
  BY DEF LifeInv, Allocated, InOrder, Before, MemoryInv, OwnerAt
<1>3. InTable = {} /\ OnFreeList = 1 .. g_BuffersBuilt
  BY <1>1, EmptyTableIsInOrder DEF Areas
<1>4. Len(g_FreeList) = g_BuffersBuilt
  <2>1. Cardinality(OnFreeList) = Len(g_FreeList)
    BY <1>1, AreasCounted
  <2>2. Cardinality(1 .. g_BuffersBuilt) =
          IF 1 > g_BuffersBuilt THEN 0 ELSE g_BuffersBuilt - 1 + 1
    BY <1>1, FS_Interval
  <2>3. QED
    BY <1>1, <1>3, <2>1, <2>2
<1>5. g_BuffersBuilt > 0
  BY <1>1, <1>4 DEF PoolTypeOK
<1>6. QED
  BY <1>2, <1>3, <1>4, <1>5
=============================================================================
