--------------------------- MODULE XmmSwitchProofs ---------------------------
(***************************************************************************)
(* Proofs about XmmSwitch, for any number of threads, buffers and slots,   *)
(* any KTHREAD addresses, and both kinds of processor.                     *)
(*                                                                         *)
(* First the data layer: what TrapLookupSaveArea returns and preserves.    *)
(* Then type correctness, and the invariant of the trap path from which    *)
(* OwnerIsLive and Isolation follow.                                       *)
(***************************************************************************)
EXTENDS XmmSwitch, TLAPS

-----------------------------------------------------------------------------
(* The data layer.                                                         *)

\* A probe stays inside the table.
LEMMA ProbeInTable ==
  ASSUME NEW t \in Threads, NEW i \in Nat
  PROVE  Probe(t, i) \in Slots
<1>1. KthreadAddress[t] \in Nat /\ MAX_THREADS \in Nat /\ MAX_THREADS > 0
  BY DataLayerAssumption
<1>2. TableHash(t) \in 0 .. MAX_THREADS - 1
  BY <1>1 DEF TableHash
<1>3. QED
  BY <1>1, <1>2 DEF Probe, Slots

\* The probe for a thread ends at one index only.
LEMMA ProbeEndsOnce ==
  ASSUME NEW t \in Threads, NEW i, NEW j, ProbeEndsAt(t, i), ProbeEndsAt(t, j)
  PROVE  i = j
<1>1. i \in Int /\ j \in Int /\ i >= 0 /\ j >= 0
  BY DataLayerAssumption DEF ProbeEndsAt, Slots
<1>2. CASE i < j
  BY <1>1, <1>2 DEF ProbeEndsAt
<1>3. CASE j < i
  BY <1>1, <1>3 DEF ProbeEndsAt
<1>4. QED
  BY <1>1, <1>2, <1>3

\* BuffersPartitioned has two halves: no buffer is in two places, and every buffer
\* is in one.  The first holds of a pool of any size, half built or half drained.
NoneTwice ==
  /\ \A s \in Slots : g_Table[s].Thread = NULL <=> g_Table[s].Buffer = NULL
  /\ \A r, s \in Slots :
       g_Table[r].Buffer # NULL /\ g_Table[r].Buffer = g_Table[s].Buffer => r = s
  /\ \A i, j \in DOMAIN g_FreeList : g_FreeList[i] = g_FreeList[j] => i = j
  /\ \A s \in Slots, i \in DOMAIN g_FreeList : g_Table[s].Buffer # g_FreeList[i]

Somewhere(b) == \/ \E s \in Slots : g_Table[s].Buffer = b
                \/ \E i \in DOMAIN g_FreeList : g_FreeList[i] = b

NoneLost == \A b \in Buffers : Somewhere(b)

PoolInv == PoolTypeOK /\ NoneTwice /\ ProbeReachesEntry

\* A thread has at most one entry in the table.
LEMMA OneEntryPerThread ==
  ASSUME PoolInv, NEW r \in Slots, NEW s \in Slots,
         g_Table[r].Thread = g_Table[s].Thread, g_Table[r].Thread # NULL
  PROVE  r = s
<1> DEFINE t == g_Table[r].Thread
<1>1. t \in Threads
  BY DEF PoolInv, PoolTypeOK
<1>2. PICK i \in Slots : ProbeEndsAt(t, i) /\ Probe(t, i) = r
  BY DEF PoolInv, ProbeReachesEntry
<1>3. PICK j \in Slots : ProbeEndsAt(t, j) /\ Probe(t, j) = s
  BY DEF PoolInv, ProbeReachesEntry
<1>4. i = j
  BY <1>1, <1>2, <1>3, ProbeEndsOnce
<1>5. QED
  BY <1>2, <1>3, <1>4

\* The first use of a thread: PoolPop and an entry in the hole its probe found.
Assigns(t, area, p) ==
  /\ p \in Slots
  /\ g_Table[p].Thread = NULL
  /\ \E i \in Slots : ProbeEndsAt(t, i) /\ Probe(t, i) = p
  /\ PoolPop(area)
  /\ g_Table' = [g_Table EXCEPT ![p] = [Thread |-> t, Buffer |-> area]]

\* TrapLookupSaveArea finds the thread's area, assigns one, or finds none.
LEMMA LookupCases ==
  ASSUME NEW t \in Threads, NEW area, TrapLookupSaveArea(t, area)
  PROVE  \/ UNCHANGED poolVars /\ area = NULL
         \/ UNCHANGED poolVars /\ \E s \in Slots : /\ g_Table[s].Thread = t
                                                   /\ area = g_Table[s].Buffer
         \/ \E p \in Slots : Assigns(t, area, p)
<1>1. \A i \in Slots : Probe(t, i) \in Slots
  BY ProbeInTable, DataLayerAssumption DEF Slots
<1>2. QED
  BY <1>1 DEF TrapLookupSaveArea, Assigns

LEMMA AssignPreservesPool ==
  ASSUME PoolInv, NEW t \in Threads, NEW area, NEW p, Assigns(t, area, p)
  PROVE  /\ PoolInv'
         /\ area \in Buffers
         /\ area = g_FreeList[1] /\ 1 \in DOMAIN g_FreeList
         /\ \A i \in DOMAIN g_FreeList' :
              i + 1 \in DOMAIN g_FreeList /\ g_FreeList'[i] = g_FreeList[i + 1]
<1> USE DEF Assigns
<1>1. /\ p \in Slots /\ g_Table[p].Thread = NULL /\ g_Table[p].Buffer = NULL
      /\ g_FreeList \in Seq(Buffers) /\ g_FreeList # <<>>
      /\ area = Head(g_FreeList) /\ g_FreeList' = Tail(g_FreeList)
  BY DEF PoolInv, PoolTypeOK, NoneTwice, PoolPop
<1>2. /\ area = g_FreeList[1] /\ area \in Buffers /\ 1 \in DOMAIN g_FreeList
      /\ Len(g_FreeList) \in Nat \ {0} /\ DOMAIN g_FreeList = 1 .. Len(g_FreeList)
  BY <1>1
<1>3. /\ g_FreeList' \in Seq(Buffers)
      /\ DOMAIN g_FreeList' = 1 .. Len(g_FreeList) - 1
      /\ \A i \in DOMAIN g_FreeList' :
           i + 1 \in DOMAIN g_FreeList /\ g_FreeList'[i] = g_FreeList[i + 1]
  BY <1>1, <1>2
<1>4. \A s \in Slots : g_Table'[s] = IF s = p THEN [Thread |-> t, Buffer |-> area]
                                              ELSE g_Table[s]
  BY DEF PoolInv, PoolTypeOK
<1>5. PoolTypeOK'
  BY <1>2, <1>3 DEF PoolInv, PoolTypeOK
<1>6. NoneTwice'
  <2>0. NULL \notin Threads /\ NULL \notin Buffers
    BY DataLayerAssumption DEF Buffers
  <2>1. \A s \in Slots : g_Table'[s].Thread = NULL <=> g_Table'[s].Buffer = NULL
    BY <1>2, <1>4, <2>0 DEF PoolInv, NoneTwice
  <2>2. \A s \in Slots : g_Table[s].Buffer # area
    BY <1>2 DEF PoolInv, NoneTwice
  <2>3. \A r, s \in Slots :
          g_Table'[r].Buffer # NULL /\ g_Table'[r].Buffer = g_Table'[s].Buffer => r = s
    BY <1>4, <2>2 DEF PoolInv, NoneTwice
  <2>4. \A i, j \in DOMAIN g_FreeList' : g_FreeList'[i] = g_FreeList'[j] => i = j
    <3>1. \A i, j \in DOMAIN g_FreeList : g_FreeList[i] = g_FreeList[j] => i = j
      BY DEF PoolInv, NoneTwice
    <3>2. QED
      BY <1>2, <1>3, <3>1
  <2>5. \A s \in Slots, i \in DOMAIN g_FreeList' : g_Table'[s].Buffer # g_FreeList'[i]
    <3>1. \A i \in DOMAIN g_FreeList' : g_FreeList'[i] # area
      BY <1>2, <1>3 DEF PoolInv, NoneTwice
    <3>2. QED
      BY <1>3, <1>4, <3>1 DEF PoolInv, NoneTwice
  <2>6. QED
    BY <2>1, <2>3, <2>4, <2>5 DEF NoneTwice
<1>7. ProbeReachesEntry'
  <2> SUFFICES ASSUME NEW s \in Slots, NEW u, u = g_Table'[s].Thread, u # NULL
               PROVE  \E i \in Slots : ProbeEndsAt(u, i)' /\ Probe(u, i) = s
    BY DEF ProbeReachesEntry, Probe, TableHash
  <2>1. u \in Threads
    BY <1>5 DEF PoolTypeOK
  <2>2. PICK i \in Slots : ProbeEndsAt(u, i) /\ Probe(u, i) = s
    BY <1>4 DEF PoolInv, ProbeReachesEntry
  <2>3. g_Table'[Probe(u, i)].Thread = u
    BY <2>2
  <2>4. ASSUME NEW j \in 0 .. i - 1
        PROVE  g_Table'[Probe(u, j)].Thread \notin {u, NULL}
    <3>1. Probe(u, j) \in Slots
      BY <2>1, ProbeInTable
    <3>2. g_Table[Probe(u, j)].Thread \notin {u, NULL}
      BY <2>2 DEF ProbeEndsAt
    <3>3. QED
      BY <1>1, <1>4, <3>1, <3>2
  <2>5. ProbeEndsAt(u, i)'
    BY <2>3, <2>4 DEF ProbeEndsAt, Probe, TableHash
  <2>6. QED
    BY <2>2, <2>5
<1>8. QED
  BY <1>2, <1>3, <1>5, <1>6, <1>7 DEF PoolInv

\* TrapLookupSaveArea keeps the data layer's invariant, and gives thread t an area
\* of its own: one it holds already, or one from the free list that it holds now.
LEMMA LookupPreservesPool ==
  ASSUME PoolInv, NEW t \in Threads, NEW area, TrapLookupSaveArea(t, area)
  PROVE  /\ PoolInv'
         /\ area \in Buffers \cup {NULL}
         /\ area # NULL => Holds(t, area)'
         /\ \A u \in Threads, b \in Buffers :
              /\ Holds(u, b) => Holds(u, b)'
              /\ Holds(u, b)' => \/ Holds(u, b)
                                 \/ /\ u = t /\ b = area
                                    /\ \E i \in DOMAIN g_FreeList : g_FreeList[i] = b
         /\ \A i \in DOMAIN g_FreeList' :
              \E j \in DOMAIN g_FreeList : g_FreeList'[i] = g_FreeList[j]
<1>0. NULL \notin Threads /\ NULL \notin Buffers
  BY DataLayerAssumption DEF Buffers
<1>1. CASE UNCHANGED poolVars
  <2>1. PoolInv'
    BY <1>1 DEF PoolInv, PoolTypeOK, NoneTwice, ProbeReachesEntry,
                ProbeEndsAt, Probe, TableHash, poolVars
  <2>2. \A u, b : Holds(u, b)' <=> Holds(u, b)
    BY <1>1 DEF Holds, poolVars
  <2>3. \/ area = NULL
        \/ \E s \in Slots : g_Table[s].Thread = t /\ area = g_Table[s].Buffer
    <3>1. CASE \E p \in Slots : Assigns(t, area, p)
      BY <1>1, <3>1, AssignPreservesPool DEF Assigns, PoolPop, PoolInv, PoolTypeOK, poolVars
    <3>2. QED
      BY <3>1, LookupCases
  <2>4. area \in Buffers \cup {NULL} /\ (area # NULL => Holds(t, area))
    BY <2>3 DEF PoolInv, PoolTypeOK, Holds
  <2>5. QED
    BY <1>1, <2>1, <2>2, <2>4 DEF poolVars
<1>2. CASE \E p \in Slots : Assigns(t, area, p)
  <2>1. PICK p \in Slots : Assigns(t, area, p)
    BY <1>2
  <2>2. /\ PoolInv' /\ area \in Buffers
        /\ area = g_FreeList[1] /\ 1 \in DOMAIN g_FreeList
        /\ \A i \in DOMAIN g_FreeList' :
             i + 1 \in DOMAIN g_FreeList /\ g_FreeList'[i] = g_FreeList[i + 1]
    BY <2>1, AssignPreservesPool
  <2>3. \A s \in Slots : g_Table'[s] = IF s = p THEN [Thread |-> t, Buffer |-> area]
                                                ELSE g_Table[s]
    BY <2>1 DEF Assigns, PoolInv, PoolTypeOK
  <2>4. g_Table[p].Thread = NULL
    BY <2>1 DEF Assigns
  <2>5. Holds(t, area)'
    BY <2>3 DEF Holds
  <2>6. ASSUME NEW u \in Threads, NEW b \in Buffers
        PROVE  /\ Holds(u, b) => Holds(u, b)'
               /\ Holds(u, b)' => Holds(u, b) \/ (u = t /\ b = area)
    BY <1>0, <2>3, <2>4 DEF Holds
  <2>7. QED
    BY <2>2, <2>5, <2>6
<1>3. QED
  BY <1>1, <1>2, LookupCases

\* A buffer belongs to at most one thread, and not to the free list as well.
LEMMA OneHolderPerBuffer ==
  ASSUME PoolInv, NEW t \in Threads, NEW u \in Threads, NEW b \in Buffers, Holds(t, b)
  PROVE  /\ Holds(u, b) => u = t
         /\ \A i \in DOMAIN g_FreeList : g_FreeList[i] # b
<1>1. b # NULL
  BY DataLayerAssumption DEF Buffers
<1>2. QED
  BY <1>1 DEF Holds, PoolInv, NoneTwice

\* A lookup moves a buffer at most from the free list into the table.
LEMMA LookupLosesNone ==
  ASSUME PoolInv, NEW t \in Threads, NEW area, TrapLookupSaveArea(t, area),
         NEW b \in Buffers, Somewhere(b)
  PROVE  Somewhere(b)'
<1>1. CASE UNCHANGED poolVars
  BY <1>1 DEF Somewhere, poolVars
<1>2. CASE \E p \in Slots : Assigns(t, area, p)
  <2>1. PICK p \in Slots : Assigns(t, area, p)
    BY <1>2
  <2>2. /\ g_FreeList \in Seq(Buffers) /\ g_FreeList # <<>>
        /\ area = Head(g_FreeList) /\ g_FreeList' = Tail(g_FreeList)
    BY <2>1 DEF Assigns, PoolPop, PoolInv, PoolTypeOK
  <2>3. \A s \in Slots : g_Table'[s] = IF s = p THEN [Thread |-> t, Buffer |-> area]
                                                ELSE g_Table[s]
    BY <2>1 DEF Assigns, PoolInv, PoolTypeOK
  <2>4. p \in Slots /\ g_Table[p].Buffer = NULL /\ b # NULL
    BY <2>1, DataLayerAssumption DEF Assigns, PoolInv, NoneTwice, Buffers
  <2>5. CASE b = area
    BY <2>3, <2>4, <2>5 DEF Somewhere
  <2>6. CASE \E s \in Slots : g_Table[s].Buffer = b
    BY <2>3, <2>4, <2>6 DEF Somewhere
  <2>7. CASE b # area /\ \E i \in DOMAIN g_FreeList : g_FreeList[i] = b
    <3>1. PICK i \in DOMAIN g_FreeList : g_FreeList[i] = b
      BY <2>7
    <3>2. /\ i \in 1 .. Len(g_FreeList) /\ i # 1 /\ Len(g_FreeList) \in Nat
          /\ DOMAIN g_FreeList' = 1 .. Len(g_FreeList) - 1
      BY <2>2, <2>7, <3>1
    <3>3. i - 1 \in DOMAIN g_FreeList' /\ g_FreeList'[i - 1] = g_FreeList[i]
      BY <2>2, <3>2
    <3>4. QED
      BY <3>1, <3>3 DEF Somewhere
  <2>8. QED
    BY <2>5, <2>6, <2>7 DEF Somewhere
<1>3. QED
  BY <1>1, <1>2, LookupCases

-----------------------------------------------------------------------------
(* Type correctness.                                                       *)

\* What of NmHandler the typing of its step needs.
LEMMA NmHandlerTyped ==
  ASSUME TypeOK, PoolInv, cr0ts, nmHooked, NmHandler, KernelNmHandler(g_FxImage'.x87)
  PROVE  /\ PoolInv'
         /\ save' \in [Buffers -> Xmm] /\ g_FxOwner' \in Buffers \cup {NULL}
         /\ g_FxImage' \in [x87 : X87, xmm : Xmm] /\ xmm' \in Xmm
         /\ x87' \in X87 /\ x87Saved' \in [Threads -> X87]
         /\ npx' \in Threads \cup {NULL} /\ cr0ts' \in BOOLEAN
<1>1. PICK area \in Buffers \cup {NULL} :
        /\ TrapLookupSaveArea(cur, area)
        /\ save' = IF g_FxOwner = NULL THEN save ELSE FlushTo(g_FxOwner, FxsavedXmm)
        /\ g_FxOwner' = area
        /\ g_FxImage' = [x87 |-> x87,
                         xmm |-> IF area = NULL THEN DefaultXmm ELSE save'[area]]
        /\ xmm' = FxrstoredXmm(g_FxImage')
  BY DEF NmHandler
<1>2. DefaultXmm \in Xmm
  <2>1. DefaultXmm \in XmmOf(Loader) /\ Loader \in Threads
    BY TrapPathAssumption DEF XmmOf
  <2>2. QED
    BY <2>1 DEF Xmm
<1>3. FxsavedXmm \in Xmm
  BY DEF TypeOK, FxsavedXmm
<1>4. save' \in [Buffers -> Xmm]
  BY <1>1, <1>3 DEF TypeOK, FlushTo
<1>5. g_FxImage' \in [x87 : X87, xmm : Xmm]
  BY <1>1, <1>2, <1>4 DEF TypeOK
<1>6. xmm' \in Xmm
  BY <1>1, <1>5 DEF TypeOK, FxrstoredXmm
<1>7. x87Saved' \in [Threads -> X87]
  BY <1>5 DEF TypeOK, KernelNmHandler
<1>8. x87' \in X87 /\ npx' \in Threads \cup {NULL} /\ cr0ts' \in BOOLEAN
  BY <1>7 DEF TypeOK, KernelNmHandler
<1>9. PoolInv'
  BY <1>1, LookupPreservesPool DEF TypeOK
<1>10. QED
  BY <1>1, <1>4, <1>5, <1>6, <1>7, <1>8, <1>9

\* The same of the detour, hooked or not.
LEMMA SwapContextTyped ==
  ASSUME TypeOK, SwapContextEntry
  PROVE  /\ save' \in [Buffers -> Xmm] /\ g_FxOwner' \in Buffers \cup {NULL}
         /\ g_FxImage' \in [x87 : X87, xmm : Xmm]
<1>1. FxsavedXmm \in Xmm
  BY DEF TypeOK, FxsavedXmm
<1>2. QED
  BY <1>1 DEF TypeOK, SwapContextEntry, SwapDetour, FlushTo

LEMMA StoredTyped ==
  ASSUME NEW t \in Threads
  PROVE  /\ StoredXmm(t) \subseteq Xmm /\ StoredX87(t) \subseteq X87
         /\ DefaultXmm \in Xmm /\ ZeroedXmm \in Xmm /\ InitX87 \in X87
BY DEF Xmm, X87, XmmOf

Typed == TypeOK /\ PoolInv

\* The state DriverEntry leaves for the hooks is typed, and its pool is whole.
LEMMA InitTyped == Init => Typed
<1> SUFFICES ASSUME Init PROVE Typed
  OBVIOUS
<1> USE DEF Init, PoolInit, MachineInit
<1>0. /\ NULL \notin Threads /\ NULL \notin Buffers /\ Loader \in Threads
      /\ PREFILL_BUFFERS \in Nat \ {0}
  BY DataLayerAssumption, TrapPathAssumption DEF Buffers
<1>1. PoolTypeOK
  <2>1. g_FreeList \in Seq(Buffers)
    BY <1>0 DEF PrefilledList, Buffers
  <2>2. QED
    BY <2>1 DEF PoolTypeOK, EmptySlot
<1>2. TypeOK
  BY <1>0, <1>1, StoredTyped DEF TypeOK
<1>3. NoneTwice
  <2>1. \A i, j \in DOMAIN g_FreeList : g_FreeList[i] = g_FreeList[j] => i = j
    BY <1>0 DEF PrefilledList
  <2>2. \A i \in DOMAIN g_FreeList : g_FreeList[i] \in Buffers
    BY <1>0 DEF PrefilledList, Buffers
  <2>3. \A s \in Slots : g_Table[s].Buffer = NULL /\ g_Table[s].Thread = NULL
    BY DEF EmptySlot
  <2>4. QED
    BY <1>0, <2>1, <2>2, <2>3 DEF NoneTwice
<1>4. ProbeReachesEntry
  BY DEF ProbeReachesEntry, EmptySlot
<1>5. QED
  BY <1>1, <1>2, <1>3, <1>4 DEF Typed, PoolInv

\* Steps that leave the data layer alone keep its invariant.
LEMMA PoolUnchanged ==
  ASSUME PoolInv, UNCHANGED poolVars
  PROVE  PoolInv'
BY DEF PoolInv, PoolTypeOK, NoneTwice, ProbeReachesEntry, ProbeEndsAt,
       Probe, TableHash, poolVars

\* Only a serviced trap touches the pool; the other steps keep their types, and the
\* pool's invariant if it holds, whether it does or not.
LEMMA NextTypes ==
  ASSUME TypeOK, nmHooked => PoolInv, [Next]_vars
  PROVE  TypeOK' /\ (PoolInv => PoolInv')
<1>1. CASE InstallNmHook
  <2>1. UNCHANGED poolVars
    BY <1>1 DEF InstallNmHook
  <2>2. TypeOK'
    BY <1>1 DEF InstallNmHook, TypeOK, PoolTypeOK, hardware, kernel, poolVars, history
  <2>3. QED
    BY <2>1, <2>2, PoolUnchanged
<1>2. CASE InstallSwapHook
  <2>1. UNCHANGED poolVars
    BY <1>2 DEF InstallSwapHook
  <2>2. TypeOK'
    BY <1>2 DEF InstallSwapHook, TypeOK, PoolTypeOK, hardware, kernel, poolVars, history
  <2>3. QED
    BY <2>1, <2>2, PoolUnchanged
<1>3. CASE EnableSseAfterHooks
  <2>1. UNCHANGED poolVars
    BY <1>3 DEF EnableSseAfterHooks, EnableSseThisCpu, driver
  <2>2. TypeOK'
    BY <1>3 DEF EnableSseAfterHooks, EnableSseThisCpu, TypeOK, PoolTypeOK, driver, poolVars, history
  <2>3. QED
    BY <2>1, <2>2, PoolUnchanged
<1>4. CASE LdmxcsrDone
  <2>1. UNCHANGED poolVars
    BY <1>4 DEF LdmxcsrDone, driver
  <2>2. TypeOK'
    BY <1>4 DEF LdmxcsrDone, TypeOK, PoolTypeOK, hardware, driver, poolVars, history
  <2>3. QED
    BY <2>1, <2>2, PoolUnchanged
<1>5. CASE NmTrap
  <2>1. CASE nmHooked
    <3>1. /\ cr0ts /\ NmHandler /\ KernelNmHandler(g_FxImage'.x87)
          /\ UNCHANGED <<cur, alive, irql, osfxsr, nmHooked, swapHooked, history>>
      BY <1>5, <2>1 DEF NmTrap
    <3>2. PoolInv' /\ PoolTypeOK'
      BY <2>1, <3>1, NmHandlerTyped DEF PoolInv
    <3>3. TypeOK'
      BY <2>1, <3>1, <3>2, NmHandlerTyped DEF TypeOK, history
    <3>4. QED
      BY <3>2, <3>3
  <2>2. CASE ~nmHooked
    <3>1. /\ KernelNmHandler(x87)
          /\ UNCHANGED <<xmm, save, g_FxOwner, g_FxImage, poolVars>>
          /\ UNCHANGED <<cur, alive, irql, osfxsr, nmHooked, swapHooked, history>>
      BY <1>5, <2>2 DEF NmTrap
    <3>2. x87Saved' \in [Threads -> X87]
      BY <3>1 DEF KernelNmHandler, TypeOK
    <3>3. x87' \in X87 /\ npx' \in Threads \cup {NULL} /\ cr0ts' \in BOOLEAN
      BY <3>1, <3>2 DEF KernelNmHandler, TypeOK
    <3>4. TypeOK'
      BY <3>1, <3>2, <3>3 DEF TypeOK, PoolTypeOK, poolVars, history
    <3>5. QED
      BY <3>1, <3>4, PoolUnchanged
  <2>3. QED
    BY <2>1, <2>2
<1>6. ASSUME NEW v \in StoredXmm(cur), SseStore(v)
      PROVE  TypeOK' /\ (PoolInv => PoolInv')
  <2>1. UNCHANGED poolVars
    BY <1>6 DEF SseStore, driver
  <2>2. v \in Xmm
    BY <1>6, StoredTyped DEF TypeOK
  <2>3. TypeOK'
    BY <1>6, <2>2 DEF SseStore, TypeOK, PoolTypeOK, kernel, driver, poolVars
  <2>4. QED
    BY <2>1, <2>3, PoolUnchanged
<1>7. ASSUME NEW v \in StoredX87(cur), X87Store(v)
      PROVE  TypeOK' /\ (PoolInv => PoolInv')
  <2>1. UNCHANGED poolVars
    BY <1>7 DEF X87Store, driver
  <2>2. v \in X87
    BY <1>7, StoredTyped DEF TypeOK
  <2>3. TypeOK'
    BY <1>7, <2>2 DEF X87Store, TypeOK, PoolTypeOK, kernel, driver, poolVars
  <2>4. QED
    BY <2>1, <2>3, PoolUnchanged
<1>8. ASSUME NEW t \in Threads, Switch(t)
      PROVE  TypeOK' /\ (PoolInv => PoolInv')
  <2>1. UNCHANGED poolVars
    BY <1>8 DEF Switch
  <2>2. SwapContextEntry /\ cr0ts' \in BOOLEAN
    BY <1>8 DEF Switch, KernelSwapContext
  <2>3. TypeOK'
    BY <1>8, <2>2, SwapContextTyped
    DEF Switch, KernelSwapContext, TypeOK, PoolTypeOK, poolVars, history
  <2>4. QED
    BY <2>1, <2>3, PoolUnchanged
<1>9. ASSUME NEW t \in Threads, ThreadExit(t)
      PROVE  TypeOK' /\ (PoolInv => PoolInv')
  <2>1. UNCHANGED poolVars
    BY <1>9 DEF ThreadExit
  <2>2. SwapContextEntry /\ cr0ts' \in BOOLEAN
    BY <1>9 DEF ThreadExit, KernelSwapContext
  <2>3. TypeOK'
    BY <1>9, <2>2, SwapContextTyped
    DEF ThreadExit, KernelSwapContext, TypeOK, PoolTypeOK, poolVars, history
  <2>4. QED
    BY <2>1, <2>3, PoolUnchanged
<1>10. ASSUME NEW t \in Threads, ThreadCreate(t)
       PROVE  TypeOK' /\ (PoolInv => PoolInv')
  <2>1. UNCHANGED poolVars
    BY <1>10 DEF ThreadCreate, driver
  <2>2. TypeOK'
    BY <1>10, StoredTyped
    DEF ThreadCreate, TypeOK, PoolTypeOK, hardware, driver, poolVars
  <2>3. QED
    BY <2>1, <2>2, PoolUnchanged
<1>11. CASE UNCHANGED vars
  <2>1. UNCHANGED poolVars
    BY <1>11 DEF vars, driver
  <2>2. TypeOK'
    BY <1>11 DEF vars, hardware, kernel, driver, history, poolVars, TypeOK, PoolTypeOK
  <2>3. QED
    BY <2>1, <2>2, PoolUnchanged
<1>12. QED
  BY <1>1, <1>2, <1>3, <1>4, <1>5, <1>6, <1>7, <1>8, <1>9, <1>10, <1>11
  DEF Next, Running

LEMMA NextTyped == Typed /\ [Next]_vars => Typed'
BY NextTypes DEF Typed

\* Every variable keeps its type, at every step of every execution.
THEOREM TypeCorrect == Spec => []TypeOK
<1>1. Init => Typed
  BY InitTyped
<1>2. Typed /\ [Next]_vars => Typed'
  BY NextTyped
<1>3. Typed => TypeOK
  BY DEF Typed
<1>4. QED
  BY <1>1, <1>2, <1>3, PTL DEF Spec

\* The pool is whole when the hooks go in, and no step of the trap path loses a
\* buffer of it.
LEMMA InitNoneLost == Init => NoneLost
<1> SUFFICES ASSUME Init, NEW b \in Buffers PROVE Somewhere(b)
  BY DEF NoneLost
<1>1. PREFILL_BUFFERS \in Nat /\ b \in 1 .. PREFILL_BUFFERS
  BY DataLayerAssumption DEF Buffers
<1>2. /\ PREFILL_BUFFERS + 1 - b \in DOMAIN g_FreeList
      /\ g_FreeList[PREFILL_BUFFERS + 1 - b] = b
  BY <1>1 DEF Init, PoolInit, PrefilledList
<1>3. QED
  BY <1>2 DEF Somewhere

LEMMA NextNoneLost == Typed /\ NoneLost /\ [Next]_vars => NoneLost'
<1> SUFFICES ASSUME Typed, NoneLost, [Next]_vars PROVE NoneLost'
  OBVIOUS
<1>1. CASE UNCHANGED poolVars
  BY <1>1 DEF NoneLost, Somewhere, Buffers, poolVars
<1>2. CASE NmTrap /\ nmHooked
  <2>1. PICK area : TrapLookupSaveArea(cur, area)
    BY <1>2 DEF NmTrap, NmHandler
  <2>2. cur \in Threads /\ PoolInv
    BY DEF Typed, TypeOK
  <2>3. \A b \in Buffers : Somewhere(b) => Somewhere(b)'
    BY <2>1, <2>2, LookupLosesNone
  <2>4. QED
    BY <2>3 DEF NoneLost, Buffers
<1>3. UNCHANGED poolVars \/ (NmTrap /\ nmHooked)
  BY DEF Next, Running, InstallNmHook, InstallSwapHook, EnableSseAfterHooks,
     EnableSseThisCpu, LdmxcsrDone, NmTrap, SseStore, X87Store, Switch, ThreadExit,
     ThreadCreate, vars, driver
<1>4. QED
  BY <1>1, <1>2, <1>3

\* No save area is ever lost or shared: each is on the free list once, or in the
\* table for one thread.
THEOREM PoolCorrect == Spec => []BuffersPartitioned
<1>1. Init => Typed /\ NoneLost
  BY InitTyped, InitNoneLost
<1>2. Typed /\ NoneLost /\ [Next]_vars => (Typed /\ NoneLost)'
  BY NextTyped, NextNoneLost
<1>3. Typed /\ NoneLost => BuffersPartitioned
  BY DEF Typed, PoolInv, NoneTwice, NoneLost, Somewhere, BuffersPartitioned
<1>4. QED
  BY <1>1, <1>2, <1>3, PTL DEF Spec

\* No thread's entry gets out of its probe's reach: whatever KTHREADs collide, each
\* thread that has an area finds that one again at every trap.
THEOREM EntriesFound == Spec => []ProbeReachesEntry
<1>1. Init => Typed
  BY InitTyped
<1>2. Typed /\ [Next]_vars => Typed'
  BY NextTyped
<1>3. Typed => ProbeReachesEntry
  BY DEF Typed, PoolInv
<1>4. QED
  BY <1>1, <1>2, <1>3, PTL DEF Spec

-----------------------------------------------------------------------------
(* The invariant of the trap path.                                         *)

\* What the install order and the kernel guarantee: the hooks go in before SSE is
\* on, and TS is clear exactly for the thread whose registers are live.
InstallOrder ==
  /\ irql = "DISPATCH" => osfxsr /\ cur = Loader
  /\ osfxsr => nmHooked /\ swapHooked
  /\ swapHooked => nmHooked
  /\ ~nmHooked => g_FxOwner = NULL
  /\ cr0ts = (npx # cur)

\* While SSE is off nothing but defaults is anywhere, nor in the image a flush
\* would copy from on a processor whose FXSAVE leaves XMM out.
NothingStoredYet ==
  ~osfxsr =>
    /\ xmm = DefaultXmm
    /\ \A b \in Buffers : save[b] = DefaultXmm
    /\ g_FxOwner # NULL => g_FxImage.xmm = DefaultXmm

\* The owner is the area of the thread whose registers are live; an owner whose
\* thread has ended, which only the time before SseOn can leave, has the defaults.
OwnerKnown ==
  g_FxOwner # NULL =>
    /\ \E t \in Threads : Holds(t, g_FxOwner)
    /\ npx # NULL => Holds(npx, g_FxOwner)
    /\ npx = NULL => xmm = DefaultXmm
    /\ osfxsr /\ irql = "PASSIVE" => npx = cur

\* Each area holds a value of its thread, the free ones the defaults, and the live
\* registers a value of the thread they belong to.
EachItsOwn ==
  /\ \A t \in Threads, b \in Buffers : Holds(t, b) => save[b] \in XmmOf(t)
  /\ \A i \in DOMAIN g_FreeList : save[g_FreeList[i]] = DefaultXmm
  /\ npx # NULL => xmm \in XmmOf(npx)

TrapInv == Typed /\ InstallOrder /\ NothingStoredYet /\ OwnerKnown /\ EachItsOwn

\* The save areas after a flush to the owner, if there is one.
Flushed == IF g_FxOwner = NULL THEN save ELSE FlushTo(g_FxOwner, FxsavedXmm)

\* A flush puts into each area only what its thread may find there.
LEMMA FlushIsRight ==
  ASSUME TrapInv
  PROVE  /\ \A t \in Threads, b \in Buffers : Holds(t, b) => Flushed[b] \in XmmOf(t)
         /\ \A i \in DOMAIN g_FreeList : Flushed[g_FreeList[i]] = DefaultXmm
         /\ ~osfxsr => \A b \in Buffers : Flushed[b] = DefaultXmm
         /\ ~osfxsr /\ g_FxOwner # NULL => FxsavedXmm = DefaultXmm
         /\ \A b \in Buffers : b # g_FxOwner => Flushed[b] = save[b]
<1>0. /\ NULL \notin Threads /\ NULL \notin Buffers
      /\ save \in [Buffers -> Xmm] /\ g_FreeList \in Seq(Buffers)
      /\ g_FxOwner \in Buffers \cup {NULL} /\ npx \in Threads \cup {NULL}
  BY DataLayerAssumption DEF Buffers, TrapInv, Typed, TypeOK, PoolTypeOK
<1>1. CASE g_FxOwner = NULL
  BY <1>0, <1>1 DEF Flushed, TrapInv, EachItsOwn, NothingStoredYet
<1>2. CASE g_FxOwner # NULL
  <2>1. \A b \in Buffers : Flushed[b] = IF b = g_FxOwner THEN FxsavedXmm ELSE save[b]
    BY <1>0, <1>2 DEF Flushed, FlushTo
  <2>2. ~osfxsr => FxsavedXmm = DefaultXmm
    BY <1>2 DEF FxsavedXmm, TrapInv, NothingStoredYet
  <2>3. ASSUME NEW t \in Threads, Holds(t, g_FxOwner)
        PROVE  FxsavedXmm \in XmmOf(t)
    <3>1. CASE ~osfxsr
      BY <2>2, <3>1 DEF XmmOf
    <3>2. CASE osfxsr
      <4>1. FxsavedXmm = xmm
        BY <3>2 DEF FxsavedXmm
      <4>2. CASE npx = NULL
        BY <1>2, <4>1, <4>2 DEF TrapInv, OwnerKnown, XmmOf
      <4>3. CASE npx # NULL
        <5>1. Holds(npx, g_FxOwner) /\ xmm \in XmmOf(npx)
          BY <1>2, <4>3 DEF TrapInv, OwnerKnown, EachItsOwn
        <5>2. npx = t
          BY <1>0, <1>2, <2>3, <4>3, <5>1, OneHolderPerBuffer DEF TrapInv, Typed
        <5>3. QED
          BY <4>1, <5>1, <5>2
      <4>4. QED
        BY <4>2, <4>3
    <3>3. QED
      BY <3>1, <3>2
  <2>4. \A t \in Threads, b \in Buffers : Holds(t, b) => Flushed[b] \in XmmOf(t)
    BY <2>1, <2>3 DEF TrapInv, EachItsOwn
  <2>5. \A i \in DOMAIN g_FreeList : g_FreeList[i] \in Buffers /\ g_FreeList[i] # g_FxOwner
    <3>1. PICK t \in Threads : Holds(t, g_FxOwner)
      BY <1>2 DEF TrapInv, OwnerKnown
    <3>2. QED
      BY <1>0, <1>2, <3>1, OneHolderPerBuffer DEF TrapInv, Typed
  <2>6. \A i \in DOMAIN g_FreeList : Flushed[g_FreeList[i]] = DefaultXmm
    BY <2>1, <2>5 DEF TrapInv, EachItsOwn
  <2>7. ~osfxsr => \A b \in Buffers : Flushed[b] = DefaultXmm
    BY <2>1, <2>2 DEF TrapInv, NothingStoredYet
  <2>8. QED
    BY <2>1, <2>2, <2>4, <2>6, <2>7
<1>3. QED
  BY <1>1, <1>2

\* The #NM handler's step, the kernel's part of it included.
LEMMA NmTrapKeepsInv == TrapInv /\ NmTrap => TrapInv'
<1> SUFFICES ASSUME TrapInv, NmTrap PROVE TrapInv'
  OBVIOUS
<1>0. /\ NULL \notin Threads /\ NULL \notin Buffers
      /\ cur \in Threads /\ save \in [Buffers -> Xmm] /\ g_FreeList \in Seq(Buffers)
      /\ PoolInv /\ g_FxOwner \in Buffers \cup {NULL}
  BY DataLayerAssumption DEF Buffers, TrapInv, Typed, TypeOK, PoolTypeOK
<1>1. /\ npx' = cur /\ cr0ts' = FALSE
      /\ UNCHANGED <<cur, alive, irql, osfxsr, nmHooked, swapHooked>>
  BY DEF NmTrap, KernelNmHandler
<1>2. Typed'
  <2>1. [Next]_vars
    BY DEF Next, Running
  <2>2. QED
    BY <2>1, NextTyped DEF TrapInv
<1>3. CASE ~nmHooked
  <2>1. UNCHANGED <<xmm, save, g_FxOwner, g_FxImage, poolVars>>
    BY <1>3 DEF NmTrap
  <2>2. g_FxOwner = NULL /\ ~osfxsr /\ xmm = DefaultXmm
    BY <1>3 DEF TrapInv, InstallOrder, NothingStoredYet
  <2>3. \A t, b : Holds(t, b)' <=> Holds(t, b)
    BY <2>1 DEF Holds, poolVars
  <2>4. EachItsOwn'
    BY <1>1, <2>1, <2>2, <2>3 DEF TrapInv, EachItsOwn, XmmOf, poolVars
  <2>5. OwnerKnown' /\ NothingStoredYet'
    BY <1>1, <2>1, <2>2 DEF TrapInv, OwnerKnown, NothingStoredYet
  <2>6. InstallOrder'
    BY <1>1, <2>1, <2>2 DEF TrapInv, InstallOrder
  <2>7. QED
    BY <1>2, <2>4, <2>5, <2>6 DEF TrapInv
<1>4. CASE nmHooked
  <2>1. PICK area \in Buffers \cup {NULL} :
          /\ TrapLookupSaveArea(cur, area)
          /\ save' = Flushed
          /\ g_FxOwner' = area
          /\ g_FxImage' = [x87 |-> x87,
                           xmm |-> IF area = NULL THEN DefaultXmm ELSE save'[area]]
          /\ xmm' = FxrstoredXmm(g_FxImage')
    BY <1>4 DEF NmTrap, NmHandler, Flushed
  <2>. PICK t \in Threads : t = cur     \* the same thread before and after
    BY <1>0
  <2>2. /\ area # NULL => Holds(t, area)'
        /\ \A u \in Threads, b \in Buffers :
             /\ Holds(u, b) => Holds(u, b)'
             /\ Holds(u, b)' => \/ Holds(u, b)
                                \/ /\ u = t /\ b = area
                                   /\ \E i \in DOMAIN g_FreeList : g_FreeList[i] = b
        /\ \A i \in DOMAIN g_FreeList' :
             \E j \in DOMAIN g_FreeList : g_FreeList'[i] = g_FreeList[j]
    BY <1>0, <2>1, LookupPreservesPool
  <2>3. \A u \in Threads, b \in Buffers : Holds(u, b)' => save'[b] \in XmmOf(u)
    BY <2>1, <2>2, FlushIsRight DEF XmmOf
  <2>4. \A i \in DOMAIN g_FreeList' : save'[g_FreeList'[i]] = DefaultXmm
    BY <2>1, <2>2, FlushIsRight
  <2>5. ~osfxsr => /\ \A b \in Buffers : save'[b] = DefaultXmm
                   /\ g_FxImage'.xmm = DefaultXmm /\ xmm' = DefaultXmm
    BY <2>1, FlushIsRight DEF FxrstoredXmm, TrapInv, NothingStoredYet
  <2>6. xmm' \in XmmOf(t)
    <3>1. g_FxImage'.xmm \in XmmOf(t)
      BY <1>0, <2>1, <2>2, <2>3 DEF XmmOf
    <3>2. CASE osfxsr
      BY <2>1, <3>1, <3>2 DEF FxrstoredXmm
    <3>3. CASE ~osfxsr
      BY <2>5, <3>3 DEF XmmOf
    <3>4. QED
      BY <3>2, <3>3
  <2>7. EachItsOwn'
    BY <1>1, <2>3, <2>4, <2>6 DEF EachItsOwn, XmmOf
  <2>8. OwnerKnown'
    BY <1>0, <1>1, <2>1, <2>2 DEF OwnerKnown, Holds
  <2>9. NothingStoredYet'
    BY <1>1, <2>5 DEF NothingStoredYet
  <2>10. InstallOrder'
    BY <1>1, <1>4 DEF TrapInv, InstallOrder
  <2>11. QED
    BY <1>2, <2>7, <2>8, <2>9, <2>10 DEF TrapInv
<1>5. QED
  BY <1>3, <1>4

\* The detour's step, or the same step of an unhooked SwapContext, to thread `to`.
LEMMA SwapKeepsInv ==
  ASSUME TrapInv, SwapContextEntry, NEW to \in Threads, KernelSwapContext(to),
         \/ npx' = npx
         \/ npx = cur /\ npx' = NULL,
         irql = "PASSIVE",
         UNCHANGED <<irql, osfxsr, xmm, nmHooked, swapHooked, poolVars>>
  PROVE  InstallOrder' /\ NothingStoredYet' /\ OwnerKnown' /\ EachItsOwn'
<1>0. /\ NULL \notin Threads /\ NULL \notin Buffers /\ cur \in Threads
      /\ save \in [Buffers -> Xmm] /\ g_FreeList \in Seq(Buffers)
      /\ g_FxOwner \in Buffers \cup {NULL}
  BY DataLayerAssumption DEF Buffers, TrapInv, Typed, TypeOK, PoolTypeOK
<1>1. cur' = to /\ cr0ts' = (npx' # to)
  BY DEF KernelSwapContext
<1>2. \A t, b : Holds(t, b)' <=> Holds(t, b)
  BY DEF Holds, poolVars
<1>3. \/ swapHooked /\ g_FxOwner' = NULL
      \/ ~osfxsr /\ g_FxOwner' = g_FxOwner /\ g_FxImage' = g_FxImage
  BY DEF SwapContextEntry, SwapDetour, TrapInv, InstallOrder
<1>4. save' = Flushed \/ save' = save
  BY DEF SwapContextEntry, SwapDetour, Flushed
<1>5. EachItsOwn'
  <2>1. \A t \in Threads, b \in Buffers : Holds(t, b)' => save'[b] \in XmmOf(t)
    BY <1>2, <1>4, FlushIsRight DEF TrapInv, EachItsOwn
  <2>2. \A i \in DOMAIN g_FreeList : save'[g_FreeList[i]] = DefaultXmm
    BY <1>4, FlushIsRight DEF TrapInv, EachItsOwn
  <2>3. npx' # NULL => xmm' \in XmmOf(npx')
    BY DEF TrapInv, EachItsOwn
  <2>4. QED
    BY <2>1, <2>2, <2>3 DEF EachItsOwn, XmmOf, poolVars
<1>6. NothingStoredYet'
  <2>1. ~osfxsr => \A b \in Buffers : save'[b] = DefaultXmm
    BY <1>4, FlushIsRight DEF TrapInv, NothingStoredYet
  <2>2. QED
    BY <1>3, <2>1 DEF TrapInv, NothingStoredYet
<1>7. OwnerKnown'
  BY <1>2, <1>3 DEF TrapInv, OwnerKnown, NothingStoredYet
<1>8. InstallOrder'
  BY <1>1, <1>3 DEF TrapInv, InstallOrder
<1>9. QED
  BY <1>5, <1>6, <1>7, <1>8

LEMMA InitTrapInv == Init => TrapInv
<1> SUFFICES ASSUME Init PROVE TrapInv
  OBVIOUS
<1>1. Typed
  BY InitTyped
<1>2. InstallOrder
  BY DEF Init, MachineInit, InstallOrder
<1>3. NothingStoredYet /\ OwnerKnown
  BY DEF Init, MachineInit, NothingStoredYet, OwnerKnown
<1>4. EachItsOwn
  <2>1. \A b \in Buffers : save[b] = DefaultXmm
    BY DEF Init, MachineInit
  <2>2. \A i \in DOMAIN g_FreeList : g_FreeList[i] \in Buffers
    BY <1>1 DEF Typed, TypeOK, PoolTypeOK
  <2>3. xmm = DefaultXmm
    BY DEF Init, MachineInit
  <2>4. QED
    BY <2>1, <2>2, <2>3 DEF EachItsOwn, XmmOf
<1>5. QED
  BY <1>1, <1>2, <1>3, <1>4 DEF TrapInv

\* Steps that leave the pool, the areas, the image and the owner alone.
LEMMA AreasUntouched ==
  ASSUME TrapInv, UNCHANGED <<save, g_FxOwner, g_FxImage, poolVars, npx, xmm>>,
         osfxsr => osfxsr', osfxsr' /\ irql' = "PASSIVE" => npx' = cur' \/ g_FxOwner = NULL
  PROVE  NothingStoredYet' /\ OwnerKnown' /\ EachItsOwn'
<1>1. \A t, b : Holds(t, b)' <=> Holds(t, b)
  BY DEF Holds, poolVars
<1>2. EachItsOwn'
  BY <1>1 DEF TrapInv, EachItsOwn, XmmOf, poolVars
<1>3. OwnerKnown'
  BY <1>1 DEF TrapInv, OwnerKnown
<1>4. NothingStoredYet'
  BY DEF TrapInv, NothingStoredYet
<1>5. QED
  BY <1>2, <1>3, <1>4

LEMMA NextTrapInv == TrapInv /\ [Next]_vars => TrapInv'
<1> SUFFICES ASSUME TrapInv, [Next]_vars PROVE TrapInv'
  OBVIOUS
<1>0. Typed'
  BY NextTyped DEF TrapInv
<1>. /\ NULL \notin Threads /\ cur \in Threads
     /\ irql \in {"PASSIVE", "DISPATCH"} /\ cr0ts \in BOOLEAN
  BY DataLayerAssumption DEF TrapInv, Typed, TypeOK
<1>1. CASE InstallNmHook
  <2>1. NothingStoredYet' /\ OwnerKnown' /\ EachItsOwn'
    BY <1>1, AreasUntouched DEF InstallNmHook, hardware, kernel, TrapInv, OwnerKnown
  <2>2. InstallOrder'
    BY <1>1 DEF InstallNmHook, hardware, kernel, TrapInv, InstallOrder
  <2>3. QED
    BY <1>0, <2>1, <2>2 DEF TrapInv
<1>2. CASE InstallSwapHook
  <2>1. NothingStoredYet' /\ OwnerKnown' /\ EachItsOwn'
    BY <1>2, AreasUntouched DEF InstallSwapHook, hardware, kernel, TrapInv, OwnerKnown
  <2>2. InstallOrder'
    BY <1>2 DEF InstallSwapHook, hardware, kernel, TrapInv, InstallOrder
  <2>3. QED
    BY <1>0, <2>1, <2>2 DEF TrapInv
<1>3. CASE EnableSseAfterHooks
  <2>1. NothingStoredYet' /\ OwnerKnown' /\ EachItsOwn'
    BY <1>3, AreasUntouched DEF EnableSseAfterHooks, EnableSseThisCpu, driver
  <2>2. InstallOrder'
    BY <1>3 DEF EnableSseAfterHooks, EnableSseThisCpu, driver, TrapInv, InstallOrder
  <2>3. QED
    BY <1>0, <2>1, <2>2 DEF TrapInv
<1>4. CASE LdmxcsrDone
  <2>1. npx = cur
    BY <1>4 DEF LdmxcsrDone, TrapInv, InstallOrder
  <2>2. NothingStoredYet' /\ OwnerKnown' /\ EachItsOwn'
    BY <1>4, <2>1, AreasUntouched DEF LdmxcsrDone, hardware, driver
  <2>3. InstallOrder'
    BY <1>4 DEF LdmxcsrDone, hardware, driver, TrapInv, InstallOrder
  <2>4. QED
    BY <1>0, <2>2, <2>3 DEF TrapInv
<1>5. CASE NmTrap
  BY <1>5, NmTrapKeepsInv
<1>6. ASSUME NEW v \in StoredXmm(cur), SseStore(v)
      PROVE  TrapInv'
  <2>1. /\ npx = cur /\ osfxsr /\ xmm' = v
        /\ UNCHANGED <<cr0ts, osfxsr, cur, irql, npx, nmHooked, swapHooked, save,
                       g_FxOwner, g_FxImage, poolVars>>
    BY <1>6 DEF SseStore, kernel, driver, TrapInv, InstallOrder
  <2>2. \A t, b : Holds(t, b)' <=> Holds(t, b)
    BY <2>1 DEF Holds, poolVars
  <2>3. EachItsOwn'
    BY <2>1, <2>2 DEF TrapInv, EachItsOwn, XmmOf, poolVars, StoredXmm
  <2>4. OwnerKnown'
    BY <2>1, <2>2 DEF TrapInv, OwnerKnown
  <2>5. NothingStoredYet' /\ InstallOrder'
    BY <2>1 DEF TrapInv, NothingStoredYet, InstallOrder
  <2>6. QED
    BY <1>0, <2>3, <2>4, <2>5 DEF TrapInv
<1>7. ASSUME NEW v \in StoredX87(cur), X87Store(v)
      PROVE  TrapInv'
  <2>1. npx = cur
    BY <1>7 DEF X87Store, TrapInv, InstallOrder
  <2>2. NothingStoredYet' /\ OwnerKnown' /\ EachItsOwn'
    BY <1>7, <2>1, AreasUntouched DEF X87Store, kernel, driver
  <2>3. InstallOrder'
    BY <1>7 DEF X87Store, kernel, driver, TrapInv, InstallOrder
  <2>4. QED
    BY <1>0, <2>2, <2>3 DEF TrapInv
<1>8. ASSUME NEW t \in Threads, Switch(t)
      PROVE  TrapInv'
  <2>1. /\ SwapContextEntry /\ KernelSwapContext(t) /\ npx' = npx /\ irql = "PASSIVE"
        /\ UNCHANGED <<irql, osfxsr, xmm, nmHooked, swapHooked, poolVars>>
    BY <1>8 DEF Switch
  <2>2. QED
    BY <1>0, <2>1, SwapKeepsInv DEF TrapInv
<1>9. ASSUME NEW t \in Threads, ThreadExit(t)
      PROVE  TrapInv'
  <2>1. /\ SwapContextEntry /\ KernelSwapContext(t) /\ irql = "PASSIVE"
        /\ npx' = npx \/ (npx = cur /\ npx' = NULL)
        /\ UNCHANGED <<irql, osfxsr, xmm, nmHooked, swapHooked, poolVars>>
    BY <1>9 DEF ThreadExit
  <2>2. QED
    BY <1>0, <2>1, SwapKeepsInv DEF TrapInv
<1>10. ASSUME NEW t \in Threads, ThreadCreate(t)
       PROVE  TrapInv'
  <2>1. NothingStoredYet' /\ OwnerKnown' /\ EachItsOwn'
    BY <1>10, AreasUntouched DEF ThreadCreate, hardware, driver, TrapInv, OwnerKnown
  <2>2. InstallOrder'
    BY <1>10 DEF ThreadCreate, hardware, driver, TrapInv, InstallOrder
  <2>3. QED
    BY <1>0, <2>1, <2>2 DEF TrapInv
<1>11. CASE UNCHANGED vars
  <2>1. NothingStoredYet' /\ OwnerKnown' /\ EachItsOwn'
    BY <1>11, AreasUntouched DEF vars, hardware, kernel, driver, TrapInv, OwnerKnown
  <2>2. InstallOrder'
    BY <1>11 DEF vars, hardware, kernel, driver, TrapInv, InstallOrder
  <2>3. QED
    BY <1>0, <2>1, <2>2 DEF TrapInv
<1>12. QED
  BY <1>1, <1>2, <1>3, <1>4, <1>5, <1>6, <1>7, <1>8, <1>9, <1>10, <1>11
  DEF Next, Running

\* The owner of the live XMM state is always the area of the thread whose registers
\* are live: no flush, by the trap or the detour, hits another thread's area.
THEOREM OwnerAlwaysLive == Spec => []OwnerIsLive
<1>1. Init => TrapInv
  BY InitTrapInv
<1>2. TrapInv /\ [Next]_vars => TrapInv'
  BY NextTrapInv
<1>3. TrapInv => OwnerIsLive
  <2> SUFFICES ASSUME TrapInv, g_FxOwner # NULL
               PROVE  /\ npx # NULL => Holds(npx, g_FxOwner)
                      /\ osfxsr /\ irql = "PASSIVE" => npx = cur /\ Holds(cur, g_FxOwner)
    BY DEF OwnerIsLive
  <2>1. cur \in Threads /\ NULL \notin Threads
    BY DataLayerAssumption DEF TrapInv, Typed, TypeOK
  <2>2. QED
    BY <2>1 DEF TrapInv, OwnerKnown
<1>4. QED
  BY <1>1, <1>2, <1>3, PTL DEF Spec

\* No thread ever sees XMM state of another: neither a save area nor the registers
\* of a thread that may use them hold what a program stored under another KTHREAD.
THEOREM Isolated == Spec => []Isolation
<1>1. Init => TrapInv
  BY InitTrapInv
<1>2. TrapInv /\ [Next]_vars => TrapInv'
  BY NextTrapInv
<1>3. TrapInv => Isolation
  <2> SUFFICES ASSUME TrapInv PROVE Isolation
    OBVIOUS
  <2>1. cur \in Threads /\ NULL \notin Threads /\ (~cr0ts => npx = cur)
    BY DataLayerAssumption DEF TrapInv, Typed, TypeOK, InstallOrder
  <2>2. QED
    BY <2>1 DEF Isolation, TrapInv, EachItsOwn
<1>4. QED
  BY <1>1, <1>2, <1>3, PTL DEF Spec
=============================================================================
