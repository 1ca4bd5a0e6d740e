--------------------------- MODULE TrapPathProofs ----------------------------
(***************************************************************************)
(* More proofs about XmmSwitch, from the invariant TrapInv of              *)
(* XmmSwitchProofs: the x87 state survives the driver, and no thread runs  *)
(* SSE untracked once the load is complete.                                *)
(***************************************************************************)
EXTENDS XmmSwitchProofs

-----------------------------------------------------------------------------
(* The x87 state.                                                          *)

\* The threads the kernel's x87 state is about are alive.
X87Inv ==
  /\ cur \in alive
  /\ npx \in alive \cup {NULL}
  /\ X87Preserved

LEMMA InitX87Inv == Init => X87Inv
  BY DataLayerAssumption, TrapPathAssumption DEF Init, MachineInit, X87Inv, X87Preserved

\* With the hook or without it, the kernel's handler gets the x87 registers as the
\* trap found them: the image holds what FXSAVE saved.
LEMMA TrapX87 ==
  ASSUME NmTrap
  PROVE  /\ KernelNmHandler(x87)
         /\ UNCHANGED <<cur, alive, x87Want>>
<1>1. UNCHANGED <<cur, alive, x87Want>>
  BY DEF NmTrap, history
<1>2. CASE nmHooked
  <2>1. g_FxImage'.x87 = x87
    BY <1>2 DEF NmTrap, NmHandler
  <2>2. KernelNmHandler(g_FxImage'.x87)
    BY <1>2 DEF NmTrap
  <2>3. QED
    BY <1>1, <2>1, <2>2 DEF KernelNmHandler
<1>3. CASE ~nmHooked
  BY <1>1, <1>3 DEF NmTrap
<1>4. QED
  BY <1>2, <1>3

\* Whatever a thread does, given that TS is clear only for the owner.
LEMMA RunningX87 ==
  ASSUME TypeOK, ~cr0ts => npx = cur, X87Inv, Running
  PROVE  X87Inv'
<1>. /\ NULL \notin Threads /\ cur \in Threads /\ alive \subseteq Threads
     /\ npx \in Threads \cup {NULL}
     /\ x87Saved \in [Threads -> X87] /\ x87Want \in [Threads -> X87]
  BY DataLayerAssumption DEF TypeOK
<1>1. CASE NmTrap
  <2>1. /\ x87Saved' = IF npx = NULL THEN x87Saved ELSE [x87Saved EXCEPT ![npx] = x87]
        /\ x87' = x87Saved'[cur]
        /\ npx' = cur
        /\ UNCHANGED <<cur, alive, x87Want>>
    BY <1>1, TrapX87 DEF KernelNmHandler
  <2>2. \A t \in alive : x87Saved'[t] = IF npx = t THEN x87 ELSE x87Saved[t]
    BY <2>1
  <2>3. QED
    BY <2>1, <2>2 DEF X87Inv, X87Preserved
<1>2. ASSUME NEW v \in StoredXmm(cur), SseStore(v)
      PROVE  X87Inv'
  BY <1>2 DEF SseStore, kernel, X87Inv, X87Preserved
<1>3. ASSUME NEW v \in StoredX87(cur), X87Store(v)
      PROVE  X87Inv'
  <2>1. npx = cur
    BY <1>3 DEF X87Store
  <2>2. /\ UNCHANGED <<cur, alive, npx, x87Saved>> /\ x87' = v
        /\ x87Want' = [x87Want EXCEPT ![cur] = v]
    BY <1>3 DEF X87Store, kernel
  <2>3. QED
    BY <2>1, <2>2 DEF X87Inv, X87Preserved
<1>4. ASSUME NEW t \in Threads, Switch(t)
      PROVE  X87Inv'
  BY <1>4 DEF Switch, KernelSwapContext, history, X87Inv, X87Preserved
<1>5. ASSUME NEW t \in Threads, ThreadExit(t)
      PROVE  X87Inv'
  BY <1>5 DEF ThreadExit, KernelSwapContext, history, X87Inv, X87Preserved
<1>6. ASSUME NEW t \in Threads, ThreadCreate(t)
      PROVE  X87Inv'
  BY <1>6 DEF ThreadCreate, hardware, X87Inv, X87Preserved
<1>7. QED
  BY <1>1, <1>2, <1>3, <1>4, <1>5, <1>6 DEF Running

LEMMA NextX87Inv == TrapInv /\ X87Inv /\ [Next]_vars => X87Inv'
<1> SUFFICES ASSUME TrapInv, X87Inv, [Next]_vars PROVE X87Inv'
  OBVIOUS
<1>1. ASSUME UNCHANGED <<cur, alive, npx, x87, x87Saved, x87Want>>
      PROVE  X87Inv'
  BY <1>1 DEF X87Inv, X87Preserved
<1>2. CASE InstallNmHook \/ InstallSwapHook \/ EnableSseAfterHooks \/ LdmxcsrDone
  BY <1>1, <1>2 DEF InstallNmHook, InstallSwapHook, EnableSseAfterHooks,
     EnableSseThisCpu, LdmxcsrDone, hardware, kernel, history
<1>3. CASE Running
  BY <1>3, RunningX87 DEF TrapInv, Typed, InstallOrder
<1>4. CASE UNCHANGED vars
  BY <1>1, <1>4 DEF vars, hardware, kernel, history
<1>5. QED
  BY <1>2, <1>3, <1>4 DEF Next

\* "x87 is left to the kernel" (nt351sse.c:46): every thread finds the x87 registers
\* as its program left them, although FXSAVE and FXRSTOR move them at every trap.
THEOREM X87Untouched == Spec => []X87Preserved
<1>1. Init => TrapInv /\ X87Inv
  BY InitTrapInv, InitX87Inv
<1>2. TrapInv /\ X87Inv /\ [Next]_vars => (TrapInv /\ X87Inv)'
  BY NextTrapInv, NextX87Inv
<1>3. X87Inv => X87Preserved
  BY DEF X87Inv
<1>4. QED
  BY <1>1, <1>2, <1>3, PTL DEF Spec

-----------------------------------------------------------------------------
(* Tracking before SSE.                                                    *)

\* The probe for a thread gets to every slot.
LEMMA ProbeCoversTable ==
  ASSUME NEW t \in Threads, NEW s \in Slots
  PROVE  \E i \in Slots : Probe(t, i) = s
<1> DEFINE h == TableHash(t)
           N == MAX_THREADS
<1>1. N \in Nat /\ N > 0 /\ KthreadAddress[t] \in Nat
  BY DataLayerAssumption
<1>2. h \in 0 .. N - 1 /\ s \in 0 .. N - 1
  BY <1>1 DEF TableHash, Slots
<1>3. CASE s >= h
  <2>1. s - h \in Slots /\ h + (s - h) = s
    BY <1>1, <1>2, <1>3 DEF Slots
  <2>2. s % N = s
    BY <1>1, <1>2
  <2>3. QED
    BY <2>1, <2>2 DEF Probe
<1>4. CASE s < h
  <2>1. s - h + N \in Slots /\ h + (s - h + N) = s + N
    BY <1>1, <1>2, <1>4 DEF Slots
  <2>2. (s + N) % N = s
    BY <1>1, <1>2
  <2>3. QED
    BY <2>1, <2>2 DEF Probe
<1>5. QED
  BY <1>1, <1>2, <1>3, <1>4

\* Thread t has an area, or there is none to have.
Tracked(t) ==
  \/ HasArea(t)
  \/ g_FreeList = <<>>
  \/ \A s \in Slots : g_Table[s].Thread # NULL

\* Loader does not own the x87 registers before the trap of its LDMXCSR, and from
\* then on whoever owns them is tracked.
TrackInv ==
  /\ ~osfxsr => npx # Loader
  /\ irql = "DISPATCH" => osfxsr /\ cur = Loader
  /\ osfxsr /\ npx # NULL /\ (irql = "PASSIVE" \/ npx = Loader) => Tracked(npx)

LEMMA LookupTracks ==
  ASSUME PoolInv, NEW t \in Threads, NEW area, TrapLookupSaveArea(t, area)
  PROVE  Tracked(t)'
<1>1. CASE \E i \in Slots : /\ ProbeEndsAt(t, i)
                            /\ g_Table[Probe(t, i)].Thread = t
                            /\ UNCHANGED poolVars
  <2>1. PICK i \in Slots : g_Table[Probe(t, i)].Thread = t /\ UNCHANGED poolVars
    BY <1>1
  <2>2. Probe(t, i) \in Slots
    BY ProbeInTable, DataLayerAssumption DEF Slots
  <2>3. g_Table'[Probe(t, i)].Thread = t
    BY <2>1 DEF poolVars
  <2>4. QED
    BY <2>2, <2>3 DEF Tracked, HasArea
<1>2. CASE \E i \in Slots :
             /\ g_Table' = [g_Table EXCEPT ![Probe(t, i)] =
                              [Thread |-> t, Buffer |-> area]]
  <2>1. PICK i \in Slots : g_Table' = [g_Table EXCEPT ![Probe(t, i)] =
                                         [Thread |-> t, Buffer |-> area]]
    BY <1>2
  <2>2. Probe(t, i) \in Slots
    BY ProbeInTable, DataLayerAssumption DEF Slots
  <2>3. g_Table'[Probe(t, i)].Thread = t
    BY <2>1, <2>2 DEF PoolInv, PoolTypeOK
  <2>4. QED
    BY <2>2, <2>3 DEF Tracked, HasArea
<1>3. CASE g_FreeList = <<>> /\ UNCHANGED poolVars
  BY <1>3 DEF Tracked, poolVars
<1>4. CASE /\ \A i \in Slots : g_Table[Probe(t, i)].Thread \notin {t, NULL}
           /\ UNCHANGED poolVars
  <2>1. \A s \in Slots : g_Table[s].Thread # NULL
    BY <1>4, ProbeCoversTable
  <2>2. QED
    BY <1>4, <2>1 DEF Tracked, poolVars
<1>5. QED
  BY <1>1, <1>2, <1>3, <1>4 DEF TrapLookupSaveArea

LEMMA InitTrackInv == Init => TrackInv
  BY DataLayerAssumption, TrapPathAssumption DEF Init, MachineInit, TrackInv

LEMMA NextTrackInv == TrapInv /\ TrackInv /\ [Next]_vars => TrackInv'
<1> SUFFICES ASSUME TrapInv, TrackInv, [Next]_vars PROVE TrackInv'
  OBVIOUS
<1>. /\ NULL \notin Threads /\ cur \in Threads /\ PoolInv
     /\ irql \in {"PASSIVE", "DISPATCH"}
     /\ Loader \in Threads
  BY DataLayerAssumption, TrapPathAssumption DEF TrapInv, Typed, TypeOK
<1>1. ASSUME UNCHANGED poolVars
      PROVE  \A t : Tracked(t)' <=> Tracked(t)
  BY <1>1 DEF Tracked, HasArea, poolVars
<1>2. ASSUME UNCHANGED <<cur, irql, osfxsr, npx, poolVars>>
      PROVE  TrackInv'
  <2>1. Tracked(npx)' <=> Tracked(npx)
    BY <1>2 DEF Tracked, HasArea, poolVars
  <2>2. QED
    BY <1>2, <2>1 DEF TrackInv
<1>3. CASE InstallNmHook \/ InstallSwapHook
  BY <1>2, <1>3 DEF InstallNmHook, InstallSwapHook, hardware, kernel
<1>4. CASE EnableSseAfterHooks
  BY <1>4 DEF EnableSseAfterHooks, EnableSseThisCpu, TrackInv
<1>5. CASE LdmxcsrDone
  <2>1. npx = Loader /\ osfxsr
    BY <1>5 DEF LdmxcsrDone, TrapInv, InstallOrder, TrackInv
  <2>2. Tracked(npx)
    BY <2>1 DEF TrackInv
  <2>3. UNCHANGED <<osfxsr, npx, poolVars>> /\ irql' = "PASSIVE"
    BY <1>5 DEF LdmxcsrDone, hardware, driver
  <2>4. Tracked(npx)'
    BY <2>2, <2>3 DEF Tracked, HasArea, poolVars
  <2>5. QED
    BY <2>1, <2>3, <2>4 DEF TrackInv
<1>6. CASE NmTrap
  <2>1. npx' = cur /\ UNCHANGED <<cur, irql, osfxsr>>
    BY <1>6, TrapX87 DEF NmTrap, KernelNmHandler
  <2>2. ~osfxsr => cur # Loader
    BY <1>6 DEF NmTrap, TrackInv
  <2>3. ASSUME osfxsr PROVE Tracked(npx)'
    <3>1. nmHooked
      BY <2>3 DEF TrapInv, InstallOrder
    <3>2. PICK area \in Buffers \cup {NULL} : TrapLookupSaveArea(cur, area)
      BY <1>6, <3>1 DEF NmTrap, NmHandler
    <3>3. PICK t \in Threads : t = cur
      OBVIOUS
    <3>4. Tracked(t)'
      BY <3>2, <3>3, LookupTracks
    <3>5. QED
      BY <2>1, <3>3, <3>4 DEF Tracked, HasArea
  <2>4. QED
    BY <2>1, <2>2, <2>3 DEF TrackInv
<1>7. ASSUME NEW v \in StoredXmm(cur), SseStore(v)
      PROVE  TrackInv'
  BY <1>2, <1>7 DEF SseStore, kernel, driver
<1>8. ASSUME NEW v \in StoredX87(cur), X87Store(v)
      PROVE  TrackInv'
  BY <1>2, <1>8 DEF X87Store, kernel, driver
<1>9. ASSUME NEW t \in Threads, Switch(t) \/ ThreadExit(t)
      PROVE  TrackInv'
  <2>1. /\ irql = "PASSIVE" /\ UNCHANGED <<irql, osfxsr, poolVars>>
        /\ npx' = npx \/ npx' = NULL
    BY <1>9 DEF Switch, ThreadExit
  <2>2. npx' = npx => (Tracked(npx)' <=> Tracked(npx))
    BY <2>1 DEF Tracked, HasArea, poolVars
  <2>3. QED
    BY <2>1, <2>2 DEF TrackInv
<1>10. ASSUME NEW t \in Threads, ThreadCreate(t)
       PROVE  TrackInv'
  BY <1>2, <1>10 DEF ThreadCreate, hardware, driver
<1>11. CASE UNCHANGED vars
  BY <1>2, <1>11 DEF vars, hardware, kernel, driver
<1>12. QED
  BY <1>3, <1>4, <1>5, <1>6, <1>7, <1>8, <1>9, <1>10, <1>11 DEF Next, Running

\* "no thread can execute an SSE instruction before per-thread state tracking is
\* live" (nt351sse.c:1164): the #NM of the driver's own LDMXCSR takes the registers
\* from whoever owned them before the load, and every later owner has trapped.
THEOREM NobodyUntracked == Spec => []TrackedBeforeSse
<1>1. Init => TrapInv /\ TrackInv
  BY InitTrapInv, InitTrackInv
<1>2. TrapInv /\ TrackInv /\ [Next]_vars => (TrapInv /\ TrackInv)'
  BY NextTrapInv, NextTrackInv
<1>3. TrapInv /\ TrackInv => TrackedBeforeSse
  <2> SUFFICES ASSUME TrapInv, TrackInv, osfxsr, irql = "PASSIVE", ~cr0ts
               PROVE  Tracked(cur)
    BY DEF TrackedBeforeSse, Tracked
  <2>1. npx = cur /\ npx # NULL
    BY DataLayerAssumption DEF TrapInv, InstallOrder, Typed, TypeOK
  <2>2. QED
    BY <2>1 DEF TrackInv
<1>4. QED
  BY <1>1, <1>2, <1>3, PTL DEF Spec
=============================================================================
