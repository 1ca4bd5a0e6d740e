-------------------------- MODULE PreservationProofs --------------------------
(***************************************************************************)
(* More proofs about XmmSwitch: what the driver keeps of each thread's XMM *)
(* state.  A value stored while the driver knew the owner survives         *)
(* (PreservedWhenOwned), and the trap path implements XmmContract.         *)
(*                                                                         *)
(* Both rest on what a step may do to the copy the driver keeps of a       *)
(* thread (Kept) and to what the thread would find (View): nothing while   *)
(* the driver is being loaded, and then only a store, a flush to the       *)
(* running thread's area, or the loss of unowned registers at a trap or an *)
(* exit.                                                                   *)
(***************************************************************************)
EXTENDS TrapPathProofs

-----------------------------------------------------------------------------
(* The invariants.                                                         *)

\* DriverEntry has not come past its LDMXCSR.
Loading == ~osfxsr \/ irql = "DISPATCH"

\* Until LDMXCSR is through, nothing but the default state is anywhere.
Pristine ==
  Loading =>
    /\ xmm = DefaultXmm
    /\ \A b \in Buffers : save[b] = DefaultXmm
    /\ \A t \in Threads : want[t] = DefaultXmm

\* The registers may be ahead of the kept copy only for the thread that owns both
\* them and g_FxOwner.
KeptUpToDate ==
  \A t \in alive \cap sheltered :
    ~ (npx = t /\ g_FxOwner # NULL) => Kept(t) = want[t]

KeepInv == Pristine /\ PreservedWhenOwned /\ KeptUpToDate

-----------------------------------------------------------------------------
(* The area of a thread.                                                   *)

\* Area is what the table says: a buffer is a thread's area exactly if the thread
\* holds it, and a thread has an area exactly if it has an entry.
AreasKnown ==
  \A t \in Threads :
    /\ Area(t) \in Buffers \cup {NULL}
    /\ \A b \in Buffers : Holds(t, b) <=> Area(t) = b
    /\ HasArea(t) <=> Area(t) # NULL

LEMMA AreaIsHeld == PoolInv => AreasKnown
<1> SUFFICES ASSUME PoolInv, NEW t \in Threads
             PROVE  /\ Area(t) \in Buffers \cup {NULL}
                    /\ \A b \in Buffers : Holds(t, b) <=> Area(t) = b
                    /\ HasArea(t) <=> Area(t) # NULL
  BY DEF AreasKnown
<1>0. NULL \notin Threads /\ NULL \notin Buffers
  BY DataLayerAssumption DEF Buffers
<1>1. CASE ~HasArea(t)
  <2>1. Area(t) = NULL
    BY <1>1 DEF Area
  <2>2. \A b : ~Holds(t, b)
    BY <1>1 DEF HasArea, Holds
  <2>3. QED
    BY <1>0, <1>1, <2>1, <2>2
<1>2. CASE HasArea(t)
  <2> DEFINE e == CHOOSE s \in Slots : g_Table[s].Thread = t
  <2>1. e \in Slots /\ g_Table[e].Thread = t
    BY <1>2 DEF HasArea
  <2>2. Area(t) = g_Table[e].Buffer
    BY <1>2 DEF Area
  <2> HIDE DEF e
  <2>3. g_Table[e].Buffer \in Buffers
    BY <1>0, <2>1 DEF PoolInv, PoolTypeOK, NoneTwice
  <2>4. \A s \in Slots : g_Table[s].Thread = t => s = e
    BY <1>0, <2>1, OneEntryPerThread
  <2>5. g_Table[e] = [Thread |-> t, Buffer |-> g_Table[e].Buffer]
    BY <2>1 DEF PoolInv, PoolTypeOK
  <2>6. \A b : Holds(t, b) <=> b = g_Table[e].Buffer
    BY <2>1, <2>4, <2>5 DEF Holds
  <2>7. QED
    BY <1>0, <1>2, <2>2, <2>3, <2>6
<1>3. QED
  BY <1>1, <1>2

\* A lookup gives its thread the area it has, or one from the free list, or none; and
\* it changes the area of no other thread.
LEMMA LookupAreas ==
  ASSUME PoolInv, NEW t \in Threads, NEW area, TrapLookupSaveArea(t, area)
  PROVE  /\ Area(t)' = area
         /\ \/ Area(t) = area
            \/ /\ Area(t) = NULL
               /\ \E i \in DOMAIN g_FreeList : area = g_FreeList[i]
         /\ \A u \in Threads : u # t => Area(u)' = Area(u)
<1>0. NULL \notin Threads /\ NULL \notin Buffers
  BY DataLayerAssumption DEF Buffers
<1>1. /\ PoolInv'
      /\ area \in Buffers \cup {NULL}
      /\ area # NULL => Holds(t, area)'
      /\ \A u \in Threads, b \in Buffers :
           /\ Holds(u, b) => Holds(u, b)'
           /\ Holds(u, b)' => \/ Holds(u, b)
                              \/ /\ u = t /\ b = area
                                 /\ \E i \in DOMAIN g_FreeList : g_FreeList[i] = b
  BY LookupPreservesPool
<1>2. AreasKnown
  BY AreaIsHeld
<1>3. AreasKnown'
  BY <1>1, AreaIsHeld, PTL
<1>4. \A u \in Threads : u # t => Area(u)' = Area(u)
  <2> SUFFICES ASSUME NEW u \in Threads, u # t PROVE Area(u)' = Area(u)
    OBVIOUS
  <2>1. /\ Area(u) \in Buffers \cup {NULL} /\ Area(u)' \in Buffers \cup {NULL}
        /\ \A b \in Buffers : Holds(u, b) <=> Area(u) = b
        /\ \A b \in Buffers : Holds(u, b)' <=> Area(u)' = b
    BY <1>2, <1>3 DEF AreasKnown, Buffers
  <2>2. \A b \in Buffers : Holds(u, b) <=> Holds(u, b)'
    BY <1>1
  <2>3. QED
    BY <1>0, <2>1, <2>2
<1>5. /\ Area(t) \in Buffers \cup {NULL} /\ Area(t)' \in Buffers \cup {NULL}
      /\ \A b \in Buffers : Holds(t, b) <=> Area(t) = b
      /\ \A b \in Buffers : Holds(t, b)' <=> Area(t)' = b
  BY <1>2, <1>3 DEF AreasKnown, Buffers
<1>6. CASE area # NULL
  <2>1. Area(t)' = area
    BY <1>1, <1>5, <1>6
  <2>2. Holds(t, area) \/ \E i \in DOMAIN g_FreeList : g_FreeList[i] = area
    BY <1>1, <1>6
  <2>3. Area(t) = NULL \/ Area(t) = area
    BY <1>1, <1>5, <2>1
  <2>4. QED
    BY <1>1, <1>4, <1>5, <1>6, <2>1, <2>2, <2>3
<1>7. CASE area = NULL
  <2>1. ~ \E s \in Slots : g_Table[s].Thread = t /\ area = g_Table[s].Buffer
    BY <1>0, <1>7 DEF PoolInv, NoneTwice
  <2>2. UNCHANGED poolVars
    <3>1. \A p \in Slots : ~Assigns(t, area, p)
      BY <1>0, <1>7, AssignPreservesPool
    <3>2. QED
      BY <3>1, LookupCases
  <2>3. ~HasArea(t)
    <3> SUFFICES ASSUME NEW s \in Slots, g_Table[s].Thread = t PROVE FALSE
      BY DEF HasArea
    <3>1. PICK i \in Slots : ProbeEndsAt(t, i) /\ Probe(t, i) = s
      BY <1>0 DEF PoolInv, ProbeReachesEntry
    <3>2. \A j \in Slots : ProbeEndsAt(t, j) => j = i
      BY <3>1, ProbeEndsOnce
    <3>3. g_Table[Probe(t, i)].Thread \in {t, NULL} /\ g_Table[Probe(t, i)].Thread # NULL
      BY <1>0, <3>1
    <3>4. g_Table[Probe(t, i)].Buffer = NULL
      BY <1>7, <3>1, <3>2, <3>3 DEF TrapLookupSaveArea
    <3>5. QED
      BY <1>0, <3>1, <3>4 DEF PoolInv, NoneTwice
  <2>4. Area(t) = NULL
    BY <2>3 DEF Area
  <2>5. Area(t)' = Area(t)
    BY <2>2 DEF Area, HasArea, poolVars
  <2>6. QED
    BY <1>4, <1>7, <2>4, <2>5
<1>8. QED
  BY <1>6, <1>7

OnlyDefaults == \A t \in Threads : Kept(t) = DefaultXmm /\ View(t) = DefaultXmm

\* Where every area and the registers hold the defaults, so does every view.
LEMMA PristineViews ==
  PoolInv /\ Pristine /\ Loading => OnlyDefaults
<1> SUFFICES ASSUME PoolInv, Pristine, Loading
             PROVE  \A t \in Threads : Kept(t) = DefaultXmm /\ View(t) = DefaultXmm
  BY DEF OnlyDefaults
<1>1. \A t \in Threads : Area(t) \in Buffers \cup {NULL}
  BY AreaIsHeld DEF AreasKnown
<1>2. QED
  BY <1>1 DEF Pristine, Kept, View

-----------------------------------------------------------------------------
(* What the steps do to the copy the driver keeps, and to what a thread finds. *)

\* While the driver is being loaded a trap moves nothing but defaults.
LEMMA PristineTrap ==
  ASSUME TrapInv, Pristine, NmTrap, Loading
  PROVE  xmm' = DefaultXmm /\ \A b \in Buffers : save'[b] = DefaultXmm
<1>1. CASE ~osfxsr
  <2>1. NothingStoredYet'
    BY NmTrapKeepsInv DEF TrapInv
  <2>2. ~osfxsr'
    BY <1>1 DEF NmTrap
  <2>3. QED
    BY <2>1, <2>2 DEF NothingStoredYet
<1>2. CASE osfxsr
  <2>0. /\ xmm = DefaultXmm /\ \A b \in Buffers : save[b] = DefaultXmm
        /\ save \in [Buffers -> Xmm] /\ g_FxOwner \in Buffers \cup {NULL}
    BY DEF Pristine, TrapInv, Typed, TypeOK
  <2>1. nmHooked
    BY <1>2 DEF TrapInv, InstallOrder
  <2>2. PICK area \in Buffers \cup {NULL} :
          /\ save' = Flushed
          /\ g_FxImage' = [x87 |-> x87,
                           xmm |-> IF area = NULL THEN DefaultXmm ELSE save'[area]]
          /\ xmm' = FxrstoredXmm(g_FxImage')
    BY <2>1 DEF NmTrap, NmHandler, Flushed
  <2>3. \A b \in Buffers : Flushed[b] = DefaultXmm
    BY <1>2, <2>0 DEF Flushed, FlushTo, FxsavedXmm
  <2>4. g_FxImage'.xmm = DefaultXmm
    BY <2>2, <2>3
  <2>5. QED
    BY <1>2, <2>2, <2>3, <2>4 DEF FxrstoredXmm
<1>3. QED
  BY <1>1, <1>2

\* After the load, no trap finds an owner, since no trap is the owner's.  It leaves
\* every kept copy alone, and from then on every thread finds its kept copy: the
\* running one because it is in the registers, all others because they are not.
LEMMA LoadedTrap ==
  ASSUME TrapInv, NmTrap, osfxsr, irql = "PASSIVE"
  PROVE  /\ g_FxOwner = NULL /\ npx # cur /\ npx' = cur
         /\ \A t \in Threads : Kept(t)' = Kept(t) /\ View(t)' = Kept(t)
<1>0. /\ PoolInv /\ save \in [Buffers -> Xmm] /\ g_FreeList \in Seq(Buffers)
      /\ NULL \notin Buffers
  BY DataLayerAssumption DEF Buffers, TrapInv, Typed, TypeOK, PoolTypeOK
<1>. PICK r \in Threads : r = cur     \* the same thread before and after
  BY DEF TrapInv, Typed, TypeOK
<1>1. /\ nmHooked /\ npx # cur /\ npx' = r
  BY DEF TrapInv, InstallOrder, NmTrap, KernelNmHandler
<1>2. g_FxOwner = NULL
  BY <1>1 DEF TrapInv, OwnerKnown
<1>3. PICK area \in Buffers \cup {NULL} :
        /\ TrapLookupSaveArea(r, area)
        /\ save' = save
        /\ g_FxImage' = [x87 |-> x87,
                         xmm |-> IF area = NULL THEN DefaultXmm ELSE save'[area]]
        /\ xmm' = FxrstoredXmm(g_FxImage')
  BY <1>1, <1>2 DEF NmTrap, NmHandler
<1>4. /\ Area(r)' = area
      /\ \/ Area(r) = area
         \/ Area(r) = NULL /\ \E i \in DOMAIN g_FreeList : area = g_FreeList[i]
      /\ \A u \in Threads : u # r => Area(u)' = Area(u)
  BY <1>0, <1>3, LookupAreas
<1>5. Kept(r)' = Kept(r)
  <2>1. CASE Area(r) = area
    BY <1>3, <1>4, <2>1 DEF Kept
  <2>2. CASE Area(r) = NULL /\ \E i \in DOMAIN g_FreeList : area = g_FreeList[i]
    <3>1. save[area] = DefaultXmm
      BY <2>2 DEF TrapInv, EachItsOwn
    <3>2. QED
      BY <1>3, <1>4, <2>2, <3>1 DEF Kept
  <2>3. QED
    BY <1>4, <2>1, <2>2
<1>6. \A u \in Threads : u # r => Kept(u)' = Kept(u)
  BY <1>3, <1>4 DEF Kept
<1>7. xmm' = Kept(r)'
  BY <1>3, <1>4 DEF FxrstoredXmm, Kept
<1>8. QED
  BY <1>1, <1>2, <1>5, <1>6, <1>7 DEF View

\* After the load, a SwapContext leaves no owner.  It flushes the live registers to
\* the owner's thread, the one that runs, and changes no other kept copy.
LEMMA LoadedSwap ==
  ASSUME TrapInv, SwapContextEntry, UNCHANGED poolVars, osfxsr, irql = "PASSIVE"
  PROVE  /\ g_FxOwner' = NULL
         /\ g_FxOwner # NULL => npx = cur
         /\ \A t \in Threads :
              Kept(t)' = IF npx = t /\ g_FxOwner # NULL THEN xmm ELSE Kept(t)
<1>0. /\ PoolInv /\ save \in [Buffers -> Xmm] /\ cur \in Threads
      /\ NULL \notin Buffers /\ NULL \notin Threads /\ g_FxOwner \in Buffers \cup {NULL}
  BY DataLayerAssumption DEF Buffers, TrapInv, Typed, TypeOK
<1>1. SwapDetour
  BY DEF TrapInv, InstallOrder, SwapContextEntry
<1>2. \A t : Area(t)' = Area(t)
  BY DEF Area, HasArea, poolVars
<1>3. CASE g_FxOwner = NULL
  BY <1>1, <1>2, <1>3 DEF SwapDetour, Kept
<1>4. CASE g_FxOwner # NULL
  <2>1. /\ npx = cur /\ Holds(npx, g_FxOwner)
    BY <1>0, <1>4 DEF TrapInv, OwnerKnown
  <2>2. save' = [save EXCEPT ![g_FxOwner] = xmm] /\ g_FxOwner' = NULL
    BY <1>1, <1>4 DEF SwapDetour, FlushTo, FxsavedXmm
  <2>3. \A t \in Threads : Area(t) \in Buffers \cup {NULL}
                           /\ (Area(t) = g_FxOwner <=> Holds(t, g_FxOwner))
    BY <1>0, <1>4, AreaIsHeld DEF AreasKnown
  <2>4. \A t \in Threads : Area(t) = g_FxOwner <=> npx = t
    BY <1>0, <1>4, <2>1, <2>3, OneHolderPerBuffer
  <2>5. QED
    BY <1>0, <1>2, <1>4, <2>1, <2>2, <2>3, <2>4 DEF Kept
<1>5. QED
  BY <1>3, <1>4

\* Steps that touch neither the areas nor the registers change no copy and no view.
LEMMA ViewsUntouched ==
  ASSUME UNCHANGED <<save, poolVars, npx, xmm>>
  PROVE  \A t : Kept(t)' = Kept(t) /\ View(t)' = View(t)
<1>1. \A t : Area(t)' = Area(t)
  BY DEF Area, HasArea, poolVars
<1>2. QED
  BY <1>1 DEF Kept, View

LEMMA NextPristine == TrapInv /\ Pristine /\ [Next]_vars => Pristine'
<1> SUFFICES ASSUME TrapInv, Pristine, [Next]_vars PROVE Pristine'
  OBVIOUS
<1> USE DEF Loading
<1>0. /\ NothingStoredYet' /\ want \in [Threads -> Xmm] /\ osfxsr \in BOOLEAN
      /\ irql \in {"PASSIVE", "DISPATCH"}
  BY NextTrapInv DEF TrapInv, Typed, TypeOK
<1>1. ASSUME UNCHANGED <<osfxsr, irql, xmm, save, want>>
      PROVE  Pristine'
  BY <1>1 DEF Pristine
<1>2. CASE InstallNmHook \/ InstallSwapHook
  BY <1>1, <1>2 DEF InstallNmHook, InstallSwapHook, hardware, kernel, history
<1>3. CASE EnableSseAfterHooks
  BY <1>3 DEF EnableSseAfterHooks, EnableSseThisCpu, driver, history, Pristine
<1>4. CASE LdmxcsrDone
  BY <1>4 DEF LdmxcsrDone, hardware, driver, history, Pristine
<1>5. CASE NmTrap
  BY <1>5, PristineTrap DEF NmTrap, history, Pristine
<1>6. ASSUME NEW v \in StoredXmm(cur), SseStore(v)
      PROVE  Pristine'
  <2>1. osfxsr' /\ irql' = "PASSIVE"
    BY <1>0, <1>6 DEF SseStore, kernel, TrapInv, InstallOrder
  <2>2. QED
    BY <2>1 DEF Pristine
<1>7. ASSUME NEW v \in StoredX87(cur), X87Store(v)
      PROVE  Pristine'
  BY <1>1, <1>7 DEF X87Store, kernel, driver
<1>8. ASSUME NEW t \in Threads, Switch(t) \/ ThreadExit(t)
      PROVE  Pristine'
  <2>1. UNCHANGED <<osfxsr, irql, want, xmm>> /\ irql = "PASSIVE"
    BY <1>8 DEF Switch, ThreadExit, history
  <2>2. QED
    BY <1>0, <2>1 DEF Pristine, NothingStoredYet
<1>9. ASSUME NEW t \in Threads, ThreadCreate(t)
      PROVE  Pristine'
  BY <1>0, <1>9 DEF ThreadCreate, hardware, driver, Pristine
<1>10. CASE UNCHANGED vars
  BY <1>1, <1>10 DEF vars, hardware, kernel, driver, history
<1>11. QED
  BY <1>2, <1>3, <1>4, <1>5, <1>6, <1>7, <1>8, <1>9, <1>10 DEF Next, Running

-----------------------------------------------------------------------------
(* Preservation.                                                           *)

LEMMA InitKeepInv == Init => KeepInv
<1> SUFFICES ASSUME Init PROVE KeepInv
  OBVIOUS
<1>1. Pristine /\ PoolInv /\ ~osfxsr
  BY InitTyped DEF Init, MachineInit, Pristine, Loading, Typed
<1>2. OnlyDefaults
  BY <1>1, PristineViews DEF Loading
<1>3. QED
  BY <1>1, <1>2 DEF OnlyDefaults, KeepInv, PreservedWhenOwned, KeptUpToDate, Init, MachineInit

LEMMA NextKeepInv == TrapInv /\ X87Inv /\ KeepInv /\ [Next]_vars => KeepInv'
<1> SUFFICES ASSUME TrapInv, X87Inv, KeepInv, [Next]_vars PROVE KeepInv'
  OBVIOUS
<1>. USE DEF KeepInv
<1>0. /\ NULL \notin Threads /\ cur \in Threads /\ alive \subseteq Threads
      /\ npx \in alive \cup {NULL} /\ cur \in alive
      /\ want \in [Threads -> Xmm] /\ sheltered \subseteq Threads
      /\ irql \in {"PASSIVE", "DISPATCH"} /\ osfxsr \in BOOLEAN
  BY DataLayerAssumption DEF TrapInv, Typed, TypeOK, X87Inv
<1>1. Pristine' /\ TrapInv' /\ alive' \subseteq Threads
  BY NextPristine, NextTrapInv DEF TrapInv, Typed, TypeOK
<1>2. CASE Loading'
  <2>1. PoolInv'
    BY <1>1 DEF TrapInv, Typed
  <2>2. OnlyDefaults'
    BY <1>1, <1>2, <2>1, PristineViews, PTL
  <2>3. QED
    BY <1>1, <1>2, <2>2 DEF OnlyDefaults, PreservedWhenOwned, KeptUpToDate, Pristine
<1>3. ASSUME UNCHANGED <<alive, npx, xmm, save, g_FxOwner, poolVars, want, sheltered>>
      PROVE  KeepInv'
  <2>1. \A t : Kept(t)' = Kept(t) /\ View(t)' = View(t)
    BY <1>3, ViewsUntouched
  <2>2. QED
    BY <1>1, <1>3, <2>1 DEF PreservedWhenOwned, KeptUpToDate
<1>4. CASE InstallNmHook \/ InstallSwapHook \/ LdmxcsrDone
  BY <1>3, <1>4 DEF InstallNmHook, InstallSwapHook, LdmxcsrDone,
                    hardware, kernel, driver, history
<1>5. CASE EnableSseAfterHooks
  BY <1>3, <1>5 DEF EnableSseAfterHooks, EnableSseThisCpu, driver, history
<1>6. CASE NmTrap /\ osfxsr /\ irql = "PASSIVE"
  <2>1. /\ g_FxOwner = NULL /\ npx # cur /\ npx' = cur
        /\ \A t \in Threads : Kept(t)' = Kept(t) /\ View(t)' = Kept(t)
    BY <1>6, LoadedTrap
  <2>2. UNCHANGED <<alive, want, sheltered>>
    BY <1>6 DEF NmTrap, history
  <2>3. QED
    BY <1>0, <1>1, <2>1, <2>2 DEF PreservedWhenOwned, KeptUpToDate
<1>7. ASSUME NEW v \in StoredXmm(cur), SseStore(v)
      PROVE  KeepInv'
  <2>1. /\ npx = cur /\ xmm' = v /\ want' = [want EXCEPT ![cur] = v]
        /\ sheltered' = IF g_FxOwner = NULL THEN sheltered \ {cur}
                                            ELSE sheltered \cup {cur}
        /\ UNCHANGED <<alive, npx, save, g_FxOwner, poolVars>>
    BY <1>7 DEF SseStore, kernel, driver, TrapInv, InstallOrder
  <2>2. \A t : Kept(t)' = Kept(t)
    BY <2>1 DEF Kept, Area, HasArea, poolVars
  <2>3. \A t \in Threads : View(t)' = IF t = cur THEN v ELSE View(t)
    BY <2>1, <2>2 DEF View
  <2>4. PreservedWhenOwned'
    BY <1>0, <2>1, <2>3 DEF PreservedWhenOwned
  <2>5. KeptUpToDate'
    BY <1>0, <2>1, <2>2 DEF KeptUpToDate
  <2>6. QED
    BY <1>1, <2>4, <2>5
<1>8. ASSUME NEW v \in StoredX87(cur), X87Store(v)
      PROVE  KeepInv'
  BY <1>3, <1>8 DEF X87Store, kernel, driver
<1>9. ASSUME NEW to \in Threads, Switch(to) \/ ThreadExit(to), osfxsr
      PROVE  KeepInv'
  <2>1. /\ SwapContextEntry /\ irql = "PASSIVE" /\ UNCHANGED poolVars
        /\ UNCHANGED <<xmm, want, sheltered>>
    BY <1>9 DEF Switch, ThreadExit, history
  <2>2. /\ g_FxOwner' = NULL
        /\ \A t \in Threads :
             Kept(t)' = IF npx = t /\ g_FxOwner # NULL THEN xmm ELSE Kept(t)
    BY <1>9, <2>1, LoadedSwap
  <2>3. /\ alive' \subseteq alive
        /\ npx' = npx \/ (npx = cur /\ npx' = NULL /\ cur \notin alive')
    BY <1>9 DEF Switch, ThreadExit
  <2>4. \A t \in alive' \cap sheltered' : Kept(t)' = want'[t]
    <3> SUFFICES ASSUME NEW t \in alive' \cap sheltered'
                 PROVE  Kept(t)' = want[t]
      BY <2>1
    <3>1. t \in alive \cap sheltered /\ t \in Threads
      BY <1>0, <2>1, <2>3
    <3>2. CASE npx = t /\ g_FxOwner # NULL
      BY <2>2, <3>1, <3>2 DEF PreservedWhenOwned, View
    <3>3. CASE ~ (npx = t /\ g_FxOwner # NULL)
      BY <2>2, <3>1, <3>3 DEF KeptUpToDate
    <3>4. QED
      BY <3>2, <3>3
  <2>5. \A t \in alive' \cap sheltered' : View(t)' = want'[t]
    <3> SUFFICES ASSUME NEW t \in alive' \cap sheltered'
                 PROVE  View(t)' = want[t]
      BY <2>1
    <3>1. t \in alive \cap sheltered /\ t \in Threads
      BY <1>0, <2>1, <2>3
    <3>2. CASE npx' = t
      BY <1>0, <2>1, <2>3, <3>1, <3>2 DEF PreservedWhenOwned, View
    <3>3. CASE npx' # t
      BY <2>1, <2>4, <3>3 DEF View
    <3>4. QED
      BY <3>2, <3>3
  <2>6. QED
    BY <1>1, <2>4, <2>5 DEF PreservedWhenOwned, KeptUpToDate
<1>10. ASSUME NEW n \in Threads, ThreadCreate(n)
       PROVE  KeepInv'
  <2>1. /\ n \notin alive /\ alive' = alive \cup {n}
        /\ want' = [want EXCEPT ![n] = DefaultXmm]
        /\ sheltered' = IF HasArea(n) THEN sheltered \ {n} ELSE sheltered \cup {n}
        /\ UNCHANGED <<npx, xmm, save, g_FxOwner, poolVars>>
    BY <1>10 DEF ThreadCreate, hardware, driver
  <2>2. \A t : Kept(t)' = Kept(t) /\ View(t)' = View(t)
    BY <2>1, ViewsUntouched
  <2>3. n \in sheltered' => Kept(n) = DefaultXmm /\ View(n) = DefaultXmm
    BY <1>0, <2>1 DEF Kept, View, Area
  <2>4. QED
    BY <1>0, <1>1, <2>1, <2>2, <2>3 DEF PreservedWhenOwned, KeptUpToDate
<1>11. CASE UNCHANGED vars
  BY <1>3, <1>11 DEF vars, hardware, kernel, driver, history
<1>12. CASE osfxsr' /\ irql' = "PASSIVE" /\ ~osfxsr
  BY <1>12, <1>4, <1>11 DEF Next, Running, EnableSseAfterHooks, EnableSseThisCpu,
    InstallNmHook, InstallSwapHook, LdmxcsrDone, NmTrap, SseStore, X87Store, Switch,
    ThreadExit, ThreadCreate, hardware
<1>13. CASE osfxsr' /\ irql' = "PASSIVE" /\ osfxsr
  <2>1. NmTrap => irql = "PASSIVE"
    BY <1>13 DEF NmTrap
  <2>2. QED
    BY <1>13, <2>1, <1>4, <1>5, <1>6, <1>7, <1>8, <1>9, <1>10, <1>11 DEF Next, Running
<1>14. QED
  BY <1>0, <1>1, <1>2, <1>12, <1>13 DEF TrapInv, Typed, TypeOK, Loading

\* Lazy save and restore lose nothing that was stored while g_FxOwner was set: each
\* such thread finds its last value again, whatever traps, switches, exits and new
\* threads come in between, for any number of them.
THEOREM OwnedStateSurvives == Spec => []PreservedWhenOwned
<1>1. Init => TrapInv /\ X87Inv /\ KeepInv
  BY InitTrapInv, InitX87Inv, InitKeepInv
<1>2. TrapInv /\ X87Inv /\ KeepInv /\ [Next]_vars => (TrapInv /\ X87Inv /\ KeepInv)'
  BY NextTrapInv, NextX87Inv, NextKeepInv
<1>3. KeepInv => PreservedWhenOwned
  BY DEF KeepInv
<1>4. QED
  BY <1>1, <1>2, <1>3, PTL DEF Spec

-----------------------------------------------------------------------------
(* Refinement of XmmContract.                                              *)

LEMMA InitContract == Init => Contract!Init
<1> SUFFICES ASSUME Init PROVE Contract!Init
  OBVIOUS
<1>1. Pristine /\ PoolInv /\ ~osfxsr
  BY InitTyped DEF Init, MachineInit, Pristine, Loading, Typed
<1>2. OnlyDefaults
  BY <1>1, PristineViews DEF Loading
<1>3. QED
  BY <1>2 DEF OnlyDefaults, Contract!Init

\* Every step of the trap path is a step of the contract for one thread or changes
\* nothing that the contract speaks of: a store is Store, the detour's flush is Keep,
\* and registers that no area owns are given up (Lose) at the next trap or at the end
\* of their thread.
LEMMA NextContract ==
  TrapInv /\ X87Inv /\ KeepInv /\ [Next]_vars =>
    [Contract!Next]_<<[t \in Threads |-> View(t)], [t \in Threads |-> Kept(t)]>>
<1> DEFINE regs == [t \in Threads |-> View(t)]
           kept == [t \in Threads |-> Kept(t)]
<1> SUFFICES ASSUME TrapInv, X87Inv, KeepInv, [Next]_vars
             PROVE  Contract!Next \/ (regs' = regs /\ kept' = kept)
  OBVIOUS
<1>. USE DEF KeepInv
<1>0. /\ NULL \notin Threads /\ cur \in Threads /\ alive \subseteq Threads
      /\ npx \in alive \cup {NULL} /\ cur \in alive
      /\ irql \in {"PASSIVE", "DISPATCH"} /\ osfxsr \in BOOLEAN
  BY DataLayerAssumption DEF TrapInv, Typed, TypeOK, X87Inv
<1>1. ASSUME \A t \in Threads : Kept(t)' = Kept(t) /\ View(t)' = View(t)
      PROVE  regs' = regs /\ kept' = kept
  BY <1>1
<1>2. CASE Loading /\ Loading'
  <2>1. PoolInv /\ PoolInv' /\ Pristine'
    BY NextTrapInv, NextPristine DEF TrapInv, Typed
  <2>2. OnlyDefaults
    BY <1>2, <2>1, PristineViews
  <2>3. OnlyDefaults'
    BY <1>2, <2>1, PristineViews, PTL
  <2>4. QED
    BY <1>1, <2>2, <2>3 DEF OnlyDefaults
<1>3. CASE UNCHANGED <<save, poolVars, npx, xmm>>
  BY <1>1, <1>3, ViewsUntouched
<1>4. CASE NmTrap /\ osfxsr /\ irql = "PASSIVE"
  <2>1. /\ npx # cur /\ npx' = cur
        /\ \A t \in Threads : Kept(t)' = Kept(t) /\ View(t)' = Kept(t)
    BY <1>4, LoadedTrap
  <2>2. CASE npx = NULL
    BY <1>0, <1>1, <2>1, <2>2 DEF View
  <2>3. CASE npx # NULL
    <3>1. \A t \in Threads : View(t)' = IF t = npx THEN Kept(npx) ELSE View(t)
      BY <2>1 DEF View
    <3>2. regs' = [regs EXCEPT ![npx] = kept[npx]] /\ kept' = kept
      BY <1>0, <2>1, <2>3, <3>1
    <3>3. Contract!Lose(npx)
      BY <3>2 DEF Contract!Lose
    <3>4. QED
      BY <1>0, <2>3, <3>3 DEF Contract!Next
  <2>4. QED
    BY <2>2, <2>3
<1>5. ASSUME NEW v \in StoredXmm(cur), SseStore(v)
      PROVE  Contract!Next
  <2>1. npx = cur /\ xmm' = v /\ UNCHANGED <<npx, save, poolVars>>
    BY <1>5 DEF SseStore, kernel, driver, TrapInv, InstallOrder
  <2>2. \A t : Kept(t)' = Kept(t)
    BY <2>1 DEF Kept, Area, HasArea, poolVars
  <2>3. \A t \in Threads : View(t)' = IF t = cur THEN v ELSE View(t)
    BY <2>1, <2>2 DEF View
  <2>4. regs' = [regs EXCEPT ![cur] = v] /\ kept' = kept
    BY <1>0, <2>2, <2>3
  <2>5. Contract!Store(cur, v)
    BY <2>4 DEF Contract!Store
  <2>6. QED
    BY <1>0, <2>5 DEF Contract!Next
<1>6. ASSUME NEW to \in Threads, Switch(to) \/ ThreadExit(to), osfxsr
      PROVE  Contract!Next \/ (regs' = regs /\ kept' = kept)
  <2>1. /\ SwapContextEntry /\ irql = "PASSIVE" /\ UNCHANGED <<poolVars, xmm>>
        /\ npx' = npx \/ (npx = cur /\ npx' = NULL)
    BY <1>6 DEF Switch, ThreadExit
  <2>2. /\ g_FxOwner # NULL => npx = cur
        /\ \A t \in Threads :
             Kept(t)' = IF npx = t /\ g_FxOwner # NULL THEN xmm ELSE Kept(t)
    BY <1>6, <2>1, LoadedSwap
  <2>3. CASE g_FxOwner # NULL
    <3>1. npx = cur /\ npx # NULL
      BY <1>0, <2>2, <2>3
    <3>2. \A t \in Threads : /\ Kept(t)' = IF t = cur THEN View(cur) ELSE Kept(t)
                             /\ View(t)' = View(t)
      BY <1>0, <2>1, <2>2, <2>3, <3>1 DEF View
    <3>3. regs' = regs /\ kept' = [kept EXCEPT ![cur] = regs[cur]]
      BY <1>0, <3>2
    <3>4. Contract!Keep(cur)
      BY <3>3 DEF Contract!Keep
    <3>5. QED
      BY <1>0, <3>4 DEF Contract!Next
  <2>4. CASE g_FxOwner = NULL /\ npx' = npx
    <3>1. \A t \in Threads : Kept(t)' = Kept(t) /\ View(t)' = View(t)
      BY <2>1, <2>2, <2>4 DEF View
    <3>2. QED
      BY <1>1, <3>1
  <2>5. CASE g_FxOwner = NULL /\ npx = cur /\ npx' = NULL
    <3>1. \A t \in Threads : /\ Kept(t)' = Kept(t)
                             /\ View(t)' = IF t = cur THEN Kept(cur) ELSE View(t)
      BY <1>0, <2>2, <2>5 DEF View
    <3>2. regs' = [regs EXCEPT ![cur] = kept[cur]] /\ kept' = kept
      BY <1>0, <3>1
    <3>3. Contract!Lose(cur)
      BY <3>2 DEF Contract!Lose
    <3>4. QED
      BY <1>0, <3>3 DEF Contract!Next
  <2>6. QED
    BY <2>1, <2>3, <2>4, <2>5
<1>7. CASE \/ InstallNmHook \/ InstallSwapHook \/ EnableSseAfterHooks \/ LdmxcsrDone
           \/ (\E v \in StoredX87(cur) : X87Store(v))
           \/ (\E t \in Threads : ThreadCreate(t))
           \/ UNCHANGED vars
  <2>1. UNCHANGED <<save, poolVars, npx, xmm>>
    BY <1>7 DEF InstallNmHook, InstallSwapHook, EnableSseAfterHooks, EnableSseThisCpu,
      LdmxcsrDone, X87Store, ThreadCreate, vars, hardware, kernel, driver
  <2>2. QED
    BY <1>3, <2>1
<1>8. CASE NmTrap /\ Loading
  BY <1>2, <1>8 DEF NmTrap, Loading
<1>9. ASSUME NEW to \in Threads, Switch(to) \/ ThreadExit(to), ~osfxsr
      PROVE  Contract!Next \/ (regs' = regs /\ kept' = kept)
  <2>1. ~osfxsr'
    BY <1>9 DEF Switch, ThreadExit
  <2>2. QED
    BY <1>2, <1>9, <2>1 DEF Loading
<1>10. QED
  BY <1>0, <1>4, <1>5, <1>6, <1>7, <1>8, <1>9 DEF Next, Running, Loading

\* The driver implements its contract for every processor, table and pool: no step
\* moves state between threads, and what a thread finds is the last value it stored
\* or, when the driver lost track of it, the last one it flushed.
THEOREM ContractKept == Spec => ImplementsContract
<1>1. Init => TrapInv /\ X87Inv /\ KeepInv
  BY InitTrapInv, InitX87Inv, InitKeepInv
<1>2. TrapInv /\ X87Inv /\ KeepInv /\ [Next]_vars => (TrapInv /\ X87Inv /\ KeepInv)'
  BY NextTrapInv, NextX87Inv, NextKeepInv
<1>3. QED
  BY <1>1, <1>2, InitContract, NextContract, PTL
  DEF Spec, ImplementsContract, Contract!Spec
=============================================================================
