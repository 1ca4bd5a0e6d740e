------------------------------ MODULE XmmSwitch ------------------------------
(***************************************************************************)
(* The trap path of nt351sse.c on a uniprocessor: the #NM handler          *)
(* (NmHandler) and the SwapContext detour (SwapDetour), the state they     *)
(* share (g_FxOwner, g_FxImage, g_Table, g_FreeList, the save areas), and  *)
(* the part of the NT 3.51 kernel they are spliced into: the lazy x87      *)
(* switch through CR0.TS.                                                  *)
(*                                                                         *)
(* Both routines run with interrupts off, so each is one step.  Between    *)
(* two steps the processor may run any thread: Switch is a preemption at   *)
(* any instruction boundary.  The hooks go in one after the other          *)
(* (InstallNmHook, InstallSwapHook, then EnableSseThisCpu), and other      *)
(* threads run in between; failed installs and unloading are another       *)
(* module's business.                                                      *)
(*                                                                         *)
(* The kernel is modelled from what the source says of it: SwapContext     *)
(* loads TS from the incoming thread's NPX state, which is clear exactly   *)
(* for the thread whose x87 state is in the registers (npx), and the       *)
(* kernel's #NM handler saves that thread's x87 state, loads the current   *)
(* thread's and clears TS, with interrupts off until TS is clear.          *)
(*                                                                         *)
(* XMM0-7 and MXCSR are one value: they are saved, loaded and defaulted    *)
(* together, and the values a program stores carry a masked MXCSR.         *)
(***************************************************************************)
EXTENDS SaveAreas, FiniteSets

CONSTANTS
  Loader,           \* the system worker thread that runs DriverEntry
  XmmVals,          \* what a thread may store in its XMM registers
  X87Vals,          \* what a thread may leave in its x87 registers
  FxsrMovesXmm      \* do FXSAVE and FXRSTOR move XMM and MXCSR while
                    \* CR4.OSFXSR is clear?  Processors differ.

ASSUME TrapPathAssumption ==
  /\ Loader \in Threads
  /\ FxsrMovesXmm \in BOOLEAN

VARIABLES
  cur,              \* the running thread (KeGetCurrentThread)
  alive,            \* the KTHREADs that hold a live thread
  irql,             \* "PASSIVE", or "DISPATCH": no thread switch
  cr0ts,            \* CR0.TS: the next FP or SSE instruction raises #NM
  osfxsr,           \* CR4.OSFXSR: SSE instructions execute
  xmm, x87,         \* the registers
  npx,              \* the kernel's owner of the x87 registers (or NULL)
  x87Saved,         \* the kernel's x87 area of each thread
  nmHooked, swapHooked,
  save,             \* the contents of each buffer's save area
  g_FxOwner,        \* the save area that owns the live XMM state, or NULL
  g_FxImage,        \* the 512-byte scratch image: its x87 and XMM parts
  want, x87Want,    \* history: each thread's registers as its program left them
  sheltered         \* history: the threads whose last store the driver saw

hardware == <<cr0ts, osfxsr, xmm, x87>>
kernel   == <<cur, alive, irql, npx, x87Saved>>
driver   == <<nmHooked, swapHooked, save, g_FxOwner, g_FxImage, poolVars>>
history  == <<want, x87Want, sheltered>>
vars     == <<hardware, kernel, driver, history>>

-----------------------------------------------------------------------------
(* Register values.  A stored value carries the thread that stored it.     *)

DefaultXmm == <<NULL, "default">>   \* zeroed XMM, MXCSR = DEFAULT_MXCSR
ZeroedXmm  == <<NULL, "zeroed">>    \* zeroed XMM and MXCSR: nothing masked
InitX87    == <<NULL, "init">>

StoredXmm(t) == {<<t, v>> : v \in XmmVals}
StoredX87(t) == {<<t, v>> : v \in X87Vals}

XmmOf(t) == {DefaultXmm} \cup StoredXmm(t)
Xmm      == {ZeroedXmm} \cup UNION {XmmOf(t) : t \in Threads}
X87      == {InitX87} \cup UNION {StoredX87(t) : t \in Threads}

-----------------------------------------------------------------------------
(* The instructions and the kernel code the driver relies on.              *)

\* Mutant: the copy starts at the x87 part of the image.
FxsavedXmm_WrongOffset == x87

\* The XMM part of g_FxImage after FXSAVE, and of the registers after FXRSTOR.
FxsavedXmm == IF osfxsr \/ FxsrMovesXmm THEN xmm ELSE g_FxImage.xmm
FxrstoredXmm(image) == IF osfxsr \/ FxsrMovesXmm THEN image.xmm ELSE xmm

\* Mutant: the kernel's handler is resumed past its CLTS.
KernelNmHandler_PastClts(regs) ==
  /\ x87Saved' = IF npx = NULL THEN x87Saved ELSE [x87Saved EXCEPT ![npx] = regs]
  /\ x87' = x87Saved'[cur]
  /\ npx' = cur
  /\ UNCHANGED cr0ts

\* The rest of the kernel's #NM handler, entered with the x87 registers at regs.
KernelNmHandler(regs) ==
  /\ x87Saved' = IF npx = NULL THEN x87Saved ELSE [x87Saved EXCEPT ![npx] = regs]
  /\ x87' = x87Saved'[cur]
  /\ npx' = cur
  /\ cr0ts' = FALSE

\* The rest of SwapContext: the incoming thread gets TS from its NPX state.
KernelSwapContext(to) ==
  /\ cur' = to
  /\ cr0ts' = (npx' # to)

-----------------------------------------------------------------------------
(* The driver's trap path.                                                 *)

\* The owner's save area gets the XMM part of the image.
FlushTo(owner, value) == [save EXCEPT ![owner] = value]

\* Mutant: a thread without an area keeps the registers it finds.
NmHandler_NoDefaults ==
  \E area \in Buffers \cup {NULL} :
    /\ TrapLookupSaveArea(cur, area)
    /\ save' = IF g_FxOwner = NULL THEN save ELSE FlushTo(g_FxOwner, FxsavedXmm)
    /\ g_FxOwner' = area
    /\ g_FxImage' = [x87 |-> x87,
                     xmm |-> IF area = NULL THEN FxsavedXmm ELSE save'[area]]
    /\ xmm' = FxrstoredXmm(g_FxImage')

\* Mutant: without an owner the FXSAVE is skipped, and the FXRSTOR is not.
NmHandler_SkipsFxsave ==
  \E area \in Buffers \cup {NULL} :
    /\ TrapLookupSaveArea(cur, area)
    /\ save' = IF g_FxOwner = NULL THEN save ELSE FlushTo(g_FxOwner, FxsavedXmm)
    /\ g_FxOwner' = area
    /\ g_FxImage' = [x87 |-> IF g_FxOwner = NULL THEN g_FxImage.x87 ELSE x87,
                     xmm |-> IF area = NULL THEN DefaultXmm ELSE save'[area]]
    /\ xmm' = FxrstoredXmm(g_FxImage')

\* Mutant: the lookup's area becomes the owner before the flush.
NmHandler_OwnerFirst ==
  \E area \in Buffers \cup {NULL} :
    /\ TrapLookupSaveArea(cur, area)
    /\ save' = IF area = NULL THEN save ELSE FlushTo(area, FxsavedXmm)
    /\ g_FxOwner' = area
    /\ g_FxImage' = [x87 |-> x87,
                     xmm |-> IF area = NULL THEN DefaultXmm ELSE save'[area]]
    /\ xmm' = FxrstoredXmm(g_FxImage')

\* The #NM handler up to its jump into the kernel's handler.  (Its way out for a
\* missing g_FxImage, and the detour's, are left out: while hooked there is one, see
\* DriverLife!TrapPathMemory.)
NmHandler ==
  \E area \in Buffers \cup {NULL} :
    /\ TrapLookupSaveArea(cur, area)
    /\ save' = IF g_FxOwner = NULL THEN save ELSE FlushTo(g_FxOwner, FxsavedXmm)
    /\ g_FxOwner' = area
    /\ g_FxImage' = [x87 |-> x87,
                     xmm |-> IF area = NULL THEN DefaultXmm ELSE save'[area]]
    /\ xmm' = FxrstoredXmm(g_FxImage')

\* Mutant: the owner is forgotten without the flush.
SwapDetour_NoFlush ==
  /\ g_FxOwner' = NULL
  /\ UNCHANGED <<save, g_FxImage>>

\* Mutant: the owner stays after the flush.
SwapDetour_OwnerStays ==
  /\ save' = IF g_FxOwner = NULL THEN save ELSE FlushTo(g_FxOwner, FxsavedXmm)
  /\ UNCHANGED <<g_FxOwner, g_FxImage>>

\* The detour at the top of SwapContext: flush the live XMM to its owner and
\* mark the CPU unowned.
SwapDetour ==
  IF g_FxOwner = NULL
  THEN UNCHANGED <<save, g_FxOwner, g_FxImage>>
  ELSE /\ save' = FlushTo(g_FxOwner, FxsavedXmm)
       /\ g_FxImage' = [x87 |-> x87, xmm |-> FxsavedXmm]
       /\ g_FxOwner' = NULL

SwapContextEntry ==
  IF swapHooked THEN SwapDetour ELSE UNCHANGED <<save, g_FxOwner, g_FxImage>>

-----------------------------------------------------------------------------
(* What the running thread does.  Loader is in DriverEntry or DriverUnload, *)
(* or idle in the kernel: LDMXCSR is the only FP or SSE instruction it has. *)

\* An FP or SSE instruction with TS set traps; it is executed again afterwards.
NmTrap ==
  /\ cr0ts
  /\ cur = Loader => irql = "DISPATCH"
  /\ IF nmHooked
     THEN NmHandler /\ KernelNmHandler(g_FxImage'.x87)
     ELSE KernelNmHandler(x87) /\ UNCHANGED <<xmm, save, g_FxOwner, g_FxImage, poolVars>>
  /\ UNCHANGED <<cur, alive, irql, osfxsr, nmHooked, swapHooked, history>>

SseStore(v) ==
  /\ ~cr0ts /\ osfxsr /\ cur # Loader
  /\ xmm' = v
  /\ want' = [want EXCEPT ![cur] = v]
  /\ sheltered' = IF g_FxOwner = NULL THEN sheltered \ {cur}
                                      ELSE sheltered \cup {cur}
  /\ UNCHANGED <<cr0ts, osfxsr, x87, kernel, driver, x87Want>>

X87Store(v) ==
  /\ ~cr0ts /\ cur # Loader
  /\ x87' = v
  /\ x87Want' = [x87Want EXCEPT ![cur] = v]
  /\ UNCHANGED <<cr0ts, osfxsr, xmm, kernel, driver, want, sheltered>>

-----------------------------------------------------------------------------
(* What the kernel does with threads.                                      *)

Switch(to) ==
  /\ irql = "PASSIVE"
  /\ to \in alive \ {cur}
  /\ SwapContextEntry
  /\ npx' = npx
  /\ KernelSwapContext(to)
  /\ UNCHANGED <<alive, irql, x87Saved, osfxsr, xmm, x87,
                 nmHooked, swapHooked, poolVars, history>>

\* Mutant: the exit path releases the thread's entry, as TableRelease does.
ThreadExit_Releases(to) ==
  /\ irql = "PASSIVE"
  /\ to \in alive \ {cur}
  /\ cur # Loader
  /\ alive' = alive \ {cur}
  /\ SwapContextEntry
  /\ TableRelease(cur)
  /\ npx' = IF npx = cur THEN NULL ELSE npx
  /\ KernelSwapContext(to)
  /\ UNCHANGED <<irql, x87Saved, osfxsr, xmm, x87, nmHooked, swapHooked, history>>

\* The running thread ends: the kernel forgets its x87 state and switches away
\* for good.  The driver is not told, so its table entry and area stay.
ThreadExit(to) ==
  /\ irql = "PASSIVE"
  /\ to \in alive \ {cur}
  /\ cur # Loader                   \* worker threads do not end
  /\ alive' = alive \ {cur}
  /\ SwapContextEntry
  /\ npx' = IF npx = cur THEN NULL ELSE npx
  /\ KernelSwapContext(to)
  /\ UNCHANGED <<irql, x87Saved, osfxsr, xmm, x87,
                 nmHooked, swapHooked, poolVars, history>>

\* A new thread, whose KTHREAD may be at the address of one that has ended.
ThreadCreate(t) ==
  /\ irql = "PASSIVE"
  /\ t \in Threads \ alive
  /\ alive' = alive \cup {t}
  /\ x87Saved' = [x87Saved EXCEPT ![t] = InitX87]
  /\ want' = [want EXCEPT ![t] = DefaultXmm]
  /\ x87Want' = [x87Want EXCEPT ![t] = InitX87]
  /\ sheltered' = IF HasArea(t) THEN sheltered \ {t} ELSE sheltered \cup {t}
  /\ UNCHANGED <<hardware, cur, irql, npx, driver>>

-----------------------------------------------------------------------------
(* DriverEntry's last steps, in its thread.                                *)

InstallNmHook ==
  /\ cur = Loader /\ ~nmHooked
  /\ nmHooked' = TRUE
  /\ UNCHANGED <<hardware, kernel, swapHooked, save, g_FxOwner, g_FxImage,
                 poolVars, history>>

InstallSwapHook ==
  /\ cur = Loader /\ nmHooked /\ ~swapHooked
  /\ swapHooked' = TRUE
  /\ UNCHANGED <<hardware, kernel, nmHooked, save, g_FxOwner, g_FxImage,
                 poolVars, history>>

\* Mutant: the CR4 write is left out.
EnableSseThisCpu_NoCr4 ==
  /\ irql' = "DISPATCH"
  /\ UNCHANGED <<osfxsr, cr0ts, xmm, x87, cur, alive, npx, x87Saved, driver, history>>

\* KeRaiseIrql and the CR4 write.
EnableSseThisCpu ==
  /\ irql' = "DISPATCH"
  /\ osfxsr' = TRUE
  /\ UNCHANGED <<cr0ts, xmm, x87, cur, alive, npx, x87Saved, driver, history>>

\* DriverEntry comes to it with both hooks installed.
EnableSseAfterHooks ==
  /\ cur = Loader /\ swapHooked /\ ~osfxsr
  /\ EnableSseThisCpu

\* Mutant: there is no LDMXCSR to trap.
LdmxcsrDone_NoTrap ==
  /\ irql = "DISPATCH"
  /\ irql' = "PASSIVE"
  /\ UNCHANGED <<hardware, cur, alive, npx, x87Saved, driver, history>>

\* LDMXCSR, which raises #NM itself when TS is set (NmTrap), and KeLowerIrql.
\* It loads the masked MXCSR the registers' value already stands for.
LdmxcsrDone ==
  /\ irql = "DISPATCH" /\ ~cr0ts
  /\ irql' = "PASSIVE"
  /\ UNCHANGED <<hardware, cur, alive, npx, x87Saved, driver, history>>

-----------------------------------------------------------------------------
(* The specification starts at load time on a freshly booted machine, when  *)
(* DriverEntry has built the pool and the image and nothing is hooked.      *)

\* booted: the threads that live at boot, Loader among them.
MachineInit(booted) ==
  /\ cur = Loader
  /\ alive = booted
  /\ irql = "PASSIVE"
  /\ npx \in (booted \ {Loader}) \cup {NULL}     \* who used the x87 last
  /\ cr0ts = (npx # cur)
  /\ osfxsr = FALSE
  /\ xmm = DefaultXmm               \* the processor's reset state: no SSE so far
  /\ x87 = InitX87
  /\ x87Saved = [t \in Threads |-> InitX87]
  /\ nmHooked = FALSE
  /\ swapHooked = FALSE
  /\ save = [b \in Buffers |-> DefaultXmm]
  /\ g_FxOwner = NULL
  /\ g_FxImage = [x87 |-> InitX87, xmm |-> ZeroedXmm]
  /\ want = [t \in Threads |-> DefaultXmm]
  /\ x87Want = [t \in Threads |-> InitX87]
  /\ sheltered = Threads

Init == PoolInit /\ MachineInit(Threads)

\* What threads and kernel do whatever the driver's load is at.
Running ==
  \/ NmTrap
  \/ \E v \in StoredXmm(cur) : SseStore(v)
  \/ \E v \in StoredX87(cur) : X87Store(v)
  \/ \E t \in Threads : Switch(t)
  \/ \E t \in Threads : ThreadExit(t)
  \/ \E t \in Threads : ThreadCreate(t)

Next ==
  \/ InstallNmHook
  \/ InstallSwapHook
  \/ EnableSseAfterHooks
  \/ LdmxcsrDone
  \/ Running

Spec == Init /\ [][Next]_vars

-----------------------------------------------------------------------------
(* Properties.                                                             *)

TypeOK ==
  /\ PoolTypeOK
  /\ cur \in Threads
  /\ alive \subseteq Threads
  /\ irql \in {"PASSIVE", "DISPATCH"}
  /\ cr0ts \in BOOLEAN /\ osfxsr \in BOOLEAN
  /\ nmHooked \in BOOLEAN /\ swapHooked \in BOOLEAN
  /\ npx \in Threads \cup {NULL}
  /\ xmm \in Xmm /\ x87 \in X87
  /\ x87Saved \in [Threads -> X87]
  /\ save \in [Buffers -> Xmm]
  /\ g_FxOwner \in Buffers \cup {NULL}
  /\ g_FxImage \in [x87 : X87, xmm : Xmm]
  /\ want \in [Threads -> Xmm]
  /\ x87Want \in [Threads -> X87]
  /\ sheltered \subseteq Threads

\* The flush always hits the right area: when an area owns the live XMM state,
\* it is the area of the thread whose registers are live (npx).  Once the driver
\* is fully loaded that thread is also the one running, so NmHandler's own flush
\* never finds an owner: every flush is the detour's.
OwnerIsLive ==
  g_FxOwner # NULL =>
    /\ npx # NULL => Holds(npx, g_FxOwner)
    /\ osfxsr /\ irql = "PASSIVE" => npx = cur /\ Holds(cur, g_FxOwner)

\* "so two SSE programs no longer clobber each other" (nt351sse.c:30): whatever
\* the interleaving of traps, switches, stores and exits, a KTHREAD's save area,
\* and the registers while it may use them without a trap, hold the clean
\* default or a value stored under that KTHREAD, never another thread's state.
Isolation ==
  /\ \A t \in Threads, b \in Buffers : Holds(t, b) => save[b] \in XmmOf(t)
  /\ ~cr0ts => xmm \in XmmOf(cur)

\* "x87 is left to the kernel" (nt351sse.c:46): FXSAVE and FXRSTOR move x87 state
\* as well, but each thread finds the x87 registers as its program left them.
X87Preserved ==
  \A t \in alive : x87Want[t] = IF npx = t THEN x87 ELSE x87Saved[t]

\* The copy of thread t's XMM state that the driver keeps.
Kept(t) == IF Area(t) = NULL THEN DefaultXmm ELSE save[Area(t)]

\* The XMM state thread t would find at its next SSE instruction.
View(t) == IF npx = t THEN xmm ELSE Kept(t)

\* Lazy save and restore lose nothing that was stored while the driver knew the
\* owner: a thread whose last store was made with g_FxOwner set finds that value
\* again whatever traps, switches and exits come between.
PreservedWhenOwned == \A t \in alive \cap sheltered : View(t) = want[t]

\* "no thread can execute an SSE instruction before per-thread state tracking is
\* live" (nt351sse.c:1164): once SSE is on, a thread that may execute SSE without
\* a trap has a save area, or the pool or the table ran out.  That goes for the
\* threads that owned the x87 registers before the load, too.
TrackedBeforeSse ==
  osfxsr /\ irql = "PASSIVE" /\ ~cr0ts =>
    \/ HasArea(cur)
    \/ g_FreeList = <<>>
    \/ \A s \in Slots : g_Table[s].Thread # NULL

\* The driver implements XmmContract: no step of it moves state between threads,
\* and a thread finds the last value it stored or, when the driver lost track of
\* it, the last one that was flushed for it; never an older one.
Contract == INSTANCE XmmContract WITH
  Default <- DefaultXmm,
  Stored  <- StoredXmm,
  regs    <- [t \in Threads |-> View(t)],
  kept    <- [t \in Threads |-> Kept(t)]

ImplementsContract == Contract!Spec

-----------------------------------------------------------------------------
(* What the documentation says and the code does not do.                   *)

\* "so that state survives context switches" (README.md:5): a thread with a save
\* area that has stored XMM state finds it again.  ("the next SSE instruction in the
\* incoming thread takes a #NM", nt351sse.c:654, but not where TS is clear for it.)
SurvivesSwitches ==
  \A t \in alive : HasArea(t) /\ want[t] # DefaultXmm => View(t) = want[t]

\* "(or defaults if the thread has none yet)" (nt351sse.c:41): a thread that has
\* stored nothing yet finds the default state.
FreshThreadGetsDefaults ==
  \A t \in alive : want[t] = DefaultXmm => View(t) = DefaultXmm

\* "gives every thread its own XMM/MXCSR state" (nt351sse.c:29): while no more
\* threads live than there are buffers and slots, a thread whose #NM is serviced
\* has a save area afterwards.
AreaForEveryThread ==
  [][/\ osfxsr /\ cr0ts /\ ~cr0ts' /\ cur' = cur
     /\ Cardinality(alive) <= PREFILL_BUFFERS
     /\ Cardinality(alive) <= MAX_THREADS
     => HasArea(cur)']_vars
=============================================================================
