# Verification project for nt351sse

nt351sse gives user programs SSE on Windows NT 3.51, a kernel that knows nothing of
it. Its driver (`src/nt351sse.c`) keeps the XMM registers and MXCSR of every thread
apart by hooking two places of the running kernel: the device-not-available trap
(#NM, vector 7) and the context switch (SwapContext). This directory holds TLA+
modules of that driver, of the two programs its repository tests it with (`ssetest.c`,
`ntver.c`), the TLC configurations that check them, and proofs that TLAPS checks.

To repeat a run: `tlc -config <run>.cfg <module>` (the table under "Runs").
To repeat the proofs: `tlapm <module>` for XmmSwitchProofs.tla, TrapPathProofs.tla,
PreservationProofs.tla, DriverLifeProofs.tla, DriverMemoryProofs.tla,
DriverIsolationProofs.tla, SseTestProofs.tla and LoadGatesProofs.tla.

## The system

| Part | State | Operations | Correct when |
|---|---|---|---|
| save-buffer pool (`nt351sse.c:95-261`) | `g_FreeList` of SSE_BUFFERs, each with a 16-aligned Save area | PoolBuildOne, PoolPop, PoolPush, PoolDrain | no area is lost, linked twice, or given to two threads |
| thread->buffer table (`:268-348`, `:449-502`) | `g_Table`, open addressing, linear probes, no tombstones | TrapLookupSaveArea, TableLookupOrAssign, TableRelease | a thread's probe always reaches its one entry |
| #NM handler (`:504-643`) | `g_FxOwner`, `g_FxImage`, the registers | flush the owner, look up the thread, load its area or the defaults, go on into the kernel's handler | registers and areas of threads never mix; x87 state survives |
| SwapContext detour (`:645-713`) | the same | flush the owner, mark the CPU unowned | the flush goes to the thread whose state is live |
| hook installation and removal (`:719-925`) | vector 7's descriptor, SwapContext's first five bytes, `g_KernelNmResume`, the trampoline | InstallNmHook, RemoveNmHook, InstallSwapHook, RemoveSwapHook | no trap or switch meets a half-written address or instruction |
| enabling SSE (`:927-989`) | CR4.OSFXSR, MXCSR | EnableSseThisCpu, DisableSseThisCpu | SSE is on only with state tracking live |
| driver lifecycle (`:1020-1250`) | all of it | DriverEntry, DriverUnload | every failure path backs out; unload frees nothing the hooks can reach |
| load gates (`:126-168`, `:354-393`, `:1074-1114`) | the registry key and block they hold meanwhile | ForceNpxEmulationSet, HasCpuid, GetCpuFeatures, three refusals | a refusal has the cause it logs; a readable opt-out is honoured; nothing stays open or allocated |
| event log (`LogResult`, `LogData`) | none | writes one packet, if it can be allocated | the code is that of the outcome |
| `ssetest.c`, the acceptance test | a verdict per test, counters the worker threads share, `h[]` | three arithmetic tests, TestConcurrency and its ConcThreads, the exit code | its verdicts say what happened to the threads; it ends |
| `ntver.c`, the toolchain test driver | the same key and block | the same CPUID and registry reading, one log entry | the bits it logs tell what nt351sse will decide |
| `scripts/` (stamp351, checkimports, findidt, nmsig, Ghidra scripts) | files | version stamp and checksum, import check, table scan, signature search | |

How they interact. DriverEntry runs in a system worker thread. It builds the pool,
tests pool and table, hooks #NM, hooks SwapContext, sets OSFXSR, and executes
LDMXCSR. From the first hook on every thread of the machine may enter the driver:
by a trap at its first FP or SSE instruction after a switch (NmHandler), or by being
switched out (SwapDetour). The two share `g_FxOwner`, `g_FxImage` and the areas and
run with interrupts off. The kernel's lazy x87 switch decides when a trap happens at
all: SwapContext sets CR0.TS unless the incoming thread's x87 state is in the
registers. ssetest runs as an ordinary process beside all this: its instructions raise #UD,
trap into the driver, or work on the registers, and its threads are created, switched and
ended by the same kernel. ntver shares only the registry value and the processor.

What is hard here: the interleaving of traps, stores, switches and exits with the
kernel's TS logic; installing the hooks one after the other on a live machine;
allocation and verification failures between the hooks; resource limits (64 areas,
512 slots) with threads that end without the driver being told; KTHREAD addresses
used again; state that outlives an unload (the registers); tearing of the gate and of
the patched bytes; a test whose threads meet a driver that comes or goes while they run.
There are no messages, and nothing is persisted. PROJECT.json
lists the hazards line by line, each with the properties about it.

## The modules

- **SaveAreas** - the data layer: free list and table, an action per operation. A buffer
  is its construction number; the node, the buffer and its area are one thing. The
  probe is "the first slot that is t's or empty" (`ProbeEndsAt`) instead of a loop.
  Addresses stay numeric so that hashing, collision and wrap-around are real.
- **XmmSwitch** - extends it with the trap path on a running machine: registers, TS,
  OSFXSR, the kernel's x87 owner (`npx`) and areas, `NmHandler`, `SwapDetour`, thread
  creation and exit, preemption at any instruction boundary, and the last steps of
  DriverEntry. `want`, `x87Want` and `sheltered` are history variables: what each
  thread's program last stored, and whether the driver knew an owner at the time.
- **XmmContract** - what the driver delivers, in three actions on one thread each: store,
  keep (bring the kept copy up to date), lose (fall back to the kept copy). XmmSwitch
  implements it under a refinement mapping (`View`, `Kept`).
- **DriverLife** - extends XmmSwitch with the life of the driver: `pc` is where the loading
  or unloading thread is, `heap` what is allocated, `gate` and `swapCode` the patched
  memory in its separately written halves. A load zeroes the image's statics and starts from
  there (`LoadDriver`). Threads run between any two steps with interrupts on
  (`Interleaved`).
- **SseTest** - extends DriverLife with ssetest as the machine's only program: `at` is
  where each of its threads is, a test is a sequence of instructions executed one at a time
  (`ReadBack`, `Compute`, `Fault`, `TrapInBlock`), and a register file says, register by
  register, what is in it. The worker threads store and read back their patterns, count
  themselves, end; main creates them, waits for them, judges and returns.
- **LoadGates** - what happens before DriverLife's load goes ahead, and the same code of
  ntver beside it, call by call, with every call that can fail, while the registry value is
  edited. DriverLife's `CheckGates` is this module in one step: the theorem
  `PassedIsCapable` gives the condition CheckGates passes a load on.
- **XmmSwitchProofs**, **TrapPathProofs**, **PreservationProofs** - the theorems about
  XmmSwitch and XmmContract; each module builds on the invariant of the one before.
- **DriverLifeProofs**, **DriverMemoryProofs**, **DriverIsolationProofs** - those about
  DriverLife: hooks and memory in order of `pc`, the pool through the whole life, and what
  threads find in registers and areas (with the lemmas of PreservationProofs).
- **SseTestProofs** - those about ssetest, over the driver's. **LoadGatesProofs** - those about
  LoadGates.
- **MCXmmSwitch, MCDriverLife, MCSseTest, MCLoadGates** - addresses, processors, registry
  values and limits of the instances.

SaveAreas is extended by XmmSwitch, that by DriverLife, that by SseTest: a property of the
test is about the whole driver under it. LoadGates stands beside them.

Definitions carry the names of the C functions and variables; PROJECT.json maps each
to its lines. An operator named `Action_Bug` is a plausible mistake in `Action`; it
is used to confirm that a property can fail.

### What is assumed of the kernel and the processor

Only what the source's comments and code rely on; the kernel is not in the repository.

- One processor (`nt351sse.c:49`).
- SwapContext leaves TS clear exactly for the thread whose x87 state is in the
  registers. The kernel's #NM handler saves the x87 owner, loads the running
  thread's state and clears TS, and keeps interrupts off until then.
- When a thread ends, the kernel drops its claim to the x87 registers. It does not
  tell the driver. A new thread may get the KTHREAD address of an ended one.
- The loading thread is a system worker thread. It never ends, and its only FP or SSE
  instruction is the driver's LDMXCSR.
- Whether FXSAVE and FXRSTOR move XMM state while OSFXSR is clear differs between
  processors, so it is the constant `FxsrMovesXmm`; both values are checked.
- The read-back of CR4 shows OSFXSR set. Otherwise LDMXCSR would already have raised
  an invalid-opcode fault.
- XMM0-7 and MXCSR are one value. Programs store only values with a masked MXCSR.
- Loading a driver image zeroes its static data.
- An SSE instruction without OSFXSR raises #UD even where TS is set; MMX and x87 need no
  OSFXSR. An invalid-opcode fault in a guarded block reaches the block's exception filter.
- ssetest: a KTHREAD that ends while the test holds its handle is not used for another
  thread before the test is over. CreateThread may fail.
- Opening a key, allocating a block or a log entry may fail; ZwQueryValueKey fails on a
  missing value and on one that does not fit the block.

## Runs

| Run | Module | What it shows |
|---|---|---|
| trap_path | MCXmmSwitch | Three threads on two buffers and three colliding slots, two XMM values, x87 state, and an FXSAVE that leaves XMM out before OSFXSR is set: no area is lost or shared, every entry is reachable, flushes hit the live thread's area, state never mixes, what was stored with a known owner is found again, nobody runs SSE untracked once the load is complete, x87 state survives, and the trap path implements XmmContract. |
| load_unload | MCDriverLife | All failure paths, unload and reload, on a processor that has SSE and on one that has not: no torn gate or jump, nothing reachable is freed, every area is accounted for, memory is returned, SSE is on only while hooked; each load and unload ends. |
| reload | MCDriverLife | Isolation while hooked, over loads and reloads, where FXSAVE always moves XMM; each time the gate goes live on an empty table, with no owner and with every buffer this load has built on the list once and holding the defaults. |
| two_workers | MCSseTest | main and two workers preempt each other while the driver is loaded around them and stays: the verdict comes when all threads have ended and counted, R_OK with the driver loaded throughout means every thread held its state, a wrong value is zeros and never another thread's pattern, and only a worker that loaded a register while the CPU was unowned reads one. |
| test_unload | MCSseTest | One run of ssetest on five kinds of processor (down to none with CPUID) while the driver is loaded and unloaded at any point of it: with the driver loaded throughout nothing faults, MMX works always, the run ends. |
| worker_faults | MCSseTest | Two workers while the driver is loaded and unloaded at any point, so that one may fault and the other not: every thread is counted before the verdict, a fault does not hide a wrong value, R_OK needs a thread that held its state. |
| gates | MCLoadGates | nt351sse and ntver start again and again while the registry value is edited and calls fail: nothing stays open or allocated, refusals have their cause, a driver that can look honours the opt-out, ntver's bits foretell nt351sse's decision. |
| switch_survival, fresh_thread, area_for_all, reload_no_xmm, unload_window | | violated: see Findings |

**Bounds.** Three threads are the fewest with the loader and two programs that
interfere. Two buffers run out with three threads, so the exhausted path is taken (one
in reload_no_xmm); before they do, all who have trapped are tracked. Three slots whose hashes
collide give a probe that passes two foreign entries and wraps. One stored value per thread is
enough for isolation, as values carry the thread that stored them; two tell a lost store from
a stale one. In the runs of XmmSwitch and DriverLife no
counter grows, so nothing else is bounded: the state spaces are complete, for any number
of traps, switches, exits, KTHREAD reuses and reloads. load_unload gives the programs no
values to store, as its properties do not look at values; traps and switches all happen.
The trap counters `g_NmCount` and `g_SwapFlushes` are left out: they are only printed.

gates is complete too: any number of loads and edits, four values of the registry (1, 2, a
binary 2, and a string that does not fit the block), three processors.

The runs of SseTest are bounded by `Limit`: how often the driver may be loaded and stopped
and the program started. All allow one load and one run, test_unload and worker_faults one
stop as well; the load, the stop and the start may come at any step of one another.
Registers are cut from eight to two, as many as the arithmetic tests use and enough for a
thread to be preempted between two of them. Workers are cut from four (`CONC_THREADS`) to
two, the fewest who can interfere and of whom one can fault and the other not, or in
test_unload to one, which is enough to fault, to lose its values to main's trap and to be
waited for.

Buffers in these runs: the loading thread traps as well, at the driver's LDMXCSR, and so takes
one. Of the three of two_workers two are left for main and both workers, and the last to trap
may get none. test_unload and worker_faults have a single one, which goes to whoever traps
first, as a rule the loader; the others run on the defaults then, so that values are lost
and the verdict is R_WRONG as well as R_OK. worker_faults reaches R_OK with one of the two
workers faulted. Its processor has SSE and neither SSE2 nor MMX: the verdict of the concurrency
test does not depend on the other two tests.

**Deadlock** is checked in every run but three: a thread can always trap, store or be
switched, and a driver be started. The three of SseTest stop when `Limit` is used up, the
program has ended and only the loader is left.

**Fairness.** load_unload assumes that a preemptive scheduler gives the loading thread the
processor again and again (strong fairness of a switch to it, since switches are not
continuously enabled), that the thread then continues (strong fairness of `DriverStep`,
since it is preempted again and again), and that an instruction that traps is executed
(`NmTrap`). Nothing is assumed to start a load or an unload. test_unload assumes no fairness
of the driver except that what it has begun with interrupts off or at DISPATCH_LEVEL goes
on (weak: nothing else can run then). Each thread of the program that can run is given the
processor (weak fairness is enough: with loads and stops limited, a switch to it is in the
end continuously enabled while another runs), and one that has it again and again gets past
an instruction and past a trap (strong, as it is preempted). A driver stuck half-way through
its load for ever is among the behaviours for which `TestEnds` holds.

## Findings

Each is a sentence of the repository that the code does not keep, with the run whose
counterexample shows it.

1. **switch_survival** - README.md:5 says state survives context switches. The detour
   marks the CPU unowned at every switch, but TS stays clear for a thread that comes back
   while its x87 state is still in the registers. It gets no trap, so it is not made
   owner again. What it stores until its next trap is never flushed and is lost when
   another thread traps. (nt351sse.c:654 says the next SSE instruction after a switch takes
   a #NM; the trace has a switch after which TS is clear and none comes.)
2. **fresh_thread** - nt351sse.c:41 promises defaults to a thread that has none yet. Table
   entries outlive their threads, so a new thread at an old KTHREAD address starts with
   the ended thread's registers.
3. **area_for_all** - nt351sse.c:29 promises every thread its own state. As buffers of ended
   threads are never returned, even two live threads on two buffers can leave one
   without an area, and its state is replaced by defaults at its next trap.
4. **reload_no_xmm** - the same promise over a reload, where FXSAVE leaves XMM out while
   OSFXSR is clear: registers left from an earlier load end in the area of a thread
   that trapped between the two hooks.
5. **unload_window** - the same promise during an unload. Both hooks are out before OSFXSR is
   cleared, and in between a thread's SSE instruction traps into the kernel's own handler,
   which leaves XMM alone: the thread finds the state of the one that ran before it.

`PreservedWhenOwned` and `XmmContract` say what remains true in spite of 1: a store
made while an owner is set survives everything, and what is lost falls back to
the last value kept for that thread, never to another's. `WrongOnlyIfUnowned` and
`NoForeignPattern` say what ssetest's workers can see of it: zeros, after a load on an unowned
CPU.

Met while modelling the programs around the driver, and not kept as runs:

- ssetest can report CORRUPTED with the driver loaded and working as written, as a
  consequence of 1. Its arithmetic tests cannot come out wrong in the model, where main runs
  them alone and no other program executes FP instructions.
- TestConcurrency answers R_OK when some threads faulted and none is corrupt
  (ssetest.c:411-415), where ssetest.c:376 speaks of every thread. It takes a driver that is
  loaded or unloaded during the test; `OkMeansHeld` has the exact statement.
- When no worker thread could be created the exit code is 0 (ssetest.c:545), which
  the comment above it reserves for preserved state.
- The driver goes ahead when it cannot read the opt-out, and for a value of another type
  than REG_DWORD. README.md:612 speaks of neither; `DeclinesIfItCanLook`
  says what is left of "honours ForceNpxEmulation".

## Theorems

Every invariant and action property of the passing runs is a theorem, and so is the
refinement of XmmContract: a run shows it on a small instance, the proof for all threads,
addresses, capacities, values, registers, processors and numbers of loads. The assumptions
are the ASSUMEs of the modules: `DataLayerAssumption` (capacities are positive, addresses
natural numbers, NULL is neither a thread nor a number), `TrapPathAssumption` (the loader is
a thread), `SseTestAssumption` (main and the workers are different threads and all there are
but the loader; at least two registers), `RegisterFilesAssumption` (a stored value is a
register file) and `LoadGatesAssumption` (the shape of a registry value). One theorem has a
hypothesis besides, `FxsrMovesXmm`, and is false without it.

### The trap path (XmmSwitchProofs, TrapPathProofs, PreservationProofs)

- `TypeCorrect`: Spec => []TypeOK
- `PoolCorrect`: Spec => []BuffersPartitioned
- `EntriesFound`: Spec => []ProbeReachesEntry
- `OwnerAlwaysLive`: Spec => []OwnerIsLive
- `Isolated`: Spec => []Isolation
- `X87Untouched`: Spec => []X87Preserved
- `NobodyUntracked`: Spec => []TrackedBeforeSse
- `OwnedStateSurvives`: Spec => []PreservedWhenOwned
- `ContractKept`: Spec => ImplementsContract

The argument for the first five is one inductive invariant, `TrapInv`, in five parts.

- `Typed`: types, and the pool and table facts (no buffer twice, reachability).
- `InstallOrder`: the detour is in only after the #NM hook, OSFXSR only after both.
- `NothingStoredYet`: before OSFXSR no area and no register holds a stored value. It
  is what makes FXSAVE harmless while it may not move XMM at all.
- `OwnerKnown`: the owner is the area of the thread whose x87 state is live, and, after
  the load, of the running one.
- `EachItsOwn`: areas and usable registers hold their own thread's values or defaults.

Isolation alone is not inductive: a flush could bring foreign values if the owner
were another thread's area (hence OwnerKnown), two threads could share an area (hence
BuffersPartitioned), and a thread could find a second, empty area (hence
ProbeReachesEntry). That no buffer is lost either (`NoneLost`) holds on a running machine only,
as an unload takes the pool apart, and is proved beside it. The proof has a lemma for the lookup (it returns NULL or the
running thread's area and keeps the pool whole), one for the flush, and one step per
action of Next.

The next two build on it. `X87Inv` adds to X87Preserved that the running thread and the
x87 owner are alive; the trap's step holds because the image carries the x87 state the
FXSAVE found on every path. `TrackInv` says that the loader does not own the x87 registers
before its LDMXCSR traps, and that whoever owns them afterwards is tracked; it needs
`ProbeCoversTable`, that a probe which ends nowhere has seen every slot.

The last two are about what is kept. PreservedWhenOwned speaks of what a thread finds
(`View`) and is not inductive: while a thread is switched out, only its area counts. So
`KeepInv` says of the areas too where they are up to date (`KeptUpToDate`: everywhere but
for the thread that owns both the registers and g_FxOwner), and that nothing has been stored
before LDMXCSR is through (`Pristine`). For the refinement each action of the driver is
shown to be one step of the contract on one thread, or none: a store, a flush (keep), or the
loss of unowned registers at a trap or an exit.

### The life of the driver (DriverLifeProofs, DriverMemoryProofs, DriverIsolationProofs)

- `HooksAreWhole`: LifeSpec => []NoTornJump
- `HooksFindTheirMemory`: LifeSpec => []TrapPathMemory
- `SseComesLast`: LifeSpec => []SseOnlyWhileHooked
- `LifeTypeCorrect`: LifeSpec => []LifeTypeOK
- `NoAreaUnaccounted`: LifeSpec => []AreasAccounted
- `AllElseIsFreed`: LifeSpec => []MemoryReturned
- `IsolatedWhileHooked`: FxsrMovesXmm /\ LifeSpec => []IsolationWhileHooked
- `X87ThroughLoads`: LifeSpec => []X87Preserved
- `TrapPathStartsClean`: LifeSpec => []HooksStartClean

None of the first three is inductive, since none mentions where the loading thread is. The
invariant `LifeInv` does, in three parts. `Installed` ties `pc` to each half of the gate and
of the jump, to the hooks and to OSFXSR, and has interrupts off where a half is missing.
`Pointed` says at which steps the image, the resume address and the trampoline must be
there. `Allocated` says that, from the load to the removal of the last hook, all areas on
the free list and in the table are allocated and the owner is one of those in the table; it
needs what a lookup and a release do to the set of areas in reach (`LookupKeepsAreas`,
`ReleaseKeepsAreas`), since threads trap and the self-test assigns and releases at those
steps. What threads do (`Running`) leaves the first two parts alone.

The next three are about memory. `MemoryInv` follows the pool through `pc`: the table is empty
until a hook is whole, but for the one entry of the self-test, and again after the last
entry has been reclaimed (`PoolAt`); exactly the areas on the list or in the table are
allocated, none is in two places, and every entry is in reach of its probe except while
the reclaiming loop of the unload, one entry per step, leaves holes (`PoolKept`). `PoolAt` also says which areas those are, 1 to g_BuffersBuilt
from the end of the pre-fill on: the self-test takes one off the list and must put it back.

Isolation over reloads is proved once for any assignment `F` of values a thread may find
(`IsolationInv(F)`): before the gate is whole all areas hold the defaults; from then on areas,
the owner's registers, and the registers once SSE executes hold what their thread may find.
`IsolatedWhileHooked` is the case of a thread's own values. Its hypothesis is needed: the run
reload_no_xmm violates it on a processor whose FXSAVE leaves out XMM while OSFXSR is clear,
where a thread that traps before that is left with registers of the load before
(`TrapsTell(F)`). TrapPathStartsClean joins the two invariants: the list and table of
the one, the default contents of the other. It says nothing of the registers, which a reload does
not restore. The last section proves what `Secured` means: a thread that has stored under a
loaded driver with an owner set has an area, and neither traps, switches nor exits lose what
it finds.

### ssetest (SseTestProofs)

- `TestImplementsLife`: TestSpec => LifeInit(...) /\ [][LifeNext]_allVars
- `TestTypeCorrect`: TestSpec => []TestTypeOK
- `VerdictsAreFinal`: TestSpec => []VerdictIsFinal
- `OkIsEarned`: TestSpec => []OkMeansHeld
- `LoadedHoldsUp`: TestSpec => []LoadedMeansNoFault
- `MmxKeepsWorking`: TestSpec => []MmxAlwaysWorks
- `OnlyOwnPatterns`: TestSpec => []NoForeignPattern
- `WrongHasCause`: TestSpec => []WrongOnlyIfUnowned

The first makes the driver's invariants available beside the program. The verdicts rest on
`ProgramInv`: where each thread can be and what it holds (`Places`, `Held`); that main creates,
waits and judges in this order (`InOrderOfMain`); that the counters are the sizes of sets of
threads, those that have ended, and those that are through and counted or have read back
their pattern (`Counted`); on what R_OK was given (`Judged`); and that nothing faults under a
driver that stays (`NothingFaults`).

The other three follow the contents of the registers. `MmxInv` says instruction by instruction
what main's MMX registers hold, by way of X87Preserved: its x87 value is the one it has
stored last, loaded or not. `OnlyOwnPatterns` is `IsolationInv` with `PatternOnly`, where a worker
may find its own pattern and zeros. It needs no hypothesis on FXSAVE, because a worker's
instructions fault before OSFXSR is set, so that it never traps early; main, whose MMX test
does, may find anything. `WrongHasCause` says step by step what a thread must find
after the part of its block it has executed (`OwnKept`), as long as it has not stored on an
unowned CPU: each store then leaves the thread `Secured`, and the steps of the others leave it
so. It holds on any processor and over any earlier loads and runs.

NoForeignPattern is about the worker threads of the current run. A slot of `h` that is still
empty says nothing of its thread: that one may be left over from the run before, which the
driver need not have been loaded through.

### The load gates (LoadGatesProofs)

- `GatesTyped`: GatesSpec => []GatesTypeOK
- `NothingLeaks`: GatesSpec => []NothingHeld
- `RefusalsCaused`: GatesSpec => []RefusedForCause
- `OptOutHonoured`: GatesSpec => []DeclinesIfItCanLook
- `NtverForetells`: GatesSpec => []NtverTells
- `PassedIsCapable`: a load passes only on a processor with CPUID, FXSR and SSE

The invariant is `GatesInv`: types, `Held` (the steps at which the key is open and the block
allocated), `AnswerTraced` (a block's contents and a yes come from a value that was there
during this load, so that an edit after the query cannot take the cause away),
`BitsTraced` (the features each driver has are the processor's) and `LogTraced` (so are the
entries).

### What stays with TLC

Liveness (`Settles`, `TestEnds`): fairness is out of the prover's reach. The five violations
are counterexamples, and need no proof.

## Not modelled

- The log entries after the gates and LogData: output that no later step reads. The debug
  output, the console output and the CPUID listing of ssetest likewise.
- Byte layouts of the stack, the trap frame, the image and the gate, the comparison of the
  live prologue's bytes and the arithmetic of the jump: match or mismatch is a choice.
- Multiprocessors: the source does not claim them (nt351sse.c:49).
- Branches that no run of the code can take: the self-test's failure (nt351sse.c:1156-1158; with
  a buffer on the list and an empty table both lookups return the same one) and the bail-outs of
  the trap path on a missing image (nt351sse.c:560-562 and 670-672; TrapPathMemory has the
  image in place while a hook is live).
- Compiler-generated x87 instructions in ssetest: the C comparisons of floats
  (ssetest.c:173) and doubles (ssetest.c:218) may trap where the model's main is between two
  tests. They leave neither XMM nor MMX values behind, and the threads of the concurrency
  test have none.
- The scripts: stamp351 rewrites header fields and a checksum, checkimports, findidt and
  nmsig search a file and print what they find. They keep no state, run at build time, and
  the driver checks the live bytes itself. The Ghidra scripts query a disassembler. The
  build and registry files are steps and values.

## Plan

Done: 1 SaveAreas, 2 XmmSwitch, 3 XmmContract, 4 DriverLife, 5 XmmSwitchProofs and
TrapPathProofs, 6 SseTest, 7 LoadGates with ntver and LoadGatesProofs, 8 DriverLifeProofs,
9 PreservationProofs, 10 DriverMemoryProofs and DriverIsolationProofs, 11 SseTestProofs.

Left, the most valuable first:

12. **XmmContract over reloads** - state and prove the contract for DriverLife, between the
    end of a load and the start of an unload, from `Secured` and the lemmas about it.
13. **stamp351's checksum** - a pure function of a sequence of words against a reference
    definition over small images.
