------------------------------- MODULE SseTest -------------------------------
(***************************************************************************)
(* The acceptance test ssetest.c on a machine whose driver may be loaded   *)
(* and unloaded at any time (DriverLife): main with its three arithmetic   *)
(* tests, TestConcurrency, and the threads it starts (ConcThread).         *)
(*                                                                         *)
(* A test is a sequence of MMX or SSE instructions, executed one by one    *)
(* with preemption in between.  An instruction the system has not enabled  *)
(* raises #UD, which the program's exception handler turns into a verdict; *)
(* with TS set it traps into the #NM path (NmTrap) and is executed again;  *)
(* else it works on the registers.  The C code between tests is cut at     *)
(* each access to something shared.  The comparisons of sums in it are x87 *)
(* instructions, which leave nothing in the registers; they belong to the  *)
(* step that judges (BlockEnds), and a trap of theirs is left out.         *)
(*                                                                         *)
(* Loader is the only other thread: what x87 programs beside this one do   *)
(* to the registers is in XmmSwitch and DriverLife.                        *)
(***************************************************************************)
EXTENDS DriverLife, Functions

CONSTANTS
  Main,             \* the program's first thread
  Workers,          \* the threads for the slots of h[], in order
  REGISTERS,        \* the registers of a file: XMM0-7 (8), MM0-7
  Limit             \* bound: how many loads, stops (net stop) and runs (of the
                    \* program) an instance goes through, as a record

CONC_THREADS == Len(Workers)
Regs == 0 .. REGISTERS - 1

ASSUME SseTestAssumption ==
  /\ REGISTERS \in Nat /\ REGISTERS >= 2
  /\ Workers \in Seq(Threads)
  /\ IsInjective(Workers)
  /\ Range(Workers) \cup {Main} = Threads \ {Loader}
  /\ Main \notin Range(Workers)
  /\ Limit \in [loads : Nat, stops : Nat, runs : Nat]
  /\ NULL \notin {"R_FAULTED", "R_OK", "R_WRONG"}

VARIABLES
  at,               \* where each thread of the program is: routine and step
  readback,         \* what each has read back in its current test
  result,           \* the verdict of each test, NULL before it has one
  g_Corrupt, g_Faulted, g_Ready,
  h,                \* TestConcurrency's handles: slot -> thread or NULL
  exitCode,         \* of the process, NULL before it has ended
  spent,            \* how much of Limit has been used
  steady,           \* history: the driver was loaded all through this run
  unowned           \* history: the threads that have loaded a register while
                    \* g_FxOwner was NULL, in their current test

counters == <<g_Corrupt, g_Faulted, g_Ready>>
program  == <<at, readback, result, counters, h, exitCode>>
testVars == <<allVars, program, spent, steady, unowned>>

-----------------------------------------------------------------------------
(* Data and registers.  A register file is tagged with the thread that wrote *)
(* to it last, as XmmSwitch has it, and holds for each register what is in   *)
(* it: an operand or the sum of one of main's tests, the pattern of a worker *)
(* (named by the worker), or anything else.                                  *)

Kinds == {"mmx", "ps", "pd"}
Zero  == <<NULL, "zero">>
Junk  == <<NULL, "junk">>
Pattern(t) == <<t, "pattern">>

Data == {Zero, Junk} \cup {Pattern(t) : t \in Range(Workers)}
          \cup {<<k, d>> : k \in Kinds, d \in {"a", "b", "sum"}}

\* The values a program stores are whole register files.
ASSUME RegisterFilesAssumption ==
  XmmVals = [Regs -> Data] /\ X87Vals = [Regs -> Data]

Cleared == [r \in Regs |-> Zero]

Contents(file) == IF file[1] = NULL THEN Cleared ELSE file[2]

\* The packed add of test k.
Packed(k, x, y) ==
  IF x = <<k, "a">> /\ y = <<k, "b">> THEN <<k, "sum">> ELSE Junk

\* TestMmx, TestSse, TestSse2: load, load, add, store the sum; TestMmx adds EMMS.
AddTest(k) ==
  << [op |-> "load",  reg |-> 0, data |-> <<k, "a">>],
     [op |-> "load",  reg |-> 1, data |-> <<k, "b">>],
     [op |-> "add",   reg |-> 0, data |-> <<k, "sum">>],
     [op |-> "store", reg |-> 0, data |-> <<k, "sum">>] >>
  \o IF k = "mmx" THEN <<[op |-> "emms", reg |-> 0, data |-> Zero]>> ELSE <<>>

\* ConcThread: its pattern into every register, and every register read back.
\* Between the two it spins, so that it is preempted there if anywhere.
HoldTest(seed) ==
  [i \in 1 .. 2 * REGISTERS |-> [op   |-> IF i <= REGISTERS THEN "load" ELSE "store",
                                 reg  |-> (i - 1) % REGISTERS,
                                 data |-> seed]]

Routines == Kinds \cup {"hold"}

Code(t) == IF at[t].routine = "hold" THEN HoldTest(Pattern(t)) ELSE AddTest(at[t].routine)

InBlock(t)     == at[t].routine \in Routines
Instruction(t) == Code(t)[at[t].step]

\* What the program expects to read back.
Expected(t) == {Code(t)[i].data : i \in {j \in DOMAIN Code(t) : Code(t)[j].op = "store"}}

At(routine, step) == [routine |-> routine, step |-> step]

\* Control moves to a step of another routine or of the same one.
GoTo(t, routine, step) == at' = [at EXCEPT ![t] = At(routine, step)]

R_FAULTED == "R_FAULTED"
R_OK      == "R_OK"
R_WRONG   == "R_WRONG"

NoResult == [test \in Kinds \cup {"conc"} |-> NULL]
NoHandle == [i \in 1 .. CONC_THREADS |-> NULL]
started  == Cardinality({i \in DOMAIN h : h[i] # NULL})

-----------------------------------------------------------------------------
(* The instructions.                                                       *)

\* #UD: the processor has no such instruction, or the system has not enabled it.
\* It comes before #NM.
Undefined(t) ==
  \/ at[t].routine = "mmx" /\ "MMX" \notin processor
  \/ at[t].routine = "pd" /\ ("SSE2" \notin processor \/ ~osfxsr)
  \/ at[t].routine \in {"ps", "hold"} /\ ("SSE" \notin processor \/ ~osfxsr)

\* The file the instruction leaves when it finds the file now.
Executed(t, now) ==
  LET i == Instruction(t)
      c == Contents(now)
  IN  <<t, IF i.op = "load" THEN [c EXCEPT ![i.reg] = i.data]
           ELSE IF i.op = "add" THEN [c EXCEPT ![0] = Packed(i.data[1], c[0], c[1])]
           ELSE Cleared>>       \* emms

\* The block ends with its last instruction, and its routine judges what was read,
\* here at once: TestSse and TestSse2 compare the sums on the x87 stack, and the trap
\* that may come first there is left out.  main reads no register afterwards that it
\* has not loaded anew.
BlockEnds(t) ==
  LET verdict == IF readback'[t] \subseteq Expected(t) THEN R_OK ELSE R_WRONG
  IN  IF at[t].routine = "hold"
      THEN /\ GoTo(t, IF verdict = R_OK THEN "ready" ELSE "corrupt", 0)
           /\ UNCHANGED result
      ELSE /\ GoTo(t, "return", 0)
           /\ result' = [result EXCEPT ![at[t].routine] = verdict]

NextInstruction(t) ==
  IF at[t].step = Len(Code(t))
  THEN BlockEnds(t)
  ELSE /\ GoTo(t, at[t].routine, at[t].step + 1)
       /\ UNCHANGED result

\* A store to memory: the register is read and stays as it is.
ReadBack(t) ==
  /\ InBlock(t) /\ Instruction(t).op = "store"
  /\ ~Undefined(t) /\ ~cr0ts
  /\ readback' = [readback EXCEPT ![t] = @ \cup
       {Contents(IF at[t].routine = "mmx" THEN x87 ELSE xmm)[Instruction(t).reg]}]
  /\ NextInstruction(t)
  /\ UNCHANGED <<vars, counters, h, exitCode, unowned>>

\* An instruction that leaves something in its registers.
Compute(t) ==
  /\ InBlock(t) /\ Instruction(t).op # "store"
  /\ ~Undefined(t)
  /\ IF at[t].routine = "mmx"
     THEN X87Store(Executed(t, x87)) /\ UNCHANGED unowned
     ELSE /\ SseStore(Executed(t, xmm))
          /\ unowned' = IF g_FxOwner = NULL THEN unowned \cup {t} ELSE unowned
  /\ UNCHANGED readback
  /\ NextInstruction(t)
  /\ UNCHANGED <<counters, h, exitCode>>

\* The exception filter takes every fault: the test returns R_FAULTED, the thread
\* counts itself.
Fault(t) ==
  /\ InBlock(t) /\ Undefined(t)
  /\ IF at[t].routine = "hold"
     THEN GoTo(t, "faulted", 0) /\ UNCHANGED result
     ELSE /\ GoTo(t, "return", 0)
          /\ result' = [result EXCEPT ![at[t].routine] = R_FAULTED]
  /\ UNCHANGED <<vars, readback, counters, h, exitCode, unowned>>

\* With TS set the instruction traps, and is executed again afterwards.
TrapInBlock(t) ==
  /\ InBlock(t) /\ ~Undefined(t)
  /\ NmTrap
  /\ UNCHANGED <<program, unowned>>

-----------------------------------------------------------------------------
(* ConcThread past its block.                                              *)

\* Mutant: the count of one thread overwrites that of the other.
CountCorrupt_Lost(t) ==
  /\ at[t].routine = "corrupt"
  /\ GoTo(t, "ready", 0)
  /\ UNCHANGED <<vars, readback, result, counters, h, exitCode, unowned>>

CountCorrupt(t) ==
  /\ at[t].routine = "corrupt"
  /\ g_Corrupt' = g_Corrupt + 1
  /\ GoTo(t, "ready", 0)
  /\ UNCHANGED <<vars, readback, result, g_Faulted, g_Ready, h, exitCode, unowned>>

\* Mutant: without the return the thread also counts itself ready at once.
CountFaulted_FallsThrough(t) ==
  /\ at[t].routine = "faulted"
  /\ g_Faulted' = g_Faulted + 1
  /\ g_Ready' = g_Ready + 1
  /\ GoTo(t, "ready", 0)
  /\ UNCHANGED <<vars, readback, result, g_Corrupt, h, exitCode, unowned>>

CountFaulted(t) ==
  /\ at[t].routine = "faulted"
  /\ g_Faulted' = g_Faulted + 1
  /\ GoTo(t, "ready", 0)
  /\ UNCHANGED <<vars, readback, result, g_Corrupt, g_Ready, h, exitCode, unowned>>

CountReady(t) ==
  /\ at[t].routine = "ready"
  /\ g_Ready' = g_Ready + 1
  /\ GoTo(t, "over", 0)
  /\ UNCHANGED <<vars, readback, result, g_Corrupt, g_Faulted, h, exitCode, unowned>>

-----------------------------------------------------------------------------
(* main and TestConcurrency.                                               *)

\* A test starts with its operands in memory and nothing read.
StartBlock(t, routine) ==
  /\ GoTo(t, routine, 1)
  /\ readback' = [readback EXCEPT ![t] = {}]
  /\ unowned' = unowned \ {t}

\* main goes from one test to the next; the concurrency test is only run when SSE
\* executes at all.
NextTest ==
  /\ at[Main].routine = "return"
  /\ \/ result["ps"] = NULL /\ StartBlock(Main, "ps") /\ UNCHANGED counters
     \/ /\ result["ps"] # NULL /\ result["pd"] = NULL
        /\ StartBlock(Main, "pd") /\ UNCHANGED counters
     \/ /\ result["pd"] # NULL /\ result["ps"] = R_OK
        /\ g_Corrupt' = 0 /\ g_Faulted' = 0 /\ g_Ready' = 0
        /\ GoTo(Main, "create", 1)
        /\ UNCHANGED <<readback, unowned>>
     \/ /\ result["pd"] # NULL /\ result["ps"] # R_OK
        /\ GoTo(Main, "exit", 0)
        /\ UNCHANGED <<readback, unowned, counters>>
  /\ UNCHANGED <<vars, result, h, exitCode>>

\* CreateThread for one slot of h[], which may fail.
CreateWorker(i) ==
  /\ at[Main] = At("create", i)
  /\ \/ /\ ThreadCreate(Workers[i])
        /\ h' = [h EXCEPT ![i] = Workers[i]]
        /\ at' = [at EXCEPT ![Main] = At("create", i + 1),
                            ![Workers[i]] = At("hold", 1)]
        /\ readback' = [readback EXCEPT ![Workers[i]] = {}]
        /\ unowned' = unowned \ {Workers[i]}
     \/ /\ GoTo(Main, "create", i + 1)
        /\ UNCHANGED <<vars, h, readback, unowned>>
  /\ UNCHANGED <<result, counters, exitCode>>

\* No thread: the test gives up.
Created ==
  /\ at[Main] = At("create", CONC_THREADS + 1)
  /\ IF started = 0
     THEN /\ GoTo(Main, "exit", 0)
          /\ result' = [result EXCEPT !["conc"] = R_FAULTED]
     ELSE GoTo(Main, "wait", 1) /\ UNCHANGED result
  /\ UNCHANGED <<vars, readback, counters, h, exitCode, unowned>>

\* Mutant: the wait returns at once.
Waiting_NotAtAll(i) == FALSE

\* WaitForSingleObject on slot i has not returned.
Waiting(i) == h[i] \in alive

\* The wait for one slot of h[] ends; a slot without a thread is skipped.
WaitForWorker(i) ==
  /\ at[Main] = At("wait", i)
  /\ ~Waiting(i)
  /\ GoTo(Main, "wait", i + 1)
  /\ UNCHANGED <<vars, readback, result, counters, h, exitCode, unowned>>

\* Mutant: once a thread has faulted the corrupt ones are not looked at.
Verdict_FaultHidesCorrupt ==
  /\ at[Main] = At("wait", CONC_THREADS + 1)
  /\ GoTo(Main, "exit", 0)
  /\ result' = [result EXCEPT !["conc"] = IF g_Faulted = started THEN R_FAULTED
                                          ELSE IF g_Corrupt > 0 /\ g_Faulted = 0
                                               THEN R_WRONG
                                          ELSE R_OK]
  /\ UNCHANGED <<vars, readback, counters, h, exitCode, unowned>>

\* TestConcurrency's verdict from the counters.
Verdict ==
  /\ at[Main] = At("wait", CONC_THREADS + 1)
  /\ GoTo(Main, "exit", 0)
  /\ result' = [result EXCEPT !["conc"] = IF g_Faulted = started THEN R_FAULTED
                                          ELSE IF g_Corrupt > 0 THEN R_WRONG
                                          ELSE R_OK]
  /\ UNCHANGED <<vars, readback, counters, h, exitCode, unowned>>

\* main's return value.  conc stays R_FAULTED when the concurrency test is not run.
ExitCode ==
  IF "CPUID" \notin processor    THEN 1
  ELSE IF result["ps"] = R_OK    THEN IF result["conc"] = R_WRONG THEN 3 ELSE 0
  ELSE IF result["ps"] = R_FAULTED THEN 2
  ELSE 1

Return ==
  /\ at[Main].routine = "exit"
  /\ exitCode' = ExitCode
  /\ GoTo(Main, "over", 0)
  /\ UNCHANGED <<vars, readback, result, counters, h, unowned>>

-----------------------------------------------------------------------------
(* Processes and threads.                                                  *)

\* What happens no more often than the instance allows.
Spend(what) ==
  /\ spent[what] < Limit[what]
  /\ spent' = [spent EXCEPT ![what] = @ + 1]

\* The program is started when it is not running, for the first time or again.
StartTest ==
  /\ Spend("runs")
  /\ ThreadCreate(Main)
  /\ at' = [at EXCEPT ![Main] = IF "CPUID" \in processor THEN At("mmx", 1)
                                                          ELSE At("exit", 0)]
  /\ readback' = [readback EXCEPT ![Main] = {}]
  /\ result' = NoResult
  /\ g_Corrupt' = 0 /\ g_Faulted' = 0 /\ g_Ready' = 0
  /\ h' = NoHandle
  /\ exitCode' = NULL
  /\ steady' = (pc = "loaded")
  /\ unowned' = unowned \ {Main}

\* A thread in a wait that has not ended does not run.
Runnable(t) ==
  t = Main => \A i \in 1 .. CONC_THREADS : at[Main] = At("wait", i) => ~Waiting(i)

SwitchTo(t) ==
  /\ Runnable(t)
  /\ Switch(t)
  /\ UNCHANGED <<program, unowned>>

\* A thread ends when its routine has returned.
ThreadEnds(t) ==
  /\ at[cur].routine = "over" /\ Runnable(t)
  /\ ThreadExit(t)
  /\ UNCHANGED <<program, unowned>>

\* The trap of LDMXCSR, in Loader.
LoaderTraps ==
  /\ cur = Loader
  /\ NmTrap
  /\ UNCHANGED <<program, unowned>>

\* ConcThread past its block.
ConcThread(t) == CountCorrupt(t) \/ CountFaulted(t) \/ CountReady(t)

TestConcurrency ==
  \/ \E i \in 1 .. CONC_THREADS : CreateWorker(i) \/ WaitForWorker(i)
  \/ Created
  \/ Verdict

\* Running thread t gets on with its program.
Advance(t) ==
  \/ ReadBack(t) \/ Compute(t) \/ Fault(t)
  \/ ConcThread(t)
  \/ t = Main /\ (NextTest \/ TestConcurrency \/ Return)

-----------------------------------------------------------------------------

Programs == Range(Workers) \cup {Main}

TestInit ==
  /\ LifeInit(Threads \ Programs)
  /\ at = [t \in Programs |-> At("over", 0)]
  /\ readback = [t \in Programs |-> {}]
  /\ result = NoResult
  /\ g_Corrupt = 0 /\ g_Faulted = 0 /\ g_Ready = 0
  /\ h = NoHandle
  /\ exitCode = NULL
  /\ spent = [loads |-> 0, stops |-> 0, runs |-> 0]
  /\ steady = FALSE
  /\ unowned = {}

\* What the processor does next, wherever interrupts are on.
Runs ==
  \/ cur \in Programs /\ (Advance(cur) \/ TrapInBlock(cur))
  \/ LoaderTraps
  \/ \E t \in Threads : SwitchTo(t)
  \/ \E t \in Threads : cur \in Programs /\ ThreadEnds(t)

DriverMoves ==
  /\ \/ DriverStep /\ IF pc = "unloaded" THEN Spend("loads") ELSE UNCHANGED spent
     \/ NetStop /\ Spend("stops")
  /\ steady' = FALSE
  /\ UNCHANGED <<program, unowned>>

TestNext ==
  /\ UNCHANGED processor
  /\ \/ IF_flag /\ Runs /\ UNCHANGED <<life, spent, steady>>
     \/ IF_flag /\ StartTest /\ UNCHANGED life
     \/ DriverMoves

TestSpec == TestInit /\ [][TestNext]_testVars

\* What the driver has begun with interrupts off or at DISPATCH_LEVEL goes on,
\* nothing else being able to run; in between the driver may stop for ever.  A
\* preemptive scheduler gives each of the program's threads that can run the
\* processor, however often it takes it away again, and a thread that has it again
\* and again gets on, past a trap and past an instruction.
FairTestSpec ==
  /\ TestSpec
  /\ WF_testVars((~IF_flag \/ irql = "DISPATCH") /\ cur = Loader
                 /\ TestNext /\ (life' # life \/ npx' # npx))
  /\ \A t \in Programs :
       /\ WF_testVars(cur # t /\ TestNext /\ cur' = t)
       /\ SF_testVars(cur = t /\ TestNext /\ (t \in alive' => cur' = t /\ at'[t] # at[t]))
       /\ SF_testVars(cur = t /\ TestNext /\ cur' = t /\ npx' # npx)

-----------------------------------------------------------------------------
(* Properties.                                                             *)

TestTypeOK ==
  /\ LifeTypeOK
  /\ DOMAIN at = Programs /\ DOMAIN readback = Programs
  /\ \A t \in Programs : readback[t] \subseteq Data
  /\ \A test \in DOMAIN NoResult : result[test] \in {NULL, R_FAULTED, R_OK, R_WRONG}
  /\ {g_Corrupt, g_Faulted, g_Ready} \subseteq 0 .. CONC_THREADS
  /\ h \in [1 .. CONC_THREADS -> Threads \cup {NULL}]
  /\ exitCode \in {NULL, 0, 1, 2, 3}
  /\ steady \in BOOLEAN /\ unowned \subseteq Programs

\* "R_OK if every thread ..., R_WRONG if any thread ..." (ssetest.c:376): the
\* verdict is about all the threads: when it is given each has ended and has been
\* counted, once as ready and at most once as corrupt or faulted.
VerdictIsFinal ==
  result["conc"] # NULL =>
    /\ \A i \in DOMAIN h : h[i] # NULL => h[i] \notin alive
    /\ g_Ready = started
    /\ g_Corrupt + g_Faulted <= started

\* "R_OK if every thread kept its own XMM state" (ssetest.c:376): with the driver
\* loaded throughout it is that.  If the driver goes meanwhile some threads may have
\* faulted and not count, but never all: one at least has read its pattern back.
OkMeansHeld ==
  LET held == {i \in DOMAIN h : h[i] # NULL /\ readback[h[i]] = {Pattern(h[i])}}
  IN  result["conc"] = R_OK =>
        held # {} /\ (steady => Cardinality(held) = started)

\* Faults are about the system, not about the schedule (ssetest.c:7): on a machine
\* whose driver is loaded throughout, no SSE instruction faults in any thread, so
\* the program reports no fault but for SSE2 on a processor without it, or for a
\* concurrency test that could not start a single thread.
LoadedMeansNoFault ==
  steady =>
    /\ result["ps"] # R_FAULTED
    /\ result["pd"] = R_FAULTED => "SSE2" \notin processor
    /\ g_Faulted = 0
    /\ result["conc"] = R_FAULTED => started = 0
    /\ exitCode # 2

\* "a thread eventually sees another thread's values" (ssetest.c:234): with the
\* driver loaded throughout no worker ever does.  What it may see is zeros.
NoForeignPattern ==
  steady => \A i \in DOMAIN h : h[i] # NULL =>
              readback[h[i]] \subseteq {Pattern(h[i]), Zero}

\* What ssetest can catch a loaded driver at: a worker reads back a wrong value only
\* if it has loaded a register while the CPU was unowned.  (main's own sums are out of
\* danger here: the program is alone, and only main traps during its tests.)
WrongOnlyIfUnowned ==
  steady => \A i \in DOMAIN h : h[i] # NULL /\ h[i] \notin unowned =>
              readback[h[i]] \subseteq {Pattern(h[i])}

\* "MMX should already execute on 3.51" (ssetest.c:17), and goes on doing so: the
\* MMX test passes whatever the driver is at, loading and unloading included.
MmxAlwaysWorks ==
  "MMX" \in processor => result["mmx"] \in {NULL, R_OK}

\* Every run of the program ends, whatever the driver does meanwhile: no wait and
\* no trap goes on for ever.
TestEnds == Main \in alive ~> exitCode # NULL
=============================================================================
