----------------------------- MODULE SseTestProofs -----------------------------
(***************************************************************************)
(* Proofs about SseTest: the program is one of the programs DriverLife     *)
(* speaks of, so that what is proved of the driver holds beside it, and    *)
(* what its verdicts mean, for any number of workers and registers,        *)
(* through any sequence of loads, unloads and runs.                        *)
(***************************************************************************)
EXTENDS SseTest, DriverIsolationProofs

-----------------------------------------------------------------------------
(* Where each thread of the program can be.                                *)

MainRoutines   == Kinds \cup {"return", "create", "wait", "exit", "over"}
WorkerRoutines == {"hold", "corrupt", "faulted", "ready", "over"}

Slot == 1 .. CONC_THREADS

\* The number of instructions of a block.
Length(routine) ==
  IF routine = "hold" THEN 2 * REGISTERS
  ELSE IF routine = "mmx" THEN 5
  ELSE 4

Places ==
  /\ at \in [Programs -> [routine : MainRoutines \cup WorkerRoutines, step : Nat]]
  /\ at[Main].routine \in MainRoutines
  /\ \A i \in Slot : at[Workers[i]].routine \in WorkerRoutines
  /\ \A t \in Programs : InBlock(t) => at[t].step \in 1 .. Length(at[t].routine)
  /\ at[Main].routine \in {"create", "wait"} => at[Main].step \in 1 .. CONC_THREADS + 1

Held ==
  /\ readback \in [Programs -> SUBSET Data]
  /\ result \in [Kinds \cup {"conc"} -> {NULL, R_FAULTED, R_OK, R_WRONG}]
  /\ h \in [Slot -> Threads \cup {NULL}]
  /\ \A i \in Slot : h[i] \in {Workers[i], NULL}
  /\ g_Corrupt \in Nat /\ g_Faulted \in Nat /\ g_Ready \in Nat
  /\ exitCode \in {NULL, 0, 1, 2, 3}
  /\ steady \in BOOLEAN
  /\ unowned \subseteq Programs

-----------------------------------------------------------------------------
(* The program's threads and instructions.                                 *)

LEMMA Cast ==
  /\ Programs \subseteq Threads /\ Main \in Programs
  /\ CONC_THREADS \in Nat
  /\ \A i \in Slot : Workers[i] \in Programs \ {Main}
  /\ \A i, j \in Slot : Workers[i] = Workers[j] => i = j
  /\ \A t \in Programs \ {Main} : \E i \in Slot : t = Workers[i]
  /\ Loader \notin Programs /\ NULL \notin Programs /\ NULL \notin Threads
  /\ \A t \in Threads : t = Loader \/ t \in Programs
<1>1. /\ Len(Workers) \in Nat /\ DOMAIN Workers = Slot
      /\ \A i \in Slot : Workers[i] \in Threads
  BY SseTestAssumption DEF Slot, CONC_THREADS
<1>2. Range(Workers) = {Workers[i] : i \in Slot}
  BY <1>1 DEF Range
<1>3. Programs = Threads \ {Loader} /\ Main \notin Range(Workers)
  BY SseTestAssumption DEF Programs
<1>4. \A i, j \in Slot : Workers[i] = Workers[j] => i = j
  BY <1>1, SseTestAssumption DEF IsInjective
<1>5. QED
  BY <1>1, <1>2, <1>3, <1>4, DataLayerAssumption DEF Programs, CONC_THREADS

LEMMA Joined ==
  ASSUME NEW S, NEW s \in Seq(S), NEW e \in Seq(S)
  PROVE  /\ Len(s \o e) = Len(s) + Len(e)
         /\ \A i \in 1 .. Len(s) : (s \o e)[i] = s[i]
         /\ Len(e) > 0 => (s \o e)[Len(s) + 1] = e[1]
OBVIOUS

\* What the n-th instruction of a block is.
LEMMA Adds ==
  ASSUME NEW k \in Kinds
  PROVE  /\ Len(AddTest(k)) = Length(k)
         /\ AddTest(k)[1] = [op |-> "load",  reg |-> 0, data |-> <<k, "a">>]
         /\ AddTest(k)[2] = [op |-> "load",  reg |-> 1, data |-> <<k, "b">>]
         /\ AddTest(k)[3] = [op |-> "add",   reg |-> 0, data |-> <<k, "sum">>]
         /\ AddTest(k)[4] = [op |-> "store", reg |-> 0, data |-> <<k, "sum">>]
         /\ k = "mmx" => AddTest(k)[5] = [op |-> "emms", reg |-> 0, data |-> Zero]
<1>. DEFINE i1 == [op |-> "load",  reg |-> 0, data |-> <<k, "a">>]
            i2 == [op |-> "load",  reg |-> 1, data |-> <<k, "b">>]
            i3 == [op |-> "add",   reg |-> 0, data |-> <<k, "sum">>]
            i4 == [op |-> "store", reg |-> 0, data |-> <<k, "sum">>]
            i5 == [op |-> "emms", reg |-> 0, data |-> Zero]
            I == {i1, i2, i3, i4, i5}
<1>1. PICK s : s = <<i1, i2, i3, i4>>
  OBVIOUS
<1>2. PICK e : e = IF k = "mmx" THEN <<i5>> ELSE <<>>
  OBVIOUS
<1>3. AddTest(k) = s \o e
  BY <1>1, <1>2 DEF AddTest
<1>. HIDE DEF i1, i2, i3, i4, i5
<1>4. s \in Seq(I) /\ Len(s) = 4 /\ s[1] = i1 /\ s[2] = i2 /\ s[3] = i3 /\ s[4] = i4
  BY <1>1
<1>5. /\ e \in Seq(I)
      /\ k = "mmx" => Len(e) = 1 /\ e[1] = i5
      /\ k # "mmx" => Len(e) = 0
  <2>1. CASE k = "mmx"
    <3>1. e = <<i5>>
      BY <1>2, <2>1
    <3>2. QED
      BY <2>1, <3>1
  <2>2. CASE k # "mmx"
    <3>1. e = <<>>
      BY <1>2, <2>2
    <3>2. QED
      BY <2>2, <3>1
  <2>3. QED
    BY <2>1, <2>2
<1>6. Length(k) = IF k = "mmx" THEN 5 ELSE 4
  BY DEF Length, Kinds
<1>. HIDE DEF I
<1>7. /\ Len(s \o e) = 4 + Len(e)
      /\ \A i \in 1 .. 4 : (s \o e)[i] = s[i]
      /\ Len(e) > 0 => (s \o e)[5] = e[1]
  <2>1. /\ Len(s \o e) = Len(s) + Len(e)
        /\ \A i \in 1 .. Len(s) : (s \o e)[i] = s[i]
        /\ Len(e) > 0 => (s \o e)[Len(s) + 1] = e[1]
    BY <1>4, <1>5, Joined
  <2>2. Len(s) = 4 /\ Len(s) + 1 = 5
    BY <1>4
  <2>3. QED
    BY <2>1, <2>2
<1>8. /\ AddTest(k)[1] = i1 /\ AddTest(k)[2] = i2
      /\ AddTest(k)[3] = i3 /\ AddTest(k)[4] = i4
  BY <1>3, <1>4, <1>7
<1>9. Len(AddTest(k)) = Length(k)
  BY <1>3, <1>5, <1>6, <1>7
<1>10. ASSUME k = "mmx"
       PROVE  AddTest(k)[5] = i5
  <2>1. Len(e) = 1 /\ e[1] = i5
    BY <1>5, <1>10
  <2>2. (s \o e)[5] = e[1]
    BY <1>7, <2>1
  <2>3. QED
    BY <1>3, <2>1, <2>2, Zenon
<1>11. QED
  BY <1>8, <1>9, <1>10 DEF i1, i2, i3, i4, i5

LEMMA Holding ==
  ASSUME NEW d
  PROVE  /\ DOMAIN HoldTest(d) = 1 .. 2 * REGISTERS
         /\ Len(HoldTest(d)) = Length("hold")
         /\ \A i \in 1 .. 2 * REGISTERS :
              /\ HoldTest(d)[i].op = IF i <= REGISTERS THEN "load" ELSE "store"
              /\ HoldTest(d)[i].reg \in Regs
              /\ HoldTest(d)[i].data = d
<1>1. 2 * REGISTERS \in Nat /\ REGISTERS \in Nat /\ REGISTERS >= 2
  BY SseTestAssumption
<1>2. Len(HoldTest(d)) = Length("hold")
  BY <1>1 DEF HoldTest, Length
<1>3. \A i \in 1 .. 2 * REGISTERS : (i - 1) % REGISTERS \in 0 .. REGISTERS - 1
  BY <1>1
<1>4. QED
  BY <1>1, <1>2, <1>3 DEF HoldTest, Regs

LEMMA Instructions ==
  ASSUME Places, NEW t \in Programs, InBlock(t)
  PROVE  /\ at[t].routine = "hold" <=> t # Main
         /\ Len(Code(t)) = Length(at[t].routine)
         /\ at[t].step \in 1 .. Length(at[t].routine)
         /\ Length(at[t].routine) \in Nat
         /\ t # Main => Code(t) = HoldTest(Pattern(t)) /\ Pattern(t) \in Data
         /\ t = Main => at[Main].routine \in Kinds /\ Code(t) = AddTest(at[t].routine)
         /\ Instruction(t).reg \in Regs /\ Instruction(t).data \in Data
         /\ Instruction(t).op \in {"load", "add", "store", "emms"}
         /\ Instruction(t).op = "add" => t = Main /\ Instruction(t).data[1] \in Kinds
<1>1. at[t].step \in 1 .. Length(at[t].routine)
  BY DEF Places
<1>2. CASE t = Main
  <2>1. at[Main].routine \in Kinds /\ at[Main].routine # "hold"
    BY <1>2 DEF Places, InBlock, Routines, Kinds, MainRoutines
  <2>. PICK k \in Kinds : k = at[Main].routine
    BY <2>1
  <2>2. Code(t) = AddTest(k) /\ Instruction(t) = AddTest(k)[at[t].step]
    BY <1>2, <2>1 DEF Code, Instruction
  <2>3. at[t].step \in {1, 2, 3, 4} \/ (at[t].step = 5 /\ k = "mmx")
    BY <1>1, <1>2 DEF Length, Kinds
  <2>4. /\ <<k, "a">> \in Data /\ <<k, "b">> \in Data /\ <<k, "sum">> \in Data
        /\ Zero \in Data /\ <<k, "sum">>[1] \in Kinds /\ 0 \in Regs /\ 1 \in Regs
    BY SseTestAssumption DEF Data, Regs
  <2>. DEFINE Good(i) == /\ i.reg \in Regs /\ i.data \in Data
                         /\ i.op \in {"load", "add", "store", "emms"}
                         /\ i.op = "add" => i.data[1] \in Kinds
  <2>5. /\ Good([op |-> "load",  reg |-> 0, data |-> <<k, "a">>])
        /\ Good([op |-> "load",  reg |-> 1, data |-> <<k, "b">>])
        /\ Good([op |-> "add",   reg |-> 0, data |-> <<k, "sum">>])
        /\ Good([op |-> "store", reg |-> 0, data |-> <<k, "sum">>])
        /\ Good([op |-> "emms", reg |-> 0, data |-> Zero])
    BY <2>4
  <2>. HIDE DEF Good
  <2>6. Good(Instruction(t))
    BY <2>2, <2>3, <2>5, Adds
  <2>7. Len(Code(t)) = Length(at[t].routine) /\ Length(at[t].routine) \in Nat
    BY <1>2, <2>1, <2>2, Adds DEF Length, Kinds
  <2>8. QED
    BY <1>1, <1>2, <2>1, <2>2, <2>6, <2>7 DEF Good
<1>3. CASE t # Main
  <2>1. PICK i \in Slot : t = Workers[i]
    BY <1>3, Cast
  <2>2. at[t].routine = "hold"
    BY <2>1 DEF Places, InBlock, Routines, Kinds, WorkerRoutines
  <2>3. Code(t) = HoldTest(Pattern(t)) /\ Length(at[t].routine) = 2 * REGISTERS
    BY <2>2 DEF Code, Length
  <2>4. Pattern(t) \in Data
    <3>1. t \in Range(Workers)
      BY <1>3 DEF Programs
    <3>2. QED
      BY <3>1 DEF Data
  <2>5. 2 * REGISTERS \in Nat
    BY SseTestAssumption
  <2>6. Len(Code(t)) = Length(at[t].routine)
    BY <2>2, <2>3, Holding
  <2>7. /\ Instruction(t).reg \in Regs /\ Instruction(t).data = Pattern(t)
        /\ Instruction(t).op \in {"load", "store"}
    BY <1>1, <2>3, Holding DEF Instruction
  <2>8. QED
    BY <1>1, <1>3, <2>2, <2>3, <2>4, <2>5, <2>6, <2>7
<1>4. QED
  BY <1>2, <1>3

-----------------------------------------------------------------------------
(* The program beside the driver.                                          *)

Beside == IF_flag /\ UNCHANGED <<life, processor, steady>>

LEMMA TestSteps ==
  ASSUME [TestNext]_testVars
  PROVE
    \/ /\ Beside
       /\ \/ /\ cur \in Programs
             /\ \/ ReadBack(cur) \/ Compute(cur) \/ Fault(cur) \/ TrapInBlock(cur)
                \/ CountCorrupt(cur) \/ CountFaulted(cur) \/ CountReady(cur)
          \/ cur = Main /\ (NextTest \/ Created \/ Verdict \/ Return)
          \/ cur = Main /\ \E i \in Slot : CreateWorker(i) \/ WaitForWorker(i)
          \/ LoaderTraps
          \/ \E t \in Threads : SwitchTo(t)
          \/ cur \in Programs /\ \E t \in Threads : ThreadEnds(t)
    \/ IF_flag /\ StartTest /\ UNCHANGED <<life, processor>>
    \/ DriverMoves /\ UNCHANGED processor
    \/ UNCHANGED testVars
<1>1. CASE UNCHANGED testVars
  BY <1>1
<1>2. CASE IF_flag /\ Runs /\ UNCHANGED <<life, spent, steady, processor>>
  <2>1. Beside
    BY <1>2 DEF Beside
  <2>2. CASE cur \in Programs /\ Advance(cur)
    BY <2>1, <2>2 DEF Advance, ConcThread, TestConcurrency, Slot
  <2>3. QED
    BY <1>2, <2>1, <2>2 DEF Runs
<1>3. QED
  BY <1>1, <1>2 DEF TestNext

\* What an instruction leaves is a register file of the thread's own.
LEMMA FilesOfData ==
  ASSUME Places, NEW t \in Programs, InBlock(t), Instruction(t).op # "store",
         NEW file, file[1] = NULL \/ file[2] \in [Regs -> Data]
  PROVE  \E v \in [Regs -> Data] : Executed(t, file) = <<t, v>>
<1>1. Contents(file) \in [Regs -> Data] /\ Cleared \in [Regs -> Data]
  BY DEF Contents, Cleared, Data
<1>2. PICK i : i = Instruction(t)
  OBVIOUS
<1>3. /\ i.reg \in Regs /\ i.data \in Data /\ 0 \in Regs /\ 1 \in Regs
      /\ i.op \in {"load", "add", "emms"}
      /\ i.op = "add" => i.data[1] \in Kinds
  BY <1>2, Instructions, SseTestAssumption DEF Regs
<1>. PICK c \in [Regs -> Data] : c = Contents(file)
  BY <1>1
<1>4. Executed(t, file) = <<t, IF i.op = "load" THEN [c EXCEPT ![i.reg] = i.data]
                           ELSE IF i.op = "add" THEN [c EXCEPT ![0] = Packed(i.data[1], c[0], c[1])]
                           ELSE Cleared>>
  BY <1>2 DEF Executed
<1>5. CASE i.op = "load"
  BY <1>3, <1>4, <1>5
<1>6. CASE i.op = "add"
  <2>1. Packed(i.data[1], c[0], c[1]) \in Data
    BY <1>3, <1>6 DEF Packed, Data
  <2>2. QED
    BY <1>3, <1>4, <1>6, <2>1
<1>7. CASE i.op = "emms"
  BY <1>1, <1>4, <1>7
<1>8. QED
  BY <1>3, <1>5, <1>6, <1>7

\* An instruction that leaves something in the registers is a store of DriverLife.
LEMMA ComputeRuns ==
  ASSUME LifeTypeOK, Places, cur \in Programs, Compute(cur)
  PROVE  Running
<1>. PICK t \in Programs : t = cur
  OBVIOUS
<1>1. /\ \A v \in Xmm : v[1] = NULL \/ v[2] \in [Regs -> Data]
      /\ \A v \in X87 : v[1] = NULL \/ v[2] \in [Regs -> Data]
      /\ \A u : StoredXmm(u) = {<<u, v>> : v \in [Regs -> Data]}
      /\ \A u : StoredX87(u) = {<<u, v>> : v \in [Regs -> Data]}
  BY RegisterFilesAssumption
  DEF Xmm, X87, XmmOf, StoredXmm, StoredX87, ZeroedXmm, DefaultXmm, InitX87
<1>2. InBlock(t) /\ Instruction(t).op # "store"
  BY DEF Compute
<1>3. CASE at[t].routine = "mmx"
  <2>1. X87Store(Executed(t, x87))
    BY <1>3 DEF Compute
  <2>2. x87[1] = NULL \/ x87[2] \in [Regs -> Data]
    BY <1>1 DEF LifeTypeOK, TypeOK
  <2>3. Executed(t, x87) \in StoredX87(cur)
    BY <1>1, <1>2, <2>2, FilesOfData
  <2>4. QED
    BY <2>1, <2>3 DEF Running
<1>4. CASE at[t].routine # "mmx"
  <2>1. SseStore(Executed(t, xmm))
    BY <1>4 DEF Compute
  <2>2. xmm[1] = NULL \/ xmm[2] \in [Regs -> Data]
    BY <1>1 DEF LifeTypeOK, TypeOK
  <2>3. Executed(t, xmm) \in StoredXmm(cur)
    BY <1>1, <1>2, <2>2, FilesOfData
  <2>4. QED
    BY <2>1, <2>3 DEF Running
<1>5. QED
  BY <1>3, <1>4

\* Whatever the program does is something threads do in DriverLife, or no business
\* of the driver's at all.
LEMMA TestStepsAreLifeSteps ==
  ASSUME LifeTypeOK, Places, [TestNext]_testVars
  PROVE  [LifeNext]_allVars
<1>1. ASSUME Beside, UNCHANGED vars
      PROVE  UNCHANGED allVars
  BY <1>1 DEF Beside, allVars
<1>2. ASSUME Beside, Running
      PROVE  LifeNext
  BY <1>2 DEF Beside, LifeNext, Interleaved
<1>3. ASSUME cur \in Programs, Compute(cur)
      PROVE  Running
  BY <1>3, ComputeRuns
<1>4. ASSUME \/ ReadBack(cur) \/ Fault(cur)
             \/ CountCorrupt(cur) \/ CountFaulted(cur) \/ CountReady(cur)
             \/ NextTest \/ Created \/ Verdict \/ Return
             \/ \E i \in Slot : WaitForWorker(i)
      PROVE  UNCHANGED vars
  BY <1>4 DEF ReadBack, Fault, CountCorrupt, CountFaulted, CountReady, NextTest,
     Created, Verdict, Return, WaitForWorker
<1>5. ASSUME NEW i \in Slot, CreateWorker(i)
      PROVE  Running \/ UNCHANGED vars
  BY <1>5, Cast DEF CreateWorker, Running
<1>6. TrapInBlock(cur) \/ LoaderTraps => Running
  BY DEF TrapInBlock, LoaderTraps, Running
<1>7. ASSUME NEW t \in Threads, SwitchTo(t) \/ ThreadEnds(t)
      PROVE  Running
  BY <1>7 DEF SwitchTo, ThreadEnds, Running
<1>8. ASSUME IF_flag, StartTest, UNCHANGED <<life, processor>>
      PROVE  LifeNext
  BY <1>8, Cast DEF StartTest, Running, LifeNext, Interleaved
<1>9. ASSUME DriverMoves, UNCHANGED processor
       PROVE  LifeNext
  BY <1>9 DEF DriverMoves, LifeNext
<1>10. UNCHANGED testVars => UNCHANGED allVars
  BY DEF testVars
<1>11. QED
  BY TestSteps, <1>1, <1>2, <1>3, <1>4, <1>5, <1>6, <1>7, <1>8, <1>9, <1>10

-----------------------------------------------------------------------------
(* Places and types.                                                       *)

\* Where thread t can go.
Fits(t, routine, step) ==
  /\ step \in Nat
  /\ t = Main => routine \in MainRoutines
  /\ t # Main => routine \in WorkerRoutines
  /\ routine \in Routines => step \in 1 .. Length(routine)
  /\ routine \in {"create", "wait"} => step \in 1 .. CONC_THREADS + 1

LEMMA Goes ==
  ASSUME Places, NEW t \in Programs, NEW routine, NEW step,
         Fits(t, routine, step), GoTo(t, routine, step)
  PROVE  Places' /\ at'[t] = At(routine, step)
         /\ \A u \in Programs \ {t} : at'[u] = at[u]
<1>1. /\ At(routine, step) \in [routine : MainRoutines \cup WorkerRoutines, step : Nat]
      /\ At(routine, step).routine = routine /\ At(routine, step).step = step
  BY DEF Fits, At
<1>2. /\ at' \in [Programs -> [routine : MainRoutines \cup WorkerRoutines, step : Nat]]
      /\ at'[t] = At(routine, step)
      /\ \A u \in Programs \ {t} : at'[u] = at[u]
  BY <1>1 DEF GoTo, Places
<1>3. at'[Main].routine \in MainRoutines
  BY <1>1, <1>2, Cast DEF Places, Fits
<1>4. \A i \in Slot : at'[Workers[i]].routine \in WorkerRoutines
  BY <1>1, <1>2, Cast DEF Places, Fits
<1>5. \A u \in Programs : InBlock(u)' => at'[u].step \in 1 .. Length(at'[u].routine)
  BY <1>1, <1>2 DEF Places, Fits, InBlock
<1>6. at'[Main].routine \in {"create", "wait"} => at'[Main].step \in 1 .. CONC_THREADS + 1
  BY <1>1, <1>2, Cast DEF Places, Fits
<1>7. QED
  BY <1>2, <1>3, <1>4, <1>5, <1>6 DEF Places, Slot, Length, CONC_THREADS, Programs

\* An instruction goes on to the next one, or its block has ended.
LEMMA NextGoes ==
  ASSUME Places, NEW t \in Programs, InBlock(t), NextInstruction(t)
  PROVE  \/ /\ at[t].step < Length(at[t].routine)
            /\ GoTo(t, at[t].routine, at[t].step + 1)
            /\ Fits(t, at[t].routine, at[t].step + 1)
            /\ UNCHANGED result
         \/ /\ at[t].step = Length(at[t].routine)
            /\ t # Main
            /\ \/ /\ GoTo(t, "ready", 0) /\ Fits(t, "ready", 0)
                  /\ readback'[t] \subseteq Expected(t)
               \/ /\ GoTo(t, "corrupt", 0) /\ Fits(t, "corrupt", 0)
            /\ UNCHANGED result
         \/ /\ at[t].step = Length(at[t].routine)
            /\ t = Main
            /\ GoTo(Main, "return", 0) /\ Fits(Main, "return", 0)
            /\ \/ /\ readback'[t] \subseteq Expected(t)
                  /\ result' = [result EXCEPT ![at[t].routine] = R_OK]
               \/ /\ ~(readback'[t] \subseteq Expected(t))
                  /\ result' = [result EXCEPT ![at[t].routine] = R_WRONG]
<1>1. /\ Len(Code(t)) = Length(at[t].routine)
      /\ at[t].step \in 1 .. Length(at[t].routine)
      /\ Length(at[t].routine) \in Nat
      /\ at[t].routine = "hold" <=> t # Main
      /\ at[t].routine \in Routines
  BY Instructions DEF InBlock
<1>2. CASE at[t].step # Length(at[t].routine)
  <2>1. at[t].step < Length(at[t].routine) /\ at[t].step + 1 \in 1 .. Length(at[t].routine)
    BY <1>1, <1>2
  <2>2. GoTo(t, at[t].routine, at[t].step + 1) /\ UNCHANGED result
    BY <1>1, <1>2 DEF NextInstruction
  <2>3. Fits(t, at[t].routine, at[t].step + 1)
    BY <1>1, <2>1 DEF Fits, Routines, Kinds, MainRoutines, WorkerRoutines
  <2>4. QED
    BY <2>1, <2>2, <2>3
<1>3. CASE at[t].step = Length(at[t].routine)
  <2>1. BlockEnds(t)
    BY <1>1, <1>3 DEF NextInstruction
  <2>2. Fits(Main, "return", 0)
    BY DEF Fits, MainRoutines, Routines, Kinds
  <2>3. t # Main => Fits(t, "ready", 0) /\ Fits(t, "corrupt", 0)
    BY DEF Fits, WorkerRoutines, Routines, Kinds
  <2>4. R_OK # R_WRONG
    BY DEF R_OK, R_WRONG
  <2>5. QED
    BY <1>1, <1>3, <2>1, <2>2, <2>3, <2>4 DEF BlockEnds
<1>4. QED
  BY <1>2, <1>3

LEMMA Stays == Places /\ UNCHANGED at => Places'
BY DEF Places, Slot, Length, CONC_THREADS, Programs, InBlock

\* CreateThread: main goes on to the next slot, the new thread starts.
LEMMA Starts ==
  ASSUME Places, NEW i \in Slot, at[Main] = At("create", i),
         at' = [at EXCEPT ![Main] = At("create", i + 1), ![Workers[i]] = At("hold", 1)]
  PROVE  /\ Places'
         /\ at'[Main] = At("create", i + 1) /\ at'[Workers[i]] = At("hold", 1)
         /\ \A t \in Programs \ {Main, Workers[i]} : at'[t] = at[t]
<1>1. /\ Workers[i] \in Programs /\ Workers[i] # Main /\ Main \in Programs
      /\ i + 1 \in 1 .. CONC_THREADS + 1 /\ i + 1 \in Nat
  BY Cast DEF Slot
<1>2. /\ At("create", i + 1) \in [routine : MainRoutines \cup WorkerRoutines, step : Nat]
      /\ At("hold", 1) \in [routine : MainRoutines \cup WorkerRoutines, step : Nat]
      /\ At("create", i + 1).routine = "create" /\ At("create", i + 1).step = i + 1
      /\ At("hold", 1).routine = "hold" /\ At("hold", 1).step = 1
  BY <1>1 DEF At, MainRoutines, WorkerRoutines
<1>3. /\ at' \in [Programs -> [routine : MainRoutines \cup WorkerRoutines, step : Nat]]
      /\ at'[Main] = At("create", i + 1) /\ at'[Workers[i]] = At("hold", 1)
      /\ \A t \in Programs \ {Main, Workers[i]} : at'[t] = at[t]
  BY <1>1, <1>2 DEF Places
<1>4. at'[Main].routine \in MainRoutines /\ at'[Main].step \in 1 .. CONC_THREADS + 1
  BY <1>1, <1>2, <1>3 DEF MainRoutines
<1>5. \A j \in Slot : at'[Workers[j]].routine \in WorkerRoutines
  BY <1>2, <1>3, Cast DEF Places, WorkerRoutines
<1>6. \A u \in Programs : InBlock(u)' => at'[u].step \in 1 .. Length(at'[u].routine)
  <2>1. 1 \in 1 .. Length("hold")
    BY SseTestAssumption DEF Length
  <2>2. QED
    BY <1>1, <1>2, <1>3, <2>1 DEF Places, InBlock, Routines, Kinds
<1>7. QED
  BY <1>3, <1>4, <1>5, <1>6 DEF Places, Slot, Length, CONC_THREADS, Programs

LEMMA PlacesHold ==
  ASSUME Places, [TestNext]_testVars
  PROVE  Places'
<1>. USE DEF Fits, MainRoutines, WorkerRoutines, Routines, Kinds
<1>0. /\ Main \in Programs /\ CONC_THREADS \in Nat
      /\ \A t \in Programs : t # Main => at[t].routine \in WorkerRoutines
      /\ \A t \in Programs : t = Main => at[t].routine \in MainRoutines
  BY Cast DEF Places
<1>1. ASSUME cur \in Programs, ReadBack(cur) \/ Compute(cur)
      PROVE  Places'
  <2>. PICK t \in Programs : t = cur
    BY <1>1
  <2>1. InBlock(t) /\ NextInstruction(t)
    BY <1>1 DEF ReadBack, Compute
  <2>. HIDE DEF Fits
  <2>2. QED
    BY <2>1, NextGoes, Goes
<1>2. ASSUME cur \in Programs, Fault(cur)
      PROVE  Places'
  <2>. PICK t \in Programs : t = cur
    BY <1>2
  <2>1. InBlock(t) /\ (GoTo(t, "faulted", 0) \/ GoTo(t, "return", 0))
        /\ (GoTo(t, "faulted", 0) => at[t].routine = "hold" \/ GoTo(t, "return", 0))
        /\ (at[t].routine = "hold" => GoTo(t, "faulted", 0))
    BY <1>2 DEF Fault
  <2>2. at[t].routine = "hold" <=> t # Main
    BY <2>1, Instructions
  <2>3. CASE t # Main
    BY <2>1, <2>2, <2>3, Goes
  <2>4. CASE t = Main
    BY <2>1, <2>2, <2>4, Goes
  <2>5. QED
    BY <2>3, <2>4
<1>3. ASSUME cur \in Programs, CountCorrupt(cur) \/ CountFaulted(cur) \/ CountReady(cur)
      PROVE  Places'
  <2>. PICK t \in Programs : t = cur
    BY <1>3
  <2>1. /\ at[t].routine \in {"corrupt", "faulted", "ready"}
        /\ GoTo(t, "ready", 0) \/ GoTo(t, "over", 0)
    BY <1>3 DEF CountCorrupt, CountFaulted, CountReady
  <2>2. t # Main
    BY <1>0, <2>1
  <2>3. QED
    BY <2>1, <2>2, Goes
<1>4. ASSUME NextTest
      PROVE  Places'
  <2>1. \/ GoTo(Main, "ps", 1) \/ GoTo(Main, "pd", 1) \/ GoTo(Main, "create", 1)
        \/ GoTo(Main, "exit", 0)
    BY <1>4 DEF NextTest, StartBlock
  <2>2. 1 \in 1 .. Length("ps") /\ 1 \in 1 .. Length("pd") /\ 1 \in 1 .. CONC_THREADS + 1
    BY <1>0 DEF Length
  <2>3. QED
    BY <1>0, <2>1, <2>2, Goes
<1>5. ASSUME NEW i \in Slot, CreateWorker(i) \/ WaitForWorker(i)
      PROVE  Places'
  <2>1. i + 1 \in 1 .. CONC_THREADS + 1
    BY <1>0 DEF Slot
  <2>2. \/ GoTo(Main, "create", i + 1) \/ GoTo(Main, "wait", i + 1)
        \/ /\ at[Main] = At("create", i)
           /\ at' = [at EXCEPT ![Main] = At("create", i + 1),
                               ![Workers[i]] = At("hold", 1)]
    BY <1>5 DEF CreateWorker, WaitForWorker
  <2>3. QED
    BY <1>0, <2>1, <2>2, Goes, Starts
<1>6. ASSUME Created \/ Verdict \/ Return
      PROVE  Places'
  <2>1. GoTo(Main, "exit", 0) \/ GoTo(Main, "wait", 1) \/ GoTo(Main, "over", 0)
    BY <1>6 DEF Created, Verdict, Return
  <2>2. 1 \in 1 .. CONC_THREADS + 1
    BY <1>0
  <2>3. QED
    BY <1>0, <2>1, <2>2, Goes
<1>7. ASSUME StartTest
      PROVE  Places'
  <2>1. GoTo(Main, "mmx", 1) \/ GoTo(Main, "exit", 0)
    BY <1>7 DEF StartTest, GoTo
  <2>2. 1 \in 1 .. Length("mmx")
    BY DEF Length
  <2>3. QED
    BY <1>0, <2>1, <2>2, Goes
<1>8. ASSUME \/ TrapInBlock(cur) \/ LoaderTraps \/ DriverMoves \/ UNCHANGED testVars
             \/ \E t \in Threads : SwitchTo(t) \/ ThreadEnds(t)
      PROVE  Places'
  BY <1>8, Stays DEF TrapInBlock, LoaderTraps, DriverMoves, testVars, SwitchTo,
                     ThreadEnds, program
<1>9. QED
  BY TestSteps, <1>1, <1>2, <1>3, <1>4, <1>5, <1>6, <1>7, <1>8

LEMMA HeldHolds ==
  ASSUME LifeTypeOK, Places, Held, [TestNext]_testVars
  PROVE  Held'
<1>. USE DEF Held, counters
<1>0. /\ Main \in Programs /\ Kinds \subseteq Kinds \cup {"conc"} /\ CONC_THREADS \in Nat
      /\ {"mmx", "ps", "pd"} = Kinds
  BY Cast DEF Kinds
<1>1. UNCHANGED <<readback, result, h, counters, exitCode, steady, unowned>> => Held'
  OBVIOUS
<1>2. ASSUME Beside, cur \in Programs, ReadBack(cur) \/ Compute(cur)
      PROVE  Held'
  <2>. PICK t \in Programs : t = cur
    BY <1>2
  <2>1. InBlock(t) /\ NextInstruction(t) /\ UNCHANGED <<counters, h, exitCode>>
        /\ steady' \in BOOLEAN /\ unowned' \subseteq Programs
    BY <1>2 DEF ReadBack, Compute, Beside
  <2>2. result' \in [Kinds \cup {"conc"} -> {NULL, R_FAULTED, R_OK, R_WRONG}]
    <3>1. at[t].routine \in Kinds \/ t # Main
      BY <2>1, Instructions
    <3>2. \/ UNCHANGED result
          \/ \E v \in {R_OK, R_WRONG} : result' = [result EXCEPT ![at[t].routine] = v]
      BY <2>1, NextGoes
    <3>3. QED
      BY <3>2
  <2>3. readback' \in [Programs -> SUBSET Data]
    <3>1. CASE Compute(cur)
      BY <3>1 DEF Compute
    <3>2. CASE ReadBack(cur)
      <4>1. /\ \A f \in Xmm \cup X87 : Contents(f) \in [Regs -> Data]
        BY RegisterFilesAssumption
        DEF Xmm, X87, XmmOf, StoredXmm, StoredX87, ZeroedXmm, DefaultXmm, InitX87,
            Contents, Cleared, Data
      <4>2. xmm \in Xmm /\ x87 \in X87
        BY DEF LifeTypeOK, TypeOK
      <4>3. Instruction(t).reg \in Regs
        BY <2>1, Instructions
      <4>. PICK d : d = Contents(IF at[t].routine = "mmx" THEN x87 ELSE xmm)[Instruction(t).reg]
        OBVIOUS
      <4>4. d \in Data
        BY <4>1, <4>2, <4>3
      <4>5. readback' = [readback EXCEPT ![t] = @ \cup {d}]
        BY <3>2 DEF ReadBack
      <4>6. QED
        BY <4>4, <4>5
    <3>3. QED
      BY <1>2, <3>1, <3>2
  <2>4. QED
    BY <2>1, <2>2, <2>3
<1>3. ASSUME Beside, cur \in Programs, Fault(cur)
      PROVE  Held'
  <2>1. \/ UNCHANGED result
        \/ \E k : result' = [result EXCEPT ![k] = R_FAULTED]
    BY <1>3 DEF Fault
  <2>2. UNCHANGED <<readback, h, counters, exitCode, steady, unowned>>
    BY <1>3 DEF Fault, Beside
  <2>3. QED
    BY <2>1, <2>2
<1>4. ASSUME Beside, cur \in Programs,
             CountCorrupt(cur) \/ CountFaulted(cur) \/ CountReady(cur)
      PROVE  Held'
  BY <1>4 DEF CountCorrupt, CountFaulted, CountReady, Beside
<1>5. ASSUME Beside, NextTest
      PROVE  Held'
  BY <1>0, <1>5 DEF NextTest, Beside, StartBlock
<1>6. ASSUME Beside, NEW i \in Slot, CreateWorker(i)
      PROVE  Held'
  <2>1. Workers[i] \in Programs /\ Workers[i] \in Threads
    BY Cast
  <2>2. UNCHANGED <<result, counters, exitCode, steady>>
    BY <1>6 DEF CreateWorker, Beside
  <2>3. h' = h \/ h' = [h EXCEPT ![i] = Workers[i]]
    BY <1>6 DEF CreateWorker
  <2>4. /\ h' \in [Slot -> Threads \cup {NULL}]
        /\ \A j \in Slot : h'[j] \in {Workers[j], NULL}
    BY <2>1, <2>3
  <2>5. /\ readback' \in [Programs -> SUBSET Data] /\ unowned' \subseteq Programs
    BY <1>6, <2>1 DEF CreateWorker
  <2>6. QED
    BY <2>2, <2>4, <2>5
<1>7. ASSUME Beside, NEW i \in Slot, WaitForWorker(i)
      PROVE  Held'
  BY <1>7 DEF WaitForWorker, Beside
<1>8. ASSUME Beside, Created \/ Verdict
      PROVE  Held'
  <2>1. UNCHANGED <<readback, h, counters, exitCode, steady, unowned>>
    BY <1>8 DEF Created, Verdict, Beside
  <2>2. \/ UNCHANGED result
        \/ \E v \in {R_FAULTED, R_WRONG, R_OK} : result' = [result EXCEPT !["conc"] = v]
    BY <1>8 DEF Created, Verdict
  <2>3. QED
    BY <2>1, <2>2
<1>9. ASSUME Beside, Return
      PROVE  Held'
  <2>1. ExitCode \in {0, 1, 2, 3}
    BY DEF ExitCode
  <2>2. QED
    BY <1>9, <2>1 DEF Return, Beside
<1>10. ASSUME StartTest
       PROVE  Held'
  <2>1. /\ NoResult \in [Kinds \cup {"conc"} -> {NULL, R_FAULTED, R_OK, R_WRONG}]
        /\ NoHandle \in [Slot -> Threads \cup {NULL}]
        /\ \A i \in Slot : NoHandle[i] \in {Workers[i], NULL}
    BY DEF NoResult, NoHandle, Slot
  <2>2. steady' \in BOOLEAN
    BY <1>10 DEF StartTest
  <2>3. QED
    BY <1>0, <1>10, <2>1, <2>2 DEF StartTest
<1>11. ASSUME DriverMoves
       PROVE  Held'
  BY <1>11 DEF DriverMoves, program
<1>12. ASSUME \/ UNCHANGED testVars
              \/ /\ Beside
                 /\ \/ TrapInBlock(cur) \/ LoaderTraps
                    \/ \E t \in Threads : SwitchTo(t) \/ ThreadEnds(t)
       PROVE  Held'
  BY <1>1, <1>12 DEF TrapInBlock, LoaderTraps, testVars, SwitchTo, ThreadEnds, program,
                     Beside
<1>13. QED
  BY TestSteps, <1>2, <1>3, <1>4, <1>5, <1>6, <1>7, <1>8, <1>9, <1>10, <1>11, <1>12

-----------------------------------------------------------------------------
(* The driver's invariants, and what the program may rely on.              *)

TestBase == LifeInv /\ MemoryInv /\ Places /\ Held

LEMMA BaseFirst == TestInit => TestBase
<1> SUFFICES ASSUME TestInit PROVE TestBase
  OBVIOUS
<1>1. LifeInit(Threads \ Programs) /\ Threads \ Programs \in SUBSET Threads
  BY DEF TestInit
<1>2. LifeInv /\ MemoryInv
  BY <1>1, LifeInvFirst, MemoryFirst
<1>3. /\ at = [t \in Programs |-> At("over", 0)]
      /\ At("over", 0) \in [routine : MainRoutines \cup WorkerRoutines, step : Nat]
      /\ At("over", 0).routine = "over"
  BY DEF TestInit, At, MainRoutines, WorkerRoutines
<1>4. Places
  BY <1>3, Cast DEF Places, MainRoutines, WorkerRoutines, InBlock, Routines, Kinds
<1>5. Held
  <2>1. /\ result \in [Kinds \cup {"conc"} -> {NULL, R_FAULTED, R_OK, R_WRONG}]
        /\ h \in [Slot -> Threads \cup {NULL}]
        /\ \A i \in Slot : h[i] \in {Workers[i], NULL}
    BY DEF TestInit, NoResult, NoHandle, Slot
  <2>2. readback \in [Programs -> SUBSET Data]
    <3>1. readback = [t \in Programs |-> {}]
      BY DEF TestInit
    <3>2. QED
      BY <3>1
  <2>3. QED
    BY <2>1, <2>2 DEF Held, TestInit
<1>6. QED
  BY <1>2, <1>4, <1>5 DEF TestBase

LEMMA BaseHolds ==
  ASSUME TestBase, [TestNext]_testVars
  PROVE  TestBase' /\ [LifeNext]_allVars
<1>1. LifeTypeOK
  BY DEF TestBase, MemoryInv
<1>2. [LifeNext]_allVars
  BY <1>1, TestStepsAreLifeSteps DEF TestBase
<1>3. QED
  BY <1>1, <1>2, LifeInvHolds, MemoryHolds, PlacesHold, HeldHolds DEF TestBase

\* The acceptance test and the kernel around it are among the threads DriverLife
\* considers: every step of the composed system is one of DriverLife's or none of
\* its business, so that what is proved of the driver holds beside the program.
THEOREM TestImplementsLife ==
  TestSpec => LifeInit(Threads \ Programs) /\ [][LifeNext]_allVars
<1>1. TestInit => LifeInit(Threads \ Programs)
  BY DEF TestInit
<1>2. QED
  BY <1>1, BaseFirst, BaseHolds, PTL DEF TestSpec

\* Past the gates the processor is one the driver supports.
Capable == pc \notin NoPool => {"CPUID", "FXSR", "SSE"} \subseteq processor

LEMMA CapableHolds ==
  ASSUME Capable, [LifeNext]_allVars
  PROVE  Capable'
<1>. USE DEF Capable, NoPool, Goto
<1>1. processor' = processor
  BY DEF LifeNext, allVars
<1>2. CASE LoadDriver \/ CheckGates
  BY <1>1, <1>2 DEF LoadDriver, CheckGates
<1>3. CASE PoolBuildOne \/ PoolBuilt \/ SelfTest
         \/ AllocateFxImage \/ FxImageAllocationFails
         \/ NmPrologueMatches \/ NmPrologueMismatch \/ GateLow \/ GateHigh
  BY <1>1, <1>3 DEF PoolBuildOne, PoolBuilt, SelfTest, AllocateFxImage,
     FxImageAllocationFails, NmPrologueMatches, NmPrologueMismatch, GateLow, GateHigh
<1>4. CASE BuildTrampoline \/ SwapHookFails \/ GiveUp \/ PatchFirst \/ PatchRest
         \/ EnableSse \/ Loaded \/ NetStop
  BY <1>1, <1>4 DEF BuildTrampoline, SwapHookFails, GiveUp, PatchFirst, PatchRest,
     EnableSse, Loaded, NetStop
<1>5. CASE FreeTrampoline \/ ForgetOwner \/ FreeFxImage \/ DisableSseThisCpu
         \/ Reclaim \/ Reclaimed \/ Unloaded
  BY <1>1, <1>5 DEF FreeTrampoline, ForgetOwner, FreeFxImage, DisableSseThisCpu,
     Reclaim, Reclaimed, Unloaded
<1>6. CASE Interleaved \/ UNCHANGED allVars
  BY <1>1, <1>6 DEF Interleaved, allVars, life
<1>7. QED
  BY LifeSteps, <1>2, <1>3, <1>4, <1>5, <1>6

-----------------------------------------------------------------------------
(* The order of things: main starts the threads, waits for each, and only  *)
(* then judges.                                                            *)

NotCreated(i) == \/ at[Main].routine \in Kinds \cup {"return"}
                 \/ at[Main].routine = "create" /\ i >= at[Main].step

Waited(i) == \/ at[Main].routine \in {"exit", "over"}
             \/ at[Main].routine = "wait" /\ i < at[Main].step

InOrderOfMain ==
  /\ \A t \in Programs : at[t].routine # "over" => t \in alive
  /\ \A i \in Slot : Workers[i] \in alive => h[i] = Workers[i]
  /\ \A i \in Slot : NotCreated(i) => h[i] = NULL
  /\ \A i \in Slot : Waited(i) => Workers[i] \notin alive
  /\ at[Main].routine \notin {"exit", "over"} => result["conc"] = NULL

-----------------------------------------------------------------------------
(* The counters.                                                           *)

Started   == {i \in Slot : h[i] # NULL}
HasEnded  == {i \in Started : at[Workers[i]].routine = "over"}
IsThrough == {i \in Started : at[Workers[i]].routine \in {"ready", "over"}}
HasHeld   == {i \in IsThrough : readback[Workers[i]] = {Pattern(Workers[i])}}

\* Each thread that is through its block has counted itself if it has to, and one
\* that is through uncounted has read back its pattern.
Counted ==
  /\ g_Ready = Cardinality(HasEnded)
  /\ g_Corrupt + g_Faulted <= Cardinality(IsThrough)
  /\ Cardinality(IsThrough) <= g_Corrupt + g_Faulted + Cardinality(HasHeld)

\* What the verdict was given on.
Judged ==
  result["conc"] = R_OK => g_Corrupt = 0 /\ g_Faulted # Cardinality(Started)

\* While the driver stays loaded nothing that the processor has faults.
NothingFaults ==
  steady =>
    /\ pc = "loaded"
    /\ result["ps"] # R_FAULTED
    /\ result["pd"] = R_FAULTED => "SSE2" \notin processor
    /\ g_Faulted = 0
    /\ \A i \in Slot : at[Workers[i]].routine # "faulted"
    /\ result["conc"] = R_FAULTED => Started = {}
    /\ exitCode # 2

VerdictInv == InOrderOfMain /\ Counted /\ Judged /\ NothingFaults

\* A thread gets on with its own routine: main with a test or to the next one, a
\* worker as long as it is not through.
LEMMA ThreadGetsOn ==
  ASSUME Places, InOrderOfMain, NEW t \in Programs,
         UNCHANGED <<alive, h>>, result'["conc"] = result["conc"],
         \A u \in Programs \ {t} : at'[u] = at[u],
         at[t].routine # "over",
         t = Main => /\ at[Main].routine \in Kinds \cup {"return"}
                     /\ at'[Main].routine \in Kinds \cup {"return"}
  PROVE  InOrderOfMain'
<1>1. \A u \in Programs : at'[u].routine # "over" => u \in alive
  BY DEF InOrderOfMain
<1>2. CASE t = Main
  <2>1. \A i \in Slot : NotCreated(i) /\ ~Waited(i)'
    BY <1>2 DEF NotCreated, Waited, Kinds
  <2>2. at[Main].routine \notin {"exit", "over"}
    BY <1>2 DEF Kinds
  <2>3. QED
    BY <1>1, <2>1, <2>2 DEF InOrderOfMain, Slot, CONC_THREADS, Programs
<1>3. CASE t # Main
  <2>1. at'[Main] = at[Main]
    BY <1>3, Cast
  <2>2. \A i \in Slot : (NotCreated(i)' <=> NotCreated(i)) /\ (Waited(i)' <=> Waited(i))
    BY <2>1 DEF NotCreated, Waited
  <2>3. QED
    BY <1>1, <2>1, <2>2 DEF InOrderOfMain, Slot, CONC_THREADS, Programs
<1>4. QED
  BY <1>2, <1>3

LEMMA OrderLeft ==
  ASSUME InOrderOfMain, UNCHANGED <<at, alive, h, result>>
  PROVE  InOrderOfMain'
BY DEF InOrderOfMain, NotCreated, Waited, Slot, CONC_THREADS, Programs

LEMMA NoneStarted == Held => (started = Cardinality(Started)) /\ (started = 0 => Started = {})
<1> SUFFICES ASSUME Held
             PROVE  started = Cardinality(Started) /\ (started = 0 => Started = {})
  OBVIOUS
<1>1. DOMAIN h = Slot
  BY DEF Held
<1>2. started = Cardinality(Started)
  BY <1>1 DEF started, Started
<1>3. IsFiniteSet(Started)
  <2>1. IsFiniteSet(Slot)
    BY Cast, FS_Interval DEF Slot
  <2>2. QED
    BY <2>1, FS_Subset DEF Started
<1>4. QED
  BY <1>2, <1>3, FS_EmptySet

LEMMA OrderHolds ==
  ASSUME LifeTypeOK, Places, Held, InOrderOfMain, [TestNext]_testVars
  PROVE  InOrderOfMain'
<1>0. /\ Main \in Programs /\ CONC_THREADS \in Nat
      /\ \A i \in Slot : Workers[i] \in Programs /\ Workers[i] # Main
      /\ \A i, j \in Slot : Workers[i] = Workers[j] => i = j
      /\ \A t \in Programs : at[t].routine \in MainRoutines \cup WorkerRoutines
      /\ at[Main].routine \in MainRoutines
  BY Cast DEF Places
<1>1. ASSUME cur \in Programs, ReadBack(cur) \/ Compute(cur)
      PROVE  InOrderOfMain'
  <2>. PICK t \in Programs : t = cur
    BY <1>1
  <2>1. InBlock(t) /\ NextInstruction(t) /\ UNCHANGED <<alive, h>>
    BY <1>1 DEF ReadBack, Compute, vars, kernel, SseStore, X87Store
  <2>2. at[t].routine # "over" /\ (t = Main => at[Main].routine \in Kinds)
    BY <2>1, Instructions DEF InBlock, Routines, Kinds
  <2>3. result'["conc"] = result["conc"]
    BY <2>1, <2>2, NextGoes DEF Held, Kinds
  <2>4. /\ \A u \in Programs \ {t} : at'[u] = at[u]
        /\ t = Main => at'[Main].routine \in Kinds \cup {"return"}
    <3>1. \E routine, step : /\ Fits(t, routine, step) /\ GoTo(t, routine, step)
                            /\ routine \in {at[t].routine, "ready", "corrupt", "return"}
      BY <2>1, NextGoes
    <3>. PICK routine, step : /\ Fits(t, routine, step) /\ GoTo(t, routine, step)
                              /\ routine \in {at[t].routine, "ready", "corrupt", "return"}
      BY <3>1
    <3>2. at'[t] = At(routine, step) /\ \A u \in Programs \ {t} : at'[u] = at[u]
      BY Goes
    <3>3. at'[t].routine = routine
      BY <3>2 DEF At
    <3>4. t = Main => routine \in Kinds \cup {"return"}
      BY <2>2 DEF Fits, MainRoutines
    <3>5. QED
      BY <3>2, <3>3, <3>4
  <2>5. QED
    BY <2>1, <2>2, <2>3, <2>4, ThreadGetsOn
<1>2. ASSUME cur \in Programs, Fault(cur)
      PROVE  InOrderOfMain'
  <2>. PICK t \in Programs : t = cur
    BY <1>2
  <2>1. /\ InBlock(t) /\ UNCHANGED <<alive, h>>
        /\ at[t].routine = "hold" => GoTo(t, "faulted", 0) /\ UNCHANGED result
        /\ at[t].routine # "hold" => GoTo(t, "return", 0)
             /\ result' = [result EXCEPT ![at[t].routine] = R_FAULTED]
    BY <1>2 DEF Fault, vars, kernel
  <2>2. /\ at[t].routine # "over" /\ (t = Main => at[Main].routine \in Kinds)
        /\ at[t].routine = "hold" <=> t # Main
    BY <2>1, Instructions DEF InBlock, Routines, Kinds
  <2>3. result'["conc"] = result["conc"]
    BY <2>1, <2>2 DEF Held, Kinds
  <2>4. /\ \A u \in Programs \ {t} : at'[u] = at[u]
        /\ t = Main => at'[Main].routine \in Kinds \cup {"return"}
    BY <2>1, <2>2 DEF GoTo, At, Places
  <2>5. QED
    BY <2>1, <2>2, <2>3, <2>4, ThreadGetsOn
<1>3. ASSUME cur \in Programs, CountCorrupt(cur) \/ CountFaulted(cur) \/ CountReady(cur)
      PROVE  InOrderOfMain'
  <2>. PICK t \in Programs : t = cur
    BY <1>3
  <2>1. /\ UNCHANGED <<alive, h, result>>
        /\ at[t].routine \in {"corrupt", "faulted", "ready"}
        /\ \A u \in Programs \ {t} : at'[u] = at[u]
    BY <1>3 DEF CountCorrupt, CountFaulted, CountReady, vars, kernel, GoTo, Places
  <2>2. t # Main
    BY <2>1 DEF Places, MainRoutines, Kinds
  <2>3. QED
    BY <2>1, <2>2, ThreadGetsOn
<1>4. ASSUME cur = Main, NextTest
      PROVE  InOrderOfMain'
  <2>1. at[Main].routine = "return" /\ UNCHANGED <<alive, h, result>>
    BY <1>4 DEF NextTest, vars, kernel
  <2>2. \A i \in Slot : NotCreated(i) /\ Workers[i] \notin alive
    <3>1. \A i \in Slot : h[i] # Workers[i]
      BY <2>1, Cast DEF InOrderOfMain, NotCreated
    <3>2. QED
      BY <2>1, <3>1 DEF InOrderOfMain, NotCreated
  <2>3. /\ Main \in alive /\ result["conc"] = NULL
        /\ \A i \in Slot : h[i] = NULL
    BY <1>0, <2>1, <2>2 DEF InOrderOfMain
  <2>4. \A u \in Programs \ {Main} : at'[u] = at[u]
    BY <1>4 DEF NextTest, StartBlock, GoTo, Places
  <2>5. QED
    BY <1>0, <2>1, <2>2, <2>3, <2>4
    DEF InOrderOfMain, Slot, CONC_THREADS, Programs
<1>5. ASSUME NEW i \in Slot, CreateWorker(i)
      PROVE  InOrderOfMain'
  <2>1. /\ at[Main] = At("create", i) /\ UNCHANGED result
        /\ at[Main].routine = "create" /\ at[Main].step = i
    BY <1>5 DEF CreateWorker, At
  <2>2. Main \in alive /\ result["conc"] = NULL /\ h[i] = NULL
        /\ \A j \in Slot : ~Waited(j) /\ (j >= i => NotCreated(j))
    <3>1. \A j \in Slot : ~Waited(j) /\ (j >= i => NotCreated(j))
      BY <2>1 DEF NotCreated, Waited
    <3>2. i >= i
      BY <1>0 DEF Slot
    <3>3. h[i] = NULL
      BY <3>1, <3>2 DEF InOrderOfMain
    <3>4. Main \in alive /\ result["conc"] = NULL
      BY <1>0, <2>1 DEF InOrderOfMain
    <3>5. QED
      BY <3>1, <3>3, <3>4
  <2>3. CASE /\ ThreadCreate(Workers[i])
             /\ h' = [h EXCEPT ![i] = Workers[i]]
             /\ at' = [at EXCEPT ![Main] = At("create", i + 1),
                                 ![Workers[i]] = At("hold", 1)]
    <3>1. /\ alive' = alive \cup {Workers[i]}
          /\ h'[i] = Workers[i] /\ \A j \in Slot \ {i} : h'[j] = h[j]
      BY <2>3 DEF ThreadCreate, Held
    <3>2. /\ at'[Main].routine = "create" /\ at'[Main].step = i + 1
          /\ at'[Workers[i]].routine = "hold"
          /\ \A t \in Programs \ {Main, Workers[i]} : at'[t] = at[t]
      <4>1. /\ at'[Main] = At("create", i + 1) /\ at'[Workers[i]] = At("hold", 1)
            /\ \A t \in Programs \ {Main, Workers[i]} : at'[t] = at[t]
        BY <2>1, <2>3, Starts
      <4>2. QED
        BY <4>1 DEF At
    <3>3. \A t \in Programs : at'[t].routine # "over" => t \in alive'
      BY <2>2, <3>1, <3>2 DEF InOrderOfMain
    <3>4. \A j \in Slot : Workers[j] \in alive' => h'[j] = Workers[j]
      BY <1>0, <3>1 DEF InOrderOfMain
    <3>5. \A j \in Slot : NotCreated(j)' => h'[j] = NULL
      <4>1. \A j \in Slot : NotCreated(j)' => j >= i + 1
        BY <3>2 DEF NotCreated, Kinds
      <4>2. \A j \in Slot : j >= i + 1 => j # i /\ j >= i
        BY <1>0 DEF Slot
      <4>3. QED
        BY <2>2, <3>1, <4>1, <4>2 DEF InOrderOfMain
    <3>6. \A j \in Slot : ~Waited(j)'
      BY <3>2 DEF Waited
    <3>7. QED
      BY <2>1, <2>2, <3>3, <3>4, <3>5, <3>6
      DEF InOrderOfMain, Slot, CONC_THREADS, Programs
  <2>4. CASE GoTo(Main, "create", i + 1) /\ UNCHANGED <<vars, h>>
    <3>1. /\ at'[Main].routine = "create" /\ at'[Main].step = i + 1
          /\ \A t \in Programs \ {Main} : at'[t] = at[t]
      BY <1>0, <2>4 DEF GoTo, At, Places
    <3>2. UNCHANGED <<alive, h>>
      BY <2>4 DEF vars, kernel
    <3>3. \A j \in Slot : (NotCreated(j)' => NotCreated(j)) /\ ~Waited(j)'
      BY <1>0, <2>1, <3>1 DEF NotCreated, Waited, Slot, Kinds
    <3>4. QED
      BY <2>1, <2>2, <3>1, <3>2, <3>3 DEF InOrderOfMain, Slot, CONC_THREADS, Programs
  <2>5. QED
    BY <1>5, <2>3, <2>4 DEF CreateWorker
<1>6. ASSUME Created
      PROVE  InOrderOfMain'
  <2>1. /\ at[Main].routine = "create" /\ at[Main].step = CONC_THREADS + 1
        /\ UNCHANGED <<alive, h>>
        /\ \A t \in Programs \ {Main} : at'[t] = at[t]
    BY <1>6 DEF Created, At, vars, kernel, GoTo, Places
  <2>2. Main \in alive /\ result["conc"] = NULL
    BY <1>0, <2>1 DEF InOrderOfMain
  <2>3. CASE started = 0 /\ GoTo(Main, "exit", 0)
    <3>1. \A i \in Slot : h[i] = NULL
      BY <2>3, NoneStarted DEF Started
    <3>2. \A i \in Slot : Workers[i] \notin alive
      BY <3>1, Cast DEF InOrderOfMain
    <3>3. at'[Main].routine = "exit"
      BY <1>0, <2>3 DEF GoTo, At, Places
    <3>4. QED
      BY <2>1, <2>2, <3>1, <3>2, <3>3
      DEF InOrderOfMain, Slot, CONC_THREADS, Programs
  <2>4. CASE GoTo(Main, "wait", 1) /\ UNCHANGED result
    <3>1. at'[Main].routine = "wait" /\ at'[Main].step = 1
      BY <1>0, <2>4 DEF GoTo, At, Places
    <3>2. \A i \in Slot : ~NotCreated(i)' /\ ~Waited(i)'
      BY <1>0, <3>1 DEF NotCreated, Waited, Slot, Kinds
    <3>3. QED
      BY <2>1, <2>2, <2>4, <3>2 DEF InOrderOfMain, Slot, CONC_THREADS, Programs
  <2>5. QED
    BY <1>6, <2>3, <2>4 DEF Created
<1>7. ASSUME NEW i \in Slot, WaitForWorker(i)
      PROVE  InOrderOfMain'
  <2>1. /\ at[Main].routine = "wait" /\ at[Main].step = i
        /\ UNCHANGED <<alive, h, result>>
        /\ at'[Main].routine = "wait" /\ at'[Main].step = i + 1
        /\ \A t \in Programs \ {Main} : at'[t] = at[t]
    BY <1>0, <1>7 DEF WaitForWorker, At, vars, kernel, GoTo, Places
  <2>2. Main \in alive
    BY <1>0, <2>1 DEF InOrderOfMain
  <2>3. Workers[i] \notin alive
    <3>1. h[i] \notin alive
      BY <1>7 DEF WaitForWorker, Waiting
    <3>2. QED
      BY <3>1 DEF InOrderOfMain
  <2>4. \A j \in Slot : ~NotCreated(j)' /\ (Waited(j)' => Waited(j) \/ j = i)
    BY <1>0, <2>1 DEF NotCreated, Waited, Slot, Kinds
  <2>5. QED
    BY <2>1, <2>2, <2>3, <2>4 DEF InOrderOfMain, Slot, CONC_THREADS, Programs
<1>8. ASSUME Verdict
      PROVE  InOrderOfMain'
  <2>1. /\ at[Main].routine = "wait" /\ at[Main].step = CONC_THREADS + 1
        /\ UNCHANGED <<alive, h>>
        /\ at'[Main].routine = "exit"
        /\ \A t \in Programs \ {Main} : at'[t] = at[t]
    BY <1>0, <1>8 DEF Verdict, At, vars, kernel, GoTo, Places
  <2>2. Main \in alive /\ \A i \in Slot : Waited(i)
    BY <1>0, <2>1 DEF InOrderOfMain, Waited, Slot
  <2>3. \A i \in Slot : ~NotCreated(i)'
    BY <2>1 DEF NotCreated, Kinds
  <2>4. QED
    BY <2>1, <2>2, <2>3 DEF InOrderOfMain, Slot, CONC_THREADS, Programs
<1>9. ASSUME Return
      PROVE  InOrderOfMain'
  <2>1. /\ at[Main].routine = "exit" /\ UNCHANGED <<alive, h, result>>
        /\ at'[Main].routine = "over"
        /\ \A t \in Programs \ {Main} : at'[t] = at[t]
    BY <1>0, <1>9 DEF Return, At, vars, kernel, GoTo, Places
  <2>2. \A i \in Slot : Waited(i) /\ ~NotCreated(i)'
    BY <2>1 DEF Waited, NotCreated, Kinds
  <2>3. QED
    BY <2>1, <2>2 DEF InOrderOfMain, Slot, CONC_THREADS, Programs
<1>10. ASSUME StartTest
       PROVE  InOrderOfMain'
  <2>1. /\ alive' = alive \cup {Main} /\ Main \notin alive
        /\ \A i \in Slot : h'[i] = NULL
        /\ result'["conc"] = NULL
        /\ \A t \in Programs \ {Main} : at'[t] = at[t]
    BY <1>10 DEF StartTest, ThreadCreate, NoHandle, NoResult, Places, Slot
  <2>2. \A i \in Slot : Waited(i)
    BY <1>0, <2>1 DEF InOrderOfMain, Waited
  <2>3. \A i \in Slot : Workers[i] \notin alive'
    BY <1>0, <2>1, <2>2 DEF InOrderOfMain
  <2>4. QED
    BY <2>1, <2>3 DEF InOrderOfMain, Slot, CONC_THREADS, Programs
<1>11. ASSUME NEW t \in Threads, cur \in Programs, ThreadEnds(t)
       PROVE  InOrderOfMain'
  <2>1. /\ alive' = alive \ {cur} /\ UNCHANGED <<at, h, result>>
        /\ at[cur].routine = "over"
    BY <1>11 DEF ThreadEnds, ThreadExit, program
  <2>2. QED
    BY <1>0, <1>11, <2>1
    DEF InOrderOfMain, NotCreated, Waited, Slot, CONC_THREADS, Programs
<1>12. ASSUME \/ TrapInBlock(cur) \/ LoaderTraps
              \/ \E t \in Threads : SwitchTo(t)
              \/ DriverMoves
              \/ UNCHANGED testVars
       PROVE  InOrderOfMain'
  <2>1. UNCHANGED <<at, h, result>>
    BY <1>12 DEF TrapInBlock, LoaderTraps, SwitchTo, DriverMoves, testVars, program
  <2>2. UNCHANGED alive
    <3>1. CASE TrapInBlock(cur) \/ LoaderTraps
      BY <3>1 DEF TrapInBlock, LoaderTraps, NmTrap
    <3>2. CASE UNCHANGED testVars
      BY <3>2 DEF testVars, allVars, vars, kernel
    <3>3. CASE \E t \in Threads : SwitchTo(t)
      BY <3>3 DEF SwitchTo, Switch
    <3>4. CASE DriverMoves
      BY <3>4, DriverLeavesThreads DEF DriverMoves
    <3>5. QED
      BY <1>12, <3>1, <3>2, <3>3, <3>4
  <2>3. QED
    BY <2>1, <2>2, OrderLeft
<1>13. QED
  BY TestSteps, <1>1, <1>2, <1>3, <1>4, <1>5, <1>6, <1>7, <1>8, <1>9, <1>10, <1>11, <1>12

LEMMA CountedSets ==
  /\ IsFiniteSet(Slot) /\ Cardinality(Slot) = CONC_THREADS
  /\ Started \subseteq Slot /\ HasEnded \subseteq IsThrough
  /\ IsThrough \subseteq Started /\ HasHeld \subseteq IsThrough
  /\ \A S \in SUBSET Slot : IsFiniteSet(S) /\ Cardinality(S) \in 0 .. CONC_THREADS
<1>1. IsFiniteSet(Slot) /\ Cardinality(Slot) = CONC_THREADS
  <2>1. 1 \in Int /\ CONC_THREADS \in Int /\ CONC_THREADS \in Nat
    BY Cast
  <2>2. IsFiniteSet(1 .. CONC_THREADS)
        /\ Cardinality(1 .. CONC_THREADS) =
             IF 1 > CONC_THREADS THEN 0 ELSE CONC_THREADS - 1 + 1
    BY <2>1, FS_Interval
  <2>3. QED
    BY <2>1, <2>2 DEF Slot
<1>2. ASSUME NEW S \in SUBSET Slot
      PROVE  IsFiniteSet(S) /\ Cardinality(S) \in 0 .. CONC_THREADS
  BY <1>1, FS_Subset, FS_CardinalityType, Cast
<1>3. QED
  BY <1>1, <1>2 DEF Started, HasEnded, IsThrough, HasHeld

\* One slot more is one more to count.
LEMMA OneMore ==
  ASSUME NEW S \in SUBSET Slot, NEW i \in Slot \ S
  PROVE  /\ Cardinality(S \cup {i}) = Cardinality(S) + 1
         /\ Cardinality(S) \in Nat
BY CountedSets, FS_AddElement, FS_CardinalityType

\* The counts stay while no counter changes, no slot and no thread that is through.
LEMMA CountsStay ==
  ASSUME Counted, UNCHANGED <<counters, h>>,
         \A i \in Slot : h[i] # NULL =>
           /\ at'[Workers[i]].routine = at[Workers[i]].routine
                \/ {at[Workers[i]].routine, at'[Workers[i]].routine}
                     \subseteq {"hold", "corrupt", "faulted"}
           /\ at[Workers[i]].routine \in {"ready", "over"} =>
                readback'[Workers[i]] = readback[Workers[i]]
  PROVE  Counted'
<1>1. UNCHANGED Started
  BY DEF Started, Slot, CONC_THREADS
<1>2. UNCHANGED HasEnded /\ UNCHANGED IsThrough
  BY <1>1 DEF HasEnded, IsThrough, Started
<1>3. UNCHANGED HasHeld
  BY <1>2 DEF HasHeld, IsThrough, Started, Pattern
<1>4. QED
  BY <1>1, <1>2, <1>3 DEF Counted, counters

\* Nothing has been started, nothing counted.
NoneCounted ==
  g_Corrupt = 0 /\ g_Faulted = 0 /\ g_Ready = 0 /\ \A i \in Slot : h[i] = NULL

LEMMA NothingCounted == NoneCounted => Counted
<1> SUFFICES ASSUME NoneCounted PROVE Counted
  OBVIOUS
<1>1. HasEnded = {} /\ IsThrough = {} /\ HasHeld = {}
  BY DEF NoneCounted, HasEnded, IsThrough, HasHeld, Started
<1>2. QED
  BY <1>1, FS_EmptySet DEF Counted, NoneCounted

\* What a worker's last instruction leaves behind when it ends the block well.
LEMMA PatternHeld ==
  ASSUME Places, Held, NEW t \in Programs, t # Main,
         InBlock(t), ReadBack(t) \/ Compute(t),
         at[t].step = Length(at[t].routine), readback'[t] \subseteq Expected(t)
  PROVE  readback'[t] = {Pattern(t)}
<1>1. /\ Code(t) = HoldTest(Pattern(t)) /\ at[t].routine = "hold"
      /\ at[t].step = 2 * REGISTERS
  BY Instructions DEF Length
<1>2. 2 * REGISTERS \in 1 .. 2 * REGISTERS /\ ~(2 * REGISTERS <= REGISTERS)
  BY SseTestAssumption
<1>3. Instruction(t).op = "store"
  BY <1>1, <1>2, Holding DEF Instruction
<1>4. Expected(t) \subseteq {Pattern(t)}
  BY <1>1, Holding DEF Expected
<1>5. readback'[t] # {}
  BY <1>3 DEF ReadBack, Compute, Held
<1>6. QED
  BY <1>4, <1>5

\* A worker comes through its block.
LEMMA ComesThrough ==
  ASSUME Held, Counted, NEW i \in Slot, h[i] # NULL, UNCHANGED <<h, g_Ready>>,
         at[Workers[i]].routine \notin {"ready", "over"},
         at'[Workers[i]].routine = "ready",
         \A j \in Slot \ {i} : /\ at'[Workers[j]] = at[Workers[j]]
                               /\ readback'[Workers[j]] = readback[Workers[j]],
         \/ /\ readback'[Workers[i]] = {Pattern(Workers[i])}
            /\ g_Corrupt' + g_Faulted' = g_Corrupt + g_Faulted
         \/ g_Corrupt' + g_Faulted' = g_Corrupt + g_Faulted + 1
  PROVE  Counted'
<1>1. UNCHANGED Started /\ i \in Started
  BY DEF Started, Slot, CONC_THREADS
<1>2. UNCHANGED HasEnded
  BY <1>1 DEF HasEnded, Started
<1>3. IsThrough' = IsThrough \cup {i} /\ i \notin IsThrough
  BY <1>1 DEF IsThrough, Started
<1>4. /\ HasHeld' \in {HasHeld, HasHeld \cup {i}} /\ i \notin HasHeld
      /\ readback'[Workers[i]] = {Pattern(Workers[i])} => HasHeld' = HasHeld \cup {i}
  BY <1>3 DEF HasHeld, IsThrough, Started, Pattern
<1>5. /\ Cardinality(IsThrough') = Cardinality(IsThrough) + 1
      /\ Cardinality(IsThrough) \in Nat
  BY <1>3, CountedSets, OneMore
<1>6. /\ Cardinality(HasHeld \cup {i}) = Cardinality(HasHeld) + 1
      /\ Cardinality(HasHeld) \in Nat
  BY <1>4, CountedSets, OneMore
<1>7. /\ Cardinality(HasHeld') >= Cardinality(HasHeld)
      /\ Cardinality(HasHeld') \in Nat
      /\ readback'[Workers[i]] = {Pattern(Workers[i])} =>
           Cardinality(HasHeld') = Cardinality(HasHeld) + 1
  BY <1>4, <1>6
<1>8. g_Corrupt + g_Faulted \in Nat
  BY DEF Held
<1>9. /\ g_Corrupt' + g_Faulted' <= Cardinality(IsThrough')
      /\ Cardinality(IsThrough') <= g_Corrupt' + g_Faulted' + Cardinality(HasHeld')
  BY <1>5, <1>6, <1>7, <1>8 DEF Counted
<1>10. g_Ready' = Cardinality(HasEnded')
  BY <1>2 DEF Counted
<1>11. QED
  BY <1>9, <1>10 DEF Counted

LEMMA CountedHolds ==
  ASSUME LifeTypeOK, Places, Held, InOrderOfMain, Counted, [TestNext]_testVars
  PROVE  Counted'
<1>0. /\ Main \in Programs /\ CONC_THREADS \in Nat
      /\ \A i \in Slot : Workers[i] \in Programs /\ Workers[i] # Main
      /\ \A i, j \in Slot : Workers[i] = Workers[j] => i = j
      /\ \A t \in Programs : t # Main => \E i \in Slot : t = Workers[i]
      /\ at[Main].routine \in MainRoutines
      /\ \A i \in Slot : h[i] \in {NULL, Workers[i]}
  BY Cast DEF Places, Held
<1>1. ASSUME NEW t \in Programs, InBlock(t) \/ at[t].routine = "corrupt"
                                   \/ at[t].routine = "faulted" \/ at[t].routine = "ready",
             t # Main
      PROVE  \E i \in Slot : t = Workers[i] /\ h[i] # NULL
  <2>1. t \in alive
    BY <1>1 DEF InOrderOfMain, InBlock, Routines, Kinds
  <2>2. QED
    BY <1>0, <1>1, <2>1, Cast DEF InOrderOfMain
\* main does something of its own
<1>2. ASSUME UNCHANGED <<counters, h>>,
             \A u \in Programs \ {Main} : at'[u] = at[u] /\ readback'[u] = readback[u]
      PROVE  Counted'
  BY <1>0, <1>2, CountsStay
<1>3. ASSUME cur \in Programs, ReadBack(cur) \/ Compute(cur)
      PROVE  Counted'
  <2>. PICK t \in Programs : t = cur
    BY <1>3
  <2>1. /\ InBlock(t) /\ NextInstruction(t) /\ UNCHANGED <<counters, h>>
        /\ \A u \in Programs \ {t} : readback'[u] = readback[u]
    BY <1>3 DEF ReadBack, Compute, Held
  <2>2. \E routine, step :
          /\ Fits(t, routine, step) /\ GoTo(t, routine, step)
          /\ t = Main \/ routine \in {at[t].routine, "corrupt"}
             \/ /\ routine = "ready"
                /\ at[t].step = Length(at[t].routine)
                /\ readback'[t] \subseteq Expected(t)
    BY <2>1, NextGoes
  <2>. PICK routine, step :
          /\ Fits(t, routine, step) /\ GoTo(t, routine, step)
          /\ t = Main \/ routine \in {at[t].routine, "corrupt"}
             \/ /\ routine = "ready"
                /\ at[t].step = Length(at[t].routine)
                /\ readback'[t] \subseteq Expected(t)
    BY <2>2
  <2>3. at'[t].routine = routine /\ \A u \in Programs \ {t} : at'[u] = at[u]
    <3>1. at'[t] = At(routine, step) /\ \A u \in Programs \ {t} : at'[u] = at[u]
      BY Goes
    <3>2. QED
      BY <3>1 DEF At
  <2>4. CASE t = Main
    BY <1>2, <2>1, <2>3, <2>4
  <2>5. CASE t # Main
    <3>. PICK i \in Slot : t = Workers[i] /\ h[i] # NULL
      BY <1>1, <2>1, <2>5
    <3>1. at[t].routine = "hold"
      BY <2>1, <2>5, Instructions
    <3>2. \A j \in Slot \ {i} : /\ at'[Workers[j]] = at[Workers[j]]
                                /\ readback'[Workers[j]] = readback[Workers[j]]
      BY <1>0, <2>1, <2>3
    <3>3. CASE at'[t].routine \in {"hold", "corrupt"}
      <4>1. {at[t].routine, at'[t].routine} \subseteq {"hold", "corrupt", "faulted"}
        BY <3>1, <3>3
      <4>2. QED
        BY <2>1, <3>1, <3>2, <4>1, CountsStay
    <3>4. CASE at'[t].routine = "ready"
      <4>1. at[t].step = Length(at[t].routine) /\ readback'[t] \subseteq Expected(t)
        BY <2>3, <2>5, <3>1, <3>4
      <4>2. readback'[t] = {Pattern(t)}
        BY <1>3, <2>1, <2>5, <4>1, PatternHeld
      <4>3. UNCHANGED g_Ready /\ g_Corrupt' + g_Faulted' = g_Corrupt + g_Faulted
        BY <2>1 DEF counters
      <4>4. QED
        BY <2>1, <3>1, <3>2, <3>4, <4>2, <4>3, ComesThrough
    <3>5. at'[t].routine \in {"hold", "corrupt", "ready"}
      BY <2>3, <2>5, <3>1
    <3>6. QED
      BY <3>3, <3>4, <3>5
  <2>6. QED
    BY <2>4, <2>5
<1>4. ASSUME cur \in Programs, Fault(cur)
      PROVE  Counted'
  <2>. PICK t \in Programs : t = cur
    BY <1>4
  <2>1. /\ InBlock(t) /\ UNCHANGED <<readback, counters, h>>
        /\ \A u \in Programs \ {t} : at'[u] = at[u]
        /\ at[t].routine = "hold" => at'[t].routine = "faulted"
    BY <1>4 DEF Fault, GoTo, At, Places
  <2>2. at[t].routine = "hold" <=> t # Main
    BY <2>1, Instructions
  <2>3. CASE t = Main
    BY <1>2, <2>1, <2>3
  <2>4. CASE t # Main
    <3>1. {at[t].routine, at'[t].routine} \subseteq {"hold", "corrupt", "faulted"}
      BY <2>1, <2>2, <2>4
    <3>2. QED
      BY <1>0, <2>1, <3>1, CountsStay
  <2>5. QED
    BY <2>3, <2>4
<1>5. ASSUME cur \in Programs, CountCorrupt(cur) \/ CountFaulted(cur)
      PROVE  Counted'
  <2>. PICK t \in Programs : t = cur
    BY <1>5
  <2>1. /\ at[t].routine \in {"corrupt", "faulted"}
        /\ at'[t].routine = "ready"
        /\ \A u \in Programs \ {t} : at'[u] = at[u]
        /\ UNCHANGED <<readback, h, g_Ready>>
        /\ g_Corrupt' + g_Faulted' = g_Corrupt + g_Faulted + 1
    BY <1>5 DEF CountCorrupt, CountFaulted, GoTo, At, Places, Held
  <2>2. t # Main
    BY <2>1 DEF Places, MainRoutines, Kinds
  <2>. PICK i \in Slot : t = Workers[i] /\ h[i] # NULL
    BY <1>1, <2>1, <2>2
  <2>3. QED
    BY <1>0, <2>1, ComesThrough
<1>6. ASSUME cur \in Programs, CountReady(cur)
      PROVE  Counted'
  <2>. PICK t \in Programs : t = cur
    BY <1>6
  <2>1. /\ at[t].routine = "ready" /\ at'[t].routine = "over"
        /\ \A u \in Programs \ {t} : at'[u] = at[u]
        /\ UNCHANGED <<readback, h, g_Corrupt, g_Faulted>> /\ g_Ready' = g_Ready + 1
    BY <1>6 DEF CountReady, GoTo, At, Places
  <2>2. t # Main
    BY <2>1 DEF Places, MainRoutines, Kinds
  <2>. PICK i \in Slot : t = Workers[i] /\ h[i] # NULL
    BY <1>1, <2>1, <2>2
  <2>3. \A j \in Slot \ {i} : at'[Workers[j]] = at[Workers[j]]
    BY <1>0, <2>1
  <2>4. UNCHANGED Started /\ i \in Started
    BY <2>1 DEF Started, Slot, CONC_THREADS
  <2>5. UNCHANGED IsThrough
    BY <2>1, <2>3, <2>4 DEF IsThrough, Started
  <2>6. UNCHANGED HasHeld
    BY <2>1, <2>5 DEF HasHeld, Pattern
  <2>7. HasEnded' = HasEnded \cup {i} /\ i \notin HasEnded
    BY <2>1, <2>3, <2>4 DEF HasEnded, Started
  <2>8. Cardinality(HasEnded') = Cardinality(HasEnded) + 1
    BY <2>7, CountedSets, OneMore
  <2>9. QED
    BY <2>1, <2>5, <2>6, <2>8 DEF Counted
<1>7. ASSUME NextTest
      PROVE  Counted'
  <2>1. /\ at[Main].routine = "return" /\ UNCHANGED h
        /\ UNCHANGED counters \/ (g_Corrupt' = 0 /\ g_Faulted' = 0 /\ g_Ready' = 0)
        /\ \A u \in Programs \ {Main} : at'[u] = at[u] /\ readback'[u] = readback[u]
    BY <1>7 DEF NextTest, StartBlock, GoTo, Places, Held
  <2>2. \A i \in Slot : h'[i] = NULL
    BY <2>1 DEF InOrderOfMain, NotCreated
  <2>3. CASE UNCHANGED counters
    BY <1>2, <2>1, <2>3
  <2>4. CASE g_Corrupt' = 0 /\ g_Faulted' = 0 /\ g_Ready' = 0
    <3>1. NoneCounted'
      BY <2>2, <2>4 DEF NoneCounted, Slot, CONC_THREADS
    <3>2. QED
      BY <3>1, NothingCounted, PTL
  <2>5. QED
    BY <2>1, <2>3, <2>4
<1>8. ASSUME NEW i \in Slot, CreateWorker(i)
      PROVE  Counted'
  <2>1. at[Main] = At("create", i) /\ UNCHANGED counters
    BY <1>8 DEF CreateWorker
  <2>2. CASE /\ h' = [h EXCEPT ![i] = Workers[i]]
             /\ at' = [at EXCEPT ![Main] = At("create", i + 1),
                                 ![Workers[i]] = At("hold", 1)]
             /\ readback' = [readback EXCEPT ![Workers[i]] = {}]
    <3>1. h[i] = NULL
      <4>1. i >= i
        BY <1>0 DEF Slot
      <4>2. QED
        BY <2>1, <4>1 DEF InOrderOfMain, NotCreated, At
    <3>2. /\ at'[Workers[i]].routine = "hold"
          /\ \A t \in Programs \ {Main, Workers[i]} : at'[t] = at[t]
      <4>1. /\ at'[Workers[i]] = At("hold", 1)
            /\ \A t \in Programs \ {Main, Workers[i]} : at'[t] = at[t]
        BY <2>1, <2>2, Starts
      <4>2. QED
        BY <4>1 DEF At
    <3>3. \A j \in Slot \ {i} : /\ at'[Workers[j]] = at[Workers[j]] /\ h'[j] = h[j]
                                /\ readback'[Workers[j]] = readback[Workers[j]]
      BY <1>0, <2>2, <3>2 DEF Held
    <3>4. UNCHANGED HasEnded /\ UNCHANGED IsThrough
      BY <3>1, <3>2, <3>3 DEF HasEnded, IsThrough, Started, Slot, CONC_THREADS
    <3>5. i \notin IsThrough
      BY <3>1 DEF IsThrough, Started
    <3>6. UNCHANGED HasHeld
      BY <3>3, <3>4, <3>5, CountedSets DEF HasHeld, Pattern
    <3>7. QED
      BY <2>1, <3>4, <3>6 DEF Counted, counters
  <2>3. CASE GoTo(Main, "create", i + 1) /\ UNCHANGED <<vars, h, readback, unowned>>
    <3>1. \A u \in Programs \ {Main} : at'[u] = at[u] /\ readback'[u] = readback[u]
      BY <2>3 DEF GoTo, Places
    <3>2. QED
      BY <1>2, <2>1, <2>3, <3>1
  <2>4. QED
    BY <1>8, <2>2, <2>3 DEF CreateWorker
<1>9. ASSUME \/ \E i \in Slot : WaitForWorker(i)
             \/ Created \/ Verdict \/ Return
      PROVE  Counted'
  <2>1. UNCHANGED <<readback, counters, h>>
    BY <1>9 DEF WaitForWorker, Created, Verdict, Return
  <2>2. \A u \in Programs \ {Main} : at'[u] = at[u]
    BY <1>9 DEF WaitForWorker, Created, Verdict, Return, GoTo, Places
  <2>3. QED
    BY <1>2, <2>1, <2>2
<1>10. ASSUME StartTest
       PROVE  Counted'
  <2>1. NoneCounted'
    BY <1>10 DEF StartTest, NoneCounted, NoHandle, Slot, CONC_THREADS
  <2>2. QED
    BY <2>1, NothingCounted, PTL
<1>11. ASSUME \/ TrapInBlock(cur) \/ LoaderTraps \/ DriverMoves \/ UNCHANGED testVars
              \/ \E t \in Threads : SwitchTo(t) \/ ThreadEnds(t)
       PROVE  Counted'
  <2>1. UNCHANGED program
    BY <1>11 DEF TrapInBlock, LoaderTraps, DriverMoves, testVars, SwitchTo, ThreadEnds
  <2>2. QED
    BY <1>2, <2>1 DEF program
<1>12. QED
  BY TestSteps, <1>3, <1>4, <1>5, <1>6, <1>7, <1>8, <1>9, <1>10, <1>11

-----------------------------------------------------------------------------
(* The verdict.                                                            *)

\* A worker that still has something to do keeps main from judging.
LEMMA NotJudgedYet ==
  ASSUME Places, InOrderOfMain, NEW t \in Programs, t # Main, at[t].routine # "over"
  PROVE  result["conc"] = NULL
<1>1. PICK i \in Slot : t = Workers[i]
  BY Cast
<1>2. t \in alive
  BY DEF InOrderOfMain
<1>3. ~Waited(i)
  BY <1>1, <1>2 DEF InOrderOfMain
<1>4. QED
  BY <1>3 DEF Waited, InOrderOfMain

LEMMA JudgedStays ==
  ASSUME Judged, UNCHANGED <<g_Corrupt, g_Faulted, h>>, result'["conc"] = result["conc"]
  PROVE  Judged'
BY DEF Judged, Started, Slot, CONC_THREADS

LEMMA NoVerdict ==
  ASSUME result'["conc"] # R_OK
  PROVE  Judged'
BY DEF Judged, R_OK

LEMMA JudgedHolds ==
  ASSUME LifeTypeOK, Places, Held, InOrderOfMain, Judged, [TestNext]_testVars
  PROVE  Judged'
<1>0. NULL # R_OK /\ R_FAULTED # R_OK /\ R_WRONG # R_OK
  BY SseTestAssumption DEF R_OK, R_FAULTED, R_WRONG
<1>1. ASSUME cur \in Programs, ReadBack(cur) \/ Compute(cur) \/ Fault(cur)
      PROVE  Judged'
  <2>. PICK t \in Programs : t = cur
    BY <1>1
  <2>1. InBlock(t) /\ UNCHANGED <<g_Corrupt, g_Faulted, h>>
    BY <1>1 DEF ReadBack, Compute, Fault, counters
  <2>2. result'["conc"] = result["conc"]
    <3>1. t = Main => at[t].routine \in Kinds
      BY <2>1, Instructions
    <3>2. at[t].routine = "hold" <=> t # Main
      BY <2>1, Instructions
    <3>3. CASE Fault(cur)
      BY <3>1, <3>2, <3>3 DEF Fault, Held, Kinds
    <3>4. CASE ReadBack(cur) \/ Compute(cur)
      <4>1. NextInstruction(t)
        BY <3>4 DEF ReadBack, Compute
      <4>2. QED
        BY <2>1, <3>1, <4>1, NextGoes DEF Held, Kinds
    <3>5. QED
      BY <1>1, <3>3, <3>4
  <2>3. QED
    BY <2>1, <2>2, JudgedStays
<1>2. ASSUME cur \in Programs, CountCorrupt(cur) \/ CountFaulted(cur) \/ CountReady(cur)
      PROVE  Judged'
  <2>. PICK t \in Programs : t = cur
    BY <1>2
  <2>1. at[t].routine \in {"corrupt", "faulted", "ready"} /\ UNCHANGED result
    BY <1>2 DEF CountCorrupt, CountFaulted, CountReady
  <2>2. t # Main
    BY <2>1 DEF Places, MainRoutines, Kinds
  <2>3. result["conc"] = NULL
    BY <2>1, <2>2, NotJudgedYet
  <2>4. QED
    BY <1>0, <2>1, <2>3, NoVerdict
<1>3. ASSUME NextTest \/ \E i \in Slot : CreateWorker(i)
      PROVE  Judged'
  <2>1. at[Main].routine \in {"return", "create"} /\ UNCHANGED result
    <3>1. CASE NextTest
      BY <3>1 DEF NextTest
    <3>2. ASSUME NEW i \in Slot, CreateWorker(i)
          PROVE  at[Main].routine = "create" /\ UNCHANGED result
      <4>1. at[Main] = At("create", i) /\ UNCHANGED result
        BY <3>2 DEF CreateWorker
      <4>2. QED
        BY <4>1 DEF At
    <3>3. QED
      BY <1>3, <3>1, <3>2
  <2>2. result["conc"] = NULL
    BY <2>1 DEF InOrderOfMain
  <2>3. QED
    BY <1>0, <2>1, <2>2, NoVerdict
<1>4. ASSUME Created \/ StartTest
      PROVE  Judged'
  <2>1. CASE StartTest
    <3>1. result' = NoResult
      BY <2>1 DEF StartTest
    <3>2. result'["conc"] = NULL
      BY <3>1 DEF NoResult
    <3>3. QED
      BY <1>0, <3>2, NoVerdict
  <2>2. CASE Created /\ UNCHANGED result
    BY <2>2, JudgedStays DEF Created, counters
  <2>3. CASE result' = [result EXCEPT !["conc"] = R_FAULTED]
    BY <1>0, <2>3, NoVerdict DEF Held
  <2>4. QED
    BY <1>4, <2>1, <2>2, <2>3 DEF Created
<1>5. ASSUME Verdict
      PROVE  Judged'
  <2>1. UNCHANGED <<g_Corrupt, g_Faulted, h>> /\ started = Cardinality(Started)
    BY <1>5, NoneStarted DEF Verdict, counters
  <2>2. UNCHANGED Started
    BY <2>1 DEF Started, Slot, CONC_THREADS
  <2>3. CASE result'["conc"] # R_OK
    BY <2>3, NoVerdict
  <2>4. CASE result'["conc"] = R_OK
    <3>1. g_Faulted # started /\ ~(g_Corrupt > 0)
      BY <1>0, <1>5, <2>4 DEF Verdict, Held
    <3>2. g_Corrupt = 0
      BY <3>1 DEF Held
    <3>3. QED
      BY <2>1, <2>2, <3>1, <3>2 DEF Judged
  <2>5. QED
    BY <2>3, <2>4
<1>6. ASSUME \/ TrapInBlock(cur) \/ LoaderTraps \/ DriverMoves \/ UNCHANGED testVars
             \/ Return \/ \E i \in Slot : WaitForWorker(i)
             \/ \E t \in Threads : SwitchTo(t) \/ ThreadEnds(t)
      PROVE  Judged'
  <2>1. UNCHANGED <<result, counters, h>>
    BY <1>6 DEF TrapInBlock, LoaderTraps, DriverMoves, testVars, SwitchTo, ThreadEnds,
                program, Return, WaitForWorker
  <2>2. QED
    BY <2>1, JudgedStays DEF counters
<1>7. QED
  BY TestSteps, <1>1, <1>2, <1>3, <1>4, <1>5, <1>6

-----------------------------------------------------------------------------
(* Nothing faults.                                                         *)

LEMMA NothingMore ==
  ASSUME NothingFaults, UNCHANGED <<result, h, g_Faulted, exitCode, processor>>,
         steady' => steady, pc' = pc,
         \A i \in Slot : at'[Workers[i]].routine = "faulted" =>
                           at[Workers[i]].routine = "faulted"
  PROVE  NothingFaults'
BY DEF NothingFaults, Started, Slot, CONC_THREADS

\* With the driver loaded only what the processor lacks is undefined.
LEMMA NotUndefined ==
  ASSUME LifeInv, Capable, Places, NEW t \in Programs, InBlock(t), pc = "loaded"
  PROVE  /\ t # Main => ~Undefined(t)
         /\ at[t].routine = "ps" => ~Undefined(t)
         /\ at[t].routine = "pd" /\ Undefined(t) => "SSE2" \notin processor
<1>1. osfxsr
  BY DEF LifeInv, Installed, SseOn, InOrder, After, LowIn, HighIn, OpIn, RelIn
<1>2. "SSE" \in processor
  BY DEF Capable, NoPool
<1>3. t # Main => at[t].routine = "hold"
  BY Instructions
<1>4. QED
  BY <1>1, <1>2, <1>3 DEF Undefined

LEMMA NothingFaultsHolds ==
  ASSUME TestBase, Capable, InOrderOfMain, NothingFaults, [TestNext]_testVars
  PROVE  NothingFaults'
<1>0. /\ LifeTypeOK /\ LifeInv /\ Places /\ Held
      /\ Main \in Programs /\ (\A i \in Slot : Workers[i] \in Programs /\ Workers[i] # Main)
      /\ NULL # R_FAULTED /\ R_FAULTED # R_OK /\ R_FAULTED # R_WRONG /\ NULL # 2
  BY Cast, SseTestAssumption, DataLayerAssumption
  DEF TestBase, MemoryInv, R_OK, R_FAULTED, R_WRONG
<1>1. ASSUME Beside
      PROVE  steady' = steady /\ pc' = pc /\ processor' = processor
  BY <1>1 DEF Beside, life
<1>2. ASSUME Beside, cur \in Programs, ReadBack(cur) \/ Compute(cur)
      PROVE  NothingFaults'
  <2>. PICK t \in Programs : t = cur
    BY <1>2
  <2>1. InBlock(t) /\ NextInstruction(t) /\ UNCHANGED <<h, g_Faulted, exitCode>>
    BY <1>2 DEF ReadBack, Compute, counters
  <2>2. \E routine, step :
          /\ Fits(t, routine, step) /\ GoTo(t, routine, step)
          /\ routine \in {at[t].routine, "corrupt", "ready", "return"}
    BY <1>0, <2>1, NextGoes
  <2>. PICK routine, step :
          /\ Fits(t, routine, step) /\ GoTo(t, routine, step)
          /\ routine \in {at[t].routine, "corrupt", "ready", "return"}
    BY <2>2
  <2>3. at'[t] = At(routine, step) /\ \A u \in Programs \ {t} : at'[u] = at[u]
    BY <1>0, Goes
  <2>4. at'[t].routine # "faulted"
    BY <2>1, <2>3 DEF At, InBlock, Routines, Kinds
  <2>5. \A i \in Slot : at'[Workers[i]].routine = "faulted" =>
                          at[Workers[i]].routine = "faulted"
    BY <1>0, <2>3, <2>4
  <2>6. \A k \in Kinds \cup {"conc"} : result'[k] = R_FAULTED => result[k] = R_FAULTED
    <3>1. \/ UNCHANGED result
          \/ \E v \in {R_OK, R_WRONG} : result' = [result EXCEPT ![at[t].routine] = v]
      BY <1>0, <2>1, NextGoes
    <3>2. QED
      BY <1>0, <3>1 DEF Held
  <2>7. "ps" \in Kinds /\ "pd" \in Kinds
    BY DEF Kinds
  <2>8. QED
    BY <1>1, <1>2, <2>1, <2>5, <2>6, <2>7 DEF NothingFaults, Started, Slot, CONC_THREADS
<1>3. ASSUME Beside, cur \in Programs, Fault(cur)
      PROVE  NothingFaults'
  <2>. SUFFICES ASSUME steady' PROVE NothingFaults'
    BY DEF NothingFaults
  <2>. PICK t \in Programs : t = cur
    BY <1>3
  <2>1. InBlock(t) /\ Undefined(t) /\ UNCHANGED <<h, counters, exitCode>>
    BY <1>3 DEF Fault
  <2>2. steady /\ pc = "loaded"
    BY <1>1, <1>3 DEF NothingFaults
  <2>3. t = Main /\ at[t].routine \in Kinds \ {"ps"}
        /\ (at[t].routine = "pd" => "SSE2" \notin processor)
    BY <1>0, <2>1, <2>2, NotUndefined, Instructions
  <2>4. /\ result' = [result EXCEPT ![at[t].routine] = R_FAULTED]
        /\ \A u \in Programs \ {Main} : at'[u] = at[u]
    <3>1. at[t].routine # "hold"
      BY <2>3 DEF Kinds
    <3>2. /\ result' = [result EXCEPT ![at[t].routine] = R_FAULTED]
          /\ GoTo(Main, "return", 0)
      BY <1>3, <2>3, <3>1 DEF Fault
    <3>3. QED
      BY <1>0, <3>2 DEF GoTo, Places
  <2>5. /\ result'["ps"] = result["ps"] /\ result'["conc"] = result["conc"]
        /\ result'["pd"] = R_FAULTED => result["pd"] = R_FAULTED \/ at[t].routine = "pd"
    BY <1>0, <2>3, <2>4 DEF Held, Kinds
  <2>6. QED
    BY <1>0, <1>1, <1>3, <2>1, <2>2, <2>3, <2>4, <2>5
    DEF NothingFaults, Started, Slot, CONC_THREADS, counters
<1>4. ASSUME Beside, cur \in Programs,
             CountCorrupt(cur) \/ CountFaulted(cur) \/ CountReady(cur)
      PROVE  NothingFaults'
  <2>. SUFFICES ASSUME steady' PROVE NothingFaults'
    BY DEF NothingFaults
  <2>. PICK t \in Programs : t = cur
    BY <1>4
  <2>1. /\ at[t].routine \in {"corrupt", "faulted", "ready"}
        /\ UNCHANGED <<result, h, exitCode>>
        /\ at'[t].routine \in {"ready", "over"}
        /\ \A u \in Programs \ {t} : at'[u] = at[u]
        /\ at[t].routine # "faulted" => UNCHANGED g_Faulted
    BY <1>0, <1>4 DEF CountCorrupt, CountFaulted, CountReady, GoTo, At, Places
  <2>2. at[t].routine # "faulted"
    <3>1. t # Main
      BY <1>0, <2>1 DEF Places, MainRoutines, Kinds
    <3>2. PICK i \in Slot : t = Workers[i]
      BY <3>1, Cast
    <3>3. QED
      BY <1>1, <1>4, <3>2 DEF NothingFaults
  <2>3. \A i \in Slot : at'[Workers[i]].routine = "faulted" =>
                          at[Workers[i]].routine = "faulted"
    BY <1>0, <2>1
  <2>4. QED
    BY <1>1, <1>4, <2>1, <2>2, <2>3, NothingMore
<1>5. ASSUME Beside, NextTest
      PROVE  NothingFaults'
  <2>1. /\ UNCHANGED <<result, h, exitCode>> /\ g_Faulted' \in {g_Faulted, 0}
        /\ \A u \in Programs \ {Main} : at'[u] = at[u]
    BY <1>0, <1>5 DEF NextTest, StartBlock, GoTo, Places, counters
  <2>2. QED
    BY <1>0, <1>1, <1>5, <2>1 DEF NothingFaults, Started, Slot, CONC_THREADS
<1>6. ASSUME Beside, NEW i \in Slot, CreateWorker(i)
      PROVE  NothingFaults'
  <2>1. /\ UNCHANGED <<result, counters, exitCode>>
        /\ at[Main] = At("create", i)
    BY <1>6 DEF CreateWorker
  <2>2. result["conc"] = NULL
    BY <2>1 DEF InOrderOfMain, At
  <2>3. \A j \in Slot : at'[Workers[j]].routine = "faulted" =>
                          at[Workers[j]].routine = "faulted"
    <3>1. CASE GoTo(Main, "create", i + 1)
      BY <1>0, <3>1 DEF GoTo, Places
    <3>2. CASE at' = [at EXCEPT ![Main] = At("create", i + 1),
                                ![Workers[i]] = At("hold", 1)]
      <4>1. /\ at'[Workers[i]] = At("hold", 1)
            /\ \A t \in Programs \ {Main, Workers[i]} : at'[t] = at[t]
        BY <1>0, <2>1, <3>2, Starts
      <4>2. at'[Workers[i]].routine = "hold"
        BY <4>1 DEF At
      <4>3. QED
        BY <1>0, <4>1, <4>2
    <3>3. QED
      BY <1>6, <3>1, <3>2 DEF CreateWorker
  <2>4. QED
    BY <1>0, <1>1, <1>6, <2>1, <2>2, <2>3
    DEF NothingFaults, Started, Slot, CONC_THREADS, counters
<1>7. ASSUME Beside, Created \/ Verdict
      PROVE  NothingFaults'
  <2>. SUFFICES ASSUME steady' PROVE NothingFaults'
    BY DEF NothingFaults
  <2>1. /\ UNCHANGED <<counters, h, exitCode>>
        /\ \A u \in Programs \ {Main} : at'[u] = at[u]
    BY <1>0, <1>7 DEF Created, Verdict, GoTo, Places
  <2>2. UNCHANGED Started
    BY <2>1 DEF Started, Slot, CONC_THREADS
  <2>3. result'["ps"] = result["ps"] /\ result'["pd"] = result["pd"]
    BY <1>0, <1>7 DEF Created, Verdict, Held, Kinds
  <2>4. result'["conc"] = R_FAULTED => result["conc"] = R_FAULTED \/ Started = {}
    <3>1. g_Faulted = 0
      BY <1>1, <1>7 DEF NothingFaults
    <3>2. started # 0 /\ Created => UNCHANGED result
      BY DEF Created
    <3>3. started # 0 /\ Verdict => result'["conc"] # R_FAULTED
      BY <1>0, <3>1 DEF Verdict, Held
    <3>4. QED
      BY <1>0, <1>7, <3>2, <3>3, NoneStarted
  <2>5. QED
    BY <1>0, <1>1, <1>7, <2>1, <2>2, <2>3, <2>4
    DEF NothingFaults, Slot, CONC_THREADS, counters
<1>8. ASSUME Beside, Return
      PROVE  NothingFaults'
  <2>1. /\ UNCHANGED <<result, counters, h>>
        /\ \A u \in Programs \ {Main} : at'[u] = at[u]
        /\ exitCode' = 2 => result["ps"] = R_FAULTED
    BY <1>0, <1>8 DEF Return, ExitCode, GoTo, Places
  <2>2. QED
    BY <1>0, <1>1, <1>8, <2>1 DEF NothingFaults, Started, Slot, CONC_THREADS, counters
<1>9. ASSUME StartTest, UNCHANGED <<life, processor>>
      PROVE  NothingFaults'
  <2>1. \A i \in Slot : at[Workers[i]].routine = "over"
    <3>1. Main \notin alive
      BY <1>9 DEF StartTest, ThreadCreate
    <3>2. \A i \in Slot : Waited(i)
      BY <1>0, <3>1 DEF InOrderOfMain, Waited
    <3>3. QED
      BY <1>0, <3>2 DEF InOrderOfMain
  <2>2. /\ \A u \in Programs \ {Main} : at'[u] = at[u]
        /\ g_Faulted' = 0 /\ exitCode' = NULL
        /\ steady' => pc = "loaded"
    BY <1>0, <1>9 DEF StartTest, Places
  <2>3. result'["ps"] = NULL /\ result'["pd"] = NULL /\ result'["conc"] = NULL
    <3>1. result' = NoResult
      BY <1>9 DEF StartTest
    <3>2. QED
      BY <3>1 DEF NoResult, Kinds
  <2>4. pc' = pc
    BY <1>9 DEF life
  <2>5. QED
    BY <1>0, <2>1, <2>2, <2>3, <2>4 DEF NothingFaults, Slot, CONC_THREADS
<1>10. ASSUME DriverMoves
       PROVE  NothingFaults'
  BY <1>10 DEF DriverMoves, NothingFaults
<1>11. ASSUME \/ UNCHANGED testVars
              \/ /\ Beside
                 /\ \/ TrapInBlock(cur) \/ LoaderTraps
                    \/ \E i \in Slot : WaitForWorker(i)
                    \/ \E t \in Threads : SwitchTo(t) \/ ThreadEnds(t)
       PROVE  NothingFaults'
  <2>1. steady' = steady /\ pc' = pc /\ processor' = processor
    BY <1>1, <1>11 DEF testVars, allVars, life
  <2>2. /\ UNCHANGED <<result, counters, h, exitCode>>
        /\ \A u \in Programs \ {Main} : at'[u] = at[u]
    BY <1>0, <1>11 DEF TrapInBlock, LoaderTraps, testVars, SwitchTo, ThreadEnds, program,
                WaitForWorker, GoTo, Places
  <2>3. QED
    BY <1>0, <2>1, <2>2, NothingMore DEF counters
<1>12. QED
  BY TestSteps, <1>2, <1>3, <1>4, <1>5, <1>6, <1>7, <1>8, <1>9, <1>10, <1>11

-----------------------------------------------------------------------------
(* What the verdicts of the program are worth.                             *)

ProgramInv == TestBase /\ Capable /\ VerdictInv

LEMMA ProgramFirst == TestInit => ProgramInv
<1> SUFFICES ASSUME TestInit PROVE ProgramInv
  OBVIOUS
<1>1. TestBase
  BY BaseFirst
<1>2. /\ \A t \in Programs : at[t].routine = "over"
      /\ \A test \in Kinds \cup {"conc"} : result[test] = NULL
      /\ \A i \in Slot : h[i] = NULL
      /\ g_Corrupt = 0 /\ g_Faulted = 0 /\ g_Ready = 0 /\ steady = FALSE
  BY DEF TestInit, At, NoResult, NoHandle, Slot
<1>3. /\ Main \in Programs
      /\ \A i \in Slot : Workers[i] \in Programs
      /\ alive = Threads \ Programs /\ pc = "unloaded"
  BY Cast DEF TestInit, LifeInit, MachineInit
<1>4. Capable
  BY <1>3 DEF Capable, NoPool
<1>5. InOrderOfMain
  BY <1>2, <1>3 DEF InOrderOfMain, Kinds
<1>6. Counted
  BY <1>2, NothingCounted DEF NoneCounted
<1>7. Judged
  BY <1>2, SseTestAssumption DEF Judged, R_OK
<1>8. NothingFaults
  BY <1>2 DEF NothingFaults
<1>9. QED
  BY <1>1, <1>4, <1>5, <1>6, <1>7, <1>8 DEF ProgramInv, VerdictInv

LEMMA ProgramHolds ==
  ASSUME ProgramInv, [TestNext]_testVars
  PROVE  ProgramInv'
<1>. USE DEF ProgramInv, VerdictInv
<1>1. LifeTypeOK /\ Places /\ Held
  BY DEF TestBase, MemoryInv
<1>2. TestBase' /\ [LifeNext]_allVars
  BY BaseHolds
<1>3. Capable'
  BY <1>2, CapableHolds
<1>4. InOrderOfMain' /\ Counted' /\ Judged' /\ NothingFaults'
  BY <1>1, OrderHolds, CountedHolds, JudgedHolds, NothingFaultsHolds
<1>5. QED
  BY <1>2, <1>3, <1>4

LEMMA ProgramAlways == TestSpec => []ProgramInv
BY ProgramFirst, ProgramHolds, PTL DEF TestSpec

\* When main has judged, every thread it started is through.
LEMMA AllThrough ==
  ASSUME ProgramInv, result["conc"] # NULL
  PROVE  /\ \A i \in Slot : Workers[i] \notin alive /\ at[Workers[i]].routine = "over"
         /\ \A i \in Slot : h[i] # NULL => h[i] = Workers[i]
         /\ HasEnded = Started /\ IsThrough = Started
         /\ started = Cardinality(Started)
         /\ DOMAIN h = Slot
<1>. USE DEF ProgramInv, VerdictInv, TestBase
<1>1. \A i \in Slot : Waited(i)
  BY DEF InOrderOfMain, Waited
<1>2. \A i \in Slot : Workers[i] \notin alive /\ at[Workers[i]].routine = "over"
  BY <1>1, Cast DEF InOrderOfMain
<1>3. HasEnded = Started /\ IsThrough = Started
  BY <1>2 DEF HasEnded, IsThrough, Started
<1>4. QED
  BY <1>2, <1>3, NoneStarted DEF Held

\* TestConcurrency returns with all its threads ended and each counted once: no
\* verdict is given early, and none misses a thread.
THEOREM VerdictsAreFinal == TestSpec => []VerdictIsFinal
<1>1. ProgramInv => VerdictIsFinal
  <2> SUFFICES ASSUME ProgramInv, result["conc"] # NULL
               PROVE  /\ \A i \in DOMAIN h : h[i] # NULL => h[i] \notin alive
                      /\ g_Ready = started
                      /\ g_Corrupt + g_Faulted <= started
    BY DEF VerdictIsFinal
  <2>1. Counted
    BY DEF ProgramInv, VerdictInv
  <2>2. QED
    BY <2>1, AllThrough DEF Counted
<1>2. QED
  BY <1>1, ProgramAlways, PTL

\* R_OK from TestConcurrency means that threads have really held their values
\* across preemptions: one of them at least, and with the driver loaded throughout
\* each of them.
THEOREM OkIsEarned == TestSpec => []OkMeansHeld
<1>1. ProgramInv => OkMeansHeld
  <2> SUFFICES ASSUME ProgramInv, result["conc"] = R_OK
               PROVE  LET held == {i \in DOMAIN h : h[i] # NULL
                                     /\ readback[h[i]] = {Pattern(h[i])}}
                      IN  held # {} /\ (steady => Cardinality(held) = started)
    BY DEF OkMeansHeld
  <2>1. Counted /\ Judged /\ NothingFaults /\ Held
    BY DEF ProgramInv, VerdictInv, TestBase
  <2>2. result["conc"] # NULL
    BY SseTestAssumption DEF R_OK
  <2>3. {i \in DOMAIN h : h[i] # NULL /\ readback[h[i]] = {Pattern(h[i])}} = HasHeld
    BY <2>2, AllThrough DEF HasHeld, Started
  <2>4. /\ Cardinality(Started) \in Nat /\ Cardinality(HasHeld) \in Nat
        /\ Cardinality(HasHeld) <= Cardinality(Started)
    <3>1. IsFiniteSet(Started) /\ HasHeld \in SUBSET Started /\ IsFiniteSet(HasHeld)
      BY CountedSets
    <3>2. QED
      BY <3>1, FS_CardinalityType, FS_Subset
  <2>5. /\ g_Corrupt = 0 /\ g_Faulted # Cardinality(Started)
        /\ g_Corrupt + g_Faulted <= Cardinality(Started)
        /\ Cardinality(Started) <= g_Corrupt + g_Faulted + Cardinality(HasHeld)
    BY <2>1, <2>2, AllThrough DEF Counted, Judged
  <2>6. Cardinality(HasHeld) # 0
    BY <2>1, <2>4, <2>5 DEF Held
  <2>7. HasHeld # {}
    BY <2>6, FS_EmptySet
  <2>8. steady => Cardinality(HasHeld) = started
    <3>1. steady => g_Faulted = 0
      BY <2>1 DEF NothingFaults
    <3>2. QED
      BY <2>2, <2>4, <2>5, <3>1, AllThrough
  <2>9. QED
    BY <2>3, <2>7, <2>8
<1>2. QED
  BY <1>1, ProgramAlways, PTL

\* With the driver loaded throughout a run no fault is reported that the processor
\* or CreateThread has not caused.
THEOREM LoadedHoldsUp == TestSpec => []LoadedMeansNoFault
<1>1. ProgramInv => LoadedMeansNoFault
  <2> SUFFICES ASSUME ProgramInv, steady
               PROVE  /\ result["ps"] # R_FAULTED
                      /\ result["pd"] = R_FAULTED => "SSE2" \notin processor
                      /\ g_Faulted = 0
                      /\ result["conc"] = R_FAULTED => started = 0
                      /\ exitCode # 2
    BY DEF LoadedMeansNoFault
  <2>1. NothingFaults /\ Held
    BY DEF ProgramInv, VerdictInv, TestBase
  <2>2. Started = {} => started = 0
    BY <2>1, NoneStarted, FS_EmptySet
  <2>3. QED
    BY <2>1, <2>2 DEF NothingFaults
<1>2. QED
  BY <1>1, ProgramAlways, PTL

\* Every variable keeps its type; no counter passes the number of threads.
THEOREM TestTypeCorrect == TestSpec => []TestTypeOK
<1>1. ProgramInv => TestTypeOK
  <2> SUFFICES ASSUME ProgramInv PROVE TestTypeOK
    OBVIOUS
  <2>1. LifeTypeOK /\ Places /\ Held /\ Counted
    BY DEF ProgramInv, VerdictInv, TestBase, MemoryInv
  <2>2. /\ Cardinality(HasEnded) \in 0 .. CONC_THREADS
        /\ Cardinality(IsThrough) \in 0 .. CONC_THREADS
    BY CountedSets
  <2>3. {g_Corrupt, g_Faulted, g_Ready} \subseteq 0 .. CONC_THREADS
    BY <2>1, <2>2, Cast DEF Held, Counted
  <2>4. DOMAIN NoResult = Kinds \cup {"conc"}
    BY DEF NoResult
  <2>5. DOMAIN at = Programs /\ DOMAIN readback = Programs
    BY <2>1 DEF Places, Held
  <2>6. QED
    BY <2>1, <2>3, <2>4, <2>5 DEF TestTypeOK, Held, Slot
<1>2. QED
  BY <1>1, ProgramAlways, PTL

-----------------------------------------------------------------------------
(* What the instructions of a block leave in the registers.                *)

\* How far an arithmetic test has got with what it has read back and the file it has.
AddAt(k, step, read, file) ==
  /\ read = IF step = 5 THEN {<<k, "sum">>} ELSE {}
  /\ step \in {2, 3} => file[0] = <<k, "a">>
  /\ step = 3 => file[1] = <<k, "b">>
  /\ step = 4 => file[0] = <<k, "sum">>

\* A register file with its contents, whoever it is tagged with.
LEMMA FileContents ==
  ASSUME LifeTypeOK
  PROVE  Contents(x87) \in [Regs -> Data] /\ Contents(xmm) \in [Regs -> Data]
<1>1. /\ x87[1] = NULL \/ x87[2] \in [Regs -> Data]
      /\ xmm[1] = NULL \/ xmm[2] \in [Regs -> Data]
  BY RegisterFilesAssumption DEF LifeTypeOK, TypeOK, X87, StoredX87, InitX87,
     Xmm, XmmOf, StoredXmm, DefaultXmm, ZeroedXmm
<1>2. QED
  BY <1>1 DEF Contents, Cleared, Data

LEMMA AddsOn ==
  ASSUME NEW t, t # NULL, NEW k \in Kinds, NEW n \in 1 .. 3, NEW read, NEW now,
         Contents(now) \in [Regs -> Data], AddAt(k, n, read, Contents(now)),
         Instruction(t) = AddTest(k)[n]
  PROVE  AddAt(k, n + 1, read, Contents(Executed(t, now)))
<1>. PICK i : i = Instruction(t)
  OBVIOUS
<1>. PICK file \in [Regs -> Data] : file = Contents(now)
  OBVIOUS
<1>. PICK left : left = Contents(Executed(t, now))
  OBVIOUS
<1>0. 0 \in Regs /\ 1 \in Regs
  BY SseTestAssumption DEF Regs
<1>1. /\ n = 1 => i.op = "load" /\ i.reg = 0 /\ i.data = <<k, "a">>
      /\ n = 2 => i.op = "load" /\ i.reg = 1 /\ i.data = <<k, "b">>
      /\ n = 3 => i.op = "add" /\ i.data[1] = k
  <2>1. /\ n = 1 => i = [op |-> "load",  reg |-> 0, data |-> <<k, "a">>]
        /\ n = 2 => i = [op |-> "load",  reg |-> 1, data |-> <<k, "b">>]
        /\ n = 3 => i = [op |-> "add",   reg |-> 0, data |-> <<k, "sum">>]
    BY Adds
  <2>2. QED
    BY <2>1
<1>2. left = IF i.op = "load" THEN [file EXCEPT ![i.reg] = i.data]
             ELSE IF i.op = "add"
             THEN [file EXCEPT ![0] = Packed(i.data[1], file[0], file[1])]
             ELSE Cleared
  BY DEF Executed, Contents
<1>3. CASE n = 1
  <2>1. left = [file EXCEPT ![0] = <<k, "a">>]
    BY <1>1, <1>2, <1>3
  <2>2. left[0] = <<k, "a">>
    BY <1>0, <2>1
  <2>3. QED
    BY <1>3, <2>2 DEF AddAt
<1>4. CASE n = 2
  <2>1. left = [file EXCEPT ![1] = <<k, "b">>]
    BY <1>1, <1>2, <1>4
  <2>2. left[0] = <<k, "a">> /\ left[1] = <<k, "b">>
    BY <1>0, <1>4, <2>1 DEF AddAt
  <2>3. QED
    BY <1>4, <2>2 DEF AddAt
<1>5. CASE n = 3
  <2>1. left = [file EXCEPT ![0] = Packed(k, file[0], file[1])]
    BY <1>1, <1>2, <1>5
  <2>2. Packed(k, file[0], file[1]) = <<k, "sum">>
    BY <1>5 DEF Packed, AddAt
  <2>3. left[0] = <<k, "sum">>
    BY <1>0, <2>1, <2>2
  <2>4. QED
    BY <1>5, <2>3 DEF AddAt
<1>6. QED
  BY <1>3, <1>4, <1>5

-----------------------------------------------------------------------------
(* The MMX test, which the driver has nothing to do with.                  *)

MmxSoFar ==
  at[Main].routine = "mmx" =>
    AddAt("mmx", at[Main].step, readback[Main], Contents(x87Want[Main]))

MmxInv ==
  /\ X87Inv
  /\ WhoRuns
  /\ "MMX" \in processor => result["mmx"] \in {NULL, R_OK}
  /\ MmxSoFar

MmxLeft == UNCHANGED <<at[Main], readback[Main], x87Want[Main]>>

LEMMA MmxStays ==
  ASSUME MmxSoFar, MmxLeft
  PROVE  MmxSoFar'
BY DEF MmxSoFar, MmxLeft, AddAt, Contents, Cleared, Regs, Zero

\* The instructions of the MMX test one by one.
LEMMA MmxAdvances ==
  ASSUME LifeTypeOK, Places, Held, MmxInv, cur = Main, at[Main].routine = "mmx",
         "MMX" \in processor, ReadBack(Main) \/ Compute(Main)
  PROVE  MmxSoFar' /\ result'["mmx"] \in {NULL, R_OK}
<1>. PICK n : n = at[Main].step
  OBVIOUS
<1>. PICK i : i = Instruction(Main)
  OBVIOUS
<1>. PICK left : left = Contents(x87Want'[Main])
  OBVIOUS
<1>1. /\ Main \in Programs /\ Main \in Threads /\ Main # NULL /\ InBlock(Main)
      /\ "mmx" \in Kinds /\ Main # Loader /\ Length("mmx") = 5
  BY Cast DEF InBlock, Routines, Kinds, Length
<1>2. n \in 1 .. 5 /\ Code(Main) = AddTest("mmx") /\ i = AddTest("mmx")[n]
  BY <1>1, Instructions DEF Instruction
<1>3. /\ AddTest("mmx")[1].op # "store" /\ AddTest("mmx")[2].op # "store"
      /\ AddTest("mmx")[3].op # "store" /\ AddTest("mmx")[5].op # "store"
      /\ AddTest("mmx")[4] = [op |-> "store", reg |-> 0, data |-> <<"mmx", "sum">>]
      /\ Len(AddTest("mmx")) = 5
  <2>1. /\ AddTest("mmx")[1] = [op |-> "load",  reg |-> 0, data |-> <<"mmx", "a">>]
        /\ AddTest("mmx")[2] = [op |-> "load",  reg |-> 1, data |-> <<"mmx", "b">>]
        /\ AddTest("mmx")[3] = [op |-> "add",   reg |-> 0, data |-> <<"mmx", "sum">>]
        /\ AddTest("mmx")[4] = [op |-> "store", reg |-> 0, data |-> <<"mmx", "sum">>]
        /\ AddTest("mmx")[5] = [op |-> "emms", reg |-> 0, data |-> Zero]
        /\ Len(AddTest("mmx")) = 5
    BY <1>1, Adds, Zenon
  <2>2. QED
    BY <2>1
<1>4. NextInstruction(Main) /\ ~cr0ts
  BY DEF ReadBack, Compute, X87Store
<1>5. x87 = x87Want[Main]
  BY <1>1, <1>4 DEF MmxInv, X87Inv, X87Preserved, WhoRuns
<1>6. Contents(x87) \in [Regs -> Data]
  BY FileContents
<1>7. AddAt("mmx", n, readback[Main], Contents(x87))
  BY <1>5 DEF MmxInv, MmxSoFar
<1>8. \/ /\ n < 5 /\ at'[Main].routine = "mmx" /\ at'[Main].step = n + 1
         /\ UNCHANGED result
      \/ /\ n = 5 /\ at'[Main].routine = "return"
         /\ \/ result' = [result EXCEPT !["mmx"] = R_OK]
            \/ ~(readback'[Main] \subseteq Expected(Main))
  BY <1>1, <1>4, NextGoes DEF GoTo, At, Places
<1>9. /\ at'[Main].routine = "mmx" /\ AddAt("mmx", at'[Main].step, readback'[Main], left)
           => MmxSoFar'
      /\ at'[Main].routine # "mmx" => MmxSoFar'
  BY DEF MmxSoFar, AddAt, Contents, Cleared, Regs, Zero
<1>10. CASE n = 4
  <2>1. i = [op |-> "store", reg |-> 0, data |-> <<"mmx", "sum">>]
    BY <1>2, <1>3, <1>10
  <2>2. ReadBack(Main)
    BY <2>1 DEF Compute
  <2>3. readback'[Main] = {<<"mmx", "sum">>}
    <3>. PICK d : d = Contents(IF at[Main].routine = "mmx" THEN x87 ELSE xmm)[i.reg]
      OBVIOUS
    <3>1. readback' = [readback EXCEPT ![Main] = @ \cup {d}]
      BY <2>2 DEF ReadBack
    <3>2. d = Contents(x87)[0]
      <4>1. (IF at[Main].routine = "mmx" THEN x87 ELSE xmm) = x87
        OBVIOUS
      <4>2. d = Contents(x87)[i.reg]
        BY <4>1
      <4>3. i.reg = 0
        BY <2>1
      <4>4. QED
        BY <4>2, <4>3
    <3>3. readback[Main] = {} /\ d = <<"mmx", "sum">>
      BY <1>7, <1>10, <3>2 DEF AddAt
    <3>4. QED
      BY <1>1, <3>1, <3>3 DEF Held
  <2>4. QED
    BY <1>8, <1>9, <1>10, <2>3 DEF MmxInv, AddAt
<1>11. ASSUME n # 4
       PROVE  /\ UNCHANGED readback
              /\ left = Contents(Executed(Main, x87))
  <2>1. i.op # "store"
    BY <1>2, <1>3, <1>11
  <2>2. Compute(Main) /\ UNCHANGED readback
    BY <2>1 DEF ReadBack, Compute
  <2>3. x87Want' = [x87Want EXCEPT ![Main] = Executed(Main, x87)]
    BY <2>2 DEF Compute, X87Store
  <2>4. x87Want'[Main] = Executed(Main, x87)
    BY <1>1, <2>3 DEF LifeTypeOK, TypeOK
  <2>5. QED
    BY <2>2, <2>4
<1>12. CASE n \in 1 .. 3
  <2>1. AddAt("mmx", n + 1, readback[Main], Contents(Executed(Main, x87)))
    BY <1>1, <1>2, <1>6, <1>7, <1>12, AddsOn
  <2>2. QED
    BY <1>8, <1>9, <1>11, <1>12, <2>1 DEF MmxInv
<1>13. CASE n = 5
  <2>1. readback'[Main] = {<<"mmx", "sum">>}
    BY <1>7, <1>11, <1>13 DEF AddAt
  <2>2. <<"mmx", "sum">> \in Expected(Main)
    <3>1. 4 \in DOMAIN Code(Main)
      BY <1>2, <1>3
    <3>2. Code(Main)[4].op = "store" /\ Code(Main)[4].data = <<"mmx", "sum">>
      BY <1>2, <1>3
    <3>3. QED
      BY <3>1, <3>2 DEF Expected
  <2>3. at'[Main].routine = "return" /\ result' = [result EXCEPT !["mmx"] = R_OK]
    BY <1>8, <1>13, <2>1, <2>2
  <2>4. QED
    BY <1>1, <1>9, <2>3 DEF Held
<1>14. QED
  BY <1>2, <1>10, <1>12, <1>13

LEMMA MmxHolds ==
  ASSUME LifeTypeOK, Places, Held, InOrderOfMain, MmxInv, [TestNext]_testVars
  PROVE  MmxInv'
<1>0. /\ Main \in Programs /\ Main \in Threads
      /\ \A i \in Slot : Workers[i] \in Programs /\ Workers[i] # Main
      /\ NULL # R_FAULTED /\ "mmx" \in Kinds /\ "conc" \notin Kinds
      /\ x87Want \in [Threads -> X87] /\ processor' = processor
  <2>1. processor' = processor
    BY TestSteps DEF Beside, testVars, allVars
  <2>2. QED
    BY <2>1, Cast, SseTestAssumption DEF LifeTypeOK, TypeOK, R_FAULTED, Kinds
<1>1. [LifeNext]_allVars
  BY TestStepsAreLifeSteps
<1>2. X87Inv' /\ WhoRuns'
  BY <1>1, X87Holds DEF MmxInv
<1>3. ASSUME MmxSoFar', result'["mmx"] = result["mmx"] \/ result'["mmx"] \in {NULL, R_OK}
                          \/ "MMX" \notin processor
      PROVE  MmxInv'
  BY <1>0, <1>2, <1>3 DEF MmxInv, R_OK
\* another thread, or none
<1>4. ASSUME NEW t \in Threads, t # Main, InBlock(t), t \in Programs,
             ReadBack(t) \/ Compute(t) \/ Fault(t), t = cur
      PROVE  MmxInv'
  <2>1. at'[Main] = at[Main]
    <3>1. CASE Fault(t)
      BY <1>0, <1>4, <3>1 DEF Fault, GoTo, Places
    <3>2. CASE ReadBack(t) \/ Compute(t)
      <4>1. NextInstruction(t)
        BY <3>2 DEF ReadBack, Compute
      <4>2. PICK routine, step : Fits(t, routine, step) /\ GoTo(t, routine, step)
        BY <1>4, <4>1, NextGoes
      <4>3. QED
        BY <1>0, <1>4, <4>2, Goes
    <3>3. QED
      BY <1>4, <3>1, <3>2
  <2>2. at[t].routine = "hold"
    BY <1>4, Instructions
  <2>3. readback'[Main] = readback[Main]
    BY <1>0, <1>4 DEF ReadBack, Compute, Fault, Held
  <2>4. x87Want'[Main] = x87Want[Main]
    BY <1>0, <1>4, <2>2 DEF ReadBack, Compute, Fault, SseStore, vars, history
  <2>5. UNCHANGED result
    <3>1. CASE Fault(t)
      BY <2>2, <3>1 DEF Fault
    <3>2. CASE ReadBack(t) \/ Compute(t)
      <4>1. NextInstruction(t)
        BY <3>2 DEF ReadBack, Compute
      <4>2. QED
        BY <1>4, <4>1, NextGoes
    <3>3. QED
      BY <1>4, <3>1, <3>2
  <2>6. MmxSoFar'
    BY <2>1, <2>3, <2>4, MmxStays DEF MmxInv, MmxLeft
  <2>7. QED
    BY <1>3, <2>5, <2>6
<1>5. ASSUME cur = Main, ReadBack(Main) \/ Compute(Main) \/ Fault(Main)
      PROVE  MmxInv'
  <2>1. InBlock(Main) /\ at[Main].routine \in Kinds
    <3>1. InBlock(Main)
      BY <1>5 DEF ReadBack, Compute, Fault
    <3>2. QED
      BY <1>0, <3>1, Instructions
  <2>2. CASE at[Main].routine = "mmx" /\ "MMX" \in processor
    <3>1. ~Fault(Main)
      BY <2>2 DEF Fault, Undefined, Kinds
    <3>2. QED
      BY <1>3, <1>5, <2>2, <3>1, MmxAdvances DEF MmxInv
  <2>3. CASE at[Main].routine # "mmx"
    <3>1. /\ at'[Main].routine # "mmx"
          /\ result'["mmx"] = result["mmx"]
      <4>1. CASE Fault(Main)
        BY <1>0, <2>1, <2>3, <4>1 DEF Fault, GoTo, At, Places, Held, Kinds
      <4>2. CASE ReadBack(Main) \/ Compute(Main)
        <5>1. NextInstruction(Main)
          BY <4>2 DEF ReadBack, Compute
        <5>2. \/ GoTo(Main, at[Main].routine, at[Main].step + 1) /\ UNCHANGED result
              \/ /\ GoTo(Main, "return", 0)
                 /\ \E v : result' = [result EXCEPT ![at[Main].routine] = v]
          BY <1>0, <2>1, <5>1, NextGoes
        <5>3. QED
          BY <1>0, <2>3, <5>2 DEF GoTo, At, Places, Held
      <4>3. QED
        BY <1>5, <4>1, <4>2
    <3>2. MmxSoFar'
      BY <3>1 DEF MmxSoFar
    <3>3. QED
      BY <1>3, <3>1, <3>2
  <2>4. CASE at[Main].routine = "mmx" /\ "MMX" \notin processor
    <3>1. Undefined(Main)
      BY <2>4 DEF Undefined
    <3>2. Fault(Main)
      BY <1>5, <3>1 DEF ReadBack, Compute
    <3>3. at'[Main].routine # "mmx"
      BY <1>0, <2>4, <3>2 DEF Fault, GoTo, At, Places
    <3>4. MmxSoFar'
      BY <3>3 DEF MmxSoFar
    <3>5. QED
      BY <1>3, <2>4, <3>4
  <2>5. QED
    BY <2>2, <2>3, <2>4
<1>6. ASSUME MmxLeft, result'["mmx"] = result["mmx"]
      PROVE  MmxInv'
  BY <1>3, <1>6, MmxStays DEF MmxInv
<1>7. ASSUME cur \in Programs, CountCorrupt(cur) \/ CountFaulted(cur) \/ CountReady(cur)
      PROVE  MmxInv'
  <2>. PICK t \in Programs : t = cur
    BY <1>7
  <2>1. /\ UNCHANGED <<readback, result, x87Want>>
        /\ at[t].routine \in {"corrupt", "faulted", "ready"}
        /\ \A u \in Programs \ {t} : at'[u] = at[u]
    BY <1>7 DEF CountCorrupt, CountFaulted, CountReady, vars, history, GoTo, Places
  <2>2. t # Main
    BY <2>1 DEF Places, MainRoutines, Kinds
  <2>3. QED
    BY <1>0, <1>6, <2>1, <2>2 DEF MmxLeft
<1>8. ASSUME \/ NextTest \/ Created \/ Verdict \/ Return
             \/ \E i \in Slot : CreateWorker(i) \/ WaitForWorker(i)
      PROVE  MmxInv'
  <2>1. result'["mmx"] = result["mmx"]
    BY <1>0, <1>8 DEF NextTest, Created, Verdict, Return, CreateWorker, WaitForWorker, Held
  <2>2. at'[Main].routine # "mmx"
    <3>1. CASE NextTest \/ Created \/ Verdict \/ Return
      BY <1>0, <3>1 DEF NextTest, Created, Verdict, Return, StartBlock, GoTo, At, Places
    <3>2. ASSUME NEW i \in Slot, CreateWorker(i)
          PROVE  at'[Main].routine # "mmx"
      <4>1. CASE GoTo(Main, "create", i + 1)
        BY <1>0, <4>1 DEF GoTo, At, Places
      <4>2. CASE at' = [at EXCEPT ![Main] = At("create", i + 1),
                                  ![Workers[i]] = At("hold", 1)]
        <5>1. at'[Main] = At("create", i + 1)
          BY <3>2, <4>2, Starts DEF CreateWorker
        <5>2. QED
          BY <5>1 DEF At
      <4>3. QED
        BY <3>2, <4>1, <4>2 DEF CreateWorker
    <3>3. ASSUME NEW i \in Slot, WaitForWorker(i)
          PROVE  at'[Main].routine # "mmx"
      BY <1>0, <3>3 DEF WaitForWorker, GoTo, At, Places
    <3>4. QED
      BY <1>8, <3>1, <3>2, <3>3
  <2>3. MmxSoFar'
    BY <2>2 DEF MmxSoFar
  <2>4. QED
    BY <1>3, <2>1, <2>3
<1>9. ASSUME StartTest
      PROVE  MmxInv'
  <2>1. /\ at'[Main] = At("mmx", 1) \/ at'[Main] = At("exit", 0)
        /\ readback'[Main] = {}
        /\ result' = NoResult
    BY <1>0, <1>9 DEF StartTest, Places, Held
  <2>2. at'[Main].routine = "mmx" => at'[Main].step = 1
    BY <2>1 DEF At
  <2>3. result'["mmx"] = NULL
    BY <1>0, <2>1 DEF NoResult
  <2>4. MmxSoFar'
    BY <2>1, <2>2 DEF MmxSoFar, AddAt
  <2>5. QED
    BY <1>3, <2>3, <2>4
<1>10. ASSUME \/ TrapInBlock(cur) \/ LoaderTraps \/ DriverMoves \/ UNCHANGED testVars
              \/ \E t \in Threads : SwitchTo(t)
              \/ cur \in Programs /\ \E t \in Threads : ThreadEnds(t)
       PROVE  MmxInv'
  <2>1. UNCHANGED program
    BY <1>10 DEF TrapInBlock, LoaderTraps, DriverMoves, testVars, SwitchTo, ThreadEnds
  <2>2. UNCHANGED history
    <3>1. CASE TrapInBlock(cur) \/ LoaderTraps
      BY <3>1 DEF TrapInBlock, LoaderTraps, NmTrap
    <3>2. CASE UNCHANGED testVars
      BY <3>2 DEF testVars, allVars, vars
    <3>3. CASE \E t \in Threads : SwitchTo(t) \/ ThreadEnds(t)
      BY <3>3 DEF SwitchTo, Switch, ThreadEnds, ThreadExit
    <3>4. CASE DriverMoves
      BY <3>4, DriverLeavesThreads DEF DriverMoves
    <3>5. QED
      BY <1>10, <3>1, <3>2, <3>3, <3>4
  <2>3. QED
    BY <1>6, <2>1, <2>2 DEF MmxLeft, program, history
<1>11. ASSUME cur \in Programs, ReadBack(cur) \/ Compute(cur) \/ Fault(cur)
       PROVE  MmxInv'
  <2>. PICK t \in Programs : t = cur
    BY <1>11
  <2>1. InBlock(t) /\ t \in Threads
    BY <1>11, Cast DEF ReadBack, Compute, Fault
  <2>2. CASE t = Main
    BY <1>5, <1>11, <2>2
  <2>3. CASE t # Main
    BY <1>4, <1>11, <2>1, <2>3
  <2>4. QED
    BY <2>2, <2>3
<1>12. QED
  BY TestSteps, <1>7, <1>8, <1>9, <1>10, <1>11

\* "MMX should already execute on 3.51" (ssetest.c:17) and goes on doing so: no load,
\* no unload and no trap in between makes the MMX test fail.
THEOREM MmxKeepsWorking == TestSpec => []MmxAlwaysWorks
<1>1. TestInit => ProgramInv /\ MmxInv
  <2> SUFFICES ASSUME TestInit PROVE MmxInv
    BY ProgramFirst
  <2>1. X87Inv /\ WhoRuns
    <3>1. Loader \in Threads \ Programs /\ Threads \ Programs \in SUBSET Threads
      BY Cast, TrapPathAssumption
    <3>2. QED
      BY <3>1, X87First DEF TestInit
  <2>2. at[Main].routine = "over" /\ result["mmx"] = NULL
    BY Cast DEF TestInit, At, NoResult, Kinds
  <2>3. QED
    BY <2>1, <2>2 DEF MmxInv, MmxSoFar
<1>2. ProgramInv /\ MmxInv /\ [TestNext]_testVars => (ProgramInv /\ MmxInv)'
  <2> SUFFICES ASSUME ProgramInv, MmxInv, [TestNext]_testVars
               PROVE  ProgramInv' /\ MmxInv'
    OBVIOUS
  <2>1. LifeTypeOK /\ Places /\ Held /\ InOrderOfMain
    BY DEF ProgramInv, VerdictInv, TestBase, MemoryInv
  <2>2. QED
    BY <2>1, ProgramHolds, MmxHolds
<1>3. MmxInv => MmxAlwaysWorks
  BY DEF MmxInv, MmxAlwaysWorks
<1>4. QED
  BY <1>1, <1>2, <1>3, PTL DEF TestSpec

-----------------------------------------------------------------------------
(* What a worker sees.                                                     *)

\* A worker finds its own pattern and zeros, in the registers and in its area.  main, whose
\* MMX test traps before SSE executes, may find what the load before has left.
PatternOnly == [t \in Threads |->
  IF t \in Programs \ {Main}
  THEN {DefaultXmm} \cup {<<t, v>> : v \in [Regs -> {Pattern(t), Zero}]}
  ELSE Xmm]

\* What thread t finds while the driver is in.
LEMMA FindsPattern ==
  ASSUME LifeInv, LifeTypeOK, IsolationInv(PatternOnly), pc \in SseOn, nmHooked, ~cr0ts,
         cur # Loader
  PROVE  xmm \in PatternOnly[cur]
<1>1. npx = cur /\ irql = "PASSIVE" /\ osfxsr /\ npx # NULL
  BY DataLayerAssumption
  DEF IsolationInv, WhoRuns, LifeInv, Installed, LifeTypeOK, TypeOK
<1>2. QED
  BY <1>1 DEF IsolationInv, RegistersIsolated

LEMMA PatternFile ==
  ASSUME NEW t \in Programs \ {Main}, NEW file \in PatternOnly[t]
  PROVE  Contents(file) \in [Regs -> {Pattern(t), Zero}]
<1>1. t \in Threads /\ t # NULL
  BY Cast
<1>2. file = DefaultXmm \/ \E v \in [Regs -> {Pattern(t), Zero}] : file = <<t, v>>
  BY <1>1 DEF PatternOnly
<1>3. CASE file = DefaultXmm
  BY <1>3 DEF Contents, Cleared, DefaultXmm
<1>4. ASSUME NEW v \in [Regs -> {Pattern(t), Zero}], file = <<t, v>>
      PROVE  Contents(file) \in [Regs -> {Pattern(t), Zero}]
  BY <1>1, <1>4 DEF Contents
<1>5. QED
  BY <1>2, <1>3, <1>4

\* What the program stores fits: a worker loads its pattern over its own file.
LEMMA PatternFits ==
  ASSUME TestBase, IsolationInv(PatternOnly), nmHooked, [TestNext]_testVars
  PROVE  OnlyFitting(PatternOnly)
<1>. SUFFICES ASSUME NEW v \in StoredXmm(cur), SseStore(v)
              PROVE  v \in PatternOnly[cur]
  BY DEF OnlyFitting
<1>1. /\ LifeInv /\ LifeTypeOK /\ Places /\ Held
      /\ cur \in Threads /\ cur # Loader /\ cur \in Programs
      /\ ~cr0ts /\ osfxsr /\ xmm' = v /\ UNCHANGED kernel
  BY Cast DEF TestBase, MemoryInv, LifeTypeOK, TypeOK, SseStore
<1>. PICK t \in Programs : t = cur
  BY <1>1
<1>2. xmm \in PatternOnly[t]
  BY <1>1, FindsPattern DEF LifeInv, Installed
<1>3. CASE xmm' = xmm
  BY <1>1, <1>2, <1>3
<1>4. CASE t = Main
  BY <1>1, <1>4 DEF PatternOnly, Xmm, XmmOf
<1>5. CASE Compute(t) /\ t # Main
  <2>1. InBlock(t) /\ Instruction(t).op # "store"
    BY <1>5 DEF Compute
  <2>2. /\ Code(t) = HoldTest(Pattern(t)) /\ at[t].routine = "hold"
        /\ at[t].step \in 1 .. 2 * REGISTERS
    BY <1>1, <1>5, <2>1, Instructions DEF Length
  <2>. PICK i : i = Instruction(t)
    OBVIOUS
  <2>3. i.op = "load" /\ i.reg \in Regs /\ i.data = Pattern(t)
    BY <2>1, <2>2, Holding DEF Instruction
  <2>4. v = Executed(t, xmm)
    BY <1>1, <1>5, <2>2 DEF Compute, SseStore
  <2>. PICK file \in [Regs -> {Pattern(t), Zero}] : file = Contents(xmm)
    BY <1>2, <1>5, PatternFile
  <2>5. Executed(t, xmm) = <<t, [file EXCEPT ![i.reg] = i.data]>>
    BY <2>3 DEF Executed
  <2>6. [file EXCEPT ![i.reg] = i.data] \in [Regs -> {Pattern(t), Zero}]
    BY <2>3
  <2>7. QED
    BY <1>1, <1>5, <2>4, <2>5, <2>6 DEF PatternOnly
<1>6. Compute(t) \/ xmm' = xmm
  <2>1. ~DriverMoves
    BY <1>1 DEF DriverMoves, DriverStep, DriverEntry, PatchKernel, DriverUnload, Goto,
       NetStop, LoadDriver, CheckGates, PoolBuildOne, PoolBuilt, SelfTest,
       AllocateFxImage, FxImageAllocationFails, NmPrologueMatches, NmPrologueMismatch,
       BuildTrampoline, SwapHookFails, GiveUp, EnableSse, Loaded, FreeTrampoline,
       ForgetOwner, FreeFxImage, DisableSseThisCpu, Reclaim, Reclaimed, Unloaded,
       GateLow, GateHigh, PatchFirst, PatchRest
  <2>2. ~TrapInBlock(cur) /\ ~LoaderTraps
    BY <1>1 DEF TrapInBlock, LoaderTraps, NmTrap
  <2>3. CASE StartTest
    BY <2>3 DEF StartTest, ThreadCreate, hardware
  <2>4. ASSUME \/ ReadBack(t) \/ Fault(t) \/ CountCorrupt(t) \/ CountFaulted(t)
               \/ CountReady(t) \/ NextTest \/ Created \/ Verdict \/ Return
               \/ \E i \in Slot : CreateWorker(i) \/ WaitForWorker(i)
        PROVE  xmm' = xmm
    BY <2>4 DEF ReadBack, Fault, CountCorrupt, CountFaulted, CountReady, NextTest,
       Created, Verdict, Return, CreateWorker, WaitForWorker, ThreadCreate, vars, hardware
  <2>5. ASSUME NEW u \in Threads, SwitchTo(u) \/ ThreadEnds(u)
        PROVE  xmm' = xmm
    BY <2>5 DEF SwitchTo, Switch, ThreadEnds, ThreadExit
  <2>6. CASE UNCHANGED testVars
    BY <2>6 DEF testVars, allVars, vars, hardware
  <2>7. QED
    BY TestSteps, <2>1, <2>2, <2>3, <2>4, <2>5, <2>6
<1>7. QED
  BY <1>3, <1>4, <1>5, <1>6

\* A worker's instructions fault before SSE executes: they do not trap.
LEMMA WorkersTrapLate ==
  ASSUME TestBase, IsolationInv(PatternOnly), [TestNext]_testVars
  PROVE  TrapsTell(PatternOnly)
<1>. SUFFICES ASSUME NmTrap, ~osfxsr, cur \in Programs \ {Main} PROVE FALSE
  BY Cast DEF TrapsTell, PatternOnly, NmTrap, TestBase, MemoryInv, LifeTypeOK, TypeOK
<1>. PICK t \in Programs \ {Main} : t = cur
  OBVIOUS
<1>1. /\ cr0ts /\ ~cr0ts' /\ cur' = cur /\ npx' # npx
      /\ cur # Loader /\ Places
  BY Cast DEF NmTrap, KernelNmHandler, TestBase, IsolationInv, WhoRuns
<1>2. ASSUME TrapInBlock(t)
      PROVE  FALSE
  <2>1. InBlock(t) /\ ~Undefined(t)
    BY <1>2 DEF TrapInBlock
  <2>2. at[t].routine = "hold"
    BY <1>1, <2>1, Instructions
  <2>3. QED
    BY <2>1, <2>2 DEF Undefined
<1>3. ~LoaderTraps
  BY <1>1 DEF LoaderTraps
<1>4. ~DriverMoves
  BY <1>1, DriverLeavesThreads DEF DriverMoves
<1>5. CASE StartTest
  BY <1>1, <1>5 DEF StartTest, ThreadCreate, hardware
<1>6. ASSUME \/ ReadBack(t) \/ Compute(t) \/ Fault(t) \/ CountCorrupt(t) \/ CountFaulted(t)
             \/ CountReady(t) \/ NextTest \/ Created \/ Verdict \/ Return
             \/ \E i \in Slot : CreateWorker(i) \/ WaitForWorker(i)
      PROVE  cr0ts' = cr0ts
  BY <1>6 DEF ReadBack, Compute, Fault, CountCorrupt, CountFaulted, CountReady, NextTest,
     Created, Verdict, Return, CreateWorker, WaitForWorker, ThreadCreate, SseStore, X87Store,
     vars, hardware
<1>7. ASSUME NEW u \in Threads, SwitchTo(u) \/ ThreadEnds(u)
      PROVE  cur' # cur
  BY <1>7 DEF SwitchTo, Switch, ThreadEnds, ThreadExit, KernelSwapContext
<1>8. CASE UNCHANGED testVars
  BY <1>1, <1>8 DEF testVars, allVars, vars, hardware
<1>9. QED
  BY TestSteps, <1>1, <1>2, <1>3, <1>4, <1>5, <1>6, <1>7, <1>8

\* The driver in all through the run, what the workers of this run have read so far.
Seen ==
  steady => \A i \in Slot : h[i] # NULL =>
              readback[Workers[i]] \subseteq {Pattern(Workers[i]), Zero}

LEMMA SeenStays ==
  Seen /\ UNCHANGED <<steady, h, readback>> => Seen'
BY DEF Seen, Slot, CONC_THREADS, Pattern, Zero

LEMMA SeenHolds ==
  ASSUME ProgramInv, IsolationInv(PatternOnly), Seen, [TestNext]_testVars
  PROVE  Seen'
<1>0. /\ LifeInv /\ LifeTypeOK /\ Places /\ Held /\ Main \in Programs
      /\ \A i \in Slot : Workers[i] \in Programs \ {Main}
      /\ \A i, j \in Slot : Workers[i] = Workers[j] => i = j
  BY Cast DEF ProgramInv, TestBase, MemoryInv
<1>1. ASSUME steady' = steady, h' = h,
             \A i \in Slot : steady /\ h[i] # NULL =>
               readback'[Workers[i]] \subseteq {Pattern(Workers[i]), Zero}
      PROVE  Seen'
  BY <1>1 DEF Seen, Slot, CONC_THREADS, Pattern, Zero
<1>2. ASSUME UNCHANGED <<steady, h>>,
             \A i \in Slot : readback'[Workers[i]] = readback[Workers[i]]
      PROVE  Seen'
  BY <1>1, <1>2 DEF Seen
<1>3. ASSUME Beside, cur \in Programs, ReadBack(cur)
      PROVE  Seen'
  <2>. PICK t \in Programs : t = cur
    BY <1>3
  <2>1. /\ InBlock(t) /\ ~cr0ts /\ UNCHANGED <<steady, h>>
        /\ \A u \in Programs \ {t} : readback'[u] = readback[u]
    BY <1>3 DEF ReadBack, Beside, Held
  <2>2. CASE t = Main
    BY <1>0, <1>2, <2>1, <2>2
  <2>3. CASE t # Main
    <3>. PICK i : i = Instruction(t)
      OBVIOUS
    <3>1. at[t].routine = "hold" /\ i.reg \in Regs
      BY <2>1, <2>3, <1>0, Instructions
    <3>2. readback'[t] = readback[t] \cup {Contents(xmm)[i.reg]}
      BY <1>0, <1>3, <3>1 DEF ReadBack, Held
    <3>3. ASSUME steady
          PROVE  Contents(xmm)[i.reg] \in {Pattern(t), Zero}
      <4>1. pc = "loaded"
        BY <3>3 DEF ProgramInv, VerdictInv, NothingFaults
      <4>2. nmHooked /\ pc \in SseOn
        BY <1>0, <4>1 DEF LifeInv, Installed, LowIn, HighIn, SseOn
      <4>3. xmm \in PatternOnly[t]
        BY <1>0, <2>1, <4>2, FindsPattern, Cast
      <4>4. Contents(xmm) \in [Regs -> {Pattern(t), Zero}]
        BY <2>3, <4>3, PatternFile
      <4>5. QED
        BY <3>1, <4>4
    <3>4. \A j \in Slot : steady /\ h[j] # NULL =>
            readback'[Workers[j]] \subseteq {Pattern(Workers[j]), Zero}
      BY <1>0, <2>1, <3>2, <3>3 DEF Seen
    <3>5. QED
      BY <1>1, <2>1, <3>4
  <2>4. QED
    BY <2>2, <2>3
<1>4. ASSUME Beside, NEW i \in Slot, CreateWorker(i)
      PROVE  Seen'
  <2>1. steady' = steady
    BY <1>4 DEF Beside
  <2>2. CASE UNCHANGED <<h, readback>>
    BY <2>1, <2>2, SeenStays
  <2>3. CASE /\ h' = [h EXCEPT ![i] = Workers[i]]
             /\ readback' = [readback EXCEPT ![Workers[i]] = {}]
    <3>1. /\ readback'[Workers[i]] = {}
          /\ \A j \in Slot \ {i} : /\ h'[j] = h[j]
                                   /\ readback'[Workers[j]] = readback[Workers[j]]
      BY <1>0, <2>3 DEF Held
    <3>2. steady => \A j \in Slot : h'[j] # NULL =>
            readback'[Workers[j]] \subseteq {Pattern(Workers[j]), Zero}
      BY <3>1 DEF Seen
    <3>3. QED
      BY <2>1, <3>2 DEF Seen, Slot, CONC_THREADS, Pattern, Zero
  <2>4. QED
    BY <1>4, <2>2, <2>3 DEF CreateWorker
<1>5. CASE StartTest
  <2>1. \A i \in 1 .. CONC_THREADS : h'[i] = NULL
    BY <1>5 DEF StartTest, NoHandle
  <2>2. QED
    BY <2>1 DEF Seen, Slot, CONC_THREADS
<1>6. CASE DriverMoves
  BY <1>6 DEF DriverMoves, Seen
<1>7. ASSUME Beside, NextTest
      PROVE  Seen'
  BY <1>0, <1>2, <1>7 DEF Beside, NextTest, StartBlock, Held
<1>8. ASSUME \/ /\ Beside
                /\ \/ Compute(cur) \/ Fault(cur) \/ TrapInBlock(cur)
                   \/ CountCorrupt(cur) \/ CountFaulted(cur) \/ CountReady(cur)
                   \/ Created \/ Verdict \/ Return
                   \/ \E i \in Slot : WaitForWorker(i)
                   \/ LoaderTraps
                   \/ \E t \in Threads : SwitchTo(t) \/ ThreadEnds(t)
             \/ UNCHANGED testVars
      PROVE  Seen'
  <2>1. UNCHANGED <<steady, h, readback>>
    BY <1>8 DEF Beside, Compute, Fault, TrapInBlock, CountCorrupt, CountFaulted, CountReady,
       Created, Verdict, Return, WaitForWorker, LoaderTraps, SwitchTo, ThreadEnds,
       testVars, program
  <2>2. QED
    BY <2>1, SeenStays
<1>9. QED
  BY TestSteps, <1>3, <1>4, <1>5, <1>6, <1>7, <1>8

PatternsIsolated == IsolationInv(PatternOnly)

LEMMA PatternMayBeFound == MayFind(PatternOnly)
BY DEF MayFind, PatternOnly, Xmm, XmmOf

\* "a thread eventually sees another thread's values" (ssetest.c:234): with the driver
\* loaded throughout no worker does, however often it was loaded before, on any
\* processor.
THEOREM OnlyOwnPatterns == TestSpec => []NoForeignPattern
<1>1. TestInit => ProgramInv /\ PatternsIsolated /\ Seen
  <2> SUFFICES ASSUME TestInit PROVE PatternsIsolated /\ Seen
    BY ProgramFirst
  <2>1. PatternsIsolated
    <3>1. LifeInit(Threads \ Programs) /\ Threads \ Programs \in SUBSET Threads
      BY DEF TestInit
    <3>2. QED
      BY <3>1, IsolationFirst DEF PatternsIsolated
  <2>2. QED
    BY <2>1 DEF Seen, TestInit
<1>2. ProgramInv /\ PatternsIsolated /\ Seen /\ [TestNext]_testVars
        => (ProgramInv /\ PatternsIsolated /\ Seen)'
  <2> SUFFICES ASSUME ProgramInv, PatternsIsolated, Seen, [TestNext]_testVars
               PROVE  ProgramInv' /\ PatternsIsolated' /\ Seen'
    OBVIOUS
  <2>1. TestBase /\ LifeInv /\ MemoryInv /\ IsolationInv(PatternOnly)
    BY DEF ProgramInv, TestBase, PatternsIsolated
  <2>2. nmHooked => OnlyFitting(PatternOnly) /\ TrapsTell(PatternOnly)
    BY <2>1, PatternFits, WorkersTrapLate
  <2>3. [LifeNext]_allVars
    BY <2>1, BaseHolds
  <2>4. IsolationInv(PatternOnly)'
    BY <2>1, <2>2, <2>3, PatternMayBeFound, IsolationHolds
  <2>5. PatternsIsolated'
    BY <2>4 DEF PatternsIsolated
  <2>6. QED
    BY <2>1, <2>5, ProgramHolds, SeenHolds
<1>3. ProgramInv /\ Seen => NoForeignPattern
  <2> SUFFICES ASSUME ProgramInv, Seen PROVE NoForeignPattern
    OBVIOUS
  <2>1. DOMAIN h = Slot /\ \A i \in Slot : h[i] \in {Workers[i], NULL}
    BY DEF ProgramInv, TestBase, Held
  <2>2. QED
    BY <2>1 DEF Seen, NoForeignPattern
<1>4. QED
  BY <1>1, <1>2, <1>3, PTL DEF TestSpec

-----------------------------------------------------------------------------
(* What a thread reads back that the driver knew throughout.               *)

AnyFile == [t \in Threads |-> Xmm]

OwnersTracked == IsolationInv(AnyFile)

\* A worker has its pattern in every register that it has loaded.
HoldAt(t, step, file) == \A r \in Regs : r < step - 1 => file[r] = Pattern(t)

InSse(t) == InBlock(t) /\ at[t].routine # "mmx"

\* Thread t finds what its block has left so far, and the driver will not lose it.
OwnFile(t) ==
  InSse(t) =>
    /\ at[t].step > 1 => Secured(t)
    /\ t = Main => AddAt(at[t].routine, at[t].step, readback[t], Contents(View(t)))
    /\ t # Main => HoldAt(t, at[t].step, Contents(View(t)))

OwnKept == steady => \A t \in Programs \ unowned : OwnFile(t)

\* No worker has read anything else back, unless it has once been unowned.
WorkersReadOwn ==
  \A i \in Slot : h[i] # NULL /\ Workers[i] \notin unowned =>
    readback[Workers[i]] \subseteq {Pattern(Workers[i])}

ReadsOwn == steady => WorkersReadOwn

LEMMA ServiceGoesOn == ProgramInv /\ OwnersTracked /\ steady => InService
<1> SUFFICES ASSUME ProgramInv, OwnersTracked, steady PROVE InService
  OBVIOUS
<1>1. LifeInv /\ MemoryInv /\ LifeTypeOK /\ TypeOK /\ pc = "loaded"
  BY DEF ProgramInv, TestBase, MemoryInv, LifeTypeOK, VerdictInv, NothingFaults
<1>2. nmHooked /\ swapHooked /\ osfxsr
  BY <1>1 DEF LifeInv, Installed, LowIn, HighIn, RelIn, SseOn
<1>3. PoolInv
  BY <1>1, <1>2 DEF LifeInv, Installed, MemoryInv, TypeOK, PoolKept, PoolInv
<1>4. WhoRuns /\ OwnerIsolated(AnyFile)
  BY <1>2 DEF OwnersTracked, IsolationInv
<1>5. QED
  BY <1>1, <1>2, <1>3, <1>4 DEF InService, OwnerIsolated

\* A thread that is not in a block of SSE instructions, or just starting one.
LEMMA OwnFileFresh ==
  ASSUME NEW t \in Programs,
         InSse(t)' => at'[t].step = 1 /\ readback'[t] = {}
  PROVE  OwnFile(t)'
<1>. SUFFICES ASSUME InSse(t)' PROVE OwnFile(t)'
  BY DEF OwnFile
<1>1. at'[t].step = 1 /\ readback'[t] = {}
  OBVIOUS
<1>2. AddAt(at[t].routine, at[t].step, readback[t], Contents(View(t)))'
  BY <1>1 DEF AddAt
<1>3. HoldAt(t, at[t].step, Contents(View(t)))'
  <2>1. \A r \in Regs : ~(r < at'[t].step - 1)
    BY <1>1 DEF Regs
  <2>2. QED
    BY <2>1 DEF HoldAt, Regs
<1>4. QED
  BY <1>1, <1>2, <1>3 DEF OwnFile

\* A thread that another one's step leaves where it is.
LEMMA OwnFileLeft ==
  ASSUME InService, Places, NEW t \in Programs, OwnFile(t),
         UNCHANGED <<at[t], readback[t]>>,
         \/ Running /\ (cur = t => \A v \in StoredXmm(cur) : ~SseStore(v))
         \/ UNCHANGED vars
  PROVE  OwnFile(t)'
<1>0. t \in Threads
  BY Cast
<1>1. InSse(t)' <=> InSse(t)
  BY DEF InSse, InBlock, Routines, Kinds
<1>2. CASE ~InSse(t)
  BY <1>1, <1>2, OwnFileFresh
<1>3. CASE InSse(t) /\ at[t].step > 1
  <2>1. Secured(t)' /\ View(t)' = View(t)
    <3>1. CASE Running /\ (cur = t => \A v \in StoredXmm(cur) : ~SseStore(v))
      BY <1>0, <1>3, <3>1, SecuredKept DEF OwnFile
    <3>2. CASE UNCHANGED vars
      <4>1. UNCHANGED <<save, poolVars, npx, xmm, g_FxOwner>>
        BY <3>2 DEF vars, hardware, kernel, driver
      <4>2. Area(t)' = Area(t) /\ Kept(t)' = Kept(t) /\ View(t)' = View(t)
        BY <4>1 DEF View, Kept, Area, HasArea, poolVars
      <4>3. QED
        BY <1>3, <4>1, <4>2 DEF OwnFile, Secured
    <3>3. QED
      BY <3>1, <3>2
  <2>2. Contents(View(t))' = Contents(View(t))
    BY <2>1 DEF Contents, Cleared, Regs, Zero
  <2>3. t = Main => AddAt(at[t].routine, at[t].step, readback[t], Contents(View(t)))'
    BY <1>3, <2>2 DEF OwnFile, AddAt
  <2>4. t # Main => HoldAt(t, at[t].step, Contents(View(t)))'
    BY <1>3, <2>2 DEF OwnFile, HoldAt, Regs, Pattern
  <2>5. QED
    BY <2>1, <2>3, <2>4 DEF OwnFile
<1>4. CASE InSse(t) /\ ~(at[t].step > 1)
  <2>1. at[t].step = 1
    BY <1>4, Instructions DEF InSse
  <2>2. t = Main => readback[t] = {}
    BY <1>4, <2>1 DEF OwnFile, AddAt
  <2>3. QED
    BY <2>1, <2>2 DEF OwnFile, HoldAt, AddAt, Regs
<1>5. QED
  BY <1>2, <1>3, <1>4

\* The instructions of a worker's block.
LEMMA HoldsOn ==
  ASSUME NEW t, t # NULL, NEW now, Contents(now) \in [Regs -> Data],
         NEW n \in 1 .. 2 * REGISTERS, HoldAt(t, n, Contents(now)),
         Instruction(t) = HoldTest(Pattern(t))[n]
  PROVE  /\ Instruction(t).op # "store" => HoldAt(t, n + 1, Contents(Executed(t, now)))
         /\ Instruction(t).op = "store" =>
              /\ HoldAt(t, n + 1, Contents(now))
              /\ Contents(now)[Instruction(t).reg] = Pattern(t)
<1>. PICK i : i = Instruction(t)
  OBVIOUS
<1>. PICK file \in [Regs -> Data] : file = Contents(now)
  OBVIOUS
<1>1. /\ REGISTERS \in Nat /\ REGISTERS >= 2 /\ n \in Nat
      /\ i.op = IF n <= REGISTERS THEN "load" ELSE "store"
      /\ i.reg \in Regs /\ i.data = Pattern(t)
  BY SseTestAssumption, Holding
<1>2. CASE n <= REGISTERS
  <2>1. i.reg = n - 1
    <3>1. i.reg = (n - 1) % REGISTERS
      BY <1>1 DEF HoldTest
    <3>2. QED
      BY <1>1, <1>2, <3>1
  <2>2. Contents(Executed(t, now)) = [file EXCEPT ![i.reg] = i.data]
    BY <1>1, <1>2 DEF Executed, Contents
  <2>3. \A r \in Regs : r < (n + 1) - 1 => [file EXCEPT ![i.reg] = i.data][r] = Pattern(t)
    <3> SUFFICES ASSUME NEW r \in Regs, r < (n + 1) - 1
                 PROVE  [file EXCEPT ![i.reg] = i.data][r] = Pattern(t)
      OBVIOUS
    <3>1. r = i.reg \/ r < n - 1
      BY <1>1, <2>1 DEF Regs
    <3>2. QED
      BY <1>1, <3>1 DEF HoldAt
  <2>4. HoldAt(t, n + 1, Contents(Executed(t, now)))
    BY <2>2, <2>3 DEF HoldAt
  <2>5. QED
    BY <1>1, <1>2, <2>4
<1>3. CASE n > REGISTERS
  <2>1. \A r \in Regs : r < n - 1
    BY <1>1, <1>3 DEF Regs
  <2>2. \A r \in Regs : file[r] = Pattern(t)
    BY <2>1 DEF HoldAt
  <2>3. QED
    BY <1>1, <1>3, <2>2 DEF HoldAt
<1>4. QED
  BY <1>1, <1>2, <1>3

\* A thread whose store the driver has seen goes on to the next instruction, or has
\* read back what it expected.
LEMMA OwnAdvances ==
  ASSUME LifeTypeOK, Places, Held, InService, NEW t \in Programs, t = cur, OwnFile(t),
         ReadBack(t) \/ Compute(t), InSse(t), t \notin unowned'
  PROVE  /\ OwnFile(t)'
         /\ t = Main /\ ~InBlock(t)' => readback'[t] \subseteq Expected(t)
         /\ t # Main => readback'[t] \subseteq readback[t] \cup {Pattern(t)}
<1>. PICK n : n = at[t].step
  OBVIOUS
<1>. PICK i : i = Instruction(t)
  OBVIOUS
<1>0. /\ t \in Threads /\ t # NULL /\ t # Loader /\ InBlock(t)
      /\ at[t].routine # "mmx" /\ at[t].routine \in Routines
  BY Cast DEF InSse, InBlock
<1>1. /\ n \in 1 .. Length(at[t].routine) /\ Length(at[t].routine) \in Nat
      /\ Len(Code(t)) = Length(at[t].routine) /\ i = Code(t)[n]
      /\ t # Main => at[t].routine = "hold" /\ Code(t) = HoldTest(Pattern(t))
      /\ t = Main => at[t].routine \in {"ps", "pd"} /\ Code(t) = AddTest(at[t].routine)
  BY <1>0, Instructions DEF Instruction, Kinds
<1>2. NextInstruction(t) /\ ~cr0ts
  BY <1>0 DEF ReadBack, Compute, SseStore
<1>3. npx = t /\ View(t) = xmm /\ Contents(xmm) \in [Regs -> Data]
  BY <1>2, FileContents DEF InService, WhoRuns, View
<1>4. \/ /\ n < Length(at[t].routine)
         /\ at'[t].routine = at[t].routine /\ at'[t].step = n + 1
      \/ n = Length(at[t].routine) /\ ~InBlock(t)'
  <2>1. \/ n < Length(at[t].routine) /\ GoTo(t, at[t].routine, at[t].step + 1)
        \/ /\ n = Length(at[t].routine)
           /\ GoTo(t, "ready", 0) \/ GoTo(t, "corrupt", 0) \/ GoTo(t, "return", 0)
    BY <1>0, <1>2, NextGoes
  <2>2. QED
    BY <2>1 DEF GoTo, At, Places, InBlock, Routines, Kinds
<1>5. /\ t = Main => AddAt(at[t].routine, n, readback[t], Contents(xmm))
      /\ t # Main => HoldAt(t, n, Contents(xmm))
      /\ n > 1 => Secured(t)
  BY <1>3 DEF OwnFile
<1>6. ASSUME ~InBlock(t)'
      PROVE  OwnFile(t)'
  BY <1>6 DEF OwnFile, InSse
<1>7. CASE Compute(t)
  <2>1. i.op # "store" /\ UNCHANGED readback
    BY <1>7 DEF Compute
  <2>2. SseStore(Executed(t, xmm)) /\ g_FxOwner # NULL
    BY <1>0, <1>7 DEF Compute
  <2>3. Secured(t)' /\ View(t)' = Executed(t, xmm)
    BY <1>0, <2>2, SecuredByStore
  <2>4. CASE t = Main
    <3>. PICK k \in Kinds : k = at[Main].routine
      BY <1>1, <2>4 DEF Kinds
    <3>1. n \in 1 .. 4 /\ n # 4
      <4>1. n \in 1 .. 4
        BY <1>1, <2>4 DEF Length
      <4>2. AddTest(k)[4] = [op |-> "store", reg |-> 0, data |-> <<k, "sum">>]
        BY Adds
      <4>3. AddTest(k)[4].op = "store"
        BY <4>2
      <4>4. QED
        BY <1>1, <2>1, <2>4, <4>1, <4>3
    <3>2. AddAt(k, n + 1, readback[t], Contents(Executed(t, xmm)))
      <4>1. n \in 1 .. 3 /\ at[t].routine = k /\ Instruction(t) = AddTest(k)[n]
        BY <1>1, <2>4, <3>1
      <4>2. AddAt(k, n, readback[t], Contents(xmm))
        BY <1>5, <2>4, <4>1
      <4>3. QED
        BY <1>0, <1>3, <4>1, <4>2, AddsOn
    <3>3. at'[t].routine = k /\ at'[t].step = n + 1
      BY <1>1, <1>4, <2>4, <3>1 DEF Length
    <3>4. AddAt(at[t].routine, at[t].step, readback[t], Contents(View(t)))'
      <4>1. Contents(View(t))' = Contents(Executed(t, xmm))
        BY <2>3 DEF Contents, Cleared, Regs, Zero
      <4>2. QED
        BY <2>1, <3>2, <3>3, <4>1 DEF AddAt
    <3>5. InBlock(t)'
      BY <1>0, <2>4, <3>3 DEF InBlock, Routines, Kinds
    <3>6. QED
      BY <2>1, <2>3, <2>4, <3>4, <3>5 DEF OwnFile
  <2>5. CASE t # Main
    <3>1. HoldAt(t, n + 1, Contents(Executed(t, xmm)))
      <4>1. n \in 1 .. 2 * REGISTERS
        BY <1>1, <2>5 DEF Length
      <4>2. QED
        BY <1>0, <1>1, <1>3, <1>5, <2>1, <2>5, <4>1, HoldsOn
    <3>2. HoldAt(t, n + 1, Contents(View(t)))'
      BY <2>3, <3>1 DEF HoldAt, Contents, Cleared, Regs, Zero, Pattern
    <3>3. OwnFile(t)'
      BY <1>4, <1>6, <2>3, <2>5, <3>2 DEF OwnFile, HoldAt, Regs, Pattern
    <3>4. QED
      BY <2>1, <2>5, <3>3
  <2>6. QED
    BY <2>4, <2>5
<1>8. CASE ReadBack(t)
  <2>. PICK d : d = Contents(xmm)[i.reg]
    OBVIOUS
  <2>1. /\ i.op = "store" /\ UNCHANGED vars
        /\ readback'[t] = readback[t] \cup {d}
    BY <1>0, <1>8 DEF ReadBack, Held
  <2>2. CASE t = Main
    <3>. PICK k \in Kinds : k = at[Main].routine
      BY <1>1, <2>2 DEF Kinds
    <3>1. /\ AddTest(k)[1].op # "store" /\ AddTest(k)[2].op # "store"
          /\ AddTest(k)[3].op # "store"
          /\ AddTest(k)[4].op = "store" /\ AddTest(k)[4].reg = 0
          /\ AddTest(k)[4].data = <<k, "sum">>
      <4>1. /\ AddTest(k)[1] = [op |-> "load",  reg |-> 0, data |-> <<k, "a">>]
            /\ AddTest(k)[2] = [op |-> "load",  reg |-> 1, data |-> <<k, "b">>]
            /\ AddTest(k)[3] = [op |-> "add",   reg |-> 0, data |-> <<k, "sum">>]
            /\ AddTest(k)[4] = [op |-> "store", reg |-> 0, data |-> <<k, "sum">>]
        BY Adds
      <4>2. QED
        BY <4>1
    <3>2. n = 4 /\ Length(at[t].routine) = 4
      BY <1>1, <2>1, <2>2, <3>1 DEF Length
    <3>3. d = <<k, "sum">> /\ readback[t] = {}
      BY <1>1, <1>5, <2>2, <3>1, <3>2 DEF AddAt
    <3>4. <<k, "sum">> \in Expected(t)
      <4>1. 4 \in DOMAIN Code(t)
        BY <1>1, <3>2
      <4>2. QED
        BY <1>1, <2>2, <3>1, <4>1 DEF Expected
    <3>5. QED
      BY <1>4, <1>6, <2>1, <2>2, <3>2, <3>3, <3>4
  <2>3. CASE t # Main
    <3>1. HoldAt(t, n + 1, Contents(xmm)) /\ d = Pattern(t)
      <4>1. n \in 1 .. 2 * REGISTERS
        BY <1>1, <2>3 DEF Length
      <4>2. QED
        <5>1. Instruction(t) = HoldTest(Pattern(t))[n] /\ HoldAt(t, n, Contents(xmm))
          BY <1>1, <1>5, <2>3
        <5>2. QED
          BY <1>0, <1>3, <2>1, <4>1, <5>1, HoldsOn
    <3>2. n > 1
      <4>1. n <= REGISTERS => HoldTest(Pattern(t))[n].op = "load"
        BY <1>1, <2>3, SseTestAssumption, Holding DEF Length
      <4>2. QED
        BY <1>1, <2>1, <2>3, <4>1, SseTestAssumption
    <3>3. Area(t)' = Area(t) /\ Kept(t)' = Kept(t) /\ View(t)' = View(t)
      BY <2>1 DEF View, Kept, Area, HasArea, vars, hardware, kernel, driver, poolVars
    <3>4. Secured(t)'
      BY <1>5, <2>1, <3>2, <3>3 DEF Secured, vars, hardware, kernel, driver
    <3>5. HoldAt(t, n + 1, Contents(View(t)))'
      BY <1>3, <3>1, <3>3 DEF HoldAt, Contents, Cleared, Regs, Zero, Pattern
    <3>6. OwnFile(t)'
      BY <1>4, <1>6, <2>3, <3>4, <3>5 DEF OwnFile, HoldAt, Regs, Pattern
    <3>7. QED
      BY <2>1, <2>3, <3>1, <3>6
  <2>4. QED
    BY <2>2, <2>3
<1>9. QED
  BY <1>7, <1>8

\* Thread t takes a step of its own, the others stay where they are.
LEMMA OthersKept ==
  ASSUME InService, Places, OwnKept, steady, NEW t \in Programs,
         \A u \in Programs \ {t} : /\ at'[u] = at[u] /\ readback'[u] = readback[u]
                                   /\ u \in unowned => u \in unowned',
         (Running /\ cur = t) \/ UNCHANGED vars,
         t \notin unowned' => OwnFile(t)'
  PROVE  OwnKept'
<1>1. ASSUME NEW u \in Programs, u # t, u \notin unowned'
      PROVE  OwnFile(u)'
  <2>1. OwnFile(u) /\ UNCHANGED <<at[u], readback[u]>>
    BY <1>1 DEF OwnKept
  <2>2. \/ Running /\ (cur = u => \A v \in StoredXmm(cur) : ~SseStore(v))
        \/ UNCHANGED vars
    BY <1>1
  <2>3. QED
    BY <1>1, <2>1, <2>2, OwnFileLeft
<1>2. QED
  BY <1>1 DEF OwnKept, Programs

LEMMA OwnKeptHolds ==
  ASSUME ProgramInv, OwnersTracked, OwnKept, [TestNext]_testVars
  PROVE  OwnKept'
<1>0. /\ Places /\ Held /\ LifeTypeOK /\ InOrderOfMain
      /\ Main \in Programs /\ \A i \in Slot : Workers[i] \in Programs \ {Main}
      /\ \A t \in Programs \ {Main} : \E i \in Slot : t = Workers[i]
  BY Cast DEF ProgramInv, TestBase, MemoryInv, VerdictInv
<1>. SUFFICES ASSUME steady' PROVE OwnKept'
  BY DEF OwnKept
<1>1. Beside \/ UNCHANGED testVars => InService /\ steady
  BY ServiceGoesOn DEF Beside, testVars
<1>2. ASSUME Beside, NEW t \in Programs, NEW routine, NEW step,
             GoTo(t, routine, step),
             routine \in {"ps", "pd", "hold"} => step = 1 /\ readback'[t] = {},
             \A u \in Programs \ {t} : /\ readback'[u] = readback[u]
                                       /\ u \in unowned => u \in unowned',
             (Running /\ cur = t) \/ UNCHANGED vars
      PROVE  OwnKept'
  <2>1. at'[t] = At(routine, step) /\ \A u \in Programs \ {t} : at'[u] = at[u]
    BY <1>0, <1>2 DEF GoTo, Places
  <2>2. InSse(t)' => at'[t].step = 1 /\ readback'[t] = {}
    BY <1>2, <2>1 DEF InSse, InBlock, Routines, Kinds, At
  <2>3. OwnFile(t)'
    BY <2>2, OwnFileFresh
  <2>4. QED
    BY <1>0, <1>1, <1>2, <2>1, <2>3, OthersKept
<1>3. ASSUME Beside, NEW t \in Programs, t = cur, ReadBack(t) \/ Compute(t)
      PROVE  OwnKept'
  <2>1. InBlock(t) /\ NextInstruction(t)
    BY <1>3 DEF ReadBack, Compute
  <2>2. (Running /\ cur = t) \/ UNCHANGED vars
    BY <1>0, <1>3, ComputeRuns DEF ReadBack
  <2>3. \A u \in Programs \ {t} : /\ readback'[u] = readback[u]
                                  /\ u \in unowned => u \in unowned'
    BY <1>0, <1>3 DEF ReadBack, Compute, Held
  <2>4. CASE at[t].routine = "mmx"
    <3>1. PICK routine, step : GoTo(t, routine, step) /\ routine \notin {"ps", "pd", "hold"}
      BY <2>1, <2>4, <1>0, NextGoes
    <3>2. QED
      BY <1>2, <1>3, <2>2, <2>3, <3>1
  <2>5. CASE at[t].routine # "mmx"
    <3>1. PICK routine, step : GoTo(t, routine, step)
      BY <2>1, <1>0, NextGoes
    <3>2. \A u \in Programs \ {t} : at'[u] = at[u]
      BY <1>0, <3>1 DEF GoTo, Places
    <3>3. t \notin unowned' => OwnFile(t)'
      <4> SUFFICES ASSUME t \notin unowned' PROVE OwnFile(t)'
        OBVIOUS
      <4>1. t \notin unowned
        BY <1>3 DEF ReadBack, Compute
      <4>2. OwnFile(t) /\ InSse(t)
        BY <1>1, <1>3, <2>1, <2>5, <4>1 DEF OwnKept, InSse
      <4>3. QED
        BY <1>0, <1>1, <1>3, <4>2, OwnAdvances
    <3>4. QED
      BY <1>0, <1>1, <1>3, <2>2, <2>3, <3>2, <3>3, OthersKept
  <2>6. QED
    BY <2>4, <2>5
<1>4. ASSUME Beside, NEW t \in Programs, t = cur,
             \/ Fault(t) \/ CountCorrupt(t) \/ CountFaulted(t) \/ CountReady(t)
             \/ t = Main /\ (Created \/ Verdict \/ Return \/ \E i \in Slot : WaitForWorker(i))
      PROVE  OwnKept'
  <2>1. UNCHANGED <<vars, readback, unowned>>
    BY <1>4 DEF Fault, CountCorrupt, CountFaulted, CountReady, Created, Verdict, Return,
       WaitForWorker
  <2>2. PICK routine, step : GoTo(t, routine, step) /\ routine \notin {"ps", "pd", "hold"}
    BY <1>4 DEF Fault, CountCorrupt, CountFaulted, CountReady, Created, Verdict, Return,
       WaitForWorker
  <2>3. QED
    BY <1>2, <1>4, <2>1, <2>2
<1>5. ASSUME Beside, NextTest
      PROVE  OwnKept'
  <2>1. UNCHANGED vars
    BY <1>5 DEF NextTest
  <2>2. \/ \E routine \in {"ps", "pd"} : StartBlock(Main, routine)
        \/ /\ GoTo(Main, "create", 1) \/ GoTo(Main, "exit", 0)
           /\ UNCHANGED <<readback, unowned>>
    BY <1>5 DEF NextTest
  <2>3. ASSUME NEW routine \in {"ps", "pd"}, StartBlock(Main, routine)
        PROVE  OwnKept'
    <3>1. /\ GoTo(Main, routine, 1) /\ readback'[Main] = {}
          /\ \A u \in Programs \ {Main} : /\ readback'[u] = readback[u]
                                          /\ u \in unowned => u \in unowned'
      BY <1>0, <2>3 DEF StartBlock, Held
    <3>2. QED
      BY <1>0, <1>2, <1>5, <2>1, <3>1
  <2>4. QED
    BY <1>0, <1>2, <1>5, <2>1, <2>2, <2>3
<1>6. ASSUME Beside, NEW i \in Slot, CreateWorker(i), cur = Main
      PROVE  OwnKept'
  <2>1. CASE GoTo(Main, "create", i + 1) /\ UNCHANGED <<vars, h, readback, unowned>>
    BY <1>0, <1>2, <1>6, <2>1
  <2>2. CASE /\ ThreadCreate(Workers[i])
             /\ at' = [at EXCEPT ![Main] = At("create", i + 1),
                                 ![Workers[i]] = At("hold", 1)]
             /\ readback' = [readback EXCEPT ![Workers[i]] = {}]
             /\ unowned' = unowned \ {Workers[i]}
    <3>. PICK w \in Programs \ {Main} : w = Workers[i]
      BY <1>0
    <3>1. /\ at'[Main] = At("create", i + 1) /\ at'[w] = At("hold", 1)
          /\ \A t \in Programs \ {Main, w} : at'[t] = at[t]
      BY <1>0, <1>6, <2>2, Starts DEF CreateWorker
    <3>2. /\ readback'[w] = {}
          /\ \A t \in Programs \ {w} : readback'[t] = readback[t]
      BY <1>0, <2>2 DEF Held
    <3>3. OwnFile(Main)' /\ OwnFile(w)'
      <4>1. ~InSse(Main)'
        BY <3>1 DEF InSse, InBlock, Routines, Kinds, At
      <4>2. at'[w].step = 1 /\ readback'[w] = {}
        BY <3>1, <3>2 DEF At
      <4>3. QED
        BY <1>0, <4>1, <4>2, OwnFileFresh
    <3>4. ASSUME NEW t \in Programs \ {Main, w}, t \notin unowned'
          PROVE  OwnFile(t)'
      <4>1. OwnFile(t) /\ UNCHANGED <<at[t], readback[t]>>
        BY <1>1, <1>6, <2>2, <3>1, <3>2, <3>4 DEF OwnKept
      <4>2. Running /\ cur # t
        BY <1>6, <2>2, Cast DEF Running
      <4>3. QED
        BY <1>0, <1>1, <1>6, <4>1, <4>2, OwnFileLeft
    <3>5. QED
      BY <3>3, <3>4 DEF OwnKept, Programs
  <2>3. QED
    BY <1>6, <2>1, <2>2 DEF CreateWorker
<1>7. CASE StartTest
  <2>1. /\ Main \notin alive
        /\ at'[Main] = At("mmx", 1) \/ at'[Main] = At("exit", 0)
        /\ \A t \in Programs \ {Main} : at'[t] = at[t]
    BY <1>0, <1>7 DEF StartTest, ThreadCreate, Places
  <2>2. \A i \in Slot : Waited(i)
    BY <1>0, <2>1 DEF InOrderOfMain, Waited
  <2>3. \A t \in Programs \ {Main} : at[t].routine = "over"
    BY <1>0, <2>2 DEF InOrderOfMain
  <2>4. \A t \in Programs : ~InSse(t)'
    BY <2>1, <2>3 DEF InSse, InBlock, Routines, Kinds, At
  <2>5. \A t \in Programs : OwnFile(t)'
    BY <2>4, OwnFileFresh
  <2>6. QED
    BY <2>5 DEF OwnKept, Programs
<1>8. CASE DriverMoves
  BY <1>8 DEF DriverMoves
<1>9. ASSUME \/ /\ Beside
                /\ \/ TrapInBlock(cur) \/ LoaderTraps
                   \/ \E t \in Threads : SwitchTo(t)
                   \/ cur \in Programs /\ \E t \in Threads : ThreadEnds(t)
             \/ UNCHANGED testVars
      PROVE  OwnKept'
  <2>1. UNCHANGED <<at, readback, unowned>>
    BY <1>9 DEF TrapInBlock, LoaderTraps, SwitchTo, ThreadEnds, testVars, program
  <2>2. \/ Running /\ \A v \in StoredXmm(cur) : ~SseStore(v)
        \/ UNCHANGED vars
    <3>1. CASE NmTrap
      BY <3>1 DEF NmTrap, SseStore, Running
    <3>2. ASSUME NEW t \in Threads, Switch(t) \/ ThreadExit(t)
          PROVE  Running /\ \A v \in StoredXmm(cur) : ~SseStore(v)
      <4>1. cur' # cur
        BY <3>2 DEF Switch, ThreadExit, KernelSwapContext
      <4>2. QED
        BY <3>2, <4>1 DEF SseStore, kernel, Running
    <3>3. UNCHANGED testVars => UNCHANGED vars
      BY DEF testVars, allVars
    <3>4. QED
      BY <1>9, <3>1, <3>2, <3>3 DEF TrapInBlock, LoaderTraps, SwitchTo, ThreadEnds
  <2>3. ASSUME NEW t \in Programs, t \notin unowned'
        PROVE  OwnFile(t)'
    <3>1. OwnFile(t) /\ UNCHANGED <<at[t], readback[t]>> /\ InService
      BY <1>1, <1>9, <2>1, <2>3 DEF OwnKept
    <3>2. QED
      BY <1>0, <2>2, <3>1, OwnFileLeft
  <2>4. QED
    BY <2>3 DEF OwnKept, Programs
<1>10. QED
  BY <1>0, TestSteps, <1>3, <1>4, <1>5, <1>6, <1>7, <1>8, <1>9
     DEF CreateWorker, WaitForWorker

LEMMA WorkersStay ==
  ASSUME WorkersReadOwn, UNCHANGED h,
         \A i \in Slot : /\ readback'[Workers[i]] = readback[Workers[i]]
                         /\ Workers[i] \in unowned => Workers[i] \in unowned'
  PROVE  WorkersReadOwn'
BY DEF WorkersReadOwn, Slot, CONC_THREADS, Pattern

LEMMA ReadsOwnHolds ==
  ASSUME ProgramInv, OwnersTracked, OwnKept, ReadsOwn, [TestNext]_testVars
  PROVE  ReadsOwn'
<1>0. /\ Places /\ Held /\ LifeTypeOK
      /\ Main \in Programs /\ \A i \in Slot : Workers[i] \in Programs \ {Main}
      /\ \A i, j \in Slot : Workers[i] = Workers[j] => i = j
      /\ \A t \in Programs \ {Main} : \E i \in Slot : t = Workers[i]
  BY Cast DEF ProgramInv, TestBase, MemoryInv
<1>. SUFFICES ASSUME steady' PROVE WorkersReadOwn'
  BY DEF ReadsOwn
<1>1. Beside \/ UNCHANGED testVars => InService /\ steady /\ WorkersReadOwn
  BY ServiceGoesOn DEF Beside, testVars, ReadsOwn
<1>2. ASSUME Beside, NEW t \in Programs, t = cur, t # Main, ReadBack(t) \/ Compute(t)
      PROVE  WorkersReadOwn'
  <2>1. InBlock(t) /\ NextInstruction(t) /\ UNCHANGED h /\ InSse(t)
    BY <1>0, <1>2, Instructions DEF ReadBack, Compute, InSse
  <2>2. /\ \A u \in Programs \ {t} : readback'[u] = readback[u]
        /\ \A u \in Programs : u \in unowned => u \in unowned'
    BY <1>0, <1>2 DEF ReadBack, Compute, Held
  <2>3. t \notin unowned' => readback'[t] \subseteq readback[t] \cup {Pattern(t)}
    <3> SUFFICES ASSUME t \notin unowned'
                 PROVE  readback'[t] \subseteq readback[t] \cup {Pattern(t)}
      OBVIOUS
    <3>1. OwnFile(t)
      BY <1>1, <1>2, <2>2 DEF OwnKept
    <3>2. QED
      BY <1>0, <1>1, <1>2, <2>1, <3>1, OwnAdvances
  <2>4. \A i \in Slot : h[i] # NULL /\ Workers[i] \notin unowned' =>
          readback'[Workers[i]] \subseteq {Pattern(Workers[i])}
    BY <1>0, <1>1, <1>2, <2>2, <2>3 DEF WorkersReadOwn
  <2>5. QED
    BY <2>1, <2>4 DEF WorkersReadOwn, Slot, CONC_THREADS, Pattern
<1>3. ASSUME Beside, \/ Main = cur /\ (ReadBack(Main) \/ Compute(Main))
                     \/ NextTest
      PROVE  WorkersReadOwn'
  <2>1. /\ UNCHANGED h
        /\ \A u \in Programs \ {Main} : /\ readback'[u] = readback[u]
                                        /\ u \in unowned => u \in unowned'
    BY <1>0, <1>3 DEF ReadBack, Compute, NextTest, StartBlock, Held
  <2>2. QED
    BY <1>0, <1>1, <1>3, <2>1, WorkersStay
<1>4. ASSUME Beside, NEW i \in Slot, CreateWorker(i)
      PROVE  WorkersReadOwn'
  <2>1. CASE UNCHANGED <<h, readback, unowned>>
    BY <1>1, <1>4, <2>1, WorkersStay
  <2>2. CASE /\ h' = [h EXCEPT ![i] = Workers[i]]
             /\ readback' = [readback EXCEPT ![Workers[i]] = {}]
             /\ unowned' = unowned \ {Workers[i]}
    <3>1. /\ readback'[Workers[i]] = {}
          /\ \A j \in Slot \ {i} : /\ h'[j] = h[j]
                                   /\ readback'[Workers[j]] = readback[Workers[j]]
                                   /\ Workers[j] \in unowned => Workers[j] \in unowned'
      BY <1>0, <2>2 DEF Held
    <3>2. \A j \in Slot : h'[j] # NULL /\ Workers[j] \notin unowned' =>
            readback'[Workers[j]] \subseteq {Pattern(Workers[j])}
      BY <1>1, <1>4, <3>1 DEF WorkersReadOwn
    <3>3. QED
      BY <3>2 DEF WorkersReadOwn, Slot, CONC_THREADS, Pattern
  <2>3. QED
    BY <1>4, <2>1, <2>2 DEF CreateWorker
<1>5. CASE StartTest
  <2>1. \A i \in 1 .. CONC_THREADS : h'[i] = NULL
    BY <1>5 DEF StartTest, NoHandle
  <2>2. QED
    BY <2>1 DEF WorkersReadOwn, Slot, CONC_THREADS
<1>6. CASE DriverMoves
  BY <1>6 DEF DriverMoves
<1>7. ASSUME \/ /\ Beside
                /\ \/ TrapInBlock(cur) \/ LoaderTraps \/ Fault(cur)
                   \/ CountCorrupt(cur) \/ CountFaulted(cur) \/ CountReady(cur)
                   \/ Created \/ Verdict \/ Return
                   \/ \E i \in Slot : WaitForWorker(i)
                   \/ \E t \in Threads : SwitchTo(t) \/ ThreadEnds(t)
             \/ UNCHANGED testVars
      PROVE  WorkersReadOwn'
  <2>1. UNCHANGED <<h, readback, unowned>>
    BY <1>7 DEF TrapInBlock, LoaderTraps, Fault, CountCorrupt, CountFaulted, CountReady,
       Created, Verdict, Return, WaitForWorker, SwitchTo, ThreadEnds, testVars, program
  <2>2. QED
    BY <1>1, <1>7, <2>1, WorkersStay
<1>8. QED
  BY <1>0, TestSteps, <1>2, <1>3, <1>4, <1>5, <1>6, <1>7

OwnInv == ProgramInv /\ OwnersTracked /\ OwnKept /\ ReadsOwn

LEMMA OwnFirst == TestInit => OwnInv
<1> SUFFICES ASSUME TestInit PROVE OwnInv
  OBVIOUS
<1>1. OwnersTracked
  <2>1. LifeInit(Threads \ Programs) /\ Threads \ Programs \in SUBSET Threads
    BY DEF TestInit
  <2>2. QED
    BY <2>1, IsolationFirst DEF OwnersTracked
<1>2. ~steady
  BY DEF TestInit
<1>3. QED
  BY <1>1, <1>2, ProgramFirst DEF OwnInv, OwnKept, ReadsOwn

LEMMA OwnHolds ==
  ASSUME OwnInv, [TestNext]_testVars
  PROVE  OwnInv'
<1>1. TestBase /\ LifeInv /\ MemoryInv /\ LifeTypeOK /\ Places /\ Held
  BY DEF OwnInv, ProgramInv, TestBase, MemoryInv
<1>2. OwnersTracked'
  <2>1. MayFind(AnyFile) /\ OnlyFitting(AnyFile) /\ TrapsTell(AnyFile)
    <3>1. cur \in Threads
      BY <1>1 DEF LifeTypeOK, TypeOK
    <3>2. QED
      BY <3>1 DEF MayFind, OnlyFitting, TrapsTell, AnyFile, Xmm, XmmOf
  <2>2. IsolationInv(AnyFile) /\ [LifeNext]_allVars
    BY <1>1, BaseHolds DEF OwnInv, OwnersTracked
  <2>3. IsolationInv(AnyFile)'
    BY <1>1, <2>1, <2>2, IsolationHolds
  <2>4. QED
    BY <2>3 DEF OwnersTracked
<1>3. QED
  BY <1>1, <1>2, ProgramHolds, OwnKeptHolds, ReadsOwnHolds DEF OwnInv

\* A wrong value that a worker reads back under a driver that stays loaded is always the
\* same failure: the worker loaded a register while g_FxOwner was NULL.  That holds on any
\* processor, and for any number of workers and registers.
THEOREM WrongHasCause == TestSpec => []WrongOnlyIfUnowned
<1>1. OwnInv => WrongOnlyIfUnowned
  <2> SUFFICES ASSUME OwnInv PROVE WrongOnlyIfUnowned
    OBVIOUS
  <2>1. DOMAIN h = Slot /\ \A i \in Slot : h[i] \in {Workers[i], NULL}
    BY DEF OwnInv, ProgramInv, TestBase, Held
  <2>2. QED
    BY <2>1 DEF OwnInv, ReadsOwn, WorkersReadOwn, WrongOnlyIfUnowned
<1>2. QED
  BY <1>1, OwnFirst, OwnHolds, PTL DEF TestSpec
=============================================================================
