------------------------------ MODULE LoadGates ------------------------------
(***************************************************************************)
(* Whether a load goes ahead: the first part of nt351sse's DriverEntry     *)
(* (ForceNpxEmulationSet, HasCpuid, GetCpuFeatures and the refusals it     *)
(* logs), beside the toolchain test driver ntver.c, whose DriverEntry      *)
(* reads the same registry value and the same feature bits and logs them.  *)
(*                                                                         *)
(* Both run in system threads at PASSIVE_LEVEL, where they are preempted   *)
(* between any two calls, and an administrator may edit the value at any   *)
(* time.  Opening the key, the two allocations and the log entry may fail. *)
(*                                                                         *)
(* What DriverLife does with a load that passes is not repeated here: its  *)
(* action CheckGates stands for all that happens in this module.           *)
(***************************************************************************)
EXTENDS Naturals, FiniteSets

CONSTANTS
  NULL,
  Processors,       \* the processors considered, each as the set of its features
  Values            \* what ForceNpxEmulation may be, when it exists

\* An entry of the log: the reason code of a refusal, or feature bits.
Code(n) == <<"code", n>>
Bits(f) == <<"bits", f>>

ASSUME LoadGatesAssumption ==
  /\ Values \subseteq [type : {"REG_DWORD", "REG_BINARY", "REG_SZ"},
                       bytes : Nat, data : Nat]
  /\ NULL \notin Values
  /\ \A code \in 1 .. 3 : NULL # Code(code)

Drivers == {"nt351sse", "ntver"}

VARIABLES
  processor,        \* the features of this machine's processor
  registry,         \* ForceNpxEmulation, or NULL when it does not exist
  at,               \* each driver's next step
  key,              \* the drivers that have the key open
  info,             \* each driver's KEY_VALUE_PARTIAL_INFORMATION block
  answer,           \* ForceNpxEmulationSet's result; ReadSessionManagerValue's *Value
  features,         \* EDX of CPUID leaf 1, as a set of features
  log,              \* the entry each driver has written, or NULL
  seen,             \* history: what registry has been during DriverEntry
  blind             \* history: the drivers that could not look

reads    == <<key, info, answer>>
gateVars == <<processor, registry, at, reads, features, log, seen, blind>>

\* What a block holds: nothing is allocated, not written yet, or a value.
Absent     == <<"absent">>
Unwritten  == <<"unwritten">>
Written(v) == <<"value", v>>

\* Mutant: the block is allocated for the fixed part alone.
INFO_ROOM_NoData == 0

\* The fixed part of the block is 12 bytes and 20 are allocated.
INFO_ROOM == 8

\* The features of EDX that the drivers look at; HasCpuid tells of "CPUID".
Edx == {"MMX", "FXSR", "SSE", "SSE2"}

\* A value the driver declines for: a REG_DWORD that is neither 0 nor 1.
Declines(v) == v.type = "REG_DWORD" /\ v.bytes = 4 /\ v.data \notin {0, 1}

\* The C truth values.
False == 0
True  == 1

\* What the driver makes of a successful query: nt351sse a truth value, ntver a number.
Judge(d, v) ==
  IF d = "nt351sse" THEN (IF Declines(v) THEN True ELSE False)
  ELSE IF v.type = "REG_DWORD" /\ v.bytes = 4 THEN v.data ELSE 0

\* What it answers without a query that succeeded.
NoAnswer == False

Goto(d, from, to) == at[d] = from /\ at' = [at EXCEPT ![d] = to]

\* Mutant: ntver, too, takes its answer for an order.
Return_ToJudge(d) == "judge"

\* Where the routine returns to.
Return(d) == IF d = "nt351sse" THEN "judge" ELSE "log"

-----------------------------------------------------------------------------
(* Reading the registry: ForceNpxEmulationSet, ReadSessionManagerValue.    *)

OpenKey(d) ==
  /\ answer' = [answer EXCEPT ![d] = NoAnswer]
  /\ \/ Goto(d, "open", "allocate") /\ key' = key \cup {d} /\ UNCHANGED blind
     \/ Goto(d, "open", Return(d)) /\ blind' = blind \cup {d} /\ UNCHANGED key
  /\ UNCHANGED <<processor, registry, info, features, log, seen>>

\* Mutant: the allocation's failure returns at once.
AllocateInfo_KeyStaysOpen(d) ==
  /\ \/ /\ Goto(d, "allocate", "query")
        /\ info' = [info EXCEPT ![d] = Unwritten]
        /\ UNCHANGED blind
     \/ /\ Goto(d, "allocate", Return(d))
        /\ blind' = blind \cup {d}
        /\ UNCHANGED info
  /\ UNCHANGED <<processor, registry, key, answer, features, log, seen>>

\* Without memory for the block there is only the key to close.
AllocateInfo(d) ==
  /\ \/ /\ Goto(d, "allocate", "query")
        /\ info' = [info EXCEPT ![d] = Unwritten]
        /\ UNCHANGED blind
     \/ /\ Goto(d, "allocate", "close")
        /\ blind' = blind \cup {d}
        /\ UNCHANGED info
  /\ UNCHANGED <<processor, registry, key, answer, features, log, seen>>

\* ZwQueryValueKey, which fails when there is no value or it does not fit.
QueryValue(d) ==
  /\ Goto(d, "query", "look")
  /\ info' = IF registry # NULL /\ registry.bytes <= INFO_ROOM
             THEN [info EXCEPT ![d] = Written(registry)] ELSE info
  /\ UNCHANGED <<processor, registry, key, answer, features, log, seen, blind>>

\* Mutant: the query's status is not looked at, and the block's contents are.
LookAtInfo_AnyStatus(d) ==
  /\ Goto(d, "look", "free")
  /\ \E v \in Values :
       /\ info[d] # Unwritten => info[d] = Written(v)
       /\ answer' = [answer EXCEPT ![d] = Judge(d, v)]
  /\ UNCHANGED <<processor, registry, key, info, features, log, seen, blind>>

\* The block is looked at if the query wrote it, and freed.
LookAtInfo(d) ==
  /\ Goto(d, "look", "free")
  /\ IF info[d] = Unwritten THEN UNCHANGED answer
     ELSE \E v \in Values : /\ info[d] = Written(v)
                            /\ answer' = [answer EXCEPT ![d] = Judge(d, v)]
  /\ UNCHANGED <<processor, registry, key, info, features, log, seen, blind>>

FreeInfo(d) ==
  /\ Goto(d, "free", "close")
  /\ info' = [info EXCEPT ![d] = Absent]
  /\ UNCHANGED <<processor, registry, key, answer, features, log, seen, blind>>

CloseKey(d) ==
  /\ Goto(d, "close", Return(d))
  /\ key' = key \ {d}
  /\ UNCHANGED <<processor, registry, info, answer, features, log, seen, blind>>

-----------------------------------------------------------------------------
(* The processor.                                                          *)

\* Mutant: the caller gets the version word (EAX) for the features.
GetCpuFeatures_Swapped(d) ==
  /\ \/ /\ d = "nt351sse" /\ Goto(d, "features", "gate")
        /\ features' = [features EXCEPT ![d] = processor \cap Edx]
     \/ /\ d = "ntver" /\ Goto(d, "features", "open")
        /\ features' = [features EXCEPT ![d] = {}]
  /\ UNCHANGED <<processor, registry, reads, log, seen, blind>>

\* GetCpuFeatures, where HasCpuid has found EFLAGS.ID to flip.
GetCpuFeatures(d) ==
  /\ Goto(d, "features", IF d = "nt351sse" THEN "gate" ELSE "open")
  /\ features' = [features EXCEPT ![d] = processor \cap Edx]
  /\ UNCHANGED <<processor, registry, reads, log, seen, blind>>

-----------------------------------------------------------------------------
(* The log: LogResult writes an entry if one can be allocated.             *)

LogResult(d, unique) ==
  log' = [log EXCEPT ![d] = unique] \/ UNCHANGED log

Refuse(from, code) ==
  /\ Goto("nt351sse", from, "refused")
  /\ LogResult("nt351sse", Code(code))

-----------------------------------------------------------------------------
(* nt351sse's DriverEntry.                                                 *)

\* The value is looked at first.
JudgeOptOut ==
  /\ \/ answer["nt351sse"] # False /\ Refuse("judge", 2)
     \/ answer["nt351sse"] = False /\ Goto("nt351sse", "judge", "cpuid") /\ UNCHANGED log
  /\ UNCHANGED <<processor, registry, reads, features, seen, blind>>

ProbeCpuid ==
  /\ \/ "CPUID" \notin processor /\ Refuse("cpuid", 3)
     \/ "CPUID" \in processor /\ Goto("nt351sse", "cpuid", "features") /\ UNCHANGED log
  /\ UNCHANGED <<processor, registry, reads, features, seen, blind>>

\* The gate: FXSR and SSE.
GateOnFeatures ==
  /\ \/ ~({"FXSR", "SSE"} \subseteq features["nt351sse"]) /\ Refuse("gate", 1)
     \/ /\ {"FXSR", "SSE"} \subseteq features["nt351sse"]
        /\ Goto("nt351sse", "gate", "passed") /\ UNCHANGED log
  /\ UNCHANGED <<processor, registry, reads, features, seen, blind>>

-----------------------------------------------------------------------------
(* ntver's DriverEntry.                                                    *)

NtverProbesCpuid ==
  /\ Goto("ntver", "cpuid", IF "CPUID" \in processor THEN "features" ELSE "open")
  /\ UNCHANGED <<processor, registry, reads, features, log, seen, blind>>

\* Whatever it has found it stays, having logged the bits it has.
NtverLogs ==
  /\ Goto("ntver", "log", "passed")
  /\ LogResult("ntver", Bits(features["ntver"]))
  /\ UNCHANGED <<processor, registry, reads, features, seen, blind>>

-----------------------------------------------------------------------------
(* The service controller and the administrator.                           *)

\* An image is loaded and its DriverEntry called.  Its locals start afresh.
Start(d) ==
  /\ Goto(d, "out", IF d = "nt351sse" THEN "open" ELSE "cpuid")
  /\ answer' = [answer EXCEPT ![d] = NoAnswer]
  /\ features' = [features EXCEPT ![d] = {}]
  /\ log' = [log EXCEPT ![d] = NULL]
  /\ seen' = [seen EXCEPT ![d] = {registry}]
  /\ blind' = blind \ {d}
  /\ UNCHANGED <<processor, registry, key, info>>

\* The image goes: after a refusal at once, else when the service is stopped.
Leave(d) ==
  /\ Goto(d, "refused", "out") \/ Goto(d, "passed", "out")
  /\ UNCHANGED <<processor, registry, reads, features, log, seen, blind>>

EditRegistry ==
  /\ registry' \in Values \cup {NULL}
  /\ seen' = [d \in Drivers |-> seen[d] \cup {registry'}]
  /\ UNCHANGED <<processor, at, reads, features, log, blind>>

-----------------------------------------------------------------------------

GatesInit ==
  /\ processor \in Processors
  /\ registry \in Values \cup {NULL}
  /\ at = [d \in Drivers |-> "out"]
  /\ key = {}
  /\ info = [d \in Drivers |-> Absent]
  /\ answer = [d \in Drivers |-> NoAnswer]
  /\ features = [d \in Drivers |-> {}]
  /\ log = [d \in Drivers |-> NULL]
  /\ seen = [d \in Drivers |-> {registry}]
  /\ blind = {}

Reads(d) ==
  \/ OpenKey(d)
  \/ AllocateInfo(d)
  \/ QueryValue(d)
  \/ LookAtInfo(d)
  \/ FreeInfo(d)
  \/ CloseKey(d)

DriverEntries ==
  \/ \E d \in Drivers : Reads(d) \/ GetCpuFeatures(d)
  \/ JudgeOptOut \/ ProbeCpuid \/ GateOnFeatures
  \/ NtverProbesCpuid \/ NtverLogs

GatesNext ==
  \/ DriverEntries
  \/ \E d \in Drivers : Start(d) \/ Leave(d)
  \/ EditRegistry

GatesSpec == GatesInit /\ [][GatesNext]_gateVars

-----------------------------------------------------------------------------
(* Properties.                                                             *)

ReadSteps == {"open", "allocate", "query", "look", "free", "close"}
Steps == ReadSteps \cup {"out", "judge", "cpuid", "features", "gate", "log",
                         "refused", "passed"}

Entries == {Code(n) : n \in 1 .. 3} \cup {Bits(f) : f \in SUBSET Edx}

GatesTypeOK ==
  /\ processor \in Processors
  /\ registry \in Values \cup {NULL}
  /\ at \in [Drivers -> Steps]
  /\ at["nt351sse"] # "log" /\ at["ntver"] \notin {"judge", "gate", "refused"}
  /\ key \subseteq Drivers
  /\ info \in [Drivers -> {Absent, Unwritten} \cup {Written(v) : v \in Values}]
  /\ answer \in [Drivers -> Nat] /\ answer["nt351sse"] \in {False, True}
  /\ features \in [Drivers -> SUBSET Edx]
  /\ log \in [Drivers -> Entries \cup {NULL}]
  /\ seen \in [Drivers -> SUBSET (Values \cup {NULL})]
  /\ blind \subseteq Drivers

\* Whatever fails while the registry is read, no driver goes on with the key open
\* or the block allocated: outside the routine it holds neither.
NothingHeld ==
  \A d \in Drivers : at[d] \notin ReadSteps => d \notin key /\ info[d] = Absent

\* "DriverEntry ran and refused (check Event Viewer for the reason code)"
\* (README.md:149): each refusal has its cause, though the value may have changed
\* since, and the code, if it could be logged, is that of the cause.
Cause(code) ==
  CASE code = 1 -> "CPUID" \in processor /\ ~({"FXSR", "SSE"} \subseteq processor)
    [] code = 2 -> \E v \in seen["nt351sse"] \ {NULL} : Declines(v)
    [] code = 3 -> "CPUID" \notin processor

RefusedForCause ==
  at["nt351sse"] = "refused" =>
    \E code \in 1 .. 3 : Cause(code) /\ log["nt351sse"] \in {NULL, Code(code)}

\* "honours ForceNpxEmulation" (README.md:612): where nt351sse could look it goes ahead
\* against no value that was there all the time it was loading and asked it not to.
\* Where it could not open the key or had no memory for the block it goes ahead.
\* (ntver reads the value too, and loads whatever it is.)
DeclinesIfItCanLook ==
  at["nt351sse"] = "passed" /\ "nt351sse" \notin blind =>
    \E v \in seen["nt351sse"] : v = NULL \/ ~Declines(v)

\* "the driver ran and saw these CPU bits" (ntver.c:85): what ntver has logged tells
\* whether this processor gets nt351sse past its gates: it has the bits where
\* nt351sse has passed, and lacks one where nt351sse has refused for the processor.
NtverTells ==
  at["ntver"] = "passed" /\ log["ntver"] # NULL =>
    \E f \in SUBSET Edx :
      /\ log["ntver"] = Bits(f)
      /\ at["nt351sse"] = "passed" => {"FXSR", "SSE"} \subseteq f
      /\ at["nt351sse"] = "refused" /\ log["nt351sse"] \in {Code(1), Code(3)}
           => ~({"FXSR", "SSE"} \subseteq f)
=============================================================================
