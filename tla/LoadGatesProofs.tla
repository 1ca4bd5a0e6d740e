--------------------------- MODULE LoadGatesProofs ---------------------------
(***************************************************************************)
(* Theorems about LoadGates, for any processors and any values of          *)
(* ForceNpxEmulation.                                                      *)
(*                                                                         *)
(* The invariant has three parts: the types, what each driver holds at     *)
(* each step (Held), and where what it knows comes from (Traced).  Each    *)
(* action is shown to preserve each part.                                  *)
(***************************************************************************)
EXTENDS LoadGates, TLAPS

\* What is held is held at exactly these steps.
Held ==
  \A d \in Drivers :
    /\ d \in key <=> at[d] \in {"allocate", "query", "look", "free", "close"}
    /\ info[d] # Absent <=> at[d] \in {"query", "look", "free"}

\* What ntver makes of the processor.
NtverBits == IF "CPUID" \in processor THEN processor \cap Edx ELSE {}

\* An answer comes from a value that was there while the driver was loading.
AnswerTraced ==
  /\ \A d \in Drivers : registry \in seen[d]
  /\ \A d \in Drivers : \A v \in Values : info[d] = Written(v) => v \in seen[d]
  /\ answer["nt351sse"] # False => Cause(2)

\* nt351sse comes past the value only if it could not look, or at some time during
\* its load there was none to heed: a query fails for none, or for one too large.
NothingToHeed == \E v \in seen["nt351sse"] : v = NULL \/ ~Declines(v)

HeedTraced ==
  /\ at["nt351sse"] = "look" /\ info["nt351sse"] = Unwritten => NothingToHeed
  /\ /\ at["nt351sse"] \in {"free", "close", "judge"} /\ answer["nt351sse"] = False
     /\ "nt351sse" \notin blind
     => NothingToHeed
  /\ /\ at["nt351sse"] \in {"cpuid", "features", "gate", "passed"}
     /\ "nt351sse" \notin blind
     => NothingToHeed

\* What a driver knows of the processor is so.
BitsTraced ==
  /\ at["nt351sse"] \in {"features", "gate", "passed"} => "CPUID" \in processor
  /\ at["nt351sse"] = "gate" => features["nt351sse"] = processor \cap Edx
  /\ at["nt351sse"] = "passed" => {"FXSR", "SSE"} \subseteq processor
  /\ at["ntver"] = "cpuid" => features["ntver"] = {}
  /\ at["ntver"] = "features" => "CPUID" \in processor
  /\ at["ntver"] \in ReadSteps \cup {"log"} => features["ntver"] = NtverBits

\* What a driver has logged is so.
LogTraced ==
  /\ at["nt351sse"] \notin {"out", "refused"} => log["nt351sse"] = NULL
  /\ RefusedForCause
  /\ at["ntver"] \notin {"out", "passed"} => log["ntver"] = NULL
  /\ at["ntver"] = "passed" => log["ntver"] \in {NULL, Bits(NtverBits)}

GatesInv ==
  GatesTypeOK /\ Held /\ AnswerTraced /\ HeedTraced /\ BitsTraced /\ LogTraced

-----------------------------------------------------------------------------
(* The parts of the invariant.                                             *)

LEMMA GatesInitInv == GatesInit => GatesInv
  BY LoadGatesAssumption DEF GatesInit, GatesInv, GatesTypeOK, Held, AnswerTraced,
     HeedTraced, BitsTraced, LogTraced, RefusedForCause, NtverBits, Absent, Unwritten, Written, NoAnswer,
     Drivers, Steps, ReadSteps, Edx, False, True

LEMMA TypesHold ==
  ASSUME GatesTypeOK, [GatesNext]_gateVars
  PROVE  GatesTypeOK'
<1>. USE LoadGatesAssumption DEF GatesTypeOK, Goto, Return, Refuse, LogResult, reads,
         NoAnswer, False, True, Drivers, Steps, ReadSteps
<1>1. ASSUME NEW d \in Drivers, OpenKey(d)
      PROVE  GatesTypeOK'
  <2>1. CASE d = "nt351sse"
    BY <1>1, <2>1 DEF OpenKey
  <2>2. CASE d = "ntver"
    BY <1>1, <2>2 DEF OpenKey
  <2>3. QED
    BY <2>1, <2>2 DEF Drivers
<1>2. ASSUME NEW d \in Drivers, AllocateInfo(d)
      PROVE  GatesTypeOK'
  <2>1. CASE Goto(d, "allocate", "query") /\ info' = [info EXCEPT ![d] = Unwritten]
             /\ UNCHANGED blind
    BY <1>2, <2>1 DEF AllocateInfo
  <2>2. CASE Goto(d, "allocate", "close") /\ blind' = blind \cup {d} /\ UNCHANGED info
    BY <1>2, <2>2 DEF AllocateInfo
  <2>3. QED
    BY <1>2, <2>1, <2>2 DEF AllocateInfo
<1>3. ASSUME NEW d \in Drivers, QueryValue(d)
      PROVE  GatesTypeOK'
  BY <1>3 DEF QueryValue
<1>4. ASSUME NEW d \in Drivers, LookAtInfo(d)
      PROVE  GatesTypeOK'
  BY <1>4 DEF LookAtInfo, Judge
<1>5. ASSUME NEW d \in Drivers, FreeInfo(d)
      PROVE  GatesTypeOK'
  BY <1>5 DEF FreeInfo
<1>6. ASSUME NEW d \in Drivers, CloseKey(d)
      PROVE  GatesTypeOK'
  BY <1>6 DEF CloseKey
<1>7. ASSUME NEW d \in Drivers, GetCpuFeatures(d)
      PROVE  GatesTypeOK'
  BY <1>7 DEF GetCpuFeatures
<1>8. ASSUME NEW d \in Drivers, Start(d)
      PROVE  GatesTypeOK'
  BY <1>8 DEF Start
<1>9. ASSUME NEW d \in Drivers, Leave(d)
      PROVE  GatesTypeOK'
  BY <1>9 DEF Leave
<1>10. CASE JudgeOptOut
  BY <1>10 DEF JudgeOptOut, Entries
<1>11. CASE ProbeCpuid
  BY <1>11 DEF ProbeCpuid, Entries
<1>12. CASE GateOnFeatures
  BY <1>12 DEF GateOnFeatures, Entries
<1>13. CASE NtverProbesCpuid
  BY <1>13 DEF NtverProbesCpuid
<1>14. CASE NtverLogs
  BY <1>14 DEF NtverLogs, Entries
<1>15. CASE EditRegistry
  BY <1>15 DEF EditRegistry
<1>16. CASE UNCHANGED gateVars
  BY <1>16 DEF gateVars
<1>17. QED
  BY <1>1, <1>2, <1>3, <1>4, <1>5, <1>6, <1>7, <1>8, <1>9, <1>10, <1>11, <1>12, <1>13, <1>14, <1>15, <1>16
     DEF GatesNext, DriverEntries, Reads

LEMMA HeldHolds ==
  ASSUME GatesTypeOK, Held, [GatesNext]_gateVars
  PROVE  Held'
<1>. USE DEF GatesTypeOK, Held, Goto, Return, Refuse, reads, Drivers,
         Absent, Unwritten, Written
<1>1. ASSUME NEW d \in Drivers, OpenKey(d)
      PROVE  Held'
  BY <1>1 DEF OpenKey
<1>2. ASSUME NEW d \in Drivers, AllocateInfo(d)
      PROVE  Held'
  BY <1>2 DEF AllocateInfo
<1>3. ASSUME NEW d \in Drivers, QueryValue(d)
      PROVE  Held'
  BY <1>3 DEF QueryValue
<1>4. ASSUME NEW d \in Drivers, LookAtInfo(d)
      PROVE  Held'
  BY <1>4 DEF LookAtInfo
<1>5. ASSUME NEW d \in Drivers, FreeInfo(d)
      PROVE  Held'
  BY <1>5 DEF FreeInfo
<1>6. ASSUME NEW d \in Drivers, CloseKey(d)
      PROVE  Held'
  BY <1>6 DEF CloseKey
<1>7. ASSUME NEW d \in Drivers, GetCpuFeatures(d)
      PROVE  Held'
  BY <1>7 DEF GetCpuFeatures
<1>8. ASSUME NEW d \in Drivers, Start(d)
      PROVE  Held'
  BY <1>8 DEF Start
<1>9. ASSUME NEW d \in Drivers, Leave(d)
      PROVE  Held'
  BY <1>9 DEF Leave
<1>10. CASE JudgeOptOut
  BY <1>10 DEF JudgeOptOut
<1>11. CASE ProbeCpuid
  BY <1>11 DEF ProbeCpuid
<1>12. CASE GateOnFeatures
  BY <1>12 DEF GateOnFeatures
<1>13. CASE NtverProbesCpuid
  BY <1>13 DEF NtverProbesCpuid
<1>14. CASE NtverLogs
  BY <1>14 DEF NtverLogs
<1>15. CASE EditRegistry
  BY <1>15 DEF EditRegistry
<1>16. CASE UNCHANGED gateVars
  BY <1>16 DEF gateVars
<1>17. QED
  BY <1>1, <1>2, <1>3, <1>4, <1>5, <1>6, <1>7, <1>8, <1>9, <1>10, <1>11, <1>12, <1>13, <1>14, <1>15, <1>16
     DEF GatesNext, DriverEntries, Reads

LEMMA AnswerHolds ==
  ASSUME GatesTypeOK, Held, AnswerTraced, [GatesNext]_gateVars
  PROVE  AnswerTraced'
<1>. USE LoadGatesAssumption DEF GatesTypeOK, Held, AnswerTraced, Cause, Goto, Refuse,
         reads, Drivers, Absent, Unwritten, Written, NoAnswer, False, True
<1>1. ASSUME NEW d \in Drivers, OpenKey(d)
      PROVE  AnswerTraced'
  BY <1>1 DEF OpenKey
<1>2. ASSUME NEW d \in Drivers, AllocateInfo(d)
      PROVE  AnswerTraced'
  BY <1>2 DEF AllocateInfo
<1>3. ASSUME NEW d \in Drivers, QueryValue(d)
      PROVE  AnswerTraced'
  BY <1>3 DEF QueryValue
<1>4. ASSUME NEW d \in Drivers, LookAtInfo(d)
      PROVE  AnswerTraced'
  BY <1>4 DEF LookAtInfo, Judge
<1>5. ASSUME NEW d \in Drivers, FreeInfo(d)
      PROVE  AnswerTraced'
  BY <1>5 DEF FreeInfo
<1>6. ASSUME NEW d \in Drivers, CloseKey(d)
      PROVE  AnswerTraced'
  BY <1>6 DEF CloseKey
<1>7. ASSUME NEW d \in Drivers, GetCpuFeatures(d)
      PROVE  AnswerTraced'
  BY <1>7 DEF GetCpuFeatures
<1>8. ASSUME NEW d \in Drivers, Start(d)
      PROVE  AnswerTraced'
  BY <1>8 DEF Start
<1>9. ASSUME NEW d \in Drivers, Leave(d)
      PROVE  AnswerTraced'
  BY <1>9 DEF Leave
<1>10. CASE JudgeOptOut
  BY <1>10 DEF JudgeOptOut
<1>11. CASE ProbeCpuid
  BY <1>11 DEF ProbeCpuid
<1>12. CASE GateOnFeatures
  BY <1>12 DEF GateOnFeatures
<1>13. CASE NtverProbesCpuid
  BY <1>13 DEF NtverProbesCpuid
<1>14. CASE NtverLogs
  BY <1>14 DEF NtverLogs
<1>15. CASE EditRegistry
  BY <1>15 DEF EditRegistry
<1>16. CASE UNCHANGED gateVars
  BY <1>16 DEF gateVars
<1>17. QED
  BY <1>1, <1>2, <1>3, <1>4, <1>5, <1>6, <1>7, <1>8, <1>9, <1>10, <1>11, <1>12, <1>13, <1>14, <1>15, <1>16
     DEF GatesNext, DriverEntries, Reads

LEMMA HeedHolds ==
  ASSUME GatesTypeOK, AnswerTraced, HeedTraced, [GatesNext]_gateVars
  PROVE  HeedTraced'
<1>. USE LoadGatesAssumption DEF GatesTypeOK, AnswerTraced, HeedTraced, NothingToHeed,
         Goto, Refuse, Return, reads, Drivers, Absent, Unwritten, Written, NoAnswer,
         False, True
<1>1. ASSUME NEW d \in Drivers, OpenKey(d)
      PROVE  HeedTraced'
  BY <1>1 DEF OpenKey
<1>2. ASSUME NEW d \in Drivers, AllocateInfo(d)
      PROVE  HeedTraced'
  BY <1>2 DEF AllocateInfo
<1>3. ASSUME NEW d \in Drivers, QueryValue(d)
      PROVE  HeedTraced'
  BY <1>3 DEF QueryValue, Declines, INFO_ROOM
<1>4. ASSUME NEW d \in Drivers, LookAtInfo(d)
      PROVE  HeedTraced'
  BY <1>4 DEF LookAtInfo, Judge
<1>5. ASSUME NEW d \in Drivers, FreeInfo(d)
      PROVE  HeedTraced'
  BY <1>5 DEF FreeInfo
<1>6. ASSUME NEW d \in Drivers, CloseKey(d)
      PROVE  HeedTraced'
  BY <1>6 DEF CloseKey
<1>7. ASSUME NEW d \in Drivers, GetCpuFeatures(d)
      PROVE  HeedTraced'
  BY <1>7 DEF GetCpuFeatures
<1>8. ASSUME NEW d \in Drivers, Start(d)
      PROVE  HeedTraced'
  BY <1>8 DEF Start
<1>9. ASSUME NEW d \in Drivers, Leave(d)
      PROVE  HeedTraced'
  BY <1>9 DEF Leave
<1>10. CASE JudgeOptOut
  BY <1>10 DEF JudgeOptOut
<1>11. CASE ProbeCpuid
  BY <1>11 DEF ProbeCpuid
<1>12. CASE GateOnFeatures
  BY <1>12 DEF GateOnFeatures
<1>13. CASE NtverProbesCpuid
  BY <1>13 DEF NtverProbesCpuid
<1>14. CASE NtverLogs
  BY <1>14 DEF NtverLogs
<1>15. CASE EditRegistry
  BY <1>15 DEF EditRegistry
<1>16. CASE UNCHANGED gateVars
  BY <1>16 DEF gateVars
<1>17. QED
  BY <1>1, <1>2, <1>3, <1>4, <1>5, <1>6, <1>7, <1>8, <1>9, <1>10, <1>11, <1>12, <1>13, <1>14, <1>15, <1>16
     DEF GatesNext, DriverEntries, Reads

LEMMA BitsHold ==
  ASSUME GatesTypeOK, BitsTraced, [GatesNext]_gateVars
  PROVE  BitsTraced'
<1>. USE DEF GatesTypeOK, BitsTraced, Goto, Return, Refuse, reads, Drivers, ReadSteps,
         NtverBits
<1>1. ASSUME NEW d \in Drivers, OpenKey(d)
      PROVE  BitsTraced'
  BY <1>1 DEF OpenKey
<1>2. ASSUME NEW d \in Drivers, AllocateInfo(d)
      PROVE  BitsTraced'
  BY <1>2 DEF AllocateInfo
<1>3. ASSUME NEW d \in Drivers, QueryValue(d)
      PROVE  BitsTraced'
  BY <1>3 DEF QueryValue
<1>4. ASSUME NEW d \in Drivers, LookAtInfo(d)
      PROVE  BitsTraced'
  BY <1>4 DEF LookAtInfo
<1>5. ASSUME NEW d \in Drivers, FreeInfo(d)
      PROVE  BitsTraced'
  BY <1>5 DEF FreeInfo
<1>6. ASSUME NEW d \in Drivers, CloseKey(d)
      PROVE  BitsTraced'
  BY <1>6 DEF CloseKey
<1>7. ASSUME NEW d \in Drivers, GetCpuFeatures(d)
      PROVE  BitsTraced'
  BY <1>7 DEF GetCpuFeatures
<1>8. ASSUME NEW d \in Drivers, Start(d)
      PROVE  BitsTraced'
  BY <1>8 DEF Start
<1>9. ASSUME NEW d \in Drivers, Leave(d)
      PROVE  BitsTraced'
  BY <1>9 DEF Leave
<1>10. CASE JudgeOptOut
  BY <1>10 DEF JudgeOptOut
<1>11. CASE ProbeCpuid
  BY <1>11 DEF ProbeCpuid
<1>12. CASE GateOnFeatures
  BY <1>12 DEF GateOnFeatures
<1>13. CASE NtverProbesCpuid
  BY <1>13 DEF NtverProbesCpuid
<1>14. CASE NtverLogs
  BY <1>14 DEF NtverLogs
<1>15. CASE EditRegistry
  BY <1>15 DEF EditRegistry
<1>16. CASE UNCHANGED gateVars
  BY <1>16 DEF gateVars
<1>17. QED
  BY <1>1, <1>2, <1>3, <1>4, <1>5, <1>6, <1>7, <1>8, <1>9, <1>10, <1>11, <1>12, <1>13, <1>14, <1>15, <1>16
     DEF GatesNext, DriverEntries, Reads

LEMMA LogHolds ==
  ASSUME GatesInv, [GatesNext]_gateVars
  PROVE  LogTraced'
<1>. USE DEF GatesInv, GatesTypeOK, AnswerTraced, BitsTraced, LogTraced, RefusedForCause,
         Cause, Goto, Return, Refuse, LogResult, reads, Drivers, ReadSteps, NtverBits
<1>1. ASSUME NEW d \in Drivers, OpenKey(d)
      PROVE  LogTraced'
  BY <1>1 DEF OpenKey
<1>2. ASSUME NEW d \in Drivers, AllocateInfo(d)
      PROVE  LogTraced'
  BY <1>2 DEF AllocateInfo
<1>3. ASSUME NEW d \in Drivers, QueryValue(d)
      PROVE  LogTraced'
  BY <1>3 DEF QueryValue
<1>4. ASSUME NEW d \in Drivers, LookAtInfo(d)
      PROVE  LogTraced'
  BY <1>4 DEF LookAtInfo
<1>5. ASSUME NEW d \in Drivers, FreeInfo(d)
      PROVE  LogTraced'
  BY <1>5 DEF FreeInfo
<1>6. ASSUME NEW d \in Drivers, CloseKey(d)
      PROVE  LogTraced'
  BY <1>6 DEF CloseKey
<1>7. ASSUME NEW d \in Drivers, GetCpuFeatures(d)
      PROVE  LogTraced'
  BY <1>7 DEF GetCpuFeatures
<1>8. ASSUME NEW d \in Drivers, Start(d)
      PROVE  LogTraced'
  BY <1>8 DEF Start
<1>9. ASSUME NEW d \in Drivers, Leave(d)
      PROVE  LogTraced'
  BY <1>9 DEF Leave
<1>10. CASE JudgeOptOut
  BY <1>10 DEF JudgeOptOut
<1>11. CASE ProbeCpuid
  BY <1>11 DEF ProbeCpuid
<1>12. CASE GateOnFeatures
  BY <1>12 DEF GateOnFeatures, Edx
<1>13. CASE NtverProbesCpuid
  BY <1>13 DEF NtverProbesCpuid
<1>14. CASE NtverLogs
  <2>1. /\ at' = [at EXCEPT !["ntver"] = "passed"]
        /\ log' \in {log, [log EXCEPT !["ntver"] = Bits(NtverBits)]}
        /\ UNCHANGED <<processor, seen>>
    BY <1>14 DEF NtverLogs
  <2>2. log'["ntver"] \in {NULL, Bits(NtverBits)}
    BY <1>14, <2>1 DEF NtverLogs
  <2>3. at'["nt351sse"] = at["nt351sse"] /\ log'["nt351sse"] = log["nt351sse"]
    BY <2>1
  <2>4. QED
    BY <2>1, <2>2, <2>3
<1>15. CASE EditRegistry
  BY <1>15 DEF EditRegistry
<1>16. CASE UNCHANGED gateVars
  BY <1>16 DEF gateVars
<1>17. QED
  BY <1>1, <1>2, <1>3, <1>4, <1>5, <1>6, <1>7, <1>8, <1>9, <1>10, <1>11, <1>12, <1>13, <1>14, <1>15, <1>16
     DEF GatesNext, DriverEntries, Reads

-----------------------------------------------------------------------------
(* The theorems.                                                           *)

LEMMA GatesAlways == GatesSpec => []GatesInv
<1>1. GatesInv /\ [GatesNext]_gateVars => GatesInv'
  BY TypesHold, HeldHolds, AnswerHolds, HeedHolds, BitsHold, LogHolds DEF GatesInv
<1>2. QED
  BY <1>1, GatesInitInv, PTL DEF GatesSpec

\* Every variable of the gates keeps its type.
THEOREM GatesTyped == GatesSpec => []GatesTypeOK
  BY GatesAlways, PTL DEF GatesInv

\* However opening, allocating and querying turn out, neither ForceNpxEmulationSet
\* nor ReadSessionManagerValue leaves a key open or a block allocated.
THEOREM NothingLeaks == GatesSpec => []NothingHeld
<1>1. Held => NothingHeld
  BY DEF Held, NothingHeld, ReadSteps
<1>2. QED
  BY <1>1, GatesAlways, PTL DEF GatesInv

\* nt351sse refuses only for a cause, and logs no code but that cause's, however the
\* value is edited meanwhile.
THEOREM RefusalsCaused == GatesSpec => []RefusedForCause
  BY GatesAlways, PTL DEF GatesInv, LogTraced

\* Where nt351sse could look it goes ahead only if at some time during its load there
\* was no value, or one that does not ask it to decline.
THEOREM OptOutHonoured == GatesSpec => []DeclinesIfItCanLook
<1>1. GatesInv => DeclinesIfItCanLook
  BY DEF GatesInv, HeedTraced, NothingToHeed, DeclinesIfItCanLook
<1>2. QED
  BY <1>1, GatesAlways, PTL

\* What DriverLife's CheckGates has a load pass on: a processor with FXSR and SSE,
\* whose CPUID tells.
THEOREM PassedIsCapable ==
  GatesSpec => [](at["nt351sse"] = "passed" => {"CPUID", "FXSR", "SSE"} \subseteq processor)
<1>1. GatesInv => (at["nt351sse"] = "passed" => {"CPUID", "FXSR", "SSE"} \subseteq processor)
  BY DEF GatesInv, GatesTypeOK, BitsTraced
<1>2. QED
  BY <1>1, GatesAlways, PTL

\* What ntver has logged tells what nt351sse does on the same processor.
THEOREM NtverForetells == GatesSpec => []NtverTells
<1>1. ASSUME GatesInv, at["ntver"] = "passed", log["ntver"] # NULL
      PROVE  NtverTells
  <2>1. log["ntver"] = Bits(NtverBits) /\ NtverBits \in SUBSET Edx
    BY <1>1 DEF GatesInv, LogTraced, NtverBits
  <2>2. at["nt351sse"] = "passed" => {"FXSR", "SSE"} \subseteq NtverBits
    BY <1>1 DEF GatesInv, BitsTraced, NtverBits, Edx
  <2>3. ASSUME at["nt351sse"] = "refused", log["nt351sse"] \in {Code(1), Code(3)}
        PROVE  ~({"FXSR", "SSE"} \subseteq NtverBits)
    <3>1. PICK code \in 1 .. 3 : Cause(code) /\ log["nt351sse"] \in {NULL, Code(code)}
      BY <1>1, <2>3 DEF GatesInv, LogTraced, RefusedForCause
    <3>2. NULL # Code(1) /\ NULL # Code(3)
      BY LoadGatesAssumption
    <3>3. Code(code) \in {Code(1), Code(3)}
      BY <2>3, <3>1, <3>2
    <3>4. code \in {1, 3}
      BY <3>3 DEF Code
    <3>5. CASE code = 1
      BY <3>1, <3>5 DEF Cause, NtverBits
    <3>6. CASE code = 3
      BY <3>1, <3>6 DEF Cause, NtverBits
    <3>7. QED
      BY <3>4, <3>5, <3>6
  <2>4. QED
    BY <2>1, <2>2, <2>3 DEF NtverTells
<1>2. GatesInv => NtverTells
  BY <1>1 DEF NtverTells
<1>3. QED
  BY <1>2, GatesAlways, PTL
=============================================================================
