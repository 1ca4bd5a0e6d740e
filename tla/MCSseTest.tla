------------------------------ MODULE MCSseTest ------------------------------
(* Instances of SseTest for TLC.                                             *)
EXTENDS SseTest, TLC

CONSTANTS loader, main, w1, w2

\* Slots of a table of four: loader and w1 collide in slot 3, and wrap around.
Addresses ==
  Restrict((loader :> 48) @@ (main :> 80) @@ (w1 :> 112) @@ (w2 :> 32), Threads)

TwoWorkers == <<w1, w2>>
OneWorker  == <<w1>>

RegisterFiles == [Regs -> Data]

TheProcessor  == {{"CPUID", "MMX", "FXSR", "SSE", "SSE2"}}
SseOnly       == {{"CPUID", "FXSR", "SSE"}}
WithoutSse2   == {{"CPUID", "MMX", "FXSR", "SSE"}}
AllProcessors ==
  TheProcessor \cup WithoutSse2 \cup { {"CPUID", "MMX"}, {"CPUID"}, {} }

LoadedOnce    == [loads |-> 1, stops |-> 0, runs |-> 1]
LoadedAndGone == [loads |-> 1, stops |-> 1, runs |-> 1]
=============================================================================
