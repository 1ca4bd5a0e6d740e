---------------------------- MODULE MCDriverLife -----------------------------
(* Instances of DriverLife for TLC.                                          *)
EXTENDS DriverLife, TLC

CONSTANTS t1, t2, t3

\* Three KTHREADs in a table of three slots: t1 and t2 both start in slot 2.
Addresses == (t1 :> 32) @@ (t2 :> 80) @@ (t3 :> 0)

\* A processor with all that is needed; and that or one without SSE.
TheProcessor  == {{"CPUID", "MMX", "FXSR", "SSE", "SSE2"}}
TwoProcessors == TheProcessor \cup {{"CPUID", "MMX"}}
=============================================================================
