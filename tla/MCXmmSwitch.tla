----------------------------- MODULE MCXmmSwitch -----------------------------
(* Instances of XmmSwitch for TLC.                                           *)
EXTENDS XmmSwitch, TLC

CONSTANTS t1, t2, t3

\* KTHREADs whose hashes collide modulo 3: t1 and t3 start their probes in slot
\* 2 and wrap around, t2 starts in slot 0.
Addresses3 == (t1 :> 32) @@ (t2 :> 48) @@ (t3 :> 80)
=============================================================================
