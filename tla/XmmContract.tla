----------------------------- MODULE XmmContract -----------------------------
(***************************************************************************)
(* What the driver delivers of the sentence it is built for, "gives every  *)
(* thread its own XMM/MXCSR state" (nt351sse.c:29), as an abstract         *)
(* specification: each thread has registers of its own (regs) and a copy   *)
(* the driver keeps of them (kept).  A step touches one thread only.  It   *)
(* stores to the registers, brings the kept copy up to date, or falls back *)
(* to the kept copy and loses what was stored since.                       *)
(*                                                                         *)
(* The documented promise is this specification without Lose.              *)
(***************************************************************************)
CONSTANTS
  Threads,
  Default,          \* the state every thread starts from
  Stored(_)         \* Stored(t): what thread t may store

VARIABLES
  regs,             \* thread -> the XMM state it finds at its next instruction
  kept              \* thread -> the copy the driver keeps

Init ==
  /\ regs = [t \in Threads |-> Default]
  /\ kept = [t \in Threads |-> Default]

Store(t, v) ==
  /\ regs' = [regs EXCEPT ![t] = v]
  /\ UNCHANGED kept

Keep(t) ==
  /\ kept' = [kept EXCEPT ![t] = regs[t]]
  /\ UNCHANGED regs

Lose(t) ==
  /\ regs' = [regs EXCEPT ![t] = kept[t]]
  /\ UNCHANGED kept

Next ==
  \E t \in Threads :
    \/ \E v \in Stored(t) : Store(t, v)
    \/ Keep(t)
    \/ Lose(t)

Spec == Init /\ [][Next]_<<regs, kept>>
=============================================================================
