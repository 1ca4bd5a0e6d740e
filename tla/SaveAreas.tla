------------------------------ MODULE SaveAreas ------------------------------
(***************************************************************************)
(* The data layer of nt351sse.c: the free list of save-area buffers        *)
(* (PoolPop, PoolPush), and the thread->buffer table, an open-addressing   *)
(* array probed linearly from TableHash (TrapLookupSaveArea,               *)
(* TableLookupOrAssign, TableRelease).                                     *)
(*                                                                         *)
(* Every operation runs to its end without another one starting: the trap  *)
(* path has interrupts off on the only processor, and the self-test, which *)
(* takes the spinlocks, ends before anything is hooked.  So each operation *)
(* is one action on g_Table and g_FreeList, composed by the modules that   *)
(* extend this one.                                                        *)
(*                                                                         *)
(* A buffer is the number of the PoolBuildOne call that built it, and the  *)
(* buffer, its SSE_BUFFER node and its 16-aligned Save area are the same   *)
(* thing here: each is reached only through the others.                    *)
(***************************************************************************)
EXTENDS Integers, Sequences

CONSTANTS
  Threads,          \* the KTHREAD addresses in use, as identities
  KthreadAddress,   \* KthreadAddress[t]: the numeric address of KTHREAD t
  MAX_THREADS,      \* capacity of g_Table (512 in the source)
  PREFILL_BUFFERS,  \* the buffers DriverEntry pre-fills the pool with (64)
  NULL              \* the null pointer, of a thread and of a buffer

ASSUME DataLayerAssumption ==
  /\ MAX_THREADS \in Nat \ {0}
  /\ PREFILL_BUFFERS \in Nat \ {0}
  /\ KthreadAddress \in [Threads -> Nat]
  /\ NULL \notin Threads /\ NULL \notin Nat

VARIABLES
  g_Table,          \* slot -> [Thread, Buffer]; Thread = NULL: the slot is empty
  g_FreeList        \* the free list, its head first

poolVars == <<g_Table, g_FreeList>>

Slots   == 0 .. MAX_THREADS - 1
Buffers == 1 .. PREFILL_BUFFERS

EmptySlot == [Thread |-> NULL, Buffer |-> NULL]

-----------------------------------------------------------------------------
(* The pool. *)

\* PoolBuildOne pushes the nodes in the order it builds them, so the last one
\* built is at the head.
PrefilledList == [i \in 1 .. PREFILL_BUFFERS |-> PREFILL_BUFFERS + 1 - i]

\* Mutant: the head is handed out and stays on the list.
PoolPop_HeadStays(buf) ==
  /\ g_FreeList # <<>>
  /\ buf = Head(g_FreeList)
  /\ UNCHANGED g_FreeList

PoolPop(buf) ==
  /\ g_FreeList # <<>>
  /\ buf = Head(g_FreeList)
  /\ g_FreeList' = Tail(g_FreeList)

PoolPush(buf) == g_FreeList' = <<buf>> \o g_FreeList

-----------------------------------------------------------------------------
(* The table. *)

\* KTHREADs are 16-byte aligned: the dead low bits are dropped before folding.
TableHash(t) == (KthreadAddress[t] \div 16) % MAX_THREADS

\* The i-th slot a probe for t looks at.
Probe(t, i) == (TableHash(t) + i) % MAX_THREADS

\* The probe for t ends at its i-th slot: t's entry or an empty slot, whichever
\* comes first.
ProbeEndsAt(t, i) ==
  /\ i \in Slots
  /\ g_Table[Probe(t, i)].Thread \in {t, NULL}
  /\ \A j \in 0 .. i - 1 : g_Table[Probe(t, j)].Thread \notin {t, NULL}

\* TrapLookupSaveArea for thread t, returning area (NULL: pool exhausted or
\* table full).  The first use of a thread takes the head of the free list by
\* hand, since interrupts are off and a spinlock may not be taken.
TrapLookupSaveArea(t, area) ==
  \/ \E i \in Slots :
       /\ ProbeEndsAt(t, i)
       /\ g_Table[Probe(t, i)].Thread = t
       /\ area = g_Table[Probe(t, i)].Buffer
       /\ UNCHANGED poolVars
  \/ \E i \in Slots :
       /\ ProbeEndsAt(t, i)
       /\ g_Table[Probe(t, i)].Thread = NULL
       /\ PoolPop(area)
       /\ g_Table' = [g_Table EXCEPT ![Probe(t, i)] =
                        [Thread |-> t, Buffer |-> area]]
  \/ /\ \E i \in Slots : /\ ProbeEndsAt(t, i)
                         /\ g_Table[Probe(t, i)].Thread = NULL
     /\ g_FreeList = <<>>
     /\ area = NULL
     /\ UNCHANGED poolVars
  \/ /\ \A i \in Slots : g_Table[Probe(t, i)].Thread \notin {t, NULL}
     /\ area = NULL
     /\ UNCHANGED poolVars

\* TableLookupOrAssign: the same search under the spinlocks.
TableLookupOrAssign(t, buf) == TrapLookupSaveArea(t, buf)

\* Mutant: the buffer is returned and the entry stays.
TableRelease_EntryStays(t) ==
  /\ PoolPush(g_Table[Probe(t, CHOOSE i \in Slots : ProbeEndsAt(t, i))].Buffer)
  /\ UNCHANGED g_Table

\* TableRelease empties t's entry, whatever other entries were probed past it,
\* and returns the buffer.  Nothing happens when the probe meets no entry of t.
TableRelease(t) ==
  IF \E i \in Slots : ProbeEndsAt(t, i) /\ g_Table[Probe(t, i)].Thread = t
  THEN LET i == CHOOSE i \in Slots : ProbeEndsAt(t, i)
       IN  /\ PoolPush(g_Table[Probe(t, i)].Buffer)
           /\ g_Table' = [g_Table EXCEPT ![Probe(t, i)] = EmptySlot]
  ELSE UNCHANGED poolVars

-----------------------------------------------------------------------------
(* The state DriverEntry leaves for the hooks, and what must hold of it. *)

PoolInit ==
  /\ g_Table = [s \in Slots |-> EmptySlot]
  /\ g_FreeList = PrefilledList

Holds(t, b) == \E s \in Slots : g_Table[s] = [Thread |-> t, Buffer |-> b]

HasArea(t) == \E s \in Slots : g_Table[s].Thread = t

\* The save area of t, NULL when it has none.
Area(t) ==
  IF HasArea(t) THEN g_Table[CHOOSE s \in Slots : g_Table[s].Thread = t].Buffer
                ELSE NULL

PoolTypeOK ==
  /\ g_Table \in [Slots -> [Thread : Threads \cup {NULL},
                            Buffer : Buffers \cup {NULL}]]
  /\ g_FreeList \in Seq(Buffers)

\* Every buffer is in exactly one place: once on the free list, or in the one
\* slot of the one thread it belongs to.  A node linked twice, or popped and
\* left on the list, would make two threads save into one area.
BuffersPartitioned ==
  /\ \A s \in Slots : g_Table[s].Thread = NULL <=> g_Table[s].Buffer = NULL
  /\ \A r, s \in Slots :
       g_Table[r].Buffer # NULL /\ g_Table[r].Buffer = g_Table[s].Buffer => r = s
  /\ \A i, j \in DOMAIN g_FreeList : g_FreeList[i] = g_FreeList[j] => i = j
  /\ \A s \in Slots, i \in DOMAIN g_FreeList : g_Table[s].Buffer # g_FreeList[i]
  /\ \A b \in Buffers : \/ \E s \in Slots : g_Table[s].Buffer = b
                        \/ \E i \in DOMAIN g_FreeList : g_FreeList[i] = b

\* No entry is out of its thread's reach: the probe for the thread of an entry
\* ends at that entry, never earlier at a hole.  An entry behind a hole would
\* give its thread a second, empty area at its next trap.
ProbeReachesEntry ==
  \A s \in Slots :
    g_Table[s].Thread # NULL =>
      \E i \in Slots : /\ ProbeEndsAt(g_Table[s].Thread, i)
                       /\ Probe(g_Table[s].Thread, i) = s
=============================================================================
