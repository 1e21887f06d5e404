------------------------------- MODULE Memory -------------------------------
(***************************************************************************)
(* The allocator wrappers of util.c: a block carries its size in front of  *)
(* it, and the variable memory counts the bytes in use.  Each call adds to *)
(* the count, or subtracts from it, in a read and a write that nothing     *)
(* protects, and every thread makes these calls.                           *)
(***************************************************************************)
EXTENDS Integers, FiniteSetsExt

CONSTANTS Threads, Blocks, Sizes, Lens, NULL,
          WORD,      \* sizeof(size_t)
          COUNT_MOD, \* the count is unsigned, and taken modulo this
          MaxCalls   \* bound

VARIABLES heap,    \* block -> its recorded size and its bytes, or NULL
          memory,  \* the count
          pending, \* thread -> the count it is about to write and the blocks it
                   \* releases then, or NULL
          calls,   \* calls made
          raced    \* two threads have been in an update at the same time

vars == <<heap, memory, pending, calls, raced>>

\* memory += n, up to the read.
Update(t, n, released) ==
  /\ pending' = [pending EXCEPT ![t] = [count |-> (memory + n) % COUNT_MOD, free |-> released]]
  /\ raced' = (raced \/ \E u \in Threads : pending[u] # NULL)
  /\ calls' = calls + 1
  /\ UNCHANGED memory

\* A block its owner has not begun to release.
Usable(b) ==
  heap[b] # NULL /\ \A t \in Threads : pending[t] # NULL => b \notin pending[t].free

Begin(t) == pending[t] = NULL /\ calls < MaxCalls

tmalloc(t, b, size) ==
  /\ Begin(t) /\ heap[b] = NULL
  /\ heap' = [heap EXCEPT ![b] = [size |-> size, bytes |-> size + WORD]]
  /\ Update(t, size + WORD, {})

\* Only the size of an element is recorded.
tcalloc(t, b, len, size) ==
  /\ Begin(t) /\ heap[b] = NULL
  /\ heap' = [heap EXCEPT ![b] = [size |-> size, bytes |-> len * (size + WORD)]]
  /\ Update(t, len * (size + WORD), {})

\* Mutant: the word of the size is taken off instead of added.
Resized_less(curr_size, size) == size - curr_size - WORD

\* What trealloc adds to the count: the word is counted already.
Resized(curr_size, size) == -curr_size + size + WORD

trealloc(t, b, size) ==
  /\ Begin(t) /\ Usable(b) /\ size # heap[b].size
  /\ heap' = [heap EXCEPT ![b] = [size |-> size, bytes |-> size + WORD]]
  /\ Update(t, Resized(heap[b].size, size), {})

\* The test whether the unsigned count would fall below zero is never true.
tfree(t, b) ==
  /\ Begin(t) /\ Usable(b)
  /\ Update(t, -(heap[b].size + WORD), {b})
  /\ UNCHANGED heap

\* The write, and the rest of tfree.
Write(t) ==
  /\ pending[t] # NULL
  /\ memory' = pending[t].count
  /\ heap' = [b \in Blocks |-> IF b \in pending[t].free THEN NULL ELSE heap[b]]
  /\ pending' = [pending EXCEPT ![t] = NULL]
  /\ UNCHANGED <<calls, raced>>

Init ==
  /\ heap = [b \in Blocks |-> NULL]
  /\ memory = 0 /\ calls = 0 /\ raced = FALSE
  /\ pending = [t \in Threads |-> NULL]

Next ==
  \E t \in Threads :
    \/ Write(t)
    \/ \E b \in Blocks :
         \/ tfree(t, b)
         \/ \E size \in Sizes : \/ tmalloc(t, b, size) \/ trealloc(t, b, size)
                                \/ \E len \in Lens : tcalloc(t, b, len, size)

Spec == Init /\ [][Next]_vars

-----------------------------------------------------------------------------
(* Properties *)

InUse == MapThenSumSet(LAMBDA b : heap[b].bytes, {b \in Blocks : heap[b] # NULL})

\* The count is never lower than the bytes in use, nor has it wrapped round
\* ("this way it is possible to track the memory usage at every allocation",
\* util.c), until two threads update it at the same time: what trealloc and the
\* release of a tcalloc'ed array get wrong only ever makes it too high.
CountCovers ==
  raced \/ (\E t \in Threads : pending[t] # NULL)
    \/ (InUse <= memory /\ memory < COUNT_MOD \div 2)

\* The count is the number of bytes in use.
CountExact ==
  raced \/ (\E t \in Threads : pending[t] # NULL) \/ memory = InUse
=============================================================================
