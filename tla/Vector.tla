------------------------------- MODULE Vector -------------------------------
(***************************************************************************)
(* The growing and shrinking array of vector.c, next to the sequence that  *)
(* the calls describe.  An allocation may fail.                            *)
(***************************************************************************)
EXTENDS Integers, Paths

CONSTANTS Values, NULL,
          VECTOR_INITIAL_CAPACITY,
          MaxLen  \* bound

\* vector_new allocates room for an entry at least.
ASSUME VectorAssumption == VECTOR_INITIAL_CAPACITY \in Nat \ {0} /\ MaxLen \in Nat

VARIABLES items,    \* the array; its length is what was allocated
          maxsize, size,
          content,  \* the sequence as the calls describe it
          failed,   \* an allocation has failed
          overrun   \* an index outside of the array was used

vectorVars == <<items, maxsize, size, content, failed, overrun>>

VectorInit ==
  /\ items = [i \in 1..VECTOR_INITIAL_CAPACITY |-> NULL]
  /\ maxsize = VECTOR_INITIAL_CAPACITY /\ size = 0
  /\ content = <<>> /\ failed = FALSE /\ overrun = FALSE

\* The array and its capacity after vector_resize, which may fail; entries
\* that are new hold anything, here NULL.
Resized(array, capacity, newsize, ok) ==
  IF ~ok THEN <<array, capacity>>
  ELSE <<[i \in 1..newsize |-> IF i <= Len(array) THEN array[i] ELSE NULL], newsize>>

vector_append(v, ok) ==
  LET full == maxsize = size
      r == IF full THEN Resized(items, maxsize, maxsize * 2, ok) ELSE <<items, maxsize>>
  IN  /\ size < MaxLen
      /\ items' = IF size + 1 \in DOMAIN r[1] THEN [r[1] EXCEPT ![size + 1] = v] ELSE r[1]
      /\ overrun' = (size + 1 \notin DOMAIN r[1])
      /\ maxsize' = r[2]
      /\ size' = size + 1
      /\ content' = Append(content, v)
      /\ failed' = (failed \/ (full /\ ~ok))

vector_set(i, v) ==
  /\ i < size
  /\ items' = [items EXCEPT ![i + 1] = v]
  /\ content' = [content EXCEPT ![i + 1] = v]
  /\ UNCHANGED <<maxsize, size, failed, overrun>>

\* Mutant: an empty vector shrinks as well.
Shrinks_empty(left) == left = maxsize \div 4

Shrinks(left) == left > 0 /\ left = maxsize \div 4

\* The entries behind index move down one place, and the last is cleared.
vector_delete(i, ok) ==
  LET moved == [j \in DOMAIN items |-> IF j <= i \/ j > size THEN items[j]
                                       ELSE IF j = size THEN NULL ELSE items[j + 1]]
      r == IF Shrinks(size - 1) THEN Resized(moved, maxsize, maxsize \div 2, ok)
           ELSE <<moved, maxsize>>
  IN  /\ i < size
      /\ items' = r[1] /\ maxsize' = r[2]
      /\ size' = size - 1
      /\ content' = RemoveAt(content, i + 1)
      /\ failed' = (failed \/ (Shrinks(size - 1) /\ ~ok))
      /\ UNCHANGED overrun

\* vector_destroy, and vector_new for the next one.
vector_destroy ==
  /\ items' = [i \in 1..VECTOR_INITIAL_CAPACITY |-> NULL]
  /\ maxsize' = VECTOR_INITIAL_CAPACITY /\ size' = 0 /\ content' = <<>>
  /\ UNCHANGED <<failed, overrun>>

VectorNext ==
  /\ ~overrun
  /\ \/ vector_destroy
     \/ \E ok \in BOOLEAN :
          \/ \E v \in Values : vector_append(v, ok)
          \/ \E i \in 0..size - 1 : vector_delete(i, ok) \/ \E v \in Values : vector_set(i, v)

VectorSpec == VectorInit /\ [][VectorNext]_vectorVars

-----------------------------------------------------------------------------
(* Properties *)

\* What was appended, set and not deleted is in the array, in order, and no
\* sequence of growing and shrinking, down to the empty vector and up again,
\* leaves a capacity that an append runs over, unless memory ran out.
VectorHolds ==
  /\ overrun => failed
  /\ ~overrun => /\ size = Len(content) /\ \A i \in 1..size : items[i] = content[i]
                 /\ maxsize = Len(items)
=============================================================================
