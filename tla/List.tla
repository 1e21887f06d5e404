-------------------------------- MODULE List --------------------------------
(***************************************************************************)
(* The linked list of list.c: its nodes, the pointers to the first and the *)
(* last one and the length it keeps, next to the sequence that the calls   *)
(* describe.  Values are compared by a caller's function, here equality.   *)
(***************************************************************************)
EXTENDS MergeSort, FiniteSets, SequencesExt

CONSTANTS Cells,   \* what tmalloc returns for a node
          Values,  \* numbers
          NULL

VARIABLES cells,   \* cell -> [data, next], NULL where it is not allocated
          head, tail, len,
          ref,     \* the sequence as the calls describe it
          spoilt   \* a call has met a case that list.c gets wrong

listVars == <<cells, head, tail, len, ref, spoilt>>

RECURSIVE chain(_, _)
\* The cells from c on.  A pointer to a released one ends the walk.
chain(h, c) == IF c = NULL \/ h[c] = NULL THEN <<>> ELSE <<c>> \o chain(h, h[c].next)

Linked == chain(cells, head)
First(v) == LET at == {i \in DOMAIN Linked : cells[Linked[i]].data = v}
            IN  IF at = {} THEN 0 ELSE Min(at)

-----------------------------------------------------------------------------
Init ==
  /\ cells = [c \in Cells |-> NULL]
  /\ head = NULL /\ tail = NULL /\ len = 0
  /\ ref = <<>> /\ spoilt = FALSE

list_push(c, v) ==
  /\ cells' = [cells EXCEPT ![c] = [data |-> v, next |-> IF len = 0 THEN NULL ELSE head]]
  /\ head' = c
  /\ tail' = IF len = 0 THEN c ELSE tail
  /\ len' = len + 1
  /\ ref' = <<v>> \o ref
  /\ UNCHANGED spoilt

\* Wrong when tail is not the last node: list_remove and list_merge_sort move
\* the end of the list and not the pointer.
list_push_back(c, v) ==
  LET new == [data |-> v, next |-> NULL]
  IN  /\ cells' = IF len = 0 \/ cells[tail] = NULL THEN [cells EXCEPT ![c] = new]
                  ELSE [cells EXCEPT ![c] = new, ![tail].next = c]
      /\ head' = IF len = 0 THEN c ELSE head
      /\ tail' = c
      /\ len' = len + 1
      /\ ref' = Append(ref, v)
      /\ spoilt' = (len # 0 /\ tail # Last(Linked))

\* The cells with the i-th node of the list unlinked from the one before it.
Unlinked(i) ==
  IF i = 1 THEN cells ELSE [cells EXCEPT ![Linked[i - 1]].next = cells[Linked[i]].next]

\* Mutant: the counter is not used.
list_remove_counts(v) ==
  LET i == First(v)
  IN  /\ i # 0
      /\ cells' = [Unlinked(i) EXCEPT ![Linked[i]] = NULL]
      /\ head' = IF i = 1 THEN cells[head].next ELSE head
      /\ ref' = RemoveFirst(ref, v)
      /\ UNCHANGED <<tail, len, spoilt>>

list_remove(v) ==
  LET i == First(v)
  IN  /\ i # 0
      /\ cells' = [Unlinked(i) EXCEPT ![Linked[i]] = NULL]
      /\ head' = IF i = 1 THEN cells[head].next ELSE head
      /\ len' = len - 1
      /\ ref' = RemoveFirst(ref, v)
      /\ UNCHANGED <<tail, spoilt>>

\* The node is handed to the caller, who releases it.  Wrong when it is the
\* first one: the new head that the recursion returns is dropped.
list_remove_node(v) ==
  LET i == First(v)
  IN  /\ len # 0 /\ i # 0
      /\ cells' = [Unlinked(i) EXCEPT ![Linked[i]] = NULL]
      /\ len' = len - 1
      /\ ref' = RemoveFirst(ref, v)
      /\ spoilt' = (i = 1)
      /\ UNCHANGED <<head, tail>>

\* As insert_node of cluster.c calls it: the result becomes the head.
Sort ==
  LET node(c) == [cell |-> c, upper_bound |-> cells[c].data]
      order == list_merge_sort([i \in DOMAIN Linked |-> node(Linked[i])])
      next(i) == IF i = Len(order) THEN NULL ELSE order[i + 1].cell
  IN  /\ cells' = [c \in Cells |->
                     IF \E i \in DOMAIN order : order[i].cell = c
                     THEN [cells[c] EXCEPT !.next =
                             next(CHOOSE i \in DOMAIN order : order[i].cell = c)]
                     ELSE cells[c]]
      /\ head' = IF order = <<>> THEN NULL ELSE order[1].cell
      /\ ref' = SortSeq(ref, <)
      /\ UNCHANGED <<tail, len, spoilt>>

\* list_clear, or list_destroy and list_new: as many nodes are released as
\* the length says.
list_clear ==
  /\ cells' = [c \in Cells |-> IF \E i \in DOMAIN Linked : i <= len /\ Linked[i] = c
                               THEN NULL ELSE cells[c]]
  /\ spoilt' = (Len(Linked) < len)
  /\ head' = NULL /\ tail' = NULL /\ len' = 0 /\ ref' = <<>>

\* A list that is spoilt is not used again.
Next ==
  /\ ~spoilt
  /\ \/ \E v \in Values :
          \/ list_remove(v) \/ list_remove_node(v)
          \/ \E c \in Cells : cells[c] = NULL /\ (list_push(c, v) \/ list_push_back(c, v))
     \/ Sort \/ list_clear

Spec == Init /\ [][Next]_listVars

-----------------------------------------------------------------------------
(* Properties *)

\* Through any mix of insertions at both ends, removals, sorts and clearing the
\* list holds the values it was given, in their order, its length is their
\* number and it releases every node once, until list_push_back relies on a
\* last node that is not the last, or list_remove_node removes the first.
ListHolds ==
  ~spoilt =>
    /\ [i \in DOMAIN Linked |-> cells[Linked[i]].data] = ref
    /\ len = Len(ref)
    /\ {c \in Cells : cells[c] # NULL} = Range(Linked)

\* list_remove_node removes "a single node from the list, the first one" (list.h).
RemovesAnyNode == len = Len(Linked)
=============================================================================
