----------------------------- MODULE MergeSort ------------------------------
(***************************************************************************)
(* list_merge_sort of list.c, on the sequence of the nodes of a list, by   *)
(* the bound compare_upper_bound looks at.                                 *)
(***************************************************************************)
EXTENDS Integers, Sequences

RECURSIVE merge_list(_, _), list_merge_sort(_)

\* Mutant: of two equal points, the one of the second list comes first.
merge_list_unstable(list1, list2) ==
  IF list1 = <<>> THEN list2
  ELSE IF list2 = <<>> THEN list1
  ELSE IF Head(list1).upper_bound < Head(list2).upper_bound
       THEN <<Head(list1)>> \o merge_list(Tail(list1), list2)
       ELSE <<Head(list2)>> \o merge_list(list1, Tail(list2))

merge_list(list1, list2) ==
  IF list1 = <<>> THEN list2
  ELSE IF list2 = <<>> THEN list1
  ELSE IF Head(list1).upper_bound <= Head(list2).upper_bound
       THEN <<Head(list1)>> \o merge_list(Tail(list1), list2)
       ELSE <<Head(list2)>> \o merge_list(list1, Tail(list2))

\* bisect_list leaves half of the nodes, rounded down, in the first list.
list_merge_sort(list) ==
  LET half == Len(list) \div 2
  IN  IF Len(list) < 2 THEN list
      ELSE merge_list(list_merge_sort(SubSeq(list, 1, half)),
                      list_merge_sort(SubSeq(list, half + 1, Len(list))))
=============================================================================
