----------------------------- MODULE MCCommands -----------------------------
(***************************************************************************)
(* Instances of Commands: a number at zero, so that a decrement leaves the *)
(* digits, a number under the same prefix, and a text.                     *)
(***************************************************************************)
EXTENDS CommandsHistory, TLC

MCKeys == {<<"a">>, <<"a", "b">>, <<"b">>}
MCStored == [k \in MCKeys |-> IF k = <<"b">> THEN Text ELSE Number(Len(k) - 1)]
MCGlobs == {<<>>, <<"a">>}
Symmetry == Permutations(Workers) \cup Permutations(Clients)
=============================================================================
