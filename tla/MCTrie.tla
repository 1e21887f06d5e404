------------------------------- MODULE MCTrie -------------------------------
(***************************************************************************)
(* Small instances of Trie: keys that are nested, siblings and the empty   *)
(* key, so that every prefix relation between two keys occurs.             *)
(***************************************************************************)
EXTENDS Trie

MCChar == {"a", "b"}
MCKeys == {<<>>, <<"a">>, <<"a", "b">>, <<"a", "b", "a">>, <<"b", "a">>}
=============================================================================
