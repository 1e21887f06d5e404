-------------------------------- MODULE Paths --------------------------------
(***************************************************************************)
(* Sequences ordered by prefix: the keys of the database are sequences of  *)
(* characters, and the nodes of the trie the prefixes of its keys.  The    *)
(* names are those of SequencesExt, whose other operators would be in the  *)
(* context of every proof about the trie and the commands.                 *)
(***************************************************************************)
EXTENDS Naturals, FiniteSets, Sequences

IsPrefix(p, q) == Len(p) <= Len(q) /\ p = SubSeq(q, 1, Len(p))

IsStrictPrefix(p, q) == p # q /\ IsPrefix(p, q)

Prefixes(q) == {SubSeq(q, 1, n) : n \in 0..Len(q)}

Front(q) == SubSeq(q, 1, Len(q) - 1)

\* The sequence without its element at i.
RemoveAt(s, i) == SubSeq(s, 1, i - 1) \o SubSeq(s, i + 1, Len(s))

\* The ways to put the members of S in a row.
SetToSeqs(S) ==
  {s \in [1..Cardinality(S) -> S] : \A i, j \in DOMAIN s : s[i] = s[j] => i = j}
=============================================================================
