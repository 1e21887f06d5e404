----------------------------- MODULE MCKeyspace -----------------------------
(***************************************************************************)
(* Small instances of Keyspace: a key, keys below it and one beside it.    *)
(***************************************************************************)
EXTENDS Keyspace

MCChar == {"a", "b"}
MCKeys == {<<"a">>, <<"a", "b">>}

MCNoTtl == {-1}
MCTtls == {-1, 1}
MCTtlsWide == {-1, 32768}
=============================================================================
