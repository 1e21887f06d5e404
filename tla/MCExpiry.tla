------------------------------ MODULE MCExpiry ------------------------------
(***************************************************************************)
(* The times to live of the instance of Expiry.  With two of them and      *)
(* three keys, entries are due together, in and out of the order in which  *)
(* they were added.  Once expiring_keys is spoilt the properties say no    *)
(* more, and TLC goes no further.                                          *)
(***************************************************************************)
EXTENDS ExpiryHistory

NoneOrShort == {-1, 1}
AnyTtl == {-1, 1, 2}
NotSpoilt == ~spoilt
=============================================================================
