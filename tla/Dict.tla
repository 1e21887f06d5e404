-------------------------------- MODULE Dict --------------------------------
(***************************************************************************)
(* What hashtable.h promises: a map from keys to values, and which values  *)
(* the destructor is called on.                                            *)
(***************************************************************************)
CONSTANTS Keys, Vals, NULL

VARIABLES dict,  \* key -> value, NULL where the key is absent
          ret    \* answer of the last call

dvars == <<dict, ret>>

Pairs == {<<k, dict[k]>> : k \in {j \in Keys : dict[j] # NULL}}

DInit == dict = [k \in Keys |-> NULL] /\ ret = <<"none">>

DPut(k, v) == dict' = [dict EXCEPT ![k] = v] /\ ret' = <<"put">>

DGet(k) == ret' = <<"get", dict[k]>> /\ UNCHANGED dict

\* The answer names the value that was released.
DDel(k) == dict' = [dict EXCEPT ![k] = NULL] /\ ret' = <<"del", k, dict[k]>>

DMap == ret' = <<"map", Pairs>> /\ UNCHANGED dict

DDestroy == dict' = [k \in Keys |-> NULL] /\ ret' = <<"destroy", Pairs>>

DNext ==
  \/ \E k \in Keys : DGet(k) \/ DDel(k) \/ \E v \in Vals : DPut(k, v)
  \/ DMap \/ DDestroy

DSpec == DInit /\ [][DNext]_dvars
=============================================================================
