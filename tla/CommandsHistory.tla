--------------------------- MODULE CommandsHistory ---------------------------
(***************************************************************************)
(* Commands with a history variable, which constrains no step: the keys    *)
(* and the names on which two workers have met between the read and the    *)
(* write that no lock holds together.                                      *)
(***************************************************************************)
EXTENDS Commands

VARIABLE met

hvars == <<vars, met>>

\* Two workers at pc in the same database, for what f gives of each.
Together(pc, f(_)) ==
  {f(w) : w \in {v \in Workers :
     /\ th[v].pc = pc
     /\ \E u \in Workers \ {v} : /\ th[u].pc = pc /\ f(u) = f(v)
                                 /\ pc = "create" \/ sel[th[u].c] = sel[th[v].c]}}
Key(w) == th[w].key
Name(w) == th[w].arg

HInit == Init /\ met = [keys |-> {}, names |-> {}]
HNext == Next /\ met' = [keys |-> met.keys \cup Together("write", Key),
                         names |-> met.names \cup Together("create", Name)]
HSpec == HInit /\ [][HNext]_hvars

-----------------------------------------------------------------------------
(* Properties *)

\* Every client works in the database that the table has under its name, so
\* that two clients which selected the same name share their keys ("otherwise
\* just assign it to the current db of the client", use_handler), unless two
\* workers were creating that name at once.
SelectedIsListed ==
  \A c \in Clients : LET name == dbs[sel[c]].name
                     IN  name \in met.names \/ table[name] = sel[c]

\* A number changes by exactly the increments and decrements made of it
\* ("Increment an integer value by 1", inc_handler), unless two workers were
\* between reading and writing it at once; text never changes.
IncrementsCount ==
  \A k \in Keys :
    LET v == dbs[1].data[k]
    IN  IF Stored[k].int THEN k \in met.keys \/ v = Number(Stored[k].n + added[k])
        ELSE v = Stored[k]
=============================================================================
