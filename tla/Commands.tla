------------------------------ MODULE Commands ------------------------------
(***************************************************************************)
(* The commands of server.c beside PUT, GET, DEL and TTL, as the workers   *)
(* run them: INC and DEC, CNT, USE, DB, KEYS, PING, INFO, FLUSH, QUIT.     *)
(* INC, DEC, CNT and USE take no lock.  The keys of the first database are *)
(* there from the start; the commands here add or remove none.  The        *)
(* handlers are modelled from where worker calls them.                     *)
(*                                                                         *)
(* A value is a record: the integer a string denotes, or text.             *)
(***************************************************************************)
EXTENDS Integers, Paths

CONSTANTS Workers, Clients,
          Names, Default,  \* names of databases, and the one clients start in
          Stored,          \* key -> value of the first database
          Globs,           \* what the prefix commands are called with
          Ops,             \* the commands that clients send
          MaxRequests      \* bound: commands sent

Keys == DOMAIN Stored

ASSUME CommandsAssumption == Default \in Names /\ MaxRequests \in Nat
ASSUME StoredAssumption == Stored \in [Keys -> [int : BOOLEAN, n : Int]]

VARIABLES dbs,    \* the databases: name and data, in order of creation
          table,  \* name -> its database in triedb.dbs, 0 when absent
          sel,    \* client -> the database it has selected
          th,     \* worker -> the request it serves
          sent,   \* commands sent so far
          added,  \* key -> increments less decrements answered, per database 1
          fault   \* what ended the process, or "none"

vars == <<dbs, table, sel, th, sent, added, fault>>

Text == [int |-> FALSE, n |-> 0]
Number(n) == [int |-> TRUE, n |-> n]

\* A string of digits: the sign of a negative number is not one.
is_integer(v) == v.int /\ v.n >= 0

Idle == [pc |-> "idle", c |-> 0, op |-> "none", arg |-> <<>>, todo |-> {},
         key |-> <<>>, n |-> 0, first |-> Text, reply |-> <<>>]

Init ==
  /\ dbs = <<[name |-> Default, data |-> Stored]>>
  /\ table = [x \in Names |-> IF x = Default THEN 1 ELSE 0]
  /\ sel = [c \in Clients |-> 1]
  /\ th = [w \in Workers |-> Idle]
  /\ sent = 0
  /\ added = [k \in Keys |-> 0]
  /\ fault = "none"

At(w, pc) == fault = "none" /\ th[w].pc = pc
Op(w, S) == th[w].op \in S
Db(w) == dbs[sel[th[w].c]]
Matching(data, p) == {k \in DOMAIN data : IsPrefix(p, k)}
Reply(w, r) == th' = [th EXCEPT ![w].pc = "idle", ![w].reply = r]

Args(op) == CASE op = "USE" -> Names
              [] op \in {"INC", "DEC"} -> Keys
              [] op \in {"INCP", "DECP", "CNT", "KEYS"} -> Globs
              [] OTHER -> {<<>>}

\* A client has one command under way.
Receive(w) ==
  /\ At(w, "idle") /\ sent < MaxRequests
  /\ \E c \in Clients, op \in Ops : \E arg \in Args(op) :
       /\ \A u \in Workers : th[u].pc # "idle" => th[u].c # c
       /\ th' = [th EXCEPT ![w] = [Idle EXCEPT !.pc = "handler", !.c = c, !.op = op,
                                               !.arg = arg]]
  /\ sent' = sent + 1
  /\ UNCHANGED <<dbs, table, sel, added, fault>>

-----------------------------------------------------------------------------
(* inc_handler, dec_handler and the walk of database_prefix_inc and _dec *)

Step(w) == IF Op(w, {"INC", "INCP"}) THEN 1 ELSE -1

\* The keys to go through.  The answer is OK also when there is none.
inc_find(w) ==
  LET data == Db(w).data
      todo == IF Op(w, {"INC", "DEC"}) THEN {th[w].arg} \cap DOMAIN data
              ELSE Matching(data, th[w].arg)
  IN  /\ At(w, "handler") /\ Op(w, {"INC", "DEC", "INCP", "DECP"})
      /\ IF todo = {} THEN Reply(w, <<"OK">>)
         ELSE th' = [th EXCEPT ![w].pc = "read", ![w].todo = todo]
      /\ UNCHANGED <<dbs, table, sel, sent, added, fault>>

\* One value is parsed, if it is an integer.
inc_read(w) ==
  /\ At(w, "read")
  /\ \E k \in th[w].todo :
       LET v == Db(w).data[k]
           rest == th[w].todo \ {k}
       IN  th' = [th EXCEPT ![w].todo = rest, ![w].key = k, ![w].n = v.n, ![w].first = v,
                            ![w].pc = IF is_integer(v) THEN "write"
                                      ELSE IF rest = {} THEN "idle" ELSE "read",
                            ![w].reply = IF is_integer(v) \/ rest # {} THEN @ ELSE <<"OK">>]
  /\ UNCHANGED <<dbs, table, sel, sent, added, fault>>

\* Mutant: written back as it was read.
inc_write_same(w) ==
  /\ At(w, "write")
  /\ dbs' = [dbs EXCEPT ![sel[th[w].c]].data[th[w].key] = Number(th[w].n)]
  /\ added' = IF sel[th[w].c] = 1 THEN [added EXCEPT ![th[w].key] = @ + Step(w)] ELSE added
  /\ IF th[w].todo = {} THEN Reply(w, <<"OK">>) ELSE th' = [th EXCEPT ![w].pc = "read"]
  /\ UNCHANGED <<table, sel, sent, fault>>

\* It is written back, one more or one less than what was read.
inc_write(w) ==
  /\ At(w, "write")
  /\ dbs' = [dbs EXCEPT ![sel[th[w].c]].data[th[w].key] = Number(th[w].n + Step(w))]
  /\ added' = IF sel[th[w].c] = 1 THEN [added EXCEPT ![th[w].key] = @ + Step(w)] ELSE added
  /\ IF th[w].todo = {} THEN Reply(w, <<"OK">>) ELSE th' = [th EXCEPT ![w].pc = "read"]
  /\ UNCHANGED <<table, sel, sent, fault>>

-----------------------------------------------------------------------------
(* use_handler *)

use_get(w) ==
  LET d == table[th[w].arg]
  IN  /\ At(w, "handler") /\ Op(w, {"USE"})
      /\ IF d # 0 THEN Reply(w, <<"OK">>) /\ sel' = [sel EXCEPT ![th[w].c] = d]
         ELSE th' = [th EXCEPT ![w].pc = "create"] /\ UNCHANGED sel
      /\ UNCHANGED <<dbs, table, sent, added, fault>>

\* Mutant: the new database is not added to the table.
use_create_unlisted(w) ==
  /\ At(w, "create")
  /\ dbs' = Append(dbs, [name |-> th[w].arg, data |-> <<>>])
  /\ sel' = [sel EXCEPT ![th[w].c] = Len(dbs) + 1]
  /\ Reply(w, <<"OK">>)
  /\ UNCHANGED <<table, sent, added, fault>>

use_create(w) ==
  /\ At(w, "create")
  /\ dbs' = Append(dbs, [name |-> th[w].arg, data |-> <<>>])
  /\ table' = [table EXCEPT ![th[w].arg] = Len(dbs) + 1]
  /\ sel' = [sel EXCEPT ![th[w].c] = Len(dbs) + 1]
  /\ Reply(w, <<"OK">>)
  /\ UNCHANGED <<sent, added, fault>>

-----------------------------------------------------------------------------
(* cnt_handler, db_handler, ping_handler, info_handler: no state changes *)

count(w) == Cardinality(Matching(Db(w).data, th[w].arg))

answer(w) ==
  /\ At(w, "handler") /\ Op(w, {"CNT", "DB", "PING", "INFO"})
  /\ Reply(w, CASE Op(w, {"CNT"}) -> <<Db(w).name, count(w)>>
                [] Op(w, {"DB"}) -> <<Db(w).name>>
                [] Op(w, {"PING"}) -> <<"OK">>
                [] OTHER -> <<"INFO">>)
  /\ UNCHANGED <<dbs, table, sel, sent, added, fault>>

\* keys_handler has no function to pack its answer with, when it has one.
keys(w) ==
  /\ At(w, "handler") /\ Op(w, {"KEYS"})
  /\ IF Matching(Db(w).data, th[w].arg) = {}
     THEN Reply(w, <<"NOK">>) /\ UNCHANGED fault
     ELSE fault' = "no pack handler" /\ UNCHANGED th
  /\ UNCHANGED <<dbs, table, sel, sent, added>>

\* flush_handler releases the nodes and leaves the reply unset; quit_handler
\* releases the client; worker goes on to use the reply and the client.
end(w) ==
  /\ At(w, "handler") /\ Op(w, {"FLUSH", "QUIT"})
  /\ fault' = IF Op(w, {"FLUSH"}) THEN "no reply" ELSE "released client"
  /\ UNCHANGED <<dbs, table, sel, th, sent, added>>

Worker(w) ==
  \/ inc_find(w) \/ inc_read(w) \/ inc_write(w)
  \/ use_get(w) \/ use_create(w)
  \/ answer(w) \/ keys(w) \/ end(w)

Next == \E w \in Workers : Receive(w) \/ Worker(w)

Spec == Init /\ [][Next]_vars

-----------------------------------------------------------------------------
(* Properties *)

\* INC of one key answers NOK when its value is not a proper integer
\* (inc_handler's comment).
TextIsRefused ==
  \A w \in Workers :
    At(w, "idle") /\ Op(w, {"INC", "DEC"}) /\ th[w].key # <<>> /\ ~th[w].first.int
      => th[w].reply = <<"NOK">>
=============================================================================
