--------------------------- MODULE CommandsProofs ---------------------------
(***************************************************************************)
(* Proofs about CommandsHistory: what INC, DEC and USE promise although    *)
(* they take no lock, for any number of workers, clients and databases.    *)
(***************************************************************************)
EXTENDS CommandsHistory, TLAPS

-----------------------------------------------------------------------------
(* The inductive invariant *)

Value == [int : BOOLEAN, n : Int]
Database == [name : Names, data : [Keys -> Value] \cup {<<>>}]

PCs == {"idle", "handler", "read", "write", "create"}
Served == Clients \cup {0}
Commands == Ops \cup {"none"}
Arguments == Names \cup Keys \cup Globs \cup {<<>>}
Todos == SUBSET Keys
Found == Keys \cup {<<>>}
Replies == {<<>>, <<"OK">>, <<"NOK">>, <<"INFO">>} \cup {<<x>> : x \in Names}
             \cup {<<x, Cardinality(S)>> : x \in Names, S \in SUBSET Keys}

Thread == [pc : PCs, c : Served, op : Commands, arg : Arguments, todo : Todos,
           key : Found, n : Int, first : Value, reply : Replies]

TypeOK ==
  /\ dbs \in Seq(Database) /\ Len(dbs) > 0
  /\ table \in [Names -> 0..Len(dbs)]
  /\ sel \in [Clients -> 1..Len(dbs)]
  /\ th \in [Workers -> Thread]
  /\ added \in [Keys -> Int]

\* Only the first database has keys.
Filled == dbs[1].data \in [Keys -> Value] /\ \A d \in 2..Len(dbs) : dbs[d].data = <<>>

\* A database in the table has the name it is listed under.
Listed == \A x \in Names : table[x] # 0 => dbs[table[x]].name = x

\* Two workers do not serve the same client.
Apart ==
  \A w \in Workers : th[w].pc # "idle" =>
    /\ th[w].c \in Clients
    /\ \A u \in Workers \ {w} : th[u].pc # "idle" => th[u].c # th[w].c

\* What a worker has read still holds, or another has met it there.
Read(w) ==
  /\ th[w].pc \in {"handler", "create"} /\ Op(w, {"USE"}) => th[w].arg \in Names
  /\ th[w].pc = "create" =>
       Op(w, {"USE"}) /\ (th[w].arg \in met.names \/ table[th[w].arg] = 0)
  /\ th[w].pc \in {"read", "write"} =>
       sel[th[w].c] = 1 /\ th[w].todo \subseteq Keys /\ ~Op(w, {"USE"})
  /\ th[w].pc = "write" =>
       /\ th[w].key \in Keys /\ th[w].n \in Int /\ Stored[th[w].key].int
       /\ th[w].key \in met.keys \/ dbs[1].data[th[w].key] = Number(th[w].n)

IInv ==
  /\ TypeOK /\ Filled /\ Listed /\ Apart
  /\ \A w \in Workers : Read(w)
  /\ SelectedIsListed /\ IncrementsCount

-----------------------------------------------------------------------------
(* What the steps do to the threads *)

\* Only w moves, and it keeps its request.
Only(w) == th' \in [Workers -> Thread] /\ \A v \in Workers \ {w} : th'[v] = th[v]
Moved(w) ==
  Only(w) /\ th'[w].c = th[w].c /\ th'[w].op = th[w].op /\ th'[w].arg = th[w].arg

\* The ways in which a step changes the locals, with Reply.
Goto(w, pc) == th' = [th EXCEPT ![w].pc = pc]
SetTodo(w, todo) == th' = [th EXCEPT ![w].pc = "read", ![w].todo = todo]
SetKey(w, todo, k, v, pc, reply) ==
  th' = [th EXCEPT ![w].todo = todo, ![w].key = k, ![w].n = v.n, ![w].first = v,
                   ![w].pc = pc, ![w].reply = reply]

\* The positions the actions name are positions of the type.
LEMMA PcValues == /\ "idle" \in PCs /\ "handler" \in PCs /\ "read" \in PCs
                  /\ "write" \in PCs /\ "create" \in PCs
  BY DEF PCs

\* The replies the handlers write are replies of the type.
LEMMA ReplyValues ==
  /\ <<>> \in Replies /\ <<"OK">> \in Replies /\ <<"NOK">> \in Replies /\ <<"INFO">> \in Replies
  /\ \A x \in Names : <<x>> \in Replies
  /\ \A x \in Names, S \in SUBSET Keys : <<x, Cardinality(S)>> \in Replies
  BY DEF Replies

\* A worker without a command is well typed.
LEMMA IdleType == Idle \in Thread
  <1>1. Text \in Value
    BY DEF Text, Value
  <1>2. /\ 0 \in Served /\ "none" \in Commands /\ <<>> \in Arguments /\ {} \in Todos
        /\ <<>> \in Found
    BY DEF Served, Commands, Arguments, Todos, Found
  <1>3. QED
    BY <1>1, <1>2, PcValues, ReplyValues DEF Idle, Thread

\* The locals of one worker are replaced.
LEMMA ThreadStep ==
  ASSUME th \in [Workers -> Thread], NEW w \in Workers, NEW u \in Thread,
         u.c = th[w].c, u.op = th[w].op, u.arg = th[w].arg, th' = [th EXCEPT ![w] = u]
  PROVE  Moved(w) /\ th'[w] = u
  BY DEF Moved, Only

\* What Goto does to a worker's locals.
LEMMA GotoLocals ==
  ASSUME th \in [Workers -> Thread], NEW w \in Workers, NEW pc \in PCs, Goto(w, pc)
  PROVE  /\ Moved(w) /\ th'[w].pc = pc /\ th'[w].todo = th[w].todo
         /\ th'[w].key = th[w].key /\ th'[w].n = th[w].n
  <1> DEFINE t == th[w]
             u == [t EXCEPT !.pc = pc]
  <1>1. th' = [th EXCEPT ![w] = u]
    BY DEF Goto
  <1>2. /\ u \in Thread /\ u.c = t.c /\ u.op = t.op /\ u.arg = t.arg /\ u.pc = pc
        /\ u.todo = t.todo /\ u.key = t.key /\ u.n = t.n
    BY DEF Thread
  <1> HIDE DEF u
  <1>3. QED
    BY <1>1, <1>2, ThreadStep, Zenon

\* A reply ends the command.
LEMMA ReplyLocals ==
  ASSUME th \in [Workers -> Thread], NEW w \in Workers, NEW r \in Replies, Reply(w, r)
  PROVE  Moved(w) /\ th'[w].pc = "idle"
  <1> DEFINE t == th[w]
             u == [t EXCEPT !.pc = "idle", !.reply = r]
  <1>1. th' = [th EXCEPT ![w] = u]
    BY Zenon DEF Reply
  <1>2. /\ u \in Thread /\ u.c = t.c /\ u.op = t.op /\ u.arg = t.arg /\ u.pc = "idle"
    BY PcValues, Zenon DEF Thread
  <1> HIDE DEF u
  <1>3. QED
    BY <1>1, <1>2, ThreadStep, Zenon

\* What the search of the keys leaves in a worker's locals.
LEMMA SetTodoLocals ==
  ASSUME th \in [Workers -> Thread], NEW w \in Workers, NEW todo \in Todos, SetTodo(w, todo)
  PROVE  Moved(w) /\ th'[w].pc = "read" /\ th'[w].todo = todo
  <1> DEFINE t == th[w]
             u == [t EXCEPT !.pc = "read", !.todo = todo]
  <1>1. th' = [th EXCEPT ![w] = u]
    BY Zenon DEF SetTodo
  <1>2. /\ u \in Thread /\ u.c = t.c /\ u.op = t.op /\ u.arg = t.arg /\ u.pc = "read"
        /\ u.todo = todo
    BY PcValues, Zenon DEF Thread
  <1> HIDE DEF u
  <1>3. QED
    BY <1>1, <1>2, ThreadStep, Zenon

\* What the read of a key leaves in a worker's locals.
LEMMA SetKeyLocals ==
  ASSUME th \in [Workers -> Thread], NEW w \in Workers, NEW todo \in Todos, NEW k \in Found,
         NEW v \in Value, NEW pc \in PCs, NEW reply \in Replies,
         SetKey(w, todo, k, v, pc, reply)
  PROVE  /\ Moved(w) /\ th'[w].pc = pc /\ th'[w].todo = todo /\ th'[w].key = k
         /\ th'[w].n = v.n
  <1> DEFINE t == th[w]
             u == [t EXCEPT !.todo = todo, !.key = k, !.n = v.n, !.first = v, !.pc = pc,
                            !.reply = reply]
  <1>1. th' = [th EXCEPT ![w] = u]
    BY Zenon DEF SetKey
  <1>2. v.n \in Int
    BY DEF Value
  <1>3. /\ u \in Thread /\ u.c = t.c /\ u.op = t.op /\ u.arg = t.arg /\ u.pc = pc
        /\ u.todo = todo /\ u.key = k /\ u.n = v.n
    BY <1>2, Zenon DEF Thread
  <1> HIDE DEF u
  <1>4. QED
    BY <1>1, <1>3, ThreadStep, Zenon

-----------------------------------------------------------------------------
(* The steps of the handlers *)

\* The database of a worker is in the list, and only the first has keys.
LEMMA DbFacts ==
  ASSUME IInv, NEW w \in Workers, th[w].pc # "idle"
  PROVE  /\ th[w].c \in Clients /\ sel[th[w].c] \in 1..Len(dbs) /\ Db(w).name \in Names
         /\ DOMAIN Db(w).data \subseteq Keys
         /\ DOMAIN Db(w).data # {} => sel[th[w].c] = 1
         /\ sel[th[w].c] = 1 => \A k \in Keys : Db(w).data[k] \in Value
  <1>1. th[w].c \in Clients /\ sel[th[w].c] \in 1..Len(dbs)
    BY DEF IInv, TypeOK, Apart
  <1>2. Db(w) \in Database
    BY <1>1 DEF IInv, TypeOK, Db
  <1>3. Db(w).name \in Names
    BY <1>2 DEF Database
  <1>4. CASE sel[th[w].c] = 1
    BY <1>1, <1>3, <1>4 DEF IInv, Filled, Db
  <1>5. CASE sel[th[w].c] # 1
    <2>1. sel[th[w].c] \in 2..Len(dbs)
      BY <1>1, <1>5
    <2>2. Db(w).data = <<>>
      BY <2>1 DEF IInv, Filled, Db
    <2>3. DOMAIN Db(w).data = {}
      BY <2>2
    <2>4. QED
      BY <1>1, <1>3, <1>5, <2>3
  <1>6. QED
    BY <1>4, <1>5

\* A command that arrives has an argument of its kind, and a client of its own.
LEMMA ReceiveMoves ==
  ASSUME IInv, NEW w \in Workers, Receive(w)
  PROVE  /\ Only(w) /\ th[w].pc = "idle" /\ th'[w].pc = "handler" /\ th'[w].c \in Clients
         /\ \A u \in Workers : th[u].pc # "idle" => th[u].c # th'[w].c
         /\ th'[w].op = "USE" => th'[w].arg \in Names
  <1>1. PICK c \in Clients, op \in Ops : \E arg \in Args(op) :
          /\ \A u \in Workers : th[u].pc # "idle" => th[u].c # c
          /\ th' = [th EXCEPT ![w] = [Idle EXCEPT !.pc = "handler", !.c = c, !.op = op,
                                                  !.arg = arg]]
    BY Zenon DEF Receive
  <1>2. PICK arg \in Args(op) :
          /\ \A u \in Workers : th[u].pc # "idle" => th[u].c # c
          /\ th' = [th EXCEPT ![w] = [Idle EXCEPT !.pc = "handler", !.c = c, !.op = op,
                                                  !.arg = arg]]
    BY <1>1, Zenon
  <1>3. (op = "USE" => arg \in Names) /\ arg \in Arguments
    BY DEF Args, Arguments
  <1> DEFINE u == [Idle EXCEPT !.pc = "handler", !.c = c, !.op = op, !.arg = arg]
  <1>4. c \in Served /\ op \in Commands
    BY DEF Served, Commands
  <1>5. u \in Thread /\ u.pc = "handler" /\ u.c = c /\ u.op = op /\ u.arg = arg
    BY <1>3, <1>4, IdleType, PcValues, Zenon DEF Thread
  <1>6. th[w].pc = "idle" /\ th \in [Workers -> Thread]
    BY DEF Receive, At, IInv, TypeOK
  <1> HIDE DEF u
  <1>7. Only(w) /\ th'[w] = u
    BY <1>2, <1>5, <1>6 DEF Only, u
  <1>8. QED
    BY <1>2, <1>3, <1>5, <1>6, <1>7, SMTT(30)

\* inc_find either answers or leaves keys of database 1 to be worked on.
LEMMA FindMoves ==
  ASSUME IInv, NEW w \in Workers, inc_find(w)
  PROVE  /\ Moved(w) /\ th[w].pc = "handler" /\ ~Op(w, {"USE"})
         /\ \/ th'[w].pc = "idle"
            \/ th'[w].pc = "read" /\ th'[w].todo \subseteq Keys /\ sel[th[w].c] = 1
  <1> DEFINE data == Db(w).data
             todo == IF Op(w, {"INC", "DEC"}) THEN {th[w].arg} \cap DOMAIN data
                     ELSE Matching(data, th[w].arg)
  <1>1. todo \subseteq DOMAIN data
    BY DEF Matching
  <1>2. /\ th[w].pc = "handler" /\ ~Op(w, {"USE"}) /\ th \in [Workers -> Thread]
        /\ IF todo = {} THEN Reply(w, <<"OK">>) ELSE SetTodo(w, todo)
    BY DEF inc_find, At, SetTodo, Op, IInv, TypeOK
  <1>3. DOMAIN data \subseteq Keys /\ (DOMAIN data # {} => sel[th[w].c] = 1)
    BY <1>2, DbFacts
  <1> HIDE DEF todo, data
  <1>4. CASE todo = {}
    BY <1>2, <1>4, ReplyLocals, ReplyValues
  <1>5. CASE todo # {}
    <2>1. todo \in Todos
      BY <1>1, <1>3 DEF Todos
    <2>2. QED
      BY <1>1, <1>2, <1>3, <1>5, <2>1, SetTodoLocals
  <1>6. QED
    BY <1>4, <1>5

\* inc_read picks a key whose value is a number and notes that number, or
\* passes over the key.
LEMMA ReadMoves ==
  ASSUME IInv, NEW w \in Workers, inc_read(w)
  PROVE  /\ Moved(w) /\ th[w].pc = "read" /\ th'[w].todo \subseteq Keys
         /\ \/ /\ th'[w].pc = "write" /\ th'[w].key \in Keys
               /\ dbs[1].data[th'[w].key].int /\ th'[w].n = dbs[1].data[th'[w].key].n
            \/ th'[w].pc \in {"idle", "read"}
  <1>1. th[w].pc = "read" /\ th \in [Workers -> Thread] /\ Read(w)
    BY Zenon DEF inc_read, At, IInv, TypeOK
  <1>2. th[w].todo \subseteq Keys /\ sel[th[w].c] = 1
    BY <1>1, SMTT(30) DEF Read
  <1> DEFINE v(k) == Db(w).data[k]
             rest(k) == th[w].todo \ {k}
             pc(k) == IF is_integer(v(k)) THEN "write" ELSE IF rest(k) = {} THEN "idle" ELSE "read"
             reply(k) == IF is_integer(v(k)) \/ rest(k) # {} THEN th[w].reply ELSE <<"OK">>
  <1>3. PICK k \in th[w].todo : SetKey(w, rest(k), k, v(k), pc(k), reply(k))
    BY <1>1, Zenon DEF inc_read, SetKey, Thread
  <1>4. v(k) = dbs[1].data[k] /\ v(k) \in Value
    BY <1>1, <1>2, DbFacts DEF Db
  <1>5. rest(k) \in Todos /\ rest(k) \subseteq Keys /\ k \in Found /\ k \in Keys
    BY <1>2 DEF Todos, Found
  <1>6. pc(k) \in PCs /\ reply(k) \in Replies
    BY <1>1, PcValues, ReplyValues DEF Thread
  <1>7. (pc(k) = "write" /\ v(k).int) \/ pc(k) \in {"idle", "read"}
    BY DEF is_integer
  <1> HIDE DEF v, rest, pc, reply
  <1>8. /\ Moved(w) /\ th'[w].pc = pc(k) /\ th'[w].todo = rest(k) /\ th'[w].key = k
        /\ th'[w].n = v(k).n
    BY <1>1, <1>3, <1>4, <1>5, <1>6, SetKeyLocals
  <1>9. QED
    BY <1>1, <1>4, <1>5, <1>7, <1>8

\* inc_write stores the number that was read, plus or minus 1.
LEMMA WriteMoves ==
  ASSUME IInv, NEW w \in Workers, inc_write(w)
  PROVE  /\ Moved(w) /\ th[w].pc = "write" /\ th'[w].pc \in {"idle", "read"}
         /\ th'[w].pc = "read" => th'[w].todo = th[w].todo
         /\ UNCHANGED <<table, sel>>
         /\ dbs' = [dbs EXCEPT ![1].data[th[w].key] = Number(th[w].n + Step(w))]
         /\ added' = [added EXCEPT ![th[w].key] = @ + Step(w)]
  <1>1. th[w].pc = "write" /\ th \in [Workers -> Thread] /\ Read(w)
    BY DEF inc_write, At, IInv, TypeOK
  <1>2. sel[th[w].c] = 1
    BY <1>1 DEF Read
  <1>3. IF th[w].todo = {} THEN Reply(w, <<"OK">>) ELSE Goto(w, "read")
    BY DEF inc_write, Goto
  <1>4. /\ Moved(w) /\ th'[w].pc \in {"idle", "read"}
        /\ th'[w].pc = "read" => th'[w].todo = th[w].todo
    <2>1. CASE th[w].todo = {}
      BY <1>1, <1>3, <2>1, ReplyLocals, ReplyValues
    <2>2. CASE th[w].todo # {}
      BY <1>1, <1>3, <2>2, GotoLocals, PcValues
    <2>3. QED
      BY <2>1, <2>2
  <1>5. QED
    BY <1>1, <1>2, <1>4 DEF inc_write

\* use_get selects the database of that name or goes on to create it.
LEMMA UseMoves ==
  ASSUME IInv, NEW w \in Workers, use_get(w)
  PROVE  /\ Moved(w) /\ th[w].pc = "handler" /\ Op(w, {"USE"}) /\ UNCHANGED <<dbs, table, added>>
         /\ \/ /\ th'[w].pc = "idle" /\ table[th[w].arg] # 0
               /\ sel' = [sel EXCEPT ![th[w].c] = table[th[w].arg]]
            \/ th'[w].pc = "create" /\ table[th[w].arg] = 0 /\ sel' = sel
  <1> DEFINE d == table[th[w].arg]
  <1>1. /\ th[w].pc = "handler" /\ Op(w, {"USE"}) /\ th \in [Workers -> Thread]
        /\ UNCHANGED <<dbs, table, added>>
        /\ IF d # 0 THEN Reply(w, <<"OK">>) /\ sel' = [sel EXCEPT ![th[w].c] = d]
           ELSE Goto(w, "create") /\ UNCHANGED sel
    BY DEF use_get, At, Goto, IInv, TypeOK
  <1> HIDE DEF d
  <1>2. CASE d # 0
    BY <1>1, <1>2, ReplyLocals, ReplyValues DEF d
  <1>3. CASE d = 0
    BY <1>1, <1>3, GotoLocals, PcValues DEF d
  <1>4. QED
    BY <1>2, <1>3

\* use_create appends a database, lists it under the name and selects it.
LEMMA CreateMoves ==
  ASSUME IInv, NEW w \in Workers, use_create(w)
  PROVE  /\ Moved(w) /\ th[w].pc = "create" /\ th'[w].pc = "idle" /\ UNCHANGED added
         /\ dbs' = Append(dbs, [name |-> th[w].arg, data |-> <<>>])
         /\ table' = [table EXCEPT ![th[w].arg] = Len(dbs) + 1]
         /\ sel' = [sel EXCEPT ![th[w].c] = Len(dbs) + 1]
  <1>1. /\ th[w].pc = "create" /\ th \in [Workers -> Thread] /\ Reply(w, <<"OK">>)
    BY DEF use_create, At, IInv, TypeOK
  <1>2. QED
    BY <1>1, ReplyLocals, ReplyValues DEF use_create

\* The commands that change no state end their handler, or the process.
LEMMA AnswerMoves ==
  ASSUME IInv, NEW w \in Workers, answer(w) \/ keys(w) \/ end(w)
  PROVE  /\ UNCHANGED <<dbs, table, sel, added>>
         /\ th' = th \/ (Moved(w) /\ th'[w].pc = "idle")
  <1>1. th[w].pc = "handler" /\ th \in [Workers -> Thread] /\ UNCHANGED <<dbs, table, sel, added>>
    BY Zenon DEF answer, keys, end, At, IInv, TypeOK
  <1>2. ASSUME NEW r, r \in Replies, Reply(w, r) PROVE Moved(w) /\ th'[w].pc = "idle"
    BY <1>1, <1>2, ReplyLocals
  <1>3. CASE answer(w)
    <2> DEFINE r == CASE Op(w, {"CNT"}) -> <<Db(w).name, count(w)>>
                      [] Op(w, {"DB"}) -> <<Db(w).name>>
                      [] Op(w, {"PING"}) -> <<"OK">>
                      [] OTHER -> <<"INFO">>
    <2>1. Reply(w, r) /\ Op(w, {"CNT", "DB", "PING", "INFO"})
      BY <1>3 DEF answer
    <2>2. Db(w).name \in Names /\ Matching(Db(w).data, th[w].arg) \in SUBSET Keys
      BY <1>1, DbFacts DEF Matching
    <2>3. <<Db(w).name, count(w)>> \in Replies /\ <<Db(w).name>> \in Replies
      BY <2>2, ReplyValues DEF count
    <2>4. r \in Replies
      BY <2>1, <2>3, ReplyValues DEF Op
    <2> HIDE DEF r
    <2>5. QED
      BY <1>1, <1>2, <2>1, <2>4
  <1>4. CASE keys(w)
    BY <1>1, <1>2, <1>4, ReplyValues, Zenon DEF keys
  <1>5. CASE end(w)
    BY <1>1, <1>5, Zenon DEF end
  <1>6. QED
    BY <1>3, <1>4, <1>5

-----------------------------------------------------------------------------
(* What a step keeps *)

\* The history grows, by the workers that meet.
LEMMA MetStep ==
  ASSUME HNext
  PROVE  /\ met.keys \subseteq met'.keys /\ met.names \subseteq met'.names
         /\ \A v, u \in Workers :
              /\ v # u /\ th[v].pc = "write" /\ th[u].pc = "write" /\ th[v].key = th[u].key
              /\ sel[th[v].c] = sel[th[u].c]
              => th[v].key \in met'.keys
         /\ \A v, u \in Workers :
              v # u /\ th[v].pc = "create" /\ th[u].pc = "create" /\ th[v].arg = th[u].arg
              => th[v].arg \in met'.names
  <1>1. /\ met'.keys = met.keys \cup Together("write", Key)
        /\ met'.names = met.names \cup Together("create", Name)
    BY DEF HNext
  <1>2. ASSUME NEW v \in Workers, NEW u \in Workers, v # u, th[v].pc = "write",
               th[u].pc = "write", th[v].key = th[u].key, sel[th[v].c] = sel[th[u].c]
        PROVE  th[v].key \in Together("write", Key)
    BY <1>2 DEF Together, Key
  <1>3. ASSUME NEW v \in Workers, NEW u \in Workers, v # u, th[v].pc = "create",
               th[u].pc = "create", th[v].arg = th[u].arg
        PROVE  th[v].arg \in Together("create", Name)
    BY <1>3 DEF Together, Name
  <1>4. QED
    BY <1>1, <1>2, <1>3

\* A worker that stands by, while what it has read is left alone or met.
LEMMA ReadFrame ==
  ASSUME NEW v \in Workers, Read(v), th'[v] = th[v],
         met.keys \subseteq met'.keys, met.names \subseteq met'.names,
         th[v].pc # "idle" => sel'[th[v].c] = sel[th[v].c],
         th[v].pc = "create" => \/ th[v].arg \in met'.names
                                \/ table'[th[v].arg] = table[th[v].arg],
         th[v].pc = "write" => \/ th[v].key \in met'.keys
                               \/ dbs'[1].data[th[v].key] = dbs[1].data[th[v].key]
  PROVE  Read(v)'
  BY DEF Read, Op

\* No step of a worker makes it share a client with another.
LEMMA ApartStep ==
  ASSUME IInv, NEW w \in Workers, Moved(w), th[w].pc # "idle"
  PROVE  Apart'
  BY DEF IInv, Apart, Moved, Only

\* A step that leaves the databases alone.
LEMMA QuietStep ==
  ASSUME IInv, HNext, UNCHANGED <<dbs, table, sel, added>>, th' \in [Workers -> Thread],
         Apart', NEW w \in Workers, Read(w)', \A v \in Workers \ {w} : th'[v] = th[v]
  PROVE  IInv'
  <1>1. TypeOK' /\ Filled' /\ Listed'
    BY DEF IInv, TypeOK, Filled, Listed
  <1>2. SelectedIsListed' /\ IncrementsCount'
    BY MetStep DEF IInv, SelectedIsListed, IncrementsCount
  <1>3. \A v \in Workers : Read(v)'
    BY MetStep, ReadFrame DEF IInv
  <1>4. QED
    BY <1>1, <1>2, <1>3 DEF IInv

\* inc_write preserves the invariant: unless another worker is between read and
\* write of the key, the number that was read is still stored.
LEMMA WriteStep ==
  ASSUME IInv, HNext, NEW w \in Workers, inc_write(w)
  PROVE  IInv'
  <1> DEFINE k == th[w].key
             n == th[w].n
             s == Step(w)
  <1>1. /\ Moved(w) /\ th[w].pc = "write" /\ th'[w].pc \in {"idle", "read"}
        /\ th'[w].pc = "read" => th'[w].todo = th[w].todo
        /\ UNCHANGED <<table, sel>>
        /\ dbs' = [dbs EXCEPT ![1].data[k] = Number(n + s)]
        /\ added' = [added EXCEPT ![k] = @ + s]
    BY WriteMoves
  <1>2. /\ k \in Keys /\ n \in Int /\ Stored[k].int /\ sel[th[w].c] = 1 /\ s \in Int
        /\ th[w].todo \subseteq Keys /\ ~Op(w, {"USE"})
        /\ k \in met.keys \/ dbs[1].data[k] = Number(n)
    BY <1>1 DEF IInv, Read, Step
  <1> HIDE DEF k, n, s
  <1>3. /\ dbs \in Seq(Database) /\ Len(dbs) > 0 /\ 1 \in DOMAIN dbs
        /\ dbs[1] \in Database /\ dbs[1].data \in [Keys -> Value]
    BY DEF IInv, TypeOK, Filled
  <1> DEFINE v == Number(n + s)
             data == [dbs[1].data EXCEPT ![k] = v]
             db == [dbs[1] EXCEPT !.data = data]
  <1>4. v \in Value
    BY <1>2 DEF Number, Value
  <1>5. dbs' = [dbs EXCEPT ![1] = db]
    BY <1>1, <1>3
  <1> HIDE DEF v
  <1>6. data \in [Keys -> Value]
    BY <1>3, <1>4, Zenon
  <1>7. data[k] = v /\ \A j \in Keys \ {k} : data[j] = dbs[1].data[j]
    BY <1>2, <1>3
  <1> HIDE DEF data
  <1>8. db \in Database /\ db.data = data /\ db.name = dbs[1].name
    BY <1>3, <1>6 DEF Database
  <1> HIDE DEF db
  <1>9. /\ dbs' \in Seq(Database) /\ Len(dbs') = Len(dbs) /\ dbs'[1] = db
        /\ \A d \in 2..Len(dbs) : dbs'[d] = dbs[d]
        /\ \A d \in 1..Len(dbs) : dbs'[d].name = dbs[d].name
    BY <1>3, <1>5, <1>8
  <1>10. TypeOK'
    BY <1>1, <1>2, <1>9 DEF IInv, TypeOK, Moved, Only
  <1>11. Filled'
    BY <1>6, <1>8, <1>9 DEF IInv, Filled
  <1>12. Listed'
    BY <1>1, <1>9 DEF IInv, Listed, TypeOK
  <1>13. Apart'
    BY <1>1, ApartStep
  <1>14. ASSUME NEW u \in Workers PROVE Read(u)'
    <2>1. CASE u = w
      BY <1>1, <1>2, <2>1 DEF Read, Moved, Op
    <2>2. CASE u # w
      <3>1. th'[u] = th[u] /\ Read(u)
        BY <1>1, <2>2 DEF Moved, Only, IInv
      <3>2. ASSUME th[u].pc = "write"
            PROVE  th[u].key \in met'.keys \/ dbs'[1].data[th[u].key] = dbs[1].data[th[u].key]
        <4>1. th[u].key \in Keys /\ sel[th[u].c] = 1
          BY <3>1, <3>2 DEF Read
        <4>2. CASE th[u].key = k
          BY <1>1, <1>2, <2>2, <3>2, <4>1, <4>2, MetStep DEF k
        <4>3. CASE th[u].key # k
          BY <1>7, <1>8, <1>9, <4>1, <4>3
        <4>4. QED
          BY <4>2, <4>3
      <3>3. QED
        BY <1>1, <3>1, <3>2, MetStep, ReadFrame
    <2>3. QED
      BY <2>1, <2>2
  <1>15. SelectedIsListed'
    <2>1. \A c \in Clients : sel[c] \in 1..Len(dbs)
      BY DEF IInv, TypeOK
    <2>2. \A c \in Clients : dbs'[sel'[c]].name = dbs[sel[c]].name
      BY <1>1, <1>9, <2>1
    <2>3. QED
      BY <1>1, <2>2, MetStep DEF IInv, SelectedIsListed
  <1>16. IncrementsCount'
    <2>1. SUFFICES ASSUME NEW j \in Keys
                   PROVE  IF Stored[j].int
                          THEN j \in met'.keys \/ data[j] = Number(Stored[j].n + added'[j])
                          ELSE data[j] = Stored[j]
      BY <1>8, <1>9 DEF IncrementsCount
    <2>2. added \in [Keys -> Int] /\ Stored[j].n \in Int /\ Stored[k].n \in Int
      BY <1>2, StoredAssumption DEF IInv, TypeOK
    <2>3. CASE j # k
      BY <1>1, <1>2, <1>7, <2>2, <2>3, MetStep DEF IInv, IncrementsCount
    <2>4. CASE j = k /\ k \notin met'.keys
      <3>1. dbs[1].data[k] = Number(n) /\ dbs[1].data[k] = Number(Stored[k].n + added[k])
        BY <1>2, <2>4, MetStep DEF IInv, IncrementsCount
      <3>2. n = Stored[k].n + added[k]
        BY <3>1 DEF Number
      <3>3. added'[k] = added[k] + s
        BY <1>1, <1>2, <2>2
      <3>4. n + s = Stored[k].n + added'[k]
        BY <1>2, <2>2, <3>2, <3>3
      <3>5. QED
        BY <1>2, <1>7, <2>4, <3>4 DEF v
    <2>5. QED
      BY <1>2, <2>3, <2>4
  <1>17. QED
    BY <1>10, <1>11, <1>12, <1>13, <1>14, <1>15, <1>16 DEF IInv

\* The client of a worker is not the client of another.
LEMMA OtherClients ==
  ASSUME IInv, NEW w \in Workers, th[w].pc # "idle", NEW d,
         sel' = [sel EXCEPT ![th[w].c] = d]
  PROVE  /\ sel'[th[w].c] = d
         /\ \A c \in Clients \ {th[w].c} : sel'[c] = sel[c]
         /\ \A u \in Workers \ {w} : th[u].pc # "idle" => sel'[th[u].c] = sel[th[u].c]
  BY DEF IInv, TypeOK, Apart

\* USE of a name that is listed preserves the invariant.
LEMMA UseStep ==
  ASSUME IInv, HNext, NEW w \in Workers, use_get(w), table[th[w].arg] # 0
  PROVE  IInv'
  <1> DEFINE x == th[w].arg
             d == table[x]
  <1>1. /\ Moved(w) /\ th[w].pc = "handler" /\ Op(w, {"USE"}) /\ th'[w].pc = "idle"
        /\ UNCHANGED <<dbs, table, added>> /\ sel' = [sel EXCEPT ![th[w].c] = d]
    BY UseMoves
  <1>2. x \in Names /\ d \in 1..Len(dbs) /\ dbs[d].name = x /\ th[w].c \in Clients
    BY <1>1 DEF IInv, TypeOK, Read, Listed, Apart
  <1> HIDE DEF x, d
  <1>3. /\ sel'[th[w].c] = d /\ \A c \in Clients \ {th[w].c} : sel'[c] = sel[c]
        /\ \A u \in Workers \ {w} : th[u].pc # "idle" => sel'[th[u].c] = sel[th[u].c]
    BY <1>1, OtherClients, Zenon
  <1>4. TypeOK' /\ Filled' /\ Listed'
    BY <1>1, <1>2 DEF IInv, TypeOK, Filled, Listed, Moved, Only
  <1>5. Apart'
    BY <1>1, ApartStep
  <1>6. ASSUME NEW u \in Workers PROVE Read(u)'
    <2>1. CASE u = w
      BY <1>1, <2>1 DEF Read
    <2>2. CASE u # w
      BY <1>1, <1>3, <2>2, MetStep, ReadFrame DEF IInv, Moved, Only
    <2>3. QED
      BY <2>1, <2>2
  <1>7. SelectedIsListed'
    <2>1. ASSUME NEW c \in Clients
          PROVE  dbs[sel'[c]].name \in met'.names \/ table[dbs[sel'[c]].name] = sel'[c]
      <3>1. CASE c = th[w].c
        BY <1>2, <1>3, <3>1 DEF d
      <3>2. CASE c # th[w].c
        BY <1>3, <3>2, MetStep DEF IInv, SelectedIsListed
      <3>3. QED
        BY <3>1, <3>2
    <2>2. QED
      BY <1>1, <2>1 DEF SelectedIsListed
  <1>8. IncrementsCount'
    BY <1>1, MetStep DEF IInv, IncrementsCount
  <1>9. QED
    BY <1>4, <1>5, <1>6, <1>7, <1>8 DEF IInv

\* The creation of a database preserves the invariant: unless another worker
\* creates one of the same name, the name was not listed.
LEMMA CreateStep ==
  ASSUME IInv, HNext, NEW w \in Workers, use_create(w)
  PROVE  IInv'
  <1> DEFINE x == th[w].arg
             d == Len(dbs) + 1
             db == [name |-> x, data |-> <<>>]
  <1>1. /\ Moved(w) /\ th[w].pc = "create" /\ th'[w].pc = "idle" /\ UNCHANGED added
        /\ dbs' = Append(dbs, db) /\ table' = [table EXCEPT ![x] = d]
        /\ sel' = [sel EXCEPT ![th[w].c] = d]
    BY CreateMoves
  <1>2. x \in Names /\ th[w].c \in Clients /\ (x \in met.names \/ table[x] = 0)
    BY <1>1 DEF IInv, Read, Apart
  <1>3. db \in Database /\ db.name = x /\ db.data = <<>>
    BY <1>2 DEF Database
  <1>4. dbs \in Seq(Database) /\ Len(dbs) \in Nat /\ Len(dbs) > 0
    BY DEF IInv, TypeOK
  <1> HIDE DEF db, x
  <1>5. /\ dbs' \in Seq(Database) /\ Len(dbs') = d /\ dbs'[d] = db
        /\ \A i \in 1..Len(dbs) : dbs'[i] = dbs[i]
    BY <1>1, <1>3, <1>4
  <1>6. d \in Nat /\ d > Len(dbs)
    BY <1>4
  <1> HIDE DEF d
  <1>7. /\ sel'[th[w].c] = d /\ \A c \in Clients \ {th[w].c} : sel'[c] = sel[c]
        /\ \A u \in Workers \ {w} : th[u].pc # "idle" => sel'[th[u].c] = sel[th[u].c]
    BY <1>1, OtherClients, Zenon
  <1>8. table'[x] = d /\ \A y \in Names \ {x} : table'[y] = table[y]
    BY <1>1, <1>2 DEF IInv, TypeOK
  <1>9. TypeOK'
    <2>1. table' \in [Names -> 0..d]
      BY <1>1, <1>2, <1>4, <1>6 DEF IInv, TypeOK
    <2>2. sel' \in [Clients -> 1..d]
      BY <1>1, <1>2, <1>4, <1>6 DEF IInv, TypeOK
    <2>3. QED
      BY <1>1, <1>5, <1>6, <2>1, <2>2 DEF IInv, TypeOK, Moved, Only
  <1>10. Filled'
    <2>1. dbs'[1] = dbs[1]
      BY <1>4, <1>5
    <2>2. ASSUME NEW i \in 2..d PROVE dbs'[i].data = <<>>
      <3>1. CASE i = d
        BY <1>3, <1>5, <3>1
      <3>2. CASE i # d
        <4>1. i \in 1..Len(dbs) /\ i \in 2..Len(dbs)
          BY <1>4, <3>2 DEF d
        <4>2. QED
          BY <1>5, <4>1 DEF IInv, Filled
      <3>3. QED
        BY <3>1, <3>2
    <2>3. QED
      BY <1>5, <2>1, <2>2 DEF IInv, Filled
  <1>11. Listed'
    <2>1. ASSUME NEW y \in Names, table'[y] # 0 PROVE dbs'[table'[y]].name = y
      <3>1. CASE y = x
        BY <1>3, <1>5, <1>8, <3>1
      <3>2. CASE y # x
        <4>1. table'[y] = table[y] /\ table[y] \in 1..Len(dbs)
          BY <1>8, <2>1, <3>2 DEF IInv, TypeOK
        <4>2. QED
          BY <1>5, <2>1, <4>1 DEF IInv, Listed
      <3>3. QED
        BY <3>1, <3>2
    <2>2. QED
      BY <2>1 DEF Listed
  <1>12. Apart'
    BY <1>1, ApartStep
  <1>13. ASSUME NEW u \in Workers PROVE Read(u)'
    <2>1. CASE u = w
      BY <1>1, <2>1 DEF Read
    <2>2. CASE u # w
      <3>1. th'[u] = th[u] /\ Read(u) /\ dbs'[1] = dbs[1]
        BY <1>1, <1>4, <1>5, <2>2 DEF IInv, Moved, Only
      <3>2. ASSUME th[u].pc = "create"
            PROVE  th[u].arg \in met'.names \/ table'[th[u].arg] = table[th[u].arg]
        <4>1. th[u].arg \in Names
          BY <3>1, <3>2 DEF Read
        <4>2. CASE th[u].arg = x
          BY <1>1, <2>2, <3>2, <4>2, MetStep DEF x
        <4>3. CASE th[u].arg # x
          BY <1>8, <4>1, <4>3
        <4>4. QED
          BY <4>2, <4>3
      <3>3. QED
        BY <1>7, <2>2, <3>1, <3>2, MetStep, ReadFrame
    <2>3. QED
      BY <2>1, <2>2
  <1>14. SelectedIsListed'
    <2>1. ASSUME NEW c \in Clients
          PROVE  dbs'[sel'[c]].name \in met'.names \/ table'[dbs'[sel'[c]].name] = sel'[c]
      <3>1. CASE c = th[w].c
        BY <1>3, <1>5, <1>7, <1>8, <3>1
      <3>2. CASE c # th[w].c
        <4> DEFINE y == dbs[sel[c]].name
        <4>1. sel'[c] = sel[c] /\ sel[c] \in 1..Len(dbs) /\ sel[c] # 0
          BY <1>7, <3>2 DEF IInv, TypeOK
        <4>2. dbs[sel[c]] \in Database
          BY <1>4, <4>1
        <4>3. dbs'[sel'[c]].name = y /\ y \in Names
          BY <1>5, <4>1, <4>2 DEF Database
        <4>4. y \in met.names \/ table[y] = sel[c]
          BY DEF IInv, SelectedIsListed
        <4> HIDE DEF y
        <4>5. CASE y = x
          BY <1>2, <4>1, <4>3, <4>4, <4>5, MetStep
        <4>6. CASE y # x
          BY <1>8, <4>1, <4>3, <4>4, <4>6, MetStep
        <4>7. QED
          BY <4>5, <4>6
      <3>3. QED
        BY <3>1, <3>2
    <2>2. QED
      BY <2>1 DEF SelectedIsListed
  <1>15. IncrementsCount'
    <2>1. dbs'[1] = dbs[1]
      BY <1>4, <1>5
    <2>2. QED
      BY <1>1, <2>1, MetStep DEF IInv, IncrementsCount
  <1>16. QED
    BY <1>9, <1>10, <1>11, <1>12, <1>13, <1>14, <1>15 DEF IInv

\* The steps that leave the databases alone.
LEMMA OtherSteps ==
  ASSUME IInv, HNext, NEW w \in Workers,
         \/ Receive(w) \/ inc_find(w) \/ inc_read(w) \/ answer(w) \/ keys(w) \/ end(w)
         \/ use_get(w) /\ table[th[w].arg] = 0
  PROVE  IInv'
  <1>1. Read(w)
    BY DEF IInv
  <1>2. CASE Receive(w)
    <2>1. UNCHANGED <<dbs, table, sel, added>>
      BY <1>2, Zenon DEF Receive
    <2>2. /\ Only(w) /\ th[w].pc = "idle" /\ th'[w].pc = "handler" /\ th'[w].c \in Clients
          /\ \A u \in Workers : th[u].pc # "idle" => th[u].c # th'[w].c
          /\ th'[w].op = "USE" => th'[w].arg \in Names
      BY <1>2, ReceiveMoves
    <2>3. Apart'
      BY <2>2, SMTT(30) DEF IInv, Apart, Only
    <2>4. Read(w)'
      BY <2>2, SMTT(30) DEF Read, Op
    <2>5. QED
      BY <2>1, <2>2, <2>3, <2>4, QuietStep, SMTT(30) DEF Only
  <1>3. CASE inc_find(w)
    <2>1. UNCHANGED <<dbs, table, sel, added>>
      BY <1>3, SMTT(30) DEF inc_find
    <2>2. /\ Moved(w) /\ th[w].pc = "handler" /\ ~Op(w, {"USE"})
          /\ \/ th'[w].pc = "idle"
             \/ th'[w].pc = "read" /\ th'[w].todo \subseteq Keys /\ sel[th[w].c] = 1
      BY <1>3, FindMoves, SMTT(30)
    <2>3. Read(w)'
      BY <2>1, <2>2 DEF Read, Op, Moved
    <2>4. QED
      BY <2>1, <2>2, <2>3, ApartStep, QuietStep DEF Moved, Only
  <1>4. CASE inc_read(w)
    <2>1. UNCHANGED <<dbs, table, sel, added>>
      BY <1>4, Zenon DEF inc_read
    <2> DEFINE k == th'[w].key
    <2>2. /\ Moved(w) /\ th[w].pc = "read" /\ th'[w].todo \subseteq Keys
          /\ \/ /\ th'[w].pc = "write" /\ k \in Keys
                /\ dbs[1].data[k].int /\ th'[w].n = dbs[1].data[k].n
             \/ th'[w].pc \in {"idle", "read"}
      BY <1>4, ReadMoves
    <2>3. sel[th[w].c] = 1 /\ ~Op(w, {"USE"})
      BY <1>1, <2>2, SMTT(30) DEF Read
    <2>4. ASSUME th'[w].pc = "write"
          PROVE  k \in Keys /\ th'[w].n \in Int /\ Stored[k].int /\ dbs[1].data[k] = Number(th'[w].n)
      <3>1. k \in Keys /\ dbs[1].data[k].int /\ th'[w].n = dbs[1].data[k].n
        BY <2>2, <2>4
      <3>2. dbs[1].data[k] \in Value
        BY <3>1 DEF IInv, Filled
      <3>3. th'[w].n \in Int /\ dbs[1].data[k] = Number(th'[w].n)
        BY <3>1, <3>2, Zenon DEF Value, Number
      <3>4. Stored[k].int
        BY <3>1 DEF IInv, IncrementsCount
      <3>5. QED
        BY <3>1, <3>3, <3>4
    <2>5. Read(w)'
      <3> HIDE DEF k
      <3> QED
        BY <2>1, <2>2, <2>3, <2>4 DEF Read, Op, Moved, k
    <2>6. QED
      BY <2>1, <2>2, <2>5, ApartStep, QuietStep, SMTT(30) DEF Moved, Only
  <1>5. CASE answer(w) \/ keys(w) \/ end(w)
    <2>1. /\ UNCHANGED <<dbs, table, sel, added>>
          /\ th' = th \/ (Moved(w) /\ th'[w].pc = "idle")
      BY <1>5, AnswerMoves
    <2>2. th[w].pc = "handler"
      BY <1>5, Zenon DEF answer, keys, end, At
    <2>3. CASE th' = th
      <3>1. Apart' /\ th' \in [Workers -> Thread]
        BY <2>3, SMTT(30) DEF IInv, Apart, TypeOK
      <3>2. Read(w)'
        BY <1>1, <2>1, <2>2, <2>3, MetStep, ReadFrame
      <3>3. QED
        BY <2>1, <2>3, <3>1, <3>2, QuietStep
    <2>4. CASE Moved(w) /\ th'[w].pc = "idle"
      <3>1. Read(w)'
        BY <2>4, SMTT(30) DEF Read
      <3>2. QED
        BY <2>1, <2>2, <2>4, <3>1, ApartStep, QuietStep, SMTT(30) DEF Moved, Only
    <2>5. QED
      BY <2>1, <2>3, <2>4
  <1>6. CASE use_get(w) /\ table[th[w].arg] = 0
    <2>1. /\ Moved(w) /\ th[w].pc = "handler" /\ Op(w, {"USE"})
          /\ UNCHANGED <<dbs, table, sel, added>> /\ th'[w].pc = "create"
      BY <1>6, UseMoves, SMTT(30)
    <2>2. Read(w)'
      BY <1>1, <1>6, <2>1 DEF Read, Op, Moved
    <2>3. QED
      BY <2>1, <2>2, ApartStep, QuietStep, SMTT(30) DEF Moved, Only
  <1>7. QED
    BY <1>2, <1>3, <1>4, <1>5, <1>6

\* Every step preserves the invariant, one case per action.
LEMMA NextIInv == IInv /\ [HNext]_hvars => IInv'
  <1> SUFFICES ASSUME IInv, [HNext]_hvars PROVE IInv'
    OBVIOUS
  <1>1. CASE UNCHANGED hvars
    <2>1. TypeOK' /\ Filled' /\ Listed' /\ Apart' /\ SelectedIsListed' /\ IncrementsCount'
      BY <1>1 DEF hvars, vars, IInv, TypeOK, Filled, Listed, Apart, SelectedIsListed,
         IncrementsCount
    <2>2. \A w \in Workers : Read(w)'
      BY <1>1 DEF hvars, vars, IInv, Read, Op
    <2>3. QED
      BY <2>1, <2>2 DEF IInv
  <1>2. CASE HNext
    <2>1. PICK w \in Workers : Receive(w) \/ Worker(w)
      BY <1>2 DEF HNext, Next
    <2>2. CASE inc_write(w)
      BY <1>2, <2>2, WriteStep
    <2>3. CASE use_create(w)
      BY <1>2, <2>3, CreateStep
    <2>4. CASE use_get(w)
      BY <1>2, <2>4, UseStep, OtherSteps
    <2>5. QED
      BY <1>2, <2>1, <2>2, <2>3, <2>4, OtherSteps DEF Worker
  <1>3. QED
    BY <1>1, <1>2

\* The invariant holds at the start.
LEMMA InitIInv == HInit => IInv
  <1> SUFFICES ASSUME HInit PROVE IInv
    OBVIOUS
  <1> DEFINE db == [name |-> Default, data |-> Stored]
  <1>1. /\ dbs = <<db>> /\ table = [x \in Names |-> IF x = Default THEN 1 ELSE 0]
        /\ sel = [c \in Clients |-> 1] /\ th = [w \in Workers |-> Idle]
        /\ added = [k \in Keys |-> 0]
    BY DEF HInit, Init
  <1>2. Stored \in [Keys -> Value] /\ Default \in Names
    BY StoredAssumption, CommandsAssumption DEF Value
  <1>3. db \in Database /\ db.name = Default /\ db.data = Stored
    BY <1>2 DEF Database
  <1> HIDE DEF db
  <1>4. dbs \in Seq(Database) /\ Len(dbs) = 1 /\ dbs[1] = db
    BY <1>1, <1>3
  <1>5. TypeOK
    BY <1>1, <1>4, IdleType DEF TypeOK
  <1>6. Filled /\ Listed /\ SelectedIsListed
    BY <1>1, <1>2, <1>3, <1>4 DEF Filled, Listed, SelectedIsListed
  <1>7. \A w \in Workers : th[w].pc = "idle"
    BY <1>1 DEF Idle
  <1>8. Apart /\ \A w \in Workers : Read(w)
    BY <1>7 DEF Apart, Read
  <1>9. IncrementsCount
    <2>1. SUFFICES ASSUME NEW k \in Keys, Stored[k].int
                   PROVE  Stored[k] = Number(Stored[k].n + added[k])
      BY <1>3, <1>4 DEF IncrementsCount
    <2>2. Stored[k] \in Value /\ added[k] = 0
      BY <1>1, <1>2
    <2>3. Stored[k].n + added[k] = Stored[k].n
      BY <2>2 DEF Value
    <2>4. QED
      BY <2>1, <2>2, <2>3, Zenon DEF Value, Number
  <1>10. QED
    BY <1>5, <1>6, <1>8, <1>9 DEF IInv

-----------------------------------------------------------------------------
(* Theorems *)

\* The inductive invariant of the handlers: positions and pointers are well
\* typed, a client is served by one worker, what a worker has read of a key
\* that nobody else is working on is what is stored, and a name that nobody
\* else is creating is listed with its database.
LEMMA CommandsInvariant == HSpec => []IInv
  BY InitIInv, NextIInv, PTL DEF HSpec

\* Two clients that select a database by the same name work on the same one,
\* the one in the table, however many USE commands run at once: use_handler
\* looks the name up and adds the new database without a lock, and only two
\* workers that create the same name at the same time can undo that.
THEOREM ClientsShareByName == HSpec => []SelectedIsListed
  <1>1. IInv => SelectedIsListed
    BY DEF IInv
  <1>2. QED
    BY <1>1, CommandsInvariant, PTL

\* INC and DEC lose no update of a number, and leave text alone, unless two
\* workers hold the same value between the read and the write that no lock
\* joins, in inc_handler or in the walk of database_prefix_inc.
THEOREM NoUpdateIsLost == HSpec => []IncrementsCount
  <1>1. IInv => IncrementsCount
    BY DEF IInv
  <1>2. QED
    BY <1>1, CommandsInvariant, PTL
=============================================================================
