------------------------------ MODULE MCParts -------------------------------
(***************************************************************************)
(* The parts of the server that work alone, in one model: a behaviour is   *)
(* one of the part it starts with, and the others stay as they are.        *)
(***************************************************************************)
EXTENDS Bus, Vector, TLC

CONSTANTS Parts,  \* the parts that run
          b1, b2, b3, b4, t1, t2, v1, v2, h1, h2, h3, h4

VARIABLES part,
          table, ret,
          clients, cret, putting, removing, conns, fresh, lost, cfault,
          nodes, rsize, adding,
          root, wret, wfault, kv, want,
          heap, memory, pending, calls, raced,
          config, debug, words, connect, step, base, said, argc,
          db, call, reply, rfault, ref,
          cells, head, tail, len, lref, broken

tableVars == <<table, ret>>
clientVars == <<clients, cret, putting, removing, conns, fresh, lost, cfault>>
ringVars == <<nodes, rsize, adding>>
walkVars == <<root, wret, wfault, kv, want>>
memVars == <<heap, memory, pending, calls, raced>>
confVars == <<config, debug, words, connect, step, base, said, argc>>
wireVars == <<db, call, reply, rfault, ref>>
listVars == <<cells, head, tail, len, lref, broken>>

-----------------------------------------------------------------------------
(* The hash table, alone and with the two threads that share the one of the *)
(* clients.  The checksums make probe chains meet: the keys share an entry  *)
(* or neighbouring entries of an array of 4 and of 8, three of them fill a  *)
(* chain of 2 and force a growth before the array is half full.             *)

TableKeys == {<<"a">>, <<"b">>, <<"c">>, <<"d">>}
TableHash ==
  [k \in TableKeys |-> CASE k = <<"a">> -> 0 [] k = <<"b">> -> 8
                         [] k = <<"c">> -> 16 [] OTHER -> 1]

TableVals == {v1, v2}
ClientKeys == TableKeys \ {<<"c">>}  \* the third one makes the table grow

Table == INSTANCE HashTable
           WITH Keys <- TableKeys, Vals <- TableVals, HashInt <- TableHash,
                INITIAL_SIZE <- 4, MAX_CHAIN_LENGTH <- 2, Overwrite <- FALSE
Clients == INSTANCE ClientTable
             WITH Keys <- ClientKeys, Vals <- TableVals,
                  HashInt <- [k \in ClientKeys |-> TableHash[k]],
                  INITIAL_SIZE <- 4, MAX_CHAIN_LENGTH <- 2, Overwrite <- FALSE,
                  table <- clients, ret <- cret, adding <- putting, fault <- cfault

Hosts == {h1, h2, h3}
Ring == INSTANCE Ring WITH RING_SIZE <- 4, replicas <- 1, size <- rsize

-----------------------------------------------------------------------------
(* The trie's searches, with keys one shorter and one longer than the buffer *)
(* and characters that go to either side of a search tree.                   *)

WalkKeys == {<<>>, <<1>>, <<1, 2>>, <<1, 3>>, <<1, 1, 2>>, <<1, 1, 2, 1>>, <<1, 1, 2, 2>>}
WalkItems == {v1}
Walk == INSTANCE PrefixWalk
          WITH Keys <- WalkKeys, Items <- WalkItems, BUFSIZE <- 3, ret <- wret, fault <- wfault

Threads == {t1, t2}
Blocks == {b1, b2}
Sizes == {1, 5}
Mem == INSTANCE Memory
         WITH Lens <- {2}, WORD <- 8, COUNT_MOD <- 1024, MaxCalls <- 5

-----------------------------------------------------------------------------
(* The configuration: every option, values at and over their limits, keys cut *)
(* short or without a value, and lines that are no option.                    *)

Line(key, values) == {[kind |-> "entry", key |-> key, value |-> v] : v \in values}
ConfLines ==
  Line(<<"log_", "level">>, {<<"debug">>, <<"error">>, <<"info">>, <<>>})
  \cup Line(<<"log_", "path">>, {<<"path">>}) \cup Line(<<"log_">>, {<<"debug">>})
  \cup Line(<<"unix_socket">>, {<<"path">>}) \cup Line(<<"ip_", "address">>, {<<"host">>})
  \cup Line(<<"ip_", "port">>, {<<"3">>}) \cup Line(<<"ip_">>, {<<"host">>})
  \cup Line(<<"m", "ax_", "memory">>, {<<"3">>, <<"3", "k", "b">>, <<"3", "M", "b">>, <<>>})
  \cup Line(<<"m", "ax_", "request_size">>, {<<"3", "g", "b">>})
  \cup Line(<<"m", "em_reclaim_time">>, {<<"3", "m">>, <<"3", "M">>, <<"3", "d">>})
  \cup Line(<<"m", "ax_">>, {<<"3">>}) \cup Line(<<"m">>, {<<"3">>})
  \cup Line(<<"tcp_backlog">>, {<<"3">>, <<"300">>}) \cup Line(<<"#">>, {<<"3">>})
  \cup Line(<<"m", "ode">>, {<<"standalone">>, <<"cluster">>, <<>>})
  \cup {[kind |-> k, key |-> <<"m", "ode">>, value |-> <<"cluster">>] :
          k \in {"comment", "blank", "tail"}}

Args == {<<"a", <<"host">>>>, <<"p", <<"3">>>>, <<"v", <<>>>>,
         <<"m", <<"cluster">>>>, <<"m", <<"standalone">>>>}
Words == {<<>>, <<"join", "host", "3">>, <<"start", "host", "3">>}
Number == "3" :> 3 @@ "300" :> 300

Conf == INSTANCE Config
          WITH Lines <- ConfLines, KB <- 10, SOMAXCONN <- 128, MaxLines <- 2, MaxArgs <- 2

-----------------------------------------------------------------------------
(* The bus: two nodes join the first one, and one of them is joined itself. *)

MCNodes == {h1, h2, h3, h4}
MCMode == [n \in MCNodes |-> IF n = h3 THEN "STANDALONE" ELSE "CLUSTER"]
MCSeed == [n \in MCNodes |-> IF n = h1 THEN NoSeed ELSE IF n = h4 THEN h2 ELSE h1]

-----------------------------------------------------------------------------
(* Requests and replies, with the sizes of the code.  The keys "a", "ab" and *)
(* "b" have every prefix relation.  Of the values one is empty, one has a    *)
(* zero byte in it, and two tuples with the long one take more than 127      *)
(* bytes.                                                                    *)

WireKeys == {<<97>>, <<97, 98>>, <<98>>}
WireVals == {<<>>, <<49, 0, 50>>, [i \in 1..60 |-> 120]}
Ttls == {-1, 300}
Opcodes == 0..15
InfoNumbers ==
  <<<<"I", 1>>, <<"I", 2>>, <<"Q", 1500000000>>, <<"Q", 0>>, <<"I", 3>>, <<"Q", 400>>,
    <<"Q", 70000>>, <<"Q", 5>>, <<"B", 0>>, <<"B", 1>>, <<"B", 2>>, <<"Q", 1024>>,
    <<"Q", 86400>>, <<"Q", 2097152>>, <<"i", 128>>>>
InfoStrings == <<<<48, 46, 54>>, <<47, 116>>, <<49>>, <<57, 48>>>>

Wire == INSTANCE Wire
          WITH LenBase <- 128, MAX_LEN_BYTES <- 4, Keys <- WireKeys, Vals <- WireVals,
               fault <- rfault

-----------------------------------------------------------------------------
(* The list, with as many nodes as a merge of two and two needs, and the      *)
(* vector, which doubles twice and shrinks twice.                            *)

Cells == {b1, b2, b3, b4}
MCValues == {1, 2}
List == INSTANCE List WITH ref <- lref, spoilt <- broken

ASSUME Table!HashAssumption /\ Ring!RingAssumption /\ Wire!TtlAssumption

-----------------------------------------------------------------------------
Init ==
  /\ part \in Parts
  /\ Table!Init /\ Clients!CInit /\ Ring!Init /\ Walk!WInit
  /\ Mem!Init /\ Conf!Init /\ BusInit /\ Wire!Init
  /\ List!Init /\ VectorInit

StepTable ==
  /\ part = "table" /\ Table!Next
  /\ UNCHANGED <<part, clientVars, ringVars, walkVars, memVars, confVars,
                 busVars, wireVars, listVars, vectorVars>>
StepClients ==
  /\ part = "clients" /\ Clients!CNext
  /\ UNCHANGED <<part, tableVars, ringVars, walkVars, memVars, confVars,
                 busVars, wireVars, listVars, vectorVars>>
StepRing ==
  /\ part = "ring" /\ Ring!Next
  /\ UNCHANGED <<part, tableVars, clientVars, walkVars, memVars, confVars,
                 busVars, wireVars, listVars, vectorVars>>
StepWalk ==
  /\ part = "walk" /\ Walk!Next
  /\ UNCHANGED <<part, tableVars, clientVars, ringVars, memVars, confVars,
                 busVars, wireVars, listVars, vectorVars>>
StepMem ==
  /\ part = "memory" /\ Mem!Next
  /\ UNCHANGED <<part, tableVars, clientVars, ringVars, walkVars, confVars,
                 busVars, wireVars, listVars, vectorVars>>
StepConf ==
  /\ part = "config" /\ Conf!Next
  /\ UNCHANGED <<part, tableVars, clientVars, ringVars, walkVars, memVars,
                 busVars, wireVars, listVars, vectorVars>>
StepBus ==
  /\ part = "bus" /\ BusNext
  /\ UNCHANGED <<part, tableVars, clientVars, ringVars, walkVars, memVars,
                 confVars, wireVars, listVars, vectorVars>>
StepWire ==
  /\ part = "wire" /\ Wire!Next
  /\ UNCHANGED <<part, tableVars, clientVars, ringVars, walkVars, memVars,
                 confVars, busVars, listVars, vectorVars>>
StepList ==
  /\ part = "list" /\ List!Next
  /\ UNCHANGED <<part, tableVars, clientVars, ringVars, walkVars, memVars,
                 confVars, busVars, wireVars, vectorVars>>
StepVector ==
  /\ part = "vector" /\ VectorNext
  /\ UNCHANGED <<part, tableVars, clientVars, ringVars, walkVars, memVars,
                 confVars, busVars, wireVars, listVars>>

Next ==
  \/ StepTable \/ StepClients \/ StepRing \/ StepWalk \/ StepMem
  \/ StepConf \/ StepBus \/ StepWire \/ StepList \/ StepVector

Spec ==
  Init /\ [][Next]_<<part, tableVars, clientVars, ringVars, walkVars, memVars,
                     confVars, busVars, wireVars, listVars, vectorVars>>

-----------------------------------------------------------------------------
(* The properties of the instances, under names for the configurations.     *)

ImplementsDict == Table!ImplementsDict
ClientsListed == Clients!ClientsListed
LookupIsSuccessor == Ring!LookupIsSuccessor
MovesOnlyToNewcomer == Ring!MovesOnlyToNewcomer
AnswersAsMap == Walk!AnswersAsMap
WalkSafe == Walk!WalkSafe
CountCovers == Mem!CountCovers
FileObeyed == Conf!FileObeyed
ReadsWhatWasStored == Wire!ReadsWhatWasStored
ReplyFits == Wire!ReplyFits
GetReplyWhole == Wire!GetReplyWhole
ListHolds == List!ListHolds
=============================================================================
