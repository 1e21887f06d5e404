------------------------------ MODULE Shutdown ------------------------------
(***************************************************************************)
(* How the server stops: the signal handler of triedb.c writes the eventfd *)
(* conf->run once for every thread, each thread leaves its loop when its   *)
(* epoll reports that eventfd, and start_server joins the threads before   *)
(* it releases the databases.                                              *)
(*                                                                         *)
(* The eventfd is registered in three epolls, edge triggered: a write puts *)
(* it in the ready list of each, one thread takes it from a list, and it   *)
(* is reported to that thread only if its counter is not zero by then.     *)
(***************************************************************************)
EXTENDS Naturals, FiniteSets

CONSTANTS Main,         \* the thread of accept_loop
          IO, Workers,  \* the threads of the two pools
          NONE,
          MaxRequests   \* bound: requests that arrive

ASSUME ThreadsAssumption ==
  /\ Main \notin IO \cup Workers /\ IO \cap Workers = {}
  /\ IsFiniteSet(IO) /\ IsFiniteSet(Workers)
  /\ NONE \notin {Main} \cup IO \cup Workers
ASSUME BoundAssumption == MaxRequests \in Nat

VARIABLES pc,       \* thread -> "wait", "busy", "quit", "done"; the main
                    \* thread goes on to "join", "free" and "done"
          run,      \* the counter of the eventfd
          ready,    \* the epolls that have the eventfd in their ready list
          handler,  \* the thread that runs the signal handler, or NONE
          left,     \* writes it has still to do
          served,   \* requests taken so far
          dbs,      \* "live", or "freed" once start_server has released them
          prompt    \* the pause between two writes outlasts the reaction of a
                    \* thread: what usleep is there for and nothing ensures

vars == <<pc, run, ready, handler, left, served, dbs, prompt>>

Threads == {Main} \cup IO \cup Workers
Epolls == {"accept", "io", "work"}
EpollOf(t) == IF t = Main THEN "accept" ELSE IF t \in IO THEN "io" ELSE "work"

Running(t) == t # handler

Init ==
  /\ pc = [t \in Threads |-> "wait"]
  /\ run = 0
  /\ ready = {}
  /\ handler = NONE
  /\ left = 0
  /\ served = 0
  /\ dbs = "live"
  /\ prompt \in BOOLEAN

-----------------------------------------------------------------------------
(* sigint_handler *)

\* Mutant: forgets the main thread.
Writes_short == Cardinality(IO) + Cardinality(Workers)

Writes == Cardinality(IO) + Cardinality(Workers) + 1

\* The signal is delivered to any thread, which runs the handler before it
\* goes on.
Signal(t) ==
  /\ handler = NONE /\ left = 0 /\ run = 0 /\ ready = {}
  /\ \A u \in Threads : pc[u] \in {"wait", "busy"}
  /\ handler' = t
  /\ left' = Writes
  /\ UNCHANGED <<pc, run, ready, served, dbs, prompt>>

\* The other threads have reacted to the last write: the one that took it has
\* read the counter, if one was left to take it.
Settled ==
  \A t \in Threads \ {handler} :
    pc[t] # "quit" /\ (run = 0 \/ pc[t] \notin {"wait", "busy"})

\* One turn of the handler's loop.  The thread is back in its own code after
\* the last one.
Write ==
  /\ left > 0
  /\ prompt => Settled
  /\ run' = run + 1
  /\ ready' = Epolls
  /\ left' = left - 1
  /\ handler' = IF left = 1 THEN NONE ELSE handler
  /\ UNCHANGED <<pc, served, dbs, prompt>>

-----------------------------------------------------------------------------
(* The loops of accept_loop, io_worker and worker *)

Serve(t) ==
  /\ Running(t) /\ pc[t] = "wait" /\ served < MaxRequests
  /\ pc' = [pc EXCEPT ![t] = "busy"]
  /\ served' = served + 1
  /\ UNCHANGED <<run, ready, handler, left, dbs, prompt>>

Finish(t) ==
  /\ Running(t) /\ pc[t] = "busy"
  /\ pc' = [pc EXCEPT ![t] = "wait"]
  /\ UNCHANGED <<run, ready, handler, left, served, dbs, prompt>>

\* epoll_wait takes the eventfd from the ready list.
Wake(t) ==
  /\ Running(t) /\ pc[t] = "wait" /\ EpollOf(t) \in ready
  /\ ready' = ready \ {EpollOf(t)}
  /\ pc' = [pc EXCEPT ![t] = IF run > 0 THEN "quit" ELSE "wait"]
  /\ UNCHANGED <<run, handler, left, served, dbs, prompt>>

\* eventfd_read takes the whole counter and does not block when it is zero.
Quit(t) ==
  /\ Running(t) /\ pc[t] = "quit"
  /\ run' = 0
  /\ pc' = [pc EXCEPT ![t] = IF t = Main THEN "join" ELSE "done"]
  /\ UNCHANGED <<ready, handler, left, served, dbs, prompt>>

-----------------------------------------------------------------------------
(* The end of start_server *)

\* Mutant: joins the IO threads only.
Join_io ==
  /\ Running(Main) /\ pc[Main] = "join"
  /\ \A t \in IO : pc[t] = "done"
  /\ pc' = [pc EXCEPT ![Main] = "free"]
  /\ UNCHANGED <<run, ready, handler, left, served, dbs, prompt>>

Join ==
  /\ Running(Main) /\ pc[Main] = "join"
  /\ \A t \in IO \cup Workers : pc[t] = "done"
  /\ pc' = [pc EXCEPT ![Main] = "free"]
  /\ UNCHANGED <<run, ready, handler, left, served, dbs, prompt>>

Destroy ==
  /\ Running(Main) /\ pc[Main] = "free"
  /\ dbs' = "freed"
  /\ pc' = [pc EXCEPT ![Main] = "done"]
  /\ UNCHANGED <<run, ready, handler, left, served, prompt>>

Step(t) == Serve(t) \/ Finish(t) \/ Wake(t) \/ Quit(t)

Next ==
  \/ \E t \in Threads : Signal(t) \/ Step(t)
  \/ Write \/ Join \/ Destroy

\* Every thread that can run is scheduled; nothing makes the signal come.
Fairness ==
  /\ WF_vars(Write) /\ WF_vars(Join) /\ WF_vars(Destroy)
  /\ \A t \in Threads : WF_vars(Step(t))

Spec == Init /\ [][Next]_vars /\ Fairness

-----------------------------------------------------------------------------
(* Properties *)

\* The databases are released only when no thread can still serve a request
\* from them ("Join started thread pools", start_server), in whatever order
\* the threads see the eventfd.
DestroyAfterJoin == dbs = "freed" => \A t \in Threads : pc[t] = "done"

\* Once a signal is delivered the server stops ("Stops epoll_wait loops by
\* sending an event", triedb.c), whichever thread runs the handler and however
\* the threads share the eventfd, provided the pauses are long enough: no
\* thread is left waiting for an event that another thread consumed.
Terminates == (handler # NONE /\ prompt) ~> (dbs = "freed")
=============================================================================
