------------------------------ MODULE Lifecycle ------------------------------
(***************************************************************************)
(* The life of the server process (src/src/main.c 18-25 and 170-231,       *)
(* src/src/server.c 227-324): instances that start, end the instances      *)
(* before them, bind the port and run the accept loop; signals that ask    *)
(* them to stop; an update that execs the binary again.                    *)
(*                                                                         *)
(* A process makes no step of its own while a signal waits for delivery,   *)
(* and none after SIGKILL was sent to it.  Signals are delivered to the    *)
(* main thread, as Linux prefers; with --daemon an instance is the child.  *)
(***************************************************************************)
EXTENDS Integers, FiniteSets

CONSTANTS
  MaxPid,      \* bound: instances that are launched
  MaxSignals,  \* bound: signals sent by others (start.sh --kill, Ctrl-C)
  MaxExecs     \* bound: updates

Pids == 1..MaxPid
Signals == {"TERM", "INT"}

ASSUME BoundAssumption == MaxPid \in Nat /\ MaxSignals \in Nat /\ MaxExecs \in Nat

VARIABLES
  pc,          \* where main() is
  running,     \* g_server.running
  handler,     \* "none", the signal handle_signal works on, or "stuck"
  pending,     \* signals sent and not delivered
  cursor,      \* the pid kill_previous_instance has come to
  told,        \* handle_signal has finished since main() began
  loaded,      \* an instance has come so far as to look for others; a new
               \*   binary has to do so again
  signals, execs

counters == <<signals, execs>>
vars == <<pc, running, handler, pending, cursor, told, loaded, counters>>

Unborn == {"unborn"}
Gone == {"dead"}
Starting == {"main", "load", "scan", "grace", "bind", "listen", "setrun"}
Loop == {"test", "enter", "accept"}
Exists(p) == pc[p] \notin Unborn \cup Gone

(* The socket is passive from listen to close.                             *)
Listening(p) == pc[p] \in Loop \cup {"setrun", "close"}
Others(p) == Pids \ {p}

(* What an instance may do by itself.                                      *)
Free(p) == handler[p] = "none" /\ pending[p] = {}
At(p, l) == Free(p) /\ pc[p] = l
Goto(p, l) == pc' = [pc EXCEPT ![p] = l]

(* What is left of a process that ended is of no interest.                 *)
Forget(p) ==
  /\ running' = [running EXCEPT ![p] = FALSE]
  /\ handler' = [handler EXCEPT ![p] = "none"]
  /\ pending' = [pending EXCEPT ![p] = {}]
  /\ cursor' = [cursor EXCEPT ![p] = 0]
  /\ told' = [told EXCEPT ![p] = FALSE]
Exit(p) == Goto(p, "dead") /\ Forget(p)

(* Not on its way out, if no more signals come.                            *)
Stays(p) ==
  /\ Exists(p) /\ pc[p] \notin {"main", "load", "close", "shutdown"}
  /\ pc[p] \in Loop => running[p] /\ Free(p)

----------------------------------------------------------------------------
Init ==
  /\ pc = [p \in Pids |-> "unborn"]
  /\ running = [p \in Pids |-> FALSE]
  /\ handler = [p \in Pids |-> "none"]
  /\ pending = [p \in Pids |-> {}]
  /\ cursor = [p \in Pids |-> 0]
  /\ told = [p \in Pids |-> FALSE]
  /\ loaded = FALSE
  /\ signals = 0 /\ execs = 0

----------------------------------------------------------------------------
(* main(), lines 48-231.                                                   *)

Launch(p) ==
  /\ pc[p] = "unborn" /\ Goto(p, "main")
  /\ UNCHANGED <<running, handler, pending, cursor, told, loaded, counters>>

(* Lines 170-177: until now a signal ends the process.                     *)
Sigaction(p) ==
  /\ At(p, "main") /\ Goto(p, "load")
  /\ UNCHANGED <<running, handler, pending, cursor, told, loaded, counters>>

(* Lines 192-224.  Without certificates main returns 1.                    *)
Load(p) ==
  /\ At(p, "load")
  /\ \/ /\ Goto(p, "scan")
        /\ loaded' = TRUE
        /\ running' = [running EXCEPT ![p] = FALSE]
        /\ UNCHANGED <<handler, pending, cursor, told>>
     \/ Exit(p) /\ UNCHANGED loaded
  /\ UNCHANGED counters

----------------------------------------------------------------------------
(* kill_previous_instance.  The entries of /proc come in the order of      *)
(* their pids.                                                             *)

(* Mutants: an instance finds itself; only those that listen are found.    *)
SeenSelf(p, q) == q \in Pids /\ Exists(q)
SeenListening(p, q) == q \in Others(p) /\ Listening(q)
Seen(p, q) == q \in Others(p) /\ Exists(q)

(* Mutant: every other entry is skipped.                                   *)
NextSkips(p) == cursor[p] + 2
NextEntry(p) == cursor[p] + 1

Scan(p) ==
  /\ At(p, "scan") /\ cursor[p] < MaxPid
  /\ \E q \in {NextEntry(p)} :
       /\ cursor' = [cursor EXCEPT ![p] = q]
       /\ IF Seen(p, q)
          THEN pending' = [pending EXCEPT ![q] = @ \cup {"TERM"}] /\ Goto(p, "grace")
          ELSE UNCHANGED <<pc, pending>>
  /\ UNCHANGED <<running, handler, told, loaded, counters>>

ScanEnds(p) ==
  /\ At(p, "scan") /\ cursor[p] = MaxPid
  /\ Goto(p, "bind")
  /\ UNCHANGED <<running, handler, pending, cursor, told, loaded, counters>>

(* Lines 249-262: it is gone, or 500 ms are over.                          *)
GraceEnds(p) ==
  /\ At(p, "grace")
  /\ pc' = [pc EXCEPT ![p] = "scan", ![cursor[p]] = "dead"]
  /\ Forget(cursor[p])
  /\ UNCHANGED <<loaded, counters>>

----------------------------------------------------------------------------
(* server_start, lines 267-320.                                            *)

(* With SO_REUSEADDR two sockets may be bound and only one may listen.     *)
Taken(p) == \E q \in Others(p) : Listening(q)

Bind(p) ==
  /\ At(p, "bind")
  /\ Goto(p, IF Taken(p) THEN "shutdown" ELSE "listen")
  /\ UNCHANGED <<running, handler, pending, cursor, told, loaded, counters>>

Listen(p) ==
  /\ At(p, "listen")
  /\ Goto(p, IF Taken(p) THEN "shutdown" ELSE "setrun")
  /\ UNCHANGED <<running, handler, pending, cursor, told, loaded, counters>>

SetRunning(p) ==
  /\ At(p, "setrun") /\ Goto(p, "test")
  /\ running' = [running EXCEPT ![p] = TRUE]
  /\ UNCHANGED <<handler, pending, cursor, told, loaded, counters>>

(* Mutant: the loop does not look at running.                              *)
TestForever(p) ==
  /\ At(p, "test") /\ Goto(p, "enter")
  /\ UNCHANGED <<running, handler, pending, cursor, told, loaded, counters>>

Test(p) ==
  /\ At(p, "test") /\ Goto(p, IF running[p] THEN "enter" ELSE "close")
  /\ UNCHANGED <<running, handler, pending, cursor, told, loaded, counters>>

(* A signal that is handled before accept4 sleeps does not interrupt it.   *)
Enter(p) ==
  /\ At(p, "enter") /\ Goto(p, "accept")
  /\ UNCHANGED <<running, handler, pending, cursor, told, loaded, counters>>

(* accept4 returns a client, whose thread is detached.                     *)
Client(p) ==
  /\ At(p, "accept") /\ Goto(p, "test")
  /\ UNCHANGED <<running, handler, pending, cursor, told, loaded, counters>>

Close(p) ==
  /\ At(p, "close") /\ Goto(p, "shutdown")
  /\ UNCHANGED <<running, handler, pending, cursor, told, loaded, counters>>

(* forward_shutdown_all; then main returns and every thread ends.          *)
Shutdown(p) ==
  /\ At(p, "shutdown") /\ Exit(p)
  /\ UNCHANGED <<loaded, counters>>

(* handle_update, handler.c 388-395, in another thread: the listening      *)
(* socket is closed with the process and main() begins again.  If execv    *)
(* fails the process exits.                                                *)
Reexec(p) ==
  /\ Free(p) /\ pc[p] \in Loop /\ execs < MaxExecs
  /\ execs' = execs + 1
  /\ Goto(p, "main")
  /\ running' = [running EXCEPT ![p] = FALSE]
  /\ cursor' = [cursor EXCEPT ![p] = 0]
  /\ told' = [told EXCEPT ![p] = FALSE]
  /\ loaded' = \E q \in Others(p) : Stays(q)
  /\ UNCHANGED <<handler, pending, signals>>

----------------------------------------------------------------------------
(* Signals.                                                                *)

Send(p, s) ==
  /\ Exists(p) /\ signals < MaxSignals
  /\ signals' = signals + 1
  /\ pending' = [pending EXCEPT ![p] = @ \cup {s}]
  /\ UNCHANGED <<pc, running, handler, cursor, told, loaded, execs>>

(* Before sigaction a signal ends the process.  A signal is blocked while  *)
(* its own handler runs; the other one is not, and its handler waits for   *)
(* the mutex the interrupted one holds.                                    *)
Deliver(p, s) ==
  /\ Exists(p) /\ s \in pending[p] /\ handler[p] \notin {s, "stuck"}
  /\ IF pc[p] = "main"
     THEN Exit(p)
     ELSE /\ handler' = [handler EXCEPT ![p] = IF @ = "none" THEN s ELSE "stuck"]
          /\ pending' = [pending EXCEPT ![p] = @ \ {s}]
          /\ UNCHANGED <<pc, running, cursor, told>>
  /\ UNCHANGED <<loaded, counters>>

(* handle_signal has released the mutex.  There is no SA_RESTART: an       *)
(* accept4 that was asleep returns EINTR.                                  *)
Handled(p) ==
  /\ Exists(p) /\ handler[p] \in Signals
  /\ handler' = [handler EXCEPT ![p] = "none"]
  /\ running' = [running EXCEPT ![p] = FALSE]
  /\ told' = [told EXCEPT ![p] = TRUE]
  /\ IF pc[p] = "accept" THEN Goto(p, "test") ELSE UNCHANGED pc
  /\ UNCHANGED <<pending, cursor, loaded, counters>>

----------------------------------------------------------------------------
Main(p) ==
  \/ Sigaction(p) \/ Load(p) \/ Scan(p) \/ ScanEnds(p) \/ GraceEnds(p)
  \/ Bind(p) \/ Listen(p) \/ SetRunning(p) \/ Test(p) \/ Enter(p)
  \/ Close(p) \/ Shutdown(p)

Signal(p) == Handled(p) \/ \E s \in Signals : Deliver(p, s)

Next == \E p \in Pids : Launch(p) \/ Main(p) \/ Client(p) \/ Reexec(p) \/ Signal(p)
                        \/ \E s \in Signals : Send(p, s)

(* Processes run and clients come.                                         *)
Fairness == \A p \in Pids : WF_vars(Main(p)) /\ WF_vars(Signal(p)) /\ WF_vars(Client(p))

Spec == Init /\ [][Next]_vars /\ Fairness

----------------------------------------------------------------------------
TypeOK ==
  /\ pc \in [Pids -> Unborn \cup Gone \cup Starting \cup Loop \cup {"close", "shutdown"}]
  /\ running \in [Pids -> BOOLEAN]
  /\ handler \in [Pids -> Signals \cup {"none", "stuck"}]
  /\ pending \in [Pids -> SUBSET Signals]
  /\ cursor \in [Pids -> 0..MaxPid]
  /\ told \in [Pids -> BOOLEAN] /\ loaded \in BOOLEAN
  /\ signals \in 0..MaxSignals /\ execs \in 0..MaxExecs

(* README.md 497: ending the previous instances "prevents address already  *)
(* in use errors": when bind or listen is called nobody else listens.      *)
AddressFree == \A p \in Pids : pc[p] \in {"bind", "listen"} => ~Taken(p)

(* Instances that end each other leave one: unless somebody else sends     *)
(* signals, there is always one that serves or is going to.                *)
Survivor == loaded /\ signals = 0 => \E p \in Pids : Stays(p)

(* ... and in the end exactly one serves.                                  *)
Serves(p) == pc[p] \in Loop /\ running[p]
OneServes == <>[](loaded /\ signals = 0 => \E p \in Pids : Serves(p) /\ \A q \in Others(p) : ~Exists(q))

(* A signal handled in the accept loop ends the process, when a client     *)
(* comes; unless the other signal interrupts the handler.                  *)
LoopStops == \A p \in Pids :
  (pc[p] \in Loop /\ told[p] /\ ~running[p]) ~> (pc[p] \in {"dead", "main"} \/ handler[p] = "stuck")

(* README.md 504: SIGINT and SIGTERM stop the accept loop and the process  *)
(* exits.                                                                  *)
SignalExits == \A p \in Pids : told[p] ~> ~Exists(p)
=============================================================================
