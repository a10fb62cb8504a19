------------------------------ MODULE Forward ------------------------------
(***************************************************************************)
(* TCP forwards (src/src/forward.c): the table g_forwards, an accept       *)
(* thread for each forward and a relay thread for each connection, with    *)
(* the requests that add and remove forwards.                              *)
(*                                                                         *)
(* The table is changed under g_forward_mutex, but an accept thread reads  *)
(* its tcpforward_t without it, and keeps the pointer after                *)
(* forward_remove has freed the block.  So the heap is part of the model:  *)
(* a freed block keeps its content, may be overwritten by anybody          *)
(* (Scribbles), and may become another forward (Reuse).                    *)
(*                                                                         *)
(* A listening socket has the number of the forward it was opened for; the *)
(* number of its descriptor is not reused.  It lives on after close while  *)
(* a thread is inside poll or accept on it.                                *)
(***************************************************************************)
EXTENDS Integers, FiniteSets

CONSTANTS
  Slots,         \* heap blocks of the size of a tcpforward_t
  Requests,      \* [path, host, port] of the forwards asked for
  Conns,         \* client connections
  MaxForwards,   \* MAX_FORWARDS
  MaxId,         \* bound: forwards added
  Reuse,         \* TRUE if malloc hands out a freed block again
  Scribbles      \* TRUE if other users of malloc write a freed block

Ids == 1..MaxId
NoConn == "none"
NoRequest == CHOOSE r \in Requests : TRUE

ASSUME SlotAssumption == IsFiniteSet(Slots)
ASSUME RequestAssumption == Requests # {}
ASSUME ConnAssumption == NoConn \notin Conns
ASSUME BoundAssumption == MaxForwards \in Nat /\ MaxId \in Nat
ASSUME FlagAssumption == Reuse \in BOOLEAN /\ Scribbles \in BOOLEAN

VARIABLES
  heap,          \* the content of each block; id 0 if it was never used
  used,          \* blocks that are allocated
  forwards,      \* blocks in g_forwards
  next_id,       \* g_next_id
  mutex,         \* "free", or the point forward_remove has reached
  removing,      \* the block it works on
  removed,       \* ids whose removal was acknowledged
  fdopen,        \* listening sockets whose descriptor is open
  addr,          \* where they are bound
  acceptor,      \* the accept thread of each forward: pc, fw, and
                 \*   fd, the socket its poll or accept works on
  conn           \* the connections: st, the socket it came to, job->fw, and
                 \*   the id of the forward when it was counted

tableVars == <<used, forwards, next_id>>
lockVars == <<mutex, removing, removed>>
sockVars == <<fdopen, addr>>
vars == <<heap, tableVars, lockVars, sockVars, acceptor, conn>>

Listed == {heap[s].id : s \in forwards}

(* Whether the socket still takes connections.                             *)
Alive(i) == \/ i \in fdopen
            \/ \E j \in Ids : acceptor[j].fd = i /\ acceptor[j].pc \in {"polling", "accepting"}

Thread(pc, fw, fd, c) == [pc |-> pc, fw |-> fw, fd |-> fd, conn |-> c]

Queue(i) == {c \in Conns : conn[c].st = "queued" /\ conn[c].sock = i}

----------------------------------------------------------------------------
Init ==
  /\ heap = [s \in Slots |-> [id |-> 0, req |-> NoRequest, running |-> FALSE,
                              listen |-> -1, active |-> 0]]
  /\ used = {} /\ forwards = {} /\ next_id = 1
  /\ mutex = "free" /\ removing = {} /\ removed = {}
  /\ fdopen = {} /\ addr = [i \in Ids |-> NoRequest]
  /\ acceptor = [i \in Ids |-> Thread("none", {}, -1, NoConn)]
  /\ conn = [c \in Conns |-> [st |-> "new", sock |-> -1, fw |-> {}, id |-> 0]]

----------------------------------------------------------------------------
(* forward_add, lines 181-252.  A call that fails changes nothing.         *)

SameAddr(q, r) == q.host = r.host /\ q.port = r.port
SamePath(q, r) == q.path = r.path /\ q.port = r.port
(* Mutant: only the address is compared.                                   *)
ConflictAddr(q, r) == SameAddr(q, r)
Conflict(q, r) == SameAddr(q, r) \/ SamePath(q, r)

Full == Cardinality(forwards) >= MaxForwards

Add(r) ==
  /\ mutex = "free" /\ next_id \in Ids
  /\ \A s \in forwards : ~Conflict(heap[s].req, r)
  /\ ~Full
  /\ \A i \in Ids : Alive(i) => ~SameAddr(addr[i], r)
  /\ \E s \in Slots \ used :
       /\ ~Reuse => heap[s].id = 0
       /\ heap' = [heap EXCEPT ![s] = [id |-> next_id, req |-> r, running |-> TRUE,
                                       listen |-> next_id, active |-> 0]]
       /\ used' = used \cup {s}
       /\ forwards' = forwards \cup {s}
       /\ acceptor' = [acceptor EXCEPT ![next_id] = Thread("while", {s}, -1, NoConn)]
  /\ next_id' = next_id + 1
  /\ fdopen' = fdopen \cup {next_id}
  /\ addr' = [addr EXCEPT ![next_id] = r]
  /\ UNCHANGED <<lockVars, conn>>

(* Mutant: a closed listen_fd becomes 0.                                   *)
ClosedZero == 0
Closed == -1

(* forward_remove, lines 254-279.  The accept thread sees each of its      *)
(* steps.                                                                  *)
RemoveMark(s) ==
  /\ mutex = "free" /\ s \in forwards
  /\ heap' = [heap EXCEPT ![s].running = FALSE]
  /\ mutex' = "marked" /\ removing' = {s}
  /\ UNCHANGED <<tableVars, removed, sockVars, acceptor, conn>>

RemoveClose ==
  /\ mutex = "marked"
  /\ \E s \in removing :
       /\ fdopen' = fdopen \ {heap[s].listen}
       /\ heap' = [heap EXCEPT ![s].listen = Closed]
  /\ mutex' = "closed"
  /\ UNCHANGED <<tableVars, removing, removed, addr, acceptor, conn>>

(* Mutant: the block stays in the list.                                    *)
RemoveFreeListed ==
  /\ mutex = "closed"
  /\ used' = used \ removing
  /\ removed' = removed \cup {heap[s].id : s \in removing}
  /\ mutex' = "free" /\ removing' = {}
  /\ UNCHANGED <<heap, forwards, next_id, sockVars, acceptor, conn>>

RemoveFree ==
  /\ mutex = "closed"
  /\ forwards' = forwards \ removing
  /\ used' = used \ removing
  /\ removed' = removed \cup {heap[s].id : s \in removing}
  /\ mutex' = "free" /\ removing' = {}
  /\ UNCHANGED <<heap, next_id, sockVars, acceptor, conn>>

(* Another user of the heap.  It matters while a thread has the pointer.   *)
Scribble(s) ==
  /\ Scribbles /\ s \notin used
  /\ \E i \in Ids : acceptor[i].fw = {s}
  /\ \E running \in BOOLEAN, listen \in Ids \cup {-1} :
       heap' = [heap EXCEPT ![s] = [@ EXCEPT !.running = running, !.listen = listen]]
  /\ UNCHANGED <<tableVars, lockVars, sockVars, acceptor, conn>>

----------------------------------------------------------------------------
(* The clients, and the kernel's end of their connections.                 *)

Connect(c, i) ==
  /\ conn[c].st = "new" /\ Alive(i)
  /\ conn' = [conn EXCEPT ![c] = [@ EXCEPT !.st = "queued", !.sock = i]]
  /\ UNCHANGED <<heap, tableVars, lockVars, sockVars, acceptor>>

Reset(c) ==
  /\ conn[c].st = "queued" /\ ~Alive(conn[c].sock)
  /\ conn' = [conn EXCEPT ![c].st = "ended"]
  /\ UNCHANGED <<heap, tableVars, lockVars, sockVars, acceptor>>

----------------------------------------------------------------------------
(* accept_thread, lines 129-179.  Every read of *fw may find anything.     *)

Fw(i) == acceptor[i].fw
Block(i) == heap[CHOOSE s \in Slots : Fw(i) = {s}]

Goto(i, label) ==
  acceptor' = [acceptor EXCEPT ![i] = Thread(label, Fw(i), -1, acceptor[i].conn)]
Enter(i, label, l) ==
  acceptor' = [acceptor EXCEPT ![i] = Thread(label, Fw(i), l, acceptor[i].conn)]
Take(i, c) == acceptor' = [acceptor EXCEPT ![i] = Thread("connect", Fw(i), -1, c)]
Resume(i) == acceptor' = [acceptor EXCEPT ![i] = Thread("while", Fw(i), -1, NoConn)]
Finish(i) == acceptor' = [acceptor EXCEPT ![i] = Thread("done", {}, -1, NoConn)]

While(i) ==
  /\ acceptor[i].pc = "while"
  /\ Goto(i, IF Block(i).running THEN "poll" ELSE "exit")
  /\ UNCHANGED <<heap, tableVars, lockVars, sockVars, conn>>

(* A closed descriptor is reported at once (POLLNVAL), -1 is ignored.      *)
PollStart(i) ==
  /\ acceptor[i].pc = "poll"
  /\ LET l == Block(i).listen IN
       IF l # -1 /\ l \notin fdopen THEN Goto(i, "accept")
       ELSE Enter(i, "polling", l)
  /\ UNCHANGED <<heap, tableVars, lockVars, sockVars, conn>>

(* Mutants: the thread ends when poll times out; poll has no timeout.      *)
PollReturnBreaks(i) ==
  /\ acceptor[i].pc = "polling"
  /\ Goto(i, IF Queue(acceptor[i].fd) # {} THEN "accept" ELSE "exit")
  /\ UNCHANGED <<heap, tableVars, lockVars, sockVars, conn>>

PollReturnWaits(i) ==
  /\ acceptor[i].pc = "polling" /\ Queue(acceptor[i].fd) # {}
  /\ Goto(i, "accept")
  /\ UNCHANGED <<heap, tableVars, lockVars, sockVars, conn>>

PollReturn(i) ==
  /\ acceptor[i].pc = "polling"
  /\ Goto(i, IF Queue(acceptor[i].fd) # {} THEN "accept" ELSE "while")
  /\ UNCHANGED <<heap, tableVars, lockVars, sockVars, conn>>

AcceptStart(i) ==
  /\ acceptor[i].pc = "accept"
  /\ LET l == Block(i).listen IN
       IF l \in fdopen
       THEN Enter(i, "accepting", l)
       ELSE Goto(i, IF Block(i).running THEN "while" ELSE "exit")
  /\ UNCHANGED <<heap, tableVars, lockVars, sockVars, conn>>

(* accept4 blocks: another thread may have taken the connection.           *)
Accept(i) ==
  /\ acceptor[i].pc = "accepting"
  /\ \E c \in Queue(acceptor[i].fd) :
       /\ conn' = [conn EXCEPT ![c].st = "accepted"]
       /\ Take(i, c)
  /\ UNCHANGED <<heap, tableVars, lockVars, sockVars>>

(* Mutant: when connect_unix fails the client stays open.                  *)
ConnectFailsLeaks(i) ==
  /\ acceptor[i].pc = "connect"
  /\ Resume(i)
  /\ UNCHANGED <<heap, tableVars, lockVars, sockVars, conn>>

(* connect_unix fails: the client is closed.                               *)
ConnectFails(i) ==
  /\ acceptor[i].pc = "connect"
  /\ conn' = [conn EXCEPT ![acceptor[i].conn].st = "ended"]
  /\ Resume(i)
  /\ UNCHANGED <<heap, tableVars, lockVars, sockVars>>

(* Lines 165-171, the count and the new relay thread.                      *)
StartRelay(i) ==
  /\ acceptor[i].pc = "connect" /\ mutex = "free"
  /\ \E s \in Fw(i) :
       /\ heap' = [heap EXCEPT ![s].active = @ + 1]
       /\ conn' = [conn EXCEPT ![acceptor[i].conn] =
                      [@ EXCEPT !.st = "relay", !.fw = {s}, !.id = heap[s].id]]
  /\ Resume(i)
  /\ UNCHANGED <<tableVars, lockVars, sockVars>>

(* Lines 174-177: a test and then a second read.                           *)
ExitTest(i) ==
  /\ acceptor[i].pc = "exit"
  /\ IF Block(i).listen # -1 THEN Goto(i, "close") ELSE Finish(i)
  /\ UNCHANGED <<heap, tableVars, lockVars, sockVars, conn>>

ExitClose(i) ==
  /\ acceptor[i].pc = "close"
  /\ \E s \in Fw(i) :
       /\ fdopen' = fdopen \ {heap[s].listen}
       /\ heap' = [heap EXCEPT ![s].listen = Closed]
  /\ Finish(i)
  /\ UNCHANGED <<tableVars, lockVars, addr, conn>>

----------------------------------------------------------------------------
(* relay_thread, lines 65-127: it ends when either side closes or fails.   *)

RelayEnds(c) ==
  /\ conn[c].st = "relay"
  /\ conn' = [conn EXCEPT ![c].st = "uncount"]
  /\ UNCHANGED <<heap, tableVars, lockVars, sockVars, acceptor>>

(* Mutant: a relay that ends is not taken off the count.                   *)
OneLessNever(n) == n
OneLess(n) == IF n > 0 THEN n - 1 ELSE n

Uncount(c) ==
  /\ conn[c].st = "uncount" /\ mutex = "free"
  /\ \E s \in conn[c].fw : heap' = [heap EXCEPT ![s].active = OneLess(@)]
  /\ conn' = [conn EXCEPT ![c].st = "ended"]
  /\ UNCHANGED <<tableVars, lockVars, sockVars, acceptor>>

----------------------------------------------------------------------------
AcceptThread(i) ==
  \/ While(i) \/ PollStart(i) \/ PollReturn(i) \/ AcceptStart(i) \/ Accept(i)
  \/ ConnectFails(i) \/ StartRelay(i) \/ ExitTest(i) \/ ExitClose(i)

Next ==
  \/ \E r \in Requests : Add(r)
  \/ \E s \in Slots : RemoveMark(s) \/ Scribble(s)
  \/ RemoveClose \/ RemoveFree
  \/ \E c \in Conns, i \in Ids : Connect(c, i)
  \/ \E c \in Conns : Reset(c) \/ RelayEnds(c) \/ Uncount(c)
  \/ \E i \in Ids : AcceptThread(i)

Spec == Init /\ [][Next]_vars

(* The threads of the server are scheduled and mutex holders go on; no     *)
(* client has to do anything.                                              *)
Fairness ==
  /\ WF_vars(RemoveClose) /\ WF_vars(RemoveFree)
  /\ \A i \in Ids : WF_vars(AcceptThread(i))
  /\ \A c \in Conns : WF_vars(Uncount(c)) /\ WF_vars(Reset(c))

FairSpec == Spec /\ Fairness

----------------------------------------------------------------------------
(* Every variable has its type.                                            *)
TypeOK ==
  /\ heap \in [Slots -> [id : Nat, req : Requests, running : BOOLEAN,
                         listen : Ids \cup {-1}, active : Nat]]
  /\ used \subseteq Slots /\ forwards \subseteq Slots /\ next_id \in 1..MaxId + 1
  /\ mutex \in {"free", "marked", "closed"} /\ removing \subseteq Slots
  /\ removed \subseteq Ids /\ fdopen \subseteq Ids
  /\ addr \in [Ids -> Requests]
  /\ acceptor \in [Ids -> [pc : {"none", "while", "poll", "polling", "accept", "accepting",
                                 "connect", "exit", "close", "done"},
                           fw : SUBSET Slots, fd : Ids \cup {-1}, conn : Conns \cup {NoConn}]]
  /\ conn \in [Conns -> [st : {"new", "queued", "accepted", "relay", "uncount", "ended"},
                         sock : Ids \cup {-1}, fw : SUBSET Slots, id : Nat]]

(* The table: at most MAX_FORWARDS forwards in allocated blocks, no two    *)
(* with the same id, the same address, or the same path and port, whatever *)
(* the threads that kept a freed block write into it.                      *)
TableOK ==
  /\ Cardinality(forwards) <= MaxForwards
  /\ forwards \subseteq used
  /\ \A s, t \in forwards : s # t =>
       /\ heap[s].id # heap[t].id
       /\ heap[s].req.port = heap[t].req.port =>
            heap[s].req.host # heap[t].req.host /\ heap[s].req.path # heap[t].req.path

(* An acknowledged removal is final: the id is never listed again.         *)
RemovedStaysRemoved == Listed \cap removed = {}

(* A forward that is listed and not being removed has its listener open.   *)
ListedListens ==
  \A s \in forwards \ removing : heap[s].listen = heap[s].id /\ heap[s].id \in fdopen

(* forward_list_json's "connections" is the number of connections the      *)
(* forward is relaying.                                                    *)
ConnectionsExact ==
  \A s \in forwards : heap[s].active =
    Cardinality({c \in Conns : conn[c].st \in {"relay", "uncount"} /\ conn[c].id = heap[s].id})

(* After a removal the address comes free: no thread keeps the socket for  *)
(* ever.                                                                   *)
PortReleased == \A i \in Ids : i \in removed ~> ~Alive(i)

(* A connection the kernel took is accepted or reset, and one that was     *)
(* accepted is relayed or closed.                                          *)
Served == \A c \in Conns : conn[c].st \in {"queued", "accepted"} ~> conn[c].st \in {"relay", "ended"}

=============================================================================
