--------------------------- MODULE ForwardProofs ---------------------------
(***************************************************************************)
(* Proofs about Forward for every value of its constants: the table stays  *)
(* consistent although threads that outlive their forward write into       *)
(* freed and reused blocks; and as long as no freed block is used again, a *)
(* forward that is listed listens, and its count of connections is exact.  *)
(***************************************************************************)
EXTENDS Forward, FiniteSetTheorems, TLAPS

(* An accept thread has one block until it ends.                           *)
Held ==
  \A i \in Ids : acceptor[i].pc \notin {"none", "done"} => \E s \in Slots : Fw(i) = {s}

(* Only forward_remove, while it has the mutex, works on a block, and that *)
(* block is listed.                                                        *)
Lock == removing \subseteq forwards /\ (mutex = "free" => removing = {})

(* Ids are given out in order.                                             *)
Numbers ==
  /\ \A s \in forwards : heap[s].id \in Ids /\ heap[s].id < next_id
  /\ \A n \in removed : n < next_id

IInv == TypeOK /\ Held /\ Lock /\ Numbers /\ TableOK /\ RemovedStaysRemoved

(* What identifies a forward is written by forward_add alone.              *)
SameNames == \A s \in Slots : heap'[s].id = heap[s].id /\ heap'[s].req = heap[s].req

Cell == [id : Nat, req : Requests, running : BOOLEAN, listen : Ids \cup {-1}, active : Nat]

LEMMA Constants ==
  /\ NoRequest \in Requests /\ MaxForwards \in Nat /\ MaxId \in Nat
  /\ Ids \subseteq Nat /\ IsFiniteSet(Slots) /\ -1 \notin Ids
BY RequestAssumption, BoundAssumption, SlotAssumption DEF NoRequest, Ids

LEMMA InitHolds == Init => IInv
<1> SUFFICES ASSUME Init PROVE IInv
  OBVIOUS
<1>1. TypeOK
  BY Constants DEF Init, TypeOK, Ids, Thread
<1>2. Held /\ Lock /\ Numbers /\ RemovedStaysRemoved
  BY DEF Init, Held, Lock, Numbers, RemovedStaysRemoved, Listed, Thread
<1>3. TableOK
  <2>1. Cardinality(forwards) = 0
    BY FS_EmptySet DEF Init
  <2> QED
    BY <2>1, Constants DEF Init, TableOK
<1> QED
  BY <1>1, <1>2, <1>3 DEF IInv

(* What an accept thread reads of its block has the type of a field.       *)
LEMMA BlockType ==
  ASSUME TypeOK, Held, NEW i \in Ids, acceptor[i].pc \notin {"none", "done"}
  PROVE  /\ Block(i) \in Cell
         /\ Block(i).listen \in Ids \cup {-1}
<1>1. PICK s \in Slots : Fw(i) = {s}
  BY DEF Held
<1>2. (CHOOSE t \in Slots : Fw(i) = {t}) \in Slots
  BY <1>1
<1>3. Block(i) \in Cell
  BY <1>2 DEF Block, TypeOK, Cell
<1> QED
  BY <1>3 DEF Cell

(* Writing fields of a block other than its id and request.                *)
LEMMA HeapWrite ==
  ASSUME TypeOK, NEW s \in Slots, NEW running \in BOOLEAN, NEW listen \in Ids \cup {-1},
         NEW active \in Nat,
         heap' = [heap EXCEPT ![s] = [heap[s] EXCEPT !.running = running,
                                                     !.listen = listen,
                                                     !.active = active]]
  PROVE  heap' \in [Slots -> Cell] /\ SameNames
<1>1. heap \in [Slots -> Cell]
  BY DEF TypeOK, Cell
<1>2. [heap[s] EXCEPT !.running = running, !.listen = listen, !.active = active] \in Cell
  BY <1>1 DEF Cell
<1>3. /\ [heap[s] EXCEPT !.running = running, !.listen = listen, !.active = active].id
           = heap[s].id
      /\ [heap[s] EXCEPT !.running = running, !.listen = listen, !.active = active].req
           = heap[s].req
  BY <1>1 DEF Cell
<1> QED
  BY <1>1, <1>2, <1>3 DEF SameNames

(* Moving an accept thread.                                                *)
Labels == {"while", "poll", "polling", "accept", "accepting", "connect", "exit", "close"}

State == [pc : {"none", "while", "poll", "polling", "accept", "accepting",
                "connect", "exit", "close", "done"},
          fw : SUBSET Slots, fd : Ids \cup {-1}, conn : Conns \cup {NoConn}]

Acceptors == [Ids -> State]

LEMMA AcceptorWrite ==
  ASSUME TypeOK, Held, NEW i \in Ids, acceptor[i].pc \notin {"none", "done"},
         NEW l \in Labels, NEW f \in Ids \cup {-1}, NEW c \in Conns \cup {NoConn},
         acceptor' = [acceptor EXCEPT ![i] = Thread(l, Fw(i), f, c)]
  PROVE  acceptor' \in Acceptors /\ Held'
BY DEF TypeOK, Held, Fw, Labels, Acceptors, State, Thread

LEMMA GotoWrite ==
  ASSUME TypeOK, Held, NEW i \in Ids, acceptor[i].pc \notin {"none", "done"},
         NEW l \in Labels, Goto(i, l)
  PROVE  acceptor' \in Acceptors /\ Held'
<1>1. acceptor[i].conn \in Conns \cup {NoConn}
  BY DEF TypeOK
<1> QED
  BY <1>1, AcceptorWrite DEF Goto

LEMMA FinishWrite ==
  ASSUME TypeOK, Held, NEW i \in Ids, Finish(i)
  PROVE  acceptor' \in Acceptors /\ Held'
BY DEF Finish, Thread, TypeOK, Held, Fw, Acceptors, State

(* The steps of the accept threads: they keep the types, leave the names   *)
(* alone, and touch nothing of the table.                                  *)
LEMMA AcceptStep ==
  ASSUME TypeOK, Held, NEW i \in Ids, AcceptThread(i)
  PROVE  /\ TypeOK' /\ Held' /\ SameNames
         /\ UNCHANGED <<tableVars, lockVars>>
<1> USE DEF tableVars, lockVars, sockVars
<1>1. /\ acceptor[i].pc \notin {"none", "done"}
      /\ UNCHANGED <<tableVars, lockVars>>
  BY DEF AcceptThread, While, PollStart, PollReturn, AcceptStart, Accept, ConnectFails,
         StartRelay, ExitTest, ExitClose
<1>2. Block(i).listen \in Ids \cup {-1}
  BY <1>1, BlockType
<1>3. PICK s \in Slots : Fw(i) = {s}
  BY <1>1 DEF Held
<1>4. acceptor[i] \in State /\ acceptor[i].fd \in Ids \cup {-1}
      /\ acceptor[i].conn \in Conns \cup {NoConn}
  BY DEF TypeOK, State
<1>5. acceptor' \in Acceptors /\ Held'
  <2>1. CASE While(i)
    BY <1>1, <2>1, GotoWrite DEF While, Labels
  <2>2. CASE PollStart(i)
    <3>1. CASE Goto(i, "accept")
      BY <1>1, <3>1, GotoWrite DEF Labels
    <3>2. CASE Enter(i, "polling", Block(i).listen)
      BY <1>1, <1>2, <1>4, <3>2, AcceptorWrite DEF Enter, Labels
    <3> QED
      BY <2>2, <3>1, <3>2 DEF PollStart
  <2>3. CASE PollReturn(i)
    BY <1>1, <2>3, GotoWrite DEF PollReturn, Labels
  <2>4. CASE AcceptStart(i)
    <3>1. CASE Block(i).listen \in fdopen
      BY <1>1, <1>2, <1>4, <2>4, <3>1, AcceptorWrite DEF AcceptStart, Enter, Labels
    <3>2. CASE Block(i).listen \notin fdopen
      BY <1>1, <2>4, <3>2, GotoWrite DEF AcceptStart, Labels
    <3> QED
      BY <3>1, <3>2
  <2>5. CASE Accept(i)
    <3>1. PICK c \in Conns : Take(i, c)
      BY <2>5 DEF Accept, Queue
    <3> QED
      BY <1>1, <3>1, AcceptorWrite DEF Take, Labels
  <2>6. CASE ConnectFails(i) \/ StartRelay(i)
    <3>1. Resume(i)
      BY <2>6 DEF ConnectFails, StartRelay
    <3>2. "while" \in Labels /\ -1 \in Ids \cup {-1} /\ NoConn \in Conns \cup {NoConn}
      BY DEF Labels
    <3> QED
      BY <1>1, <3>1, <3>2, AcceptorWrite DEF Resume
  <2>7. CASE ExitTest(i)
    BY <1>1, <2>7, GotoWrite, FinishWrite DEF ExitTest, Labels
  <2>8. CASE ExitClose(i)
    BY <2>8, FinishWrite DEF ExitClose
  <2> QED
    BY <2>1, <2>2, <2>3, <2>4, <2>5, <2>6, <2>7, <2>8 DEF AcceptThread
<1>6. heap' \in [Slots -> Cell] /\ SameNames
  <2>1. CASE heap' = heap
    BY <2>1 DEF TypeOK, Cell, SameNames
  <2>2. CASE StartRelay(i)
    <3>1. heap' = [heap EXCEPT ![s].active = heap[s].active + 1]
      BY <1>3, <2>2 DEF StartRelay
    <3>2. /\ heap[s].active + 1 \in Nat /\ heap[s].running \in BOOLEAN
          /\ heap[s].listen \in Ids \cup {-1}
      BY DEF TypeOK
    <3>3. heap' = [heap EXCEPT ![s] = [heap[s] EXCEPT !.running = heap[s].running,
                                                      !.listen = heap[s].listen,
                                                      !.active = heap[s].active + 1]]
      BY <3>1 DEF TypeOK
    <3> QED
      BY <3>2, <3>3, HeapWrite
  <2>3. CASE ExitClose(i)
    <3>1. heap' = [heap EXCEPT ![s].listen = -1]
      BY <1>3, <2>3 DEF ExitClose, Closed
    <3>2. heap[s].active \in Nat /\ heap[s].running \in BOOLEAN
      BY DEF TypeOK
    <3>3. heap' = [heap EXCEPT ![s] = [heap[s] EXCEPT !.running = heap[s].running,
                                                      !.listen = -1,
                                                      !.active = heap[s].active]]
      BY <3>1 DEF TypeOK
    <3> QED
      BY <3>2, <3>3, HeapWrite
  <2> QED
    BY <2>1, <2>2, <2>3 DEF AcceptThread, While, PollStart, PollReturn, AcceptStart, Accept,
                            ConnectFails, ExitTest
<1>7. fdopen' \subseteq Ids /\ addr' = addr
  BY DEF TypeOK, AcceptThread, While, PollStart, PollReturn, AcceptStart, Accept,
         ConnectFails, StartRelay, ExitTest, ExitClose
<1>8. conn' \in [Conns -> [st : {"new", "queued", "accepted", "relay", "uncount", "ended"},
                           sock : Ids \cup {-1}, fw : SUBSET Slots, id : Nat]]
  <2> DEFINE C == [st : {"new", "queued", "accepted", "relay", "uncount", "ended"},
                   sock : Ids \cup {-1}, fw : SUBSET Slots, id : Nat]
  <2>0. ASSUME NEW c, NEW v \in C, conn' = [conn EXCEPT ![c] = v]
        PROVE  conn' \in [Conns -> C]
    BY <2>0 DEF TypeOK
  <2>1. CASE Accept(i)
    <3>1. PICK c \in Conns : conn' = [conn EXCEPT ![c].st = "accepted"]
      BY <2>1 DEF Accept, Queue
    <3>2. [conn[c] EXCEPT !.st = "accepted"] \in C
      BY DEF TypeOK
    <3> QED
      BY <2>0, <3>1, <3>2
  <2> DEFINE c == acceptor[i].conn
  <2>2. CASE ConnectFails(i)
    <3>1. conn' = [conn EXCEPT ![c].st = "ended"]
      BY <2>2 DEF ConnectFails
    <3>2. CASE c \in Conns
      <4>1. [conn[c] EXCEPT !.st = "ended"] \in C
        BY <3>2 DEF TypeOK
      <4> QED
        BY <2>0, <3>1, <4>1
    <3>3. CASE c \notin Conns
      BY <3>1, <3>3 DEF TypeOK
    <3> QED
      BY <3>2, <3>3
  <2>3. CASE StartRelay(i)
    <3>1. conn' = [conn EXCEPT ![c] = [conn[c] EXCEPT !.st = "relay", !.fw = {s},
                                                      !.id = heap[s].id]]
      BY <1>3, <2>3 DEF StartRelay
    <3>2. CASE c \in Conns
      <4>1. heap[s].id \in Nat
        BY DEF TypeOK
      <4>2. [conn[c] EXCEPT !.st = "relay", !.fw = {s}, !.id = heap[s].id] \in C
        BY <3>2, <4>1 DEF TypeOK
      <4> QED
        BY <2>0, <3>1, <4>2
    <3>3. CASE c \notin Conns
      BY <3>1, <3>3 DEF TypeOK
    <3> QED
      BY <3>2, <3>3
  <2>4. CASE conn' = conn
    BY <2>4 DEF TypeOK
  <2> QED
    BY <2>1, <2>2, <2>3, <2>4 DEF AcceptThread, While, PollStart, PollReturn, AcceptStart,
                                  ExitTest, ExitClose
<1> QED
  BY <1>1, <1>5, <1>6, <1>7, <1>8 DEF TypeOK, Acceptors, State, Cell

(* A step that keeps the types and the names, and leaves the table alone.  *)
LEMMA Quiet ==
  ASSUME IInv, TypeOK', Held', SameNames, UNCHANGED <<tableVars, lockVars>>
  PROVE  IInv'
<1> USE DEF IInv, tableVars, lockVars
<1>1. forwards \subseteq Slots
  BY DEF TypeOK
<1>2. Lock' /\ Numbers'
  BY <1>1 DEF Lock, Numbers, SameNames
<1>3. TableOK'
  BY <1>1 DEF TableOK, SameNames, Conflict, SameAddr, SamePath
<1>4. RemovedStaysRemoved'
  BY <1>1 DEF RemovedStaysRemoved, Listed, SameNames
<1> QED
  BY <1>2, <1>3, <1>4

(* forward_add: the tests of the loop are what TableOK says of the new     *)
(* forward, and the id was never used.                                     *)
LEMMA AddStep == ASSUME IInv, NEW r \in Requests, Add(r) PROVE IInv'
<1> USE DEF IInv, lockVars
<1>1. PICK s \in Slots \ used :
        /\ heap' = [heap EXCEPT ![s] = [id |-> next_id, req |-> r, running |-> TRUE,
                                        listen |-> next_id, active |-> 0]]
        /\ used' = used \cup {s}
        /\ forwards' = forwards \cup {s}
        /\ acceptor' = [acceptor EXCEPT ![next_id] = Thread("while", {s}, -1, NoConn)]
  BY DEF Add
<1>2. next_id \in Ids /\ next_id \in Nat /\ next_id' = next_id + 1
  BY Constants DEF Add
<1>3. forwards \subseteq Slots /\ used \subseteq Slots /\ s \notin forwards /\ removed \subseteq Ids
  BY DEF TypeOK, TableOK
<1>4. /\ \A t \in Slots : t # s => heap'[t] = heap[t]
      /\ heap'[s].id = next_id /\ heap'[s].req = r
  BY <1>1 DEF TypeOK
<1>5. TypeOK'
  <2>1. heap' \in [Slots -> Cell]
    <3>1. [id |-> next_id, req |-> r, running |-> TRUE, listen |-> next_id, active |-> 0] \in Cell
      BY <1>2 DEF Cell
    <3> QED
      BY <1>1, <3>1 DEF TypeOK, Cell
  <2>2. acceptor' \in Acceptors
    <3>1. Thread("while", {s}, -1, NoConn) \in State
      BY <1>1 DEF Thread, State
    <3> QED
      BY <1>1, <3>1 DEF TypeOK, Acceptors, State
  <2>3. next_id' \in 1..MaxId + 1
    BY <1>2, Constants DEF Ids
  <2>4. addr' \in [Ids -> Requests] /\ fdopen' \subseteq Ids
    BY <1>2 DEF Add, TypeOK
  <2>5. used' \subseteq Slots /\ forwards' \subseteq Slots
    BY <1>1, <1>3
  <2>6. UNCHANGED <<mutex, removing, removed, conn>>
    BY DEF Add
  <2> QED
    BY <2>1, <2>2, <2>3, <2>4, <2>5, <2>6 DEF TypeOK, Acceptors, State, Cell
<1>6. Held'
  BY <1>1, <1>2 DEF TypeOK, Held, Fw, Thread
<1>7. Lock'
  BY <1>1 DEF Add, Lock
<1>8. Numbers'
  <2>1. \A t \in forwards' : heap'[t].id \in Ids /\ heap'[t].id < next_id'
    <3> TAKE t \in forwards'
    <3>1. CASE t = s
      BY <1>2, <1>4, <3>1
    <3>2. CASE t # s
      <4>1. t \in forwards /\ heap'[t] = heap[t]
        BY <1>1, <1>3, <1>4, <3>2
      <4>2. heap[t].id \in Ids /\ heap[t].id < next_id
        BY <4>1 DEF Numbers
      <4> DEFINE n == heap[t].id
      <4>3. n \in Nat /\ n < next_id /\ heap'[t].id = n
        BY <4>1, <4>2, Constants
      <4> HIDE DEF n
      <4>4. n < next_id + 1
        BY <1>2, <4>3
      <4> QED
        BY <1>2, <4>1, <4>2, <4>3, <4>4 DEF n
    <3> QED
      BY <3>1, <3>2
  <2>2. ASSUME NEW n \in removed PROVE n < next_id'
    <3>1. n \in Nat /\ n < next_id
      BY <1>3, Constants DEF TypeOK, Numbers
    <3>2. n < next_id + 1
      BY <1>2, <3>1
    <3> QED
      BY <1>2, <3>2
  <2> QED
    BY <2>1, <2>2 DEF Numbers, Add
<1>9. TableOK'
  <2>1. Cardinality(forwards') <= MaxForwards
    <3>1. IsFiniteSet(forwards)
      BY <1>3, Constants, FS_Subset
    <3>2. Cardinality(forwards') = Cardinality(forwards) + 1 /\ Cardinality(forwards) \in Nat
      BY <1>1, <1>3, <3>1, FS_AddElement, FS_CardinalityType
    <3>3. ~(Cardinality(forwards) >= MaxForwards)
      BY DEF Add, Full
    <3> QED
      BY <3>2, <3>3, Constants
  <2>2. forwards' \subseteq used'
    BY <1>1 DEF TableOK
  <2>3. ASSUME NEW t \in forwards', NEW u \in forwards', t # u
        PROVE  heap'[t].id # heap'[u].id /\ ~Conflict(heap'[t].req, heap'[u].req)
    <3>1. \A v \in forwards : /\ ~Conflict(heap[v].req, r) /\ ~Conflict(r, heap[v].req)
                              /\ heap[v].id # next_id
      BY <1>2, Constants DEF Add, Numbers, Conflict, SameAddr, SamePath
    <3>2. CASE t = s \/ u = s
      BY <1>1, <1>3, <1>4, <2>3, <3>1, <3>2
    <3>3. CASE t # s /\ u # s
      <4>1. t \in forwards /\ u \in forwards
        BY <1>1, <3>3
      <4> QED
        BY <1>3, <1>4, <2>3, <3>3, <4>1 DEF TableOK, Conflict, SameAddr, SamePath
    <3> QED
      BY <3>2, <3>3
  <2> QED
    BY <2>1, <2>2, <2>3 DEF TableOK, Conflict, SameAddr, SamePath
<1>10. RemovedStaysRemoved'
  <2>1. Listed' \subseteq Listed \cup {next_id}
    BY <1>1, <1>3, <1>4 DEF Listed
  <2>2. next_id \notin removed
    BY <1>2 DEF Numbers
  <2>3. removed' = removed
    BY DEF Add
  <2> QED
    BY <2>1, <2>2, <2>3 DEF RemovedStaysRemoved
<1> QED
  BY <1>5, <1>6, <1>7, <1>8, <1>9, <1>10

(* forward_remove: first the flag, then the socket, then the list.         *)
LEMMA RemoveStep ==
  ASSUME IInv, (\E s \in Slots : RemoveMark(s)) \/ RemoveClose \/ RemoveFree
  PROVE  IInv'
<1> USE DEF IInv, tableVars, lockVars, sockVars
<1>1. ASSUME NEW s \in Slots, RemoveMark(s) PROVE IInv'
  <2>1. heap' \in [Slots -> Cell] /\ SameNames
    <3>1. /\ heap[s].active \in Nat /\ heap[s].listen \in Ids \cup {-1}
          /\ heap' = [heap EXCEPT ![s] = [heap[s] EXCEPT !.running = FALSE,
                                                        !.listen = heap[s].listen,
                                                        !.active = heap[s].active]]
      BY <1>1 DEF RemoveMark, TypeOK
    <3> QED
      BY <3>1, HeapWrite
  <2>2. TypeOK' /\ Held'
    BY <1>1, <2>1 DEF RemoveMark, TypeOK, Held, Fw, Cell
  <2>3. Lock'
    BY <1>1 DEF RemoveMark, Lock
  <2>4. Numbers' /\ TableOK' /\ RemovedStaysRemoved'
    BY <1>1, <2>1 DEF RemoveMark, TypeOK, Numbers, TableOK, RemovedStaysRemoved, Listed,
                      SameNames, Conflict, SameAddr, SamePath
  <2> QED
    BY <2>2, <2>3, <2>4
<1>2. ASSUME RemoveClose PROVE IInv'
  <2>1. PICK s \in removing : heap' = [heap EXCEPT ![s].listen = -1]
    BY <1>2 DEF RemoveClose, Closed
  <2>2. heap' \in [Slots -> Cell] /\ SameNames
    <3>1. /\ s \in Slots /\ heap[s].active \in Nat /\ heap[s].running \in BOOLEAN
          /\ heap' = [heap EXCEPT ![s] = [heap[s] EXCEPT !.running = heap[s].running,
                                                        !.listen = -1,
                                                        !.active = heap[s].active]]
      BY <2>1 DEF TypeOK
    <3> QED
      BY <3>1, HeapWrite
  <2>3. TypeOK' /\ Held'
    BY <1>2, <2>2 DEF RemoveClose, TypeOK, Held, Fw, Cell
  <2>4. Lock'
    BY <1>2 DEF RemoveClose, Lock
  <2>5. Numbers' /\ TableOK' /\ RemovedStaysRemoved'
    BY <1>2, <2>2 DEF RemoveClose, TypeOK, Numbers, TableOK, RemovedStaysRemoved, Listed,
                      SameNames, Conflict, SameAddr, SamePath
  <2> QED
    BY <2>3, <2>4, <2>5
<1>3. ASSUME RemoveFree PROVE IInv'
  <2>1. /\ forwards' = forwards \ removing /\ used' = used \ removing /\ heap' = heap
        /\ removed' = removed \cup {heap[s].id : s \in removing}
        /\ removing' = {} /\ mutex' = "free"
        /\ UNCHANGED <<next_id, fdopen, addr, acceptor, conn>>
    BY <1>3 DEF RemoveFree
  <2>2. /\ removing \subseteq forwards /\ forwards \subseteq Slots
        /\ \A s \in removing : heap[s].id \in Ids /\ heap[s].id < next_id
    BY DEF Lock, TypeOK, Numbers
  <2>3. TypeOK' /\ Held' /\ Lock'
    BY <2>1, <2>2 DEF TypeOK, Held, Fw, Lock
  <2>4. Numbers'
    BY <2>1, <2>2 DEF Numbers
  <2>5. TableOK'
    <3>1. IsFiniteSet(forwards)
      BY <2>2, Constants, FS_Subset
    <3>2. /\ Cardinality(forwards') <= Cardinality(forwards)
          /\ Cardinality(forwards') \in Nat /\ Cardinality(forwards) \in Nat
      BY <2>1, <3>1, FS_Subset, FS_CardinalityType
    <3>3. Cardinality(forwards') <= MaxForwards
      BY <3>2, Constants DEF TableOK
    <3> QED
      BY <2>1, <2>2, <3>3 DEF TableOK
  <2>6. RemovedStaysRemoved'
    BY <2>1, <2>2 DEF RemovedStaysRemoved, Listed, TableOK
  <2> QED
    BY <2>3, <2>4, <2>5, <2>6
<1> QED
  BY <1>1, <1>2, <1>3

(* A step of a client or of a relay keeps the type of the connections.     *)
LEMMA ConnType ==
  ASSUME TypeOK, NEW c \in Conns,
         (\E i \in Ids : Connect(c, i)) \/ Reset(c) \/ RelayEnds(c) \/ Uncount(c)
  PROVE  conn' \in [Conns -> [st : {"new", "queued", "accepted", "relay", "uncount", "ended"},
                              sock : Ids \cup {-1}, fw : SUBSET Slots, id : Nat]]
<1> DEFINE C == [st : {"new", "queued", "accepted", "relay", "uncount", "ended"},
                 sock : Ids \cup {-1}, fw : SUBSET Slots, id : Nat]
<1>1. conn[c] \in C /\ conn \in [Conns -> C]
  BY DEF TypeOK
<1>2. ASSUME NEW v \in C, conn' = [conn EXCEPT ![c] = v] PROVE conn' \in [Conns -> C]
  BY <1>1, <1>2
<1>3. ASSUME NEW i \in Ids, Connect(c, i) PROVE conn' \in [Conns -> C]
  <2>1. [conn[c] EXCEPT !.st = "queued", !.sock = i] \in C
    BY <1>1
  <2> QED
    BY <1>2, <1>3, <2>1 DEF Connect
<1>4. ASSUME NEW t \in {"ended", "uncount"}, conn' = [conn EXCEPT ![c].st = t]
      PROVE  conn' \in [Conns -> C]
  BY <1>1, <1>4
<1>5. Reset(c) \/ RelayEnds(c) \/ Uncount(c) =>
        \E t \in {"ended", "uncount"} : conn' = [conn EXCEPT ![c].st = t]
  BY DEF Reset, RelayEnds, Uncount
<1> QED
  BY <1>3, <1>4, <1>5

(* The steps of clients, relays and other users of the heap.               *)
LEMMA OtherStep ==
  ASSUME IInv,
         \/ \E s \in Slots : Scribble(s)
         \/ \E c \in Conns, i \in Ids : Connect(c, i)
         \/ \E c \in Conns : Reset(c) \/ RelayEnds(c) \/ Uncount(c)
         \/ UNCHANGED vars
  PROVE  TypeOK' /\ Held' /\ SameNames /\ UNCHANGED <<tableVars, lockVars>>
<1> USE DEF IInv, tableVars, lockVars, sockVars
<1>1. ASSUME NEW s \in Slots, Scribble(s)
      PROVE  TypeOK' /\ Held' /\ SameNames /\ UNCHANGED <<tableVars, lockVars>>
  <2>1. PICK running \in BOOLEAN, listen \in Ids \cup {-1} :
          heap' = [heap EXCEPT ![s] = [heap[s] EXCEPT !.running = running, !.listen = listen]]
    BY <1>1 DEF Scribble
  <2>2. /\ heap[s].active \in Nat
        /\ heap' = [heap EXCEPT ![s] = [heap[s] EXCEPT !.running = running, !.listen = listen,
                                                      !.active = heap[s].active]]
    BY <2>1 DEF TypeOK
  <2>3. heap' \in [Slots -> Cell] /\ SameNames
    BY <2>2, HeapWrite
  <2> QED
    BY <1>1, <2>3 DEF Scribble, TypeOK, Held, Fw, Cell
<1>2. ASSUME NEW c \in Conns,
             (\E i \in Ids : Connect(c, i)) \/ Reset(c) \/ RelayEnds(c) \/ Uncount(c)
      PROVE  TypeOK' /\ Held' /\ SameNames /\ UNCHANGED <<tableVars, lockVars>>
  <2>1. heap' \in [Slots -> Cell] /\ SameNames
    <3>1. CASE heap' = heap
      BY <3>1 DEF TypeOK, Cell, SameNames
    <3>2. CASE Uncount(c)
      <4>1. PICK s \in conn[c].fw : heap' = [heap EXCEPT ![s].active = OneLess(heap[s].active)]
        BY <3>2 DEF Uncount
      <4>2. s \in Slots /\ heap[s].active \in Nat /\ heap[s].running \in BOOLEAN
            /\ heap[s].listen \in Ids \cup {-1}
        BY DEF TypeOK
      <4> DEFINE n == heap[s].active
      <4>3. OneLess(n) \in Nat
        <5>1. n \in Nat
          BY <4>2
        <5> HIDE DEF n
        <5> QED
          BY <5>1 DEF OneLess
      <4>4. heap' = [heap EXCEPT ![s] = [heap[s] EXCEPT !.running = heap[s].running,
                                                        !.listen = heap[s].listen,
                                                        !.active = OneLess(n)]]
        BY <4>1, <4>2 DEF TypeOK
      <4> HIDE DEF n
      <4> QED
        BY <4>2, <4>3, <4>4, HeapWrite
    <3> QED
      BY <1>2, <3>1, <3>2 DEF Connect, Reset, RelayEnds
  <2>2. conn' \in [Conns -> [st : {"new", "queued", "accepted", "relay", "uncount", "ended"},
                             sock : Ids \cup {-1}, fw : SUBSET Slots, id : Nat]]
    BY <1>2, ConnType
  <2>3. UNCHANGED <<tableVars, lockVars, sockVars, acceptor>>
    BY <1>2 DEF Connect, Reset, RelayEnds, Uncount
  <2> QED
    BY <2>1, <2>2, <2>3 DEF TypeOK, Held, Fw, Cell
<1>3. CASE UNCHANGED vars
  BY <1>3 DEF vars, TypeOK, Held, Fw, SameNames
<1> QED
  BY <1>1, <1>2, <1>3

LEMMA StepNext == IInv /\ [Next]_vars => IInv'
<1> SUFFICES ASSUME IInv, [Next]_vars PROVE IInv'
  OBVIOUS
<1>1. ASSUME NEW i \in Ids, AcceptThread(i) PROVE IInv'
  BY <1>1, AcceptStep, Quiet DEF IInv
<1>2. CASE \/ \E s \in Slots : Scribble(s)
           \/ \E c \in Conns, i \in Ids : Connect(c, i)
           \/ \E c \in Conns : Reset(c) \/ RelayEnds(c) \/ Uncount(c)
           \/ UNCHANGED vars
  BY <1>2, OtherStep, Quiet
<1> QED
  BY <1>1, <1>2, AddStep, RemoveStep DEF Next

LEMMA Inductive == Spec => []IInv
BY InitHolds, StepNext, PTL DEF Spec

(* Every variable keeps its type, whatever is written into freed blocks.   *)
THEOREM ForwardTypeCorrect == Spec => []TypeOK
<1>1. IInv => TypeOK
  BY DEF IInv
<1> QED
  BY <1>1, Inductive, PTL

(* forward_add and forward_remove keep the table within MAX_FORWARDS, in   *)
(* allocated blocks and without conflicts.                                 *)
THEOREM TableHolds == Spec => []TableOK
<1>1. IInv => TableOK
  BY DEF IInv
<1> QED
  BY <1>1, Inductive, PTL

(* An id that forward_remove has removed is never in the table again.      *)
THEOREM RemovedHolds == Spec => []RemovedStaysRemoved
<1>1. IInv => RemovedStaysRemoved
  BY DEF IInv
<1> QED
  BY <1>1, Inductive, PTL

----------------------------------------------------------------------------
(* A forward that is listed listens.                                       *)

(* A block belongs to one forward for ever, and its threads know it.       *)
Own == \A s, t \in Slots :
  heap[s].id < next_id /\ (heap[s].id # 0 /\ heap[s].id = heap[t].id => s = t)
Names == \A i \in Ids : \A s \in Fw(i) : heap[s].id = i
Sock == \A s \in Slots : heap[s].listen \in {-1, heap[s].id}
Open == \A s \in forwards \ removing :
  heap[s].running /\ heap[s].listen = heap[s].id /\ heap[s].id \in fdopen

(* A thread closes the socket only when its forward was removed.           *)
Leaving == \A i \in Ids :
  acceptor[i].pc \in {"exit", "close"} => \A s \in Fw(i) : ~heap[s].running

LInv == Own /\ Names /\ Sock /\ Open /\ Leaving

LEMMA ListenInit == Init => LInv
<1> SUFFICES ASSUME Init PROVE LInv
  OBVIOUS
<1>1. Own /\ Sock
  BY DEF Init, Own, Sock
<1>2. Names /\ Leaving
  BY DEF Init, Names, Leaving, Fw, Thread
<1>3. Open
  BY DEF Init, Open
<1> QED
  BY <1>1, <1>2, <1>3 DEF LInv

(* What an accept thread does to itself and to its block.                  *)
LEMMA ThreadStep ==
  ASSUME IInv, LInv, NEW i \in Ids, AcceptThread(i), NEW s \in Slots, Fw(i) = {s}
  PROVE  /\ \A j \in Ids : j # i => acceptor'[j] = acceptor[j]
         /\ acceptor'[i].fw \in {{s}, {}}
         /\ acceptor'[i].pc \in {"exit", "close"} => ~heap[s].running
         /\ \A t \in Slots : heap'[t].running = heap[t].running
         /\ \/ /\ \A t \in Slots : heap'[t].listen = heap[t].listen
               /\ fdopen' = fdopen
            \/ /\ ~heap[s].running /\ heap'[s].listen = -1
               /\ \A t \in Slots : t # s => heap'[t].listen = heap[t].listen
               /\ fdopen' = fdopen \ {heap[s].listen}
<1>1. acceptor \in Acceptors /\ heap \in [Slots -> Cell]
  BY DEF IInv, TypeOK, Acceptors, State, Cell
<1>2. Block(i) = heap[s]
  BY DEF Block
<1>3. acceptor[i].pc \in {"exit", "close"} => ~heap[s].running
  BY DEF LInv, Leaving
<1>4. \A j \in Ids : j # i => acceptor'[j] = acceptor[j]
  BY <1>1 DEF Acceptors, AcceptThread, While, PollStart, PollReturn, AcceptStart, Accept,
     ConnectFails, StartRelay, ExitTest, ExitClose, Goto, Enter, Take, Resume, Finish
<1>5. acceptor'[i].fw \in {{s}, {}} /\ (acceptor'[i].pc \in {"exit", "close"} => ~heap[s].running)
  <2>1. CASE While(i)
    BY <1>1, <1>2, <2>1 DEF Acceptors, While, Goto, Thread
  <2>2. CASE PollStart(i) \/ PollReturn(i) \/ Accept(i) \/ ConnectFails(i) \/ StartRelay(i)
    BY <1>1, <2>2 DEF Acceptors, PollStart, PollReturn, Accept, ConnectFails, StartRelay,
                      Goto, Enter, Take, Resume, Thread
  <2>3. CASE AcceptStart(i)
    BY <1>1, <1>2, <2>3 DEF Acceptors, AcceptStart, Goto, Enter, Thread
  <2>4. CASE ExitTest(i) \/ ExitClose(i)
    BY <1>1, <1>3, <2>4 DEF Acceptors, ExitTest, ExitClose, Goto, Finish, Thread
  <2> QED
    BY <2>1, <2>2, <2>3, <2>4 DEF AcceptThread
<1>6. CASE ExitClose(i)
  <2>1. heap' = [heap EXCEPT ![s].listen = -1] /\ fdopen' = fdopen \ {heap[s].listen}
    BY <1>6 DEF ExitClose, Closed
  <2>2. ~heap[s].running
    BY <1>3, <1>6 DEF ExitClose
  <2> QED
    BY <1>1, <1>4, <1>5, <2>1, <2>2 DEF Cell
<1>7. CASE StartRelay(i)
  <2>1. heap' = [heap EXCEPT ![s].active = heap[s].active + 1] /\ fdopen' = fdopen
    BY <1>7 DEF StartRelay, sockVars
  <2> QED
    BY <1>1, <1>4, <1>5, <2>1 DEF Cell
<1>8. CASE heap' = heap /\ fdopen' = fdopen
  BY <1>4, <1>5, <1>8
<1> QED
  BY <1>6, <1>7, <1>8 DEF AcceptThread, While, PollStart, PollReturn, AcceptStart, Accept,
                          ConnectFails, ExitTest, sockVars

LEMMA ListenThread == ASSUME IInv, LInv, NEW i \in Ids, AcceptThread(i) PROVE LInv'
<1>1. PICK s \in Slots : Fw(i) = {s}
  BY DEF IInv, Held, AcceptThread, While, PollStart, PollReturn, AcceptStart, Accept,
         ConnectFails, StartRelay, ExitTest, ExitClose
<1>2. SameNames /\ UNCHANGED <<tableVars, lockVars>>
  BY AcceptStep DEF IInv
<1>3. next_id' = next_id /\ forwards' = forwards /\ removing' = removing /\ forwards \subseteq Slots
  BY <1>2 DEF tableVars, lockVars, IInv, TypeOK
<1>4. Own'
  BY <1>2, <1>3 DEF LInv, Own, SameNames
<1>5. \A j \in Ids : Fw(j)' \in {Fw(j), {}} /\ Fw(j) \subseteq Slots
  <2> TAKE j \in Ids
  <2>1. Fw(j) \subseteq Slots
    BY DEF Fw, IInv, TypeOK
  <2>2. CASE j = i
    BY <1>1, <2>1, <2>2, ThreadStep DEF Fw
  <2>3. CASE j # i
    BY <1>1, <2>1, <2>3, ThreadStep DEF Fw
  <2> QED
    BY <2>2, <2>3
<1>6. Names'
  BY <1>2, <1>5 DEF LInv, Names, SameNames
<1>7. Sock'
  BY <1>1, <1>2, ThreadStep DEF LInv, Sock, SameNames
<1>8. Open'
  <2> SUFFICES ASSUME NEW t \in forwards \ removing
      PROVE  heap'[t].running /\ heap'[t].listen = heap'[t].id /\ heap'[t].id \in fdopen'
    BY <1>3 DEF Open
  <2>1. /\ heap[t].running /\ heap[t].listen = heap[t].id /\ heap[t].id \in fdopen
        /\ t \in Slots /\ heap'[t].id = heap[t].id /\ heap[t].id \in Ids /\ heap[t].id # 0
    BY <1>2, <1>3 DEF LInv, Open, SameNames, IInv, Numbers, Ids
  <2>2. heap'[t].running = heap[t].running
    BY <1>1, <2>1, ThreadStep
  <2>3. CASE heap'[t].listen = heap[t].listen /\ fdopen' = fdopen
    BY <2>1, <2>2, <2>3
  <2>4. CASE /\ ~heap[s].running /\ fdopen' = fdopen \ {heap[s].listen}
             /\ \A u \in Slots : u # s => heap'[u].listen = heap[u].listen
    <3>1. t # s
      BY <2>1, <2>4
    <3>2. heap[s].listen # heap[t].id
      BY <1>1, <2>1, <3>1, Constants DEF LInv, Sock, Own
    <3> QED
      BY <2>1, <2>2, <2>4, <3>1, <3>2
  <2> QED
    BY <1>1, <2>1, <2>3, <2>4, ThreadStep
<1>9. Leaving'
  BY <1>1, <1>5, ThreadStep DEF LInv, Leaving, Fw
<1> QED
  BY <1>4, <1>6, <1>7, <1>8, <1>9 DEF LInv

LEMMA ListenAdd ==
  ASSUME IInv, LInv, ~Reuse, NEW r \in Requests, Add(r)
  PROVE  LInv'
<1>1. PICK s \in Slots \ used :
        /\ heap[s].id = 0
        /\ heap' = [heap EXCEPT ![s] = [id |-> next_id, req |-> r, running |-> TRUE,
                                        listen |-> next_id, active |-> 0]]
        /\ forwards' = forwards \cup {s}
        /\ acceptor' = [acceptor EXCEPT ![next_id] = Thread("while", {s}, -1, NoConn)]
  BY DEF Add
<1>2. /\ next_id \in Ids /\ next_id \in Nat /\ next_id # 0 /\ next_id' = next_id + 1
      /\ fdopen' = fdopen \cup {next_id} /\ removing' = removing
  BY Constants DEF Add, lockVars, Ids
<1>3. /\ \A t \in Slots : t # s => heap'[t] = heap[t]
      /\ heap'[s].id = next_id /\ heap'[s].running /\ heap'[s].listen = next_id
      /\ \A t \in Slots : heap[t].id \in Nat
  BY <1>1 DEF IInv, TypeOK
<1>4. Own'
  <2>1. \A t \in Slots : heap'[t].id < next_id'
    <3> TAKE t \in Slots
    <3>1. heap[t].id \in Nat /\ heap[t].id < next_id
      BY <1>3 DEF LInv, Own
    <3> DEFINE n == heap[t].id
    <3>2. n < next_id + 1 /\ next_id < next_id + 1
      <4>1. n \in Nat /\ n < next_id
        BY <3>1
      <4> HIDE DEF n
      <4> QED
        BY <1>2, <4>1
    <3> QED
      BY <1>2, <1>3, <3>2
  <2>2. \A t \in Slots : heap[t].id # next_id
    BY <1>2, <1>3 DEF LInv, Own
  <2> QED
    BY <1>1, <1>3, <2>1, <2>2 DEF LInv, Own
<1>5. \A j \in Ids : j # next_id => acceptor'[j] = acceptor[j] /\ s \notin Fw(j) /\ Fw(j) \subseteq Slots
  <2> TAKE j \in Ids
  <2>1. Fw(j) \subseteq Slots /\ acceptor \in Acceptors
    BY DEF Fw, IInv, TypeOK, Acceptors, State
  <2>2. s \notin Fw(j)
    BY <1>1 DEF LInv, Names, Ids
  <2>3. j # next_id => acceptor'[j] = acceptor[j]
    BY <1>1, <2>1 DEF Acceptors
  <2> QED
    BY <2>1, <2>2, <2>3
<1>6. acceptor'[next_id] = Thread("while", {s}, -1, NoConn)
  BY <1>1, <1>2 DEF IInv, TypeOK
<1>7. Names'
  BY <1>3, <1>5, <1>6 DEF LInv, Names, Fw, Thread
<1>8. Sock'
  BY <1>3 DEF LInv, Sock
<1>9. Open'
  BY <1>1, <1>2, <1>3 DEF LInv, Open, IInv, TypeOK
<1>10. Leaving'
  BY <1>3, <1>5, <1>6 DEF LInv, Leaving, Fw, Thread
<1> QED
  BY <1>4, <1>7, <1>8, <1>9, <1>10 DEF LInv

LEMMA ListenRemove ==
  ASSUME IInv, LInv, (\E s \in Slots : RemoveMark(s)) \/ RemoveClose \/ RemoveFree
  PROVE  LInv'
<1>1. /\ heap \in [Slots -> Cell] /\ forwards \subseteq Slots /\ removing \subseteq forwards
      /\ \A i \in Ids : Fw(i) \subseteq Slots
  BY DEF IInv, Lock, TypeOK, Cell, Fw
<1>2. ASSUME NEW s \in Slots, RemoveMark(s) PROVE LInv'
  <2>1. /\ \A t \in Slots : /\ heap'[t].id = heap[t].id /\ heap'[t].listen = heap[t].listen
                            /\ heap'[t].running => heap[t].running
                            /\ t # s => heap'[t].running = heap[t].running
        /\ UNCHANGED <<forwards, next_id, fdopen, acceptor>> /\ removing' = {s} /\ removing = {}
    BY <1>1, <1>2 DEF RemoveMark, tableVars, sockVars, Cell, IInv, Lock
  <2> QED
    BY <1>1, <2>1 DEF LInv, Own, Names, Sock, Open, Leaving, Fw
<1>3. ASSUME RemoveClose PROVE LInv'
  <2>1. PICK s \in removing : /\ fdopen' = fdopen \ {heap[s].listen}
                              /\ heap' = [heap EXCEPT ![s].listen = -1]
    BY <1>3 DEF RemoveClose, Closed
  <2>2. /\ \A t \in Slots : /\ heap'[t].id = heap[t].id /\ heap'[t].running = heap[t].running
                            /\ t # s => heap'[t].listen = heap[t].listen
        /\ heap'[s].listen = -1
        /\ UNCHANGED <<forwards, next_id, removing, acceptor>>
    BY <1>1, <1>3, <2>1 DEF RemoveClose, tableVars, Cell
  <2>3. \A t \in forwards \ removing : t # s /\ heap[s].listen # heap[t].id
    BY <1>1, <2>1, Constants DEF LInv, Sock, Own, IInv, Numbers, Ids
  <2>4. Open'
    BY <1>1, <2>1, <2>2, <2>3 DEF LInv, Open
  <2> QED
    BY <1>1, <2>2, <2>4 DEF LInv, Own, Names, Sock, Leaving, Fw
<1>4. ASSUME RemoveFree PROVE LInv'
  BY <1>1, <1>4 DEF RemoveFree, sockVars, LInv, Own, Names, Sock, Open, Leaving, Fw
<1> QED
  BY <1>2, <1>3, <1>4

LEMMA ListenOther ==
  ASSUME IInv, LInv,
         \/ \E c \in Conns, i \in Ids : Connect(c, i)
         \/ \E c \in Conns : Reset(c) \/ RelayEnds(c) \/ Uncount(c)
         \/ UNCHANGED vars
  PROVE  LInv'
<1>1. heap \in [Slots -> Cell] /\ forwards \subseteq Slots /\ \A i \in Ids : Fw(i) \subseteq Slots
  BY DEF IInv, TypeOK, Cell, Fw
<1>2. UNCHANGED <<tableVars, lockVars, sockVars, acceptor>>
  BY DEF Connect, Reset, RelayEnds, Uncount, vars
<1>3. \A t \in Slots : /\ heap'[t].id = heap[t].id /\ heap'[t].running = heap[t].running
                       /\ heap'[t].listen = heap[t].listen
  <2>1. CASE heap' = heap
    BY <2>1
  <2>2. ASSUME NEW c \in Conns, Uncount(c)
        PROVE  \A t \in Slots : /\ heap'[t].id = heap[t].id /\ heap'[t].running = heap[t].running
                                /\ heap'[t].listen = heap[t].listen
    <3>1. PICK s \in conn[c].fw : heap' = [heap EXCEPT ![s].active = OneLess(heap[s].active)]
      BY <2>2 DEF Uncount
    <3> QED
      BY <1>1, <3>1 DEF Cell
  <2> QED
    BY <2>1, <2>2 DEF Connect, Reset, RelayEnds, vars
<1> QED
  BY <1>1, <1>2, <1>3 DEF tableVars, lockVars, sockVars, LInv, Own, Names, Sock, Open, Leaving, Fw

LEMMA ListenStep == ASSUME ~Reuse, ~Scribbles PROVE IInv /\ LInv /\ [Next]_vars => LInv'
<1>1. \A s \in Slots : ~Scribble(s)
  BY DEF Scribble
<1> QED
  BY <1>1, ListenThread, ListenAdd, ListenRemove, ListenOther DEF Next

(* forward.c 181-279 and 129-179: as long as no freed block is used again, *)
(* a forward that is listed and not being removed has its listener open,   *)
(* whatever its accept thread and the removals of others do.               *)
THEOREM ListedListensHolds ==
  ASSUME ~Reuse, ~Scribbles
  PROVE  Spec => []ListedListens
<1>1. LInv => ListedListens
  BY DEF LInv, Open, ListedListens
<1> QED
  BY <1>1, ListenInit, ListenStep, Inductive, PTL DEF Spec

----------------------------------------------------------------------------
(* Its count of connections is exact.                                      *)

Counted(c) == conn[c].st \in {"relay", "uncount"}
Relays(n) == {c \in Conns : Counted(c) /\ conn[c].id = n}
Count == \A s \in Slots : heap[s].id # 0 => heap[s].active = Cardinality(Relays(heap[s].id))

(* A relay has the block of its forward.                                   *)
Jobs == \A c \in Conns : Counted(c) =>
  \E s \in Slots : conn[c].fw = {s} /\ heap[s].id = conn[c].id /\ conn[c].id # 0

(* What a thread has accepted is its own, and no relay has it yet.         *)
Waiting(i) == acceptor[i].pc = "connect"
Waits == \A i \in Ids : Waiting(i) =>
  /\ acceptor[i].conn \in Conns /\ conn[acceptor[i].conn].st = "accepted"
  /\ \A j \in Ids : Waiting(j) /\ acceptor[j].conn = acceptor[i].conn => i = j

CInv == Count /\ Jobs /\ Waits

LEMMA CountInit == Init => CInv
BY DEF Init, CInv, Count, Jobs, Waits, Waiting, Counted, Thread

(* Names and counts stay, and so do the relays.                            *)
SameCounts == /\ \A s \in Slots : heap'[s].id = heap[s].id /\ heap'[s].active = heap[s].active
              /\ \A c \in Conns : /\ Counted(c)' <=> Counted(c)
                                  /\ Counted(c) => conn'[c].id = conn[c].id /\ conn'[c].fw = conn[c].fw

LEMMA Uncounted == ASSUME CInv, SameCounts PROVE Count' /\ Jobs'
<1>1. \A n : Relays(n)' = Relays(n)
  BY DEF SameCounts, Relays
<1>2. Count'
  BY <1>1 DEF CInv, Count, SameCounts
<1>3. Jobs'
  BY DEF CInv, Jobs, SameCounts
<1> QED
  BY <1>2, <1>3

LEMMA CountThread ==
  ASSUME IsFiniteSet(Conns), IInv, LInv, CInv, NEW i \in Ids, AcceptThread(i)
  PROVE  CInv'
<1>1. PICK s \in Slots : Fw(i) = {s}
  BY DEF IInv, Held, AcceptThread, While, PollStart, PollReturn, AcceptStart, Accept,
         ConnectFails, StartRelay, ExitTest, ExitClose
<1>2. /\ acceptor \in Acceptors /\ heap \in [Slots -> Cell]
      /\ conn \in [Conns -> [st : {"new", "queued", "accepted", "relay", "uncount", "ended"},
                             sock : Ids \cup {-1}, fw : SUBSET Slots, id : Nat]]
  BY DEF IInv, TypeOK, Acceptors, State, Cell
<1>3. \A j \in Ids : j # i => acceptor'[j] = acceptor[j]
  BY <1>1, ThreadStep
<1>4. CASE While(i) \/ PollStart(i) \/ PollReturn(i) \/ AcceptStart(i) \/ ExitTest(i) \/ ExitClose(i)
  <2>1. conn' = conn
    BY <1>4 DEF While, PollStart, PollReturn, AcceptStart, ExitTest, ExitClose
  <2>2. acceptor'[i].pc # "connect"
    BY <1>2, <1>4 DEF Acceptors, While, PollStart, PollReturn, AcceptStart, ExitTest, ExitClose,
                      Goto, Enter, Finish, Thread
  <2>3. \A t \in Slots : heap'[t].id = heap[t].id /\ heap'[t].active = heap[t].active
    BY <1>2, <1>4 DEF While, PollStart, PollReturn, AcceptStart, ExitTest, ExitClose, Cell
  <2>4. SameCounts
    BY <2>1, <2>3 DEF SameCounts, Counted
  <2>5. Waits'
    BY <1>3, <2>1, <2>2 DEF CInv, Waits, Waiting
  <2> QED
    BY <2>4, <2>5, Uncounted DEF CInv
<1>5. CASE Accept(i)
  <2>1. PICK c \in Conns : /\ conn[c].st = "queued" /\ conn' = [conn EXCEPT ![c].st = "accepted"]
                           /\ acceptor' = [acceptor EXCEPT ![i] = Thread("connect", Fw(i), -1, c)]
    BY <1>5 DEF Accept, Queue, Take
  <2>2. SameCounts
    BY <1>2, <1>5, <2>1 DEF Accept, SameCounts, Counted
  <2>3. \A j \in Ids : Waiting(j) => acceptor[j].conn # c
    BY <2>1 DEF CInv, Waits
  <2>4. /\ Waiting(i)' /\ acceptor'[i].conn = c /\ conn'[c].st = "accepted"
        /\ \A d \in Conns : d # c => conn'[d].st = conn[d].st
    BY <1>2, <2>1 DEF Acceptors, Waiting, Thread
  <2>5. Waits'
    BY <1>3, <2>3, <2>4 DEF CInv, Waits, Waiting
  <2> QED
    BY <2>2, <2>5, Uncounted DEF CInv
<1>6. ASSUME Waiting(i), Resume(i), NEW new, conn' = [conn EXCEPT ![acceptor[i].conn] = new]
      PROVE  Waits'
  <2>1. acceptor'[i].pc = "while"
    BY <1>2, <1>6 DEF Acceptors, Resume, Thread
  <2>2. ASSUME NEW j \in Ids, j # i, Waiting(j)'
        PROVE  /\ Waiting(j) /\ acceptor'[j].conn = acceptor[j].conn
               /\ acceptor[j].conn # acceptor[i].conn /\ acceptor[j].conn \in Conns
               /\ conn'[acceptor[j].conn] = conn[acceptor[j].conn]
    BY <1>2, <1>3, <1>6, <2>2 DEF CInv, Waits, Waiting
  <2> QED
    BY <2>1, <2>2 DEF CInv, Waits, Waiting
<1>7. CASE ConnectFails(i)
  <2>1. /\ conn' = [conn EXCEPT ![acceptor[i].conn] = [conn[acceptor[i].conn] EXCEPT !.st = "ended"]]
        /\ Waiting(i) /\ Resume(i) /\ heap' = heap
    BY <1>7 DEF ConnectFails, Waiting
  <2>2. conn[acceptor[i].conn].st = "accepted" /\ acceptor[i].conn \in Conns
    BY <2>1 DEF CInv, Waits
  <2>3. SameCounts
    BY <1>2, <2>1, <2>2 DEF SameCounts, Counted
  <2> QED
    BY <1>6, <2>1, <2>3, Uncounted DEF CInv
<1>8. CASE StartRelay(i)
  <2> DEFINE d == acceptor[i].conn
  <2>1. /\ heap' = [heap EXCEPT ![s].active = heap[s].active + 1]
        /\ conn' = [conn EXCEPT ![d] = [conn[d] EXCEPT !.st = "relay", !.fw = {s}, !.id = heap[s].id]]
        /\ Waiting(i) /\ Resume(i)
    BY <1>1, <1>8 DEF StartRelay, Waiting
  <2>2. d \in Conns /\ conn[d].st = "accepted"
    BY <2>1 DEF CInv, Waits
  <2>3. heap[s].id = i /\ i # 0 /\ heap[s].active \in Nat
    BY <1>1, <1>2 DEF LInv, Names, Ids, Cell
  <2>4. /\ conn'[d].st = "relay" /\ conn'[d].fw = {s} /\ conn'[d].id = i
        /\ \A c \in Conns : c # d => conn'[c] = conn[c]
    BY <1>2, <2>1, <2>2, <2>3
  <2>5. /\ \A t \in Slots : heap'[t].id = heap[t].id /\ (t # s => heap'[t].active = heap[t].active)
        /\ heap'[s].active = heap[s].active + 1
    BY <1>2, <2>1 DEF Cell
  <2> HIDE DEF d
  <2>6. /\ d \notin Relays(i) /\ Relays(i)' = Relays(i) \cup {d}
        /\ \A n : n # i => Relays(n)' = Relays(n)
    BY <2>2, <2>4 DEF Relays, Counted
  <2>7. Cardinality(Relays(i)') = Cardinality(Relays(i)) + 1
    BY <2>6, FS_Subset, FS_AddElement DEF Relays
  <2>8. Count'
    <3> SUFFICES ASSUME NEW t \in Slots, heap[t].id # 0
        PROVE  heap'[t].active = Cardinality(Relays(heap[t].id)')
      BY <2>5 DEF Count, Relays, Counted
    <3>1. heap[t].active = Cardinality(Relays(heap[t].id))
      BY DEF CInv, Count
    <3>2. CASE t = s
      BY <2>3, <2>5, <2>7, <3>1, <3>2
    <3>3. CASE t # s
      <4>1. heap[t].id # i
        BY <2>3, <3>3 DEF LInv, Own
      <4> QED
        BY <2>5, <2>6, <3>1, <3>3, <4>1
    <3> QED
      BY <3>2, <3>3
  <2>9. Jobs'
    BY <2>3, <2>4, <2>5 DEF CInv, Jobs, Counted
  <2> QED
    BY <1>6, <2>1, <2>8, <2>9 DEF CInv, d
<1> QED
  BY <1>4, <1>5, <1>7, <1>8 DEF AcceptThread

LEMMA CountAdd ==
  ASSUME IInv, LInv, CInv, ~Reuse, NEW r \in Requests, Add(r)
  PROVE  CInv'
<1>1. PICK s \in Slots \ used :
        /\ heap[s].id = 0
        /\ heap' = [heap EXCEPT ![s] = [id |-> next_id, req |-> r, running |-> TRUE,
                                        listen |-> next_id, active |-> 0]]
        /\ acceptor' = [acceptor EXCEPT ![next_id] = Thread("while", {s}, -1, NoConn)]
  BY DEF Add
<1>2. next_id \in Ids /\ conn' = conn
  BY DEF Add
<1>3. /\ \A t \in Slots : t # s => heap'[t] = heap[t]
      /\ heap'[s].id = next_id /\ heap'[s].active = 0
  BY <1>1 DEF IInv, TypeOK
<1>4. \A n : Relays(n)' = Relays(n)
  BY <1>2 DEF Relays, Counted
<1>5. Relays(next_id) = {}
  <2> SUFFICES ASSUME NEW c \in Conns, Counted(c) PROVE conn[c].id # next_id
    BY DEF Relays
  <2>1. PICK t \in Slots : heap[t].id = conn[c].id
    BY DEF CInv, Jobs
  <2>2. heap[t].id < next_id /\ heap[t].id \in Nat /\ next_id \in Nat
    BY <1>2, Constants DEF LInv, Own, IInv, TypeOK
  <2> DEFINE n == heap[t].id
  <2>3. n # next_id
    <3>1. n < next_id /\ n \in Nat /\ next_id \in Nat
      BY <2>2
    <3> HIDE DEF n
    <3> QED
      BY <3>1
  <2> QED
    BY <2>1, <2>3
<1>6. Count'
  BY <1>3, <1>4, <1>5, FS_EmptySet DEF CInv, Count
<1>7. Jobs'
  BY <1>1, <1>2, <1>3 DEF CInv, Jobs, Counted
<1>8. Waits'
  <2>1. acceptor'[next_id].pc # "connect" /\ \A j \in Ids : j # next_id => acceptor'[j] = acceptor[j]
    BY <1>1, <1>2 DEF IInv, TypeOK, Thread
  <2> QED
    BY <1>2, <2>1 DEF CInv, Waits, Waiting
<1> QED
  BY <1>6, <1>7, <1>8 DEF CInv

LEMMA CountRemove ==
  ASSUME IInv, CInv, (\E s \in Slots : RemoveMark(s)) \/ RemoveClose \/ RemoveFree
  PROVE  CInv'
<1>1. conn' = conn /\ acceptor' = acceptor
  BY DEF RemoveMark, RemoveClose, RemoveFree
<1>2. \A t \in Slots : heap'[t].id = heap[t].id /\ heap'[t].active = heap[t].active
  BY DEF RemoveMark, RemoveClose, RemoveFree, IInv, TypeOK
<1>3. SameCounts /\ Waits'
  BY <1>1, <1>2 DEF SameCounts, Counted, CInv, Waits, Waiting
<1> QED
  BY <1>3, Uncounted DEF CInv

LEMMA CountUncount ==
  ASSUME IsFiniteSet(Conns), IInv, LInv, CInv, NEW c \in Conns, Uncount(c)
  PROVE  Count' /\ Jobs'
<1>1. PICK s \in Slots : conn[c].fw = {s} /\ heap[s].id = conn[c].id /\ conn[c].id # 0
  BY DEF CInv, Jobs, Counted, Uncount
<1>2. /\ heap' = [heap EXCEPT ![s].active = OneLess(heap[s].active)]
      /\ conn' = [conn EXCEPT ![c].st = "ended"] /\ conn[c].st = "uncount"
  BY <1>1 DEF Uncount
<1>3. /\ heap \in [Slots -> Cell]
      /\ conn \in [Conns -> [st : {"new", "queued", "accepted", "relay", "uncount", "ended"},
                             sock : Ids \cup {-1}, fw : SUBSET Slots, id : Nat]]
  BY DEF IInv, TypeOK, Cell
<1>4. /\ \A t \in Slots : heap'[t].id = heap[t].id /\ (t # s => heap'[t].active = heap[t].active)
      /\ heap'[s].active = OneLess(heap[s].active)
  BY <1>2, <1>3 DEF Cell
<1>5. conn'[c].st = "ended" /\ \A d \in Conns : d # c => conn'[d] = conn[d]
  BY <1>2, <1>3
<1> DEFINE n == heap[s].id
<1>6. /\ c \in Relays(n) /\ Relays(n)' = Relays(n) \ {c}
      /\ \A m : m # n => Relays(m)' = Relays(m)
  BY <1>1, <1>2, <1>5 DEF Relays, Counted
<1>7. /\ IsFiniteSet(Relays(n)) /\ Cardinality(Relays(n)) \in Nat
      /\ Cardinality(Relays(n)') = Cardinality(Relays(n)) - 1
  BY <1>6, FS_Subset, FS_RemoveElement, FS_CardinalityType DEF Relays
<1>8. Cardinality(Relays(n)') \in Nat
  BY <1>6, <1>7, FS_RemoveElement, FS_CardinalityType
<1>9. heap[s].active = Cardinality(Relays(n))
  BY <1>1 DEF CInv, Count
<1>10. heap'[s].active = Cardinality(Relays(n)')
  <2> DEFINE a == Cardinality(Relays(n))
  <2>1. a \in Nat /\ a - 1 \in Nat
    BY <1>7, <1>8
  <2> HIDE DEF a
  <2>2. OneLess(a) = a - 1
    BY <2>1 DEF OneLess
  <2> QED
    BY <1>4, <1>7, <1>9, <2>2 DEF a
<1>11. Count'
  <2> SUFFICES ASSUME NEW t \in Slots, heap[t].id # 0
      PROVE  heap'[t].active = Cardinality(Relays(heap[t].id)')
    BY <1>4 DEF Count, Relays, Counted
  <2>1. CASE t = s
    BY <1>10, <2>1
  <2>2. CASE t # s
    <3>1. heap[t].id # n
      BY <1>1, <2>2 DEF LInv, Own
    <3> QED
      BY <1>4, <1>6, <2>2, <3>1 DEF CInv, Count
  <2> QED
    BY <2>1, <2>2
<1>12. Jobs'
  BY <1>4, <1>5 DEF CInv, Jobs, Counted
<1> QED
  BY <1>11, <1>12

LEMMA CountOther ==
  ASSUME IsFiniteSet(Conns), IInv, LInv, CInv,
         \/ \E c \in Conns, i \in Ids : Connect(c, i)
         \/ \E c \in Conns : Reset(c) \/ RelayEnds(c) \/ Uncount(c)
         \/ UNCHANGED vars
  PROVE  CInv'
<1>1. conn \in [Conns -> [st : {"new", "queued", "accepted", "relay", "uncount", "ended"},
                          sock : Ids \cup {-1}, fw : SUBSET Slots, id : Nat]]
  BY DEF IInv, TypeOK
<1>2. /\ acceptor' = acceptor
      /\ \A c \in Conns : conn[c].st = "accepted" => conn'[c] = conn[c]
  BY <1>1 DEF Connect, Reset, RelayEnds, Uncount, vars
<1>3. Waits'
  BY <1>2 DEF CInv, Waits, Waiting
<1>4. CASE \E c \in Conns : Uncount(c)
  BY <1>3, <1>4, CountUncount DEF CInv
<1>5. CASE \/ \E c \in Conns, i \in Ids : Connect(c, i)
           \/ \E c \in Conns : Reset(c) \/ RelayEnds(c)
           \/ UNCHANGED vars
  <2>1. heap' = heap
    BY <1>5 DEF Connect, Reset, RelayEnds, vars
  <2>2. ASSUME NEW c \in Conns, NEW i \in Ids, Connect(c, i) PROVE SameCounts
    BY <1>1, <2>1, <2>2 DEF Connect, SameCounts, Counted
  <2>3. ASSUME NEW c \in Conns, Reset(c) PROVE SameCounts
    BY <1>1, <2>1, <2>3 DEF Reset, SameCounts, Counted
  <2>4. ASSUME NEW c \in Conns, RelayEnds(c) PROVE SameCounts
    BY <1>1, <2>1, <2>4 DEF RelayEnds, SameCounts, Counted
  <2>5. UNCHANGED vars => SameCounts
    BY DEF vars, SameCounts, Counted
  <2>6. SameCounts
    BY <1>5, <2>2, <2>3, <2>4, <2>5
  <2> QED
    BY <1>3, <2>6, Uncounted DEF CInv
<1> QED
  BY <1>4, <1>5

LEMMA CountStep ==
  ASSUME IsFiniteSet(Conns), ~Reuse, ~Scribbles
  PROVE  IInv /\ LInv /\ CInv /\ [Next]_vars => CInv'
<1>1. \A s \in Slots : ~Scribble(s)
  BY DEF Scribble
<1> QED
  BY <1>1, CountThread, CountAdd, CountRemove, CountOther DEF Next

(* forward.c 121-122 and 165-171: as long as no freed block is used again, *)
(* active_connections of a listed forward is the number of its relays,     *)
(* whatever threads start and end them in whatever order.                  *)
THEOREM ConnectionsExactHolds ==
  ASSUME IsFiniteSet(Conns), ~Reuse, ~Scribbles
  PROVE  Spec => []ConnectionsExact
<1>1. IInv /\ CInv => ConnectionsExact
  <2> SUFFICES ASSUME IInv, CInv, NEW s \in forwards
      PROVE  heap[s].active = Cardinality({c \in Conns : conn[c].st \in {"relay", "uncount"}
                                                         /\ conn[c].id = heap[s].id})
    BY DEF ConnectionsExact
  <2>1. s \in Slots /\ heap[s].id # 0
    BY DEF IInv, TypeOK, Numbers, Ids
  <2> QED
    BY <2>1 DEF CInv, Count, Relays, Counted
<1> QED
  BY <1>1, ListenInit, ListenStep, CountInit, CountStep, Inductive, PTL DEF Spec

=============================================================================
