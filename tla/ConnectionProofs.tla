-------------------------- MODULE ConnectionProofs --------------------------
(***************************************************************************)
(* Theorems about Connection, for any number of connections, requests and  *)
(* buffer sizes: the types, that the JSON endpoints act on the body their  *)
(* client has sent, that the answer to an upload is true, that answers     *)
(* arrive, and that /api/exec/pipe runs what build_pipe_query was given.   *)
(***************************************************************************)
EXTENDS Connection, SequenceTheorems, FiniteSetTheorems, WellFoundedInduction, TLAPS

PcDomain == Kinds \cup {"none", "handshake", "continue", "dispatch", "body", "store",
                        "stored", "fread", "run", "close", "end"}
Clients == {"idle", "expect", "send", "done", "gone", "failed"}
Block == (Conns \X Nat) \cup {Framing}

----------------------------------------------------------------------------
(* Types.                                                                  *)

(* What TypeOK does not say: the request is one of Scenarios, and what is  *)
(* counted is counted for every connection.                                *)
Shape ==
  /\ req \in Scenarios
  /\ sent \in [Conns -> Nat] /\ taken \in [Conns -> Nat] /\ written \in [Conns -> Nat]
  /\ ran = [c \in Conns |-> ran[c]]

LEMMA StreamType ==
  ASSUME req \in Scenarios, NEW c \in Conns
  PROVE  /\ req[c].kind \in Kinds /\ req[c].size \in Nat
         /\ Body(c) \in Seq(Block) /\ Len(Body(c)) = req[c].size
         /\ \A k \in 1..Len(Body(c)) : Body(c)[k] = <<c, k>>
         /\ Stream(c) \in Seq(Block)
         /\ req[c].length # "chunked" => Stream(c) = Body(c)
<1>1. req[c].kind \in Kinds /\ req[c].size \in Nat
  BY ScenarioAssumption
<1>2. Body(c) \in Seq(Block) /\ Len(Body(c)) = req[c].size /\ \A k \in 1..Len(Body(c)) : Body(c)[k] = <<c, k>>
  BY <1>1 DEF Body, Block
<1>3. <<Framing>> \in Seq(Block)
  BY DEF Block
<1>4. Stream(c) \in Seq(Block) /\ (req[c].length # "chunked" => Stream(c) = Body(c))
  BY <1>2, <1>3 DEF Stream
<1> QED
  BY <1>1, <1>2, <1>4

LEMMA GotoType ==
  ASSUME TypeOK, NEW c \in Conns, NEW l \in PcDomain, Goto(c, l)
  PROVE  pc' \in [Conns -> PcDomain]
BY DEF TypeOK, Goto, PcDomain

LEMMA WriteType ==
  ASSUME TypeOK, NEW c \in Conns, NEW status \in Nat, Write(c, status)
  PROVE  out' \in [Conns -> Seq(Nat)]
BY DEF TypeOK, Write

LEMMA TakeType ==
  ASSUME TypeOK, Shape, NEW c \in Conns, Take(c), sent' = sent
  PROVE  /\ taken' \in [Conns -> Nat] /\ taken'[c] = taken[c] + 1
         /\ \A d \in Conns : taken'[d] \in 0..sent'[d] /\ taken'[d] >= taken[d]
<1>1. \A d \in Conns : sent[d] \in Nat /\ taken[d] \in 0..sent[d]
  BY DEF TypeOK, Shape
<1> QED
  BY <1>1 DEF Shape, Take, CanRead

(* What a step has to keep.                                                *)
Places == pc \in [Conns -> PcDomain] /\ out \in [Conns -> Seq(Nat)]
Counts == \A c \in Conns : sent[c] \in 0..Len(Stream(c)) /\ taken[c] \in 0..sent[c] /\ written[c] \in 0..taken[c]
Rest == /\ client \in [Conns -> Clients] /\ got \in [Conns -> Seq(Nat)]
        /\ link \in [Conns -> {"open", "closed", "reset"}]
        /\ limit \in [Conns -> Nat \cup {-1}]
        /\ kept \in [Conns -> BOOLEAN] /\ losses \in 0..MaxLosses

LEMMA TypeParts == TypeOK <=> Places /\ Counts /\ Rest
BY DEF TypeOK, Places, Counts, Rest, PcDomain, Clients

LEMMA TypePartsNext == TypeOK' <=> Places' /\ Counts' /\ Rest'
BY DEF TypeOK, Places, Counts, Rest, PcDomain, Clients

LEMMA StreamStays == ASSUME req' = req PROVE \A c \in Conns : Stream(c)' = Stream(c) /\ Body(c)' = Body(c)
BY DEF Stream, Body

LEMMA InitType == Init => TypeOK /\ Shape
<1> SUFFICES ASSUME Init PROVE TypeOK /\ Shape
  OBVIOUS
<1>1. Shape
  BY DEF Init, Shape
<1>2. Places
  BY DEF Init, Places, PcDomain
<1>3. Counts
  BY <1>1, StreamType DEF Init, Counts
<1>4. Rest
  BY BoundAssumption DEF Init, Rest, Clients
<1> QED
  BY <1>1, <1>2, <1>3, <1>4, TypeParts

(* Neither side has sent or read, and the file is as it was.               *)
LEMMA Idle ==
  ASSUME TypeOK, Shape, UNCHANGED <<req, sent, taken, written>>
  PROVE  Counts' /\ (ran' = [c \in Conns |-> ran'[c]] => Shape')
<1>1. \A c \in Conns : Stream(c)' = Stream(c)
  BY StreamStays
<1> QED
  BY <1>1, TypeParts DEF Counts, Shape

LEMMA ClientTypes ==
  ASSUME TypeOK, Shape, NEW c \in Conns, Connect(c) \/ Client(c) \/ BreakOff(c)
  PROVE  TypeOK' /\ Shape'
<1> USE TypeParts
<1>1. CASE Connect(c)
  <2>1. Places'
    <3>1. "handshake" \in PcDomain
      BY DEF PcDomain
    <3> QED
      BY <1>1, <3>1, GotoType DEF Connect, Places
  <2>2. Rest'
    BY <1>1 DEF Connect, Rest, Clients, fileVars
  <2> QED
    BY <1>1, <2>1, <2>2, Idle, TypePartsNext DEF Connect, fileVars, Shape
<1>2. CASE Send(c)
  <2>1. \A d \in Conns : Stream(d)' = Stream(d) /\ Stream(d) \in Seq(Block)
    BY <1>2, StreamStays, StreamType DEF Send, Shape
  <2>2. Counts'
    BY <1>2, <2>1 DEF Send, Counts, Shape, fileVars
  <2>3. Places' /\ Rest'
    BY <1>2 DEF Send, Places, Rest, fileVars
  <2>4. Shape'
    BY <1>2 DEF Send, Shape, fileVars
  <2> QED
    BY <2>2, <2>3, <2>4, TypePartsNext
<1>3. CASE Receive(c)
  <2>1. out[c] \in Seq(Nat) /\ out[c] # <<>> /\ got[c] \in Seq(Nat)
    BY <1>3 DEF Receive, Places, Rest
  <2>2. Head(out[c]) \in Nat /\ Tail(out[c]) \in Seq(Nat)
    BY <2>1
  <2>3. Append(got[c], Head(out[c])) \in Seq(Nat)
    BY <2>1, <2>2
  <2>4. Places'
    BY <1>3, <2>2 DEF Receive, Places
  <2>5. got' \in [Conns -> Seq(Nat)]
    BY <1>3, <2>3 DEF Receive, Rest
  <2>6. client' \in [Conns -> Clients]
    BY <1>3 DEF Receive, Rest, Clients
  <2>7. Rest'
    BY <1>3, <2>5, <2>6 DEF Receive, Rest, fileVars
  <2> QED
    BY <1>3, <2>4, <2>7, Idle, TypePartsNext DEF Receive, fileVars, Shape
<1>4. CASE Fail(c) \/ BreakOff(c)
  <2>1. Places' /\ Rest'
    BY <1>4 DEF Fail, BreakOff, Places, Rest, Clients, fileVars
  <2> QED
    BY <1>4, <2>1, Idle, TypePartsNext DEF Fail, BreakOff, fileVars, Shape
<1> QED
  BY <1>1, <1>2, <1>3, <1>4 DEF Client

(* A step of the thread that answers or goes on and reads nothing.         *)
LEMMA StillTypes ==
  ASSUME TypeOK, Shape, Places', UNCHANGED <<req, clientVars, taken, written>>,
         limit' \in [Conns -> Nat \cup {-1}], kept' \in [Conns -> BOOLEAN],
         losses' \in 0..MaxLosses, link' \in [Conns -> {"open", "closed", "reset"}],
         ran' = [d \in Conns |-> ran'[d]]
  PROVE  TypeOK' /\ Shape'
<1>1. Counts' /\ Shape'
  BY Idle DEF clientVars
<1>2. Rest'
  BY TypeParts DEF Rest, clientVars
<1> QED
  BY <1>1, <1>2, TypePartsNext

LEMMA Moves ==
  ASSUME TypeOK, NEW c \in Conns, NEW l \in PcDomain, Goto(c, l), UNCHANGED out
  PROVE  Places'
BY GotoType, TypeParts DEF Places

LEMMA Answers ==
  ASSUME TypeOK, NEW c \in Conns, NEW status \in Nat, Reply(c, status)
  PROVE  Places'
<1>1. "close" \in PcDomain
  BY DEF PcDomain
<1> QED
  BY <1>1, GotoType, WriteType DEF Places, Reply

(* A step of the thread that reads a block; nothing but the place and the  *)
(* answers changes beside it.                                              *)
LEMMA ReadTypes ==
  ASSUME TypeOK, Shape, Places', NEW c \in Conns, Take(c),
         UNCHANGED <<req, clientVars, link, limit, fileVars, ran>>
  PROVE  TypeOK' /\ Shape'
<1>1. /\ taken' \in [Conns -> Nat]
      /\ \A d \in Conns : taken'[d] \in 0..sent'[d] /\ taken'[d] >= taken[d]
  BY TakeType DEF clientVars
<1>2. \A d \in Conns : Stream(d)' = Stream(d)
  BY StreamStays
<1>3. Counts'
  <2> SUFFICES ASSUME NEW d \in Conns
               PROVE  /\ sent'[d] \in 0..Len(Stream(d)') /\ taken'[d] \in 0..sent'[d]
                      /\ written'[d] \in 0..taken'[d]
    BY DEF Counts
  <2>1. sent[d] \in 0..Len(Stream(d)) /\ written[d] \in 0..taken[d] /\ taken[d] \in Nat /\ taken'[d] \in Nat
    BY <1>1, TypeParts DEF Counts, Shape
  <2> QED
    BY <1>1, <1>2, <2>1 DEF clientVars, fileVars
<1>4. Rest' /\ Shape'
  BY <1>1, TypeParts DEF Rest, Shape, clientVars, fileVars
<1> QED
  BY <1>3, <1>4, TypePartsNext

LEMMA LimitType ==
  ASSUME TypeOK, Shape, NEW c \in Conns
  PROVE  ContentLength(c) \in Nat \cup {-1} /\ BodyLimit(c) \in Nat \cup {-1}
<1>1. req[c].size \in Nat /\ limit[c] \in Nat \cup {-1}
  BY StreamType, TypeParts DEF Shape, Rest
<1> QED
  BY <1>1, BoundAssumption DEF ContentLength, BodyLimit

LEMMA ThreadTypes ==
  ASSUME TypeOK, Shape, NEW c \in Conns,
         Handshake(c) \/ Continue(c) \/ Dispatch(c) \/ HandleJson(c) \/ HandleInfo(c)
           \/ HandleForwards(c) \/ Close(c) \/ HandlePipe(c)
  PROVE  TypeOK' /\ Shape'
<1> USE TypeParts
<1>0. {"close", "end", "continue", "dispatch", "body", "run"} \cup Kinds \subseteq PcDomain
  BY DEF PcDomain
<1>1. CASE Handshake(c)
  <2>1. limit' \in [Conns -> Nat \cup {-1}]
    BY <1>1, LimitType DEF Handshake, Rest
  <2>2. Places'
    BY <1>0, <1>1, Moves, Answers DEF Handshake
  <2> QED
    BY <1>1, <2>1, <2>2, StillTypes DEF Handshake, Rest, Shape, fileVars
<1>2. CASE Continue(c)
  <2>1. Places'
    BY <1>0, <1>2, GotoType, WriteType DEF Continue, Places
  <2> QED
    BY <1>2, <2>1, StillTypes DEF Continue, Rest, Shape, fileVars
<1>3. CASE Dispatch(c)
  <2>1. limit' \in [Conns -> Nat \cup {-1}]
    BY <1>3, LimitType DEF Dispatch, Rest
  <2>2. Places'
    <3>1. req[c].kind \in PcDomain
      BY <1>0, StreamType DEF Shape
    <3> QED
      BY <1>0, <1>3, <3>1, Moves DEF Dispatch
  <2> QED
    BY <1>3, <2>1, <2>2, StillTypes DEF Dispatch, Rest, Shape, fileVars
<1>4. CASE HandleJson(c)
  <2>1. Places'
    BY <1>4, Answers DEF HandleJson
  <2>2. ran' = [d \in Conns |-> ran'[d]]
    BY <1>4 DEF HandleJson, Shape
  <2> QED
    BY <1>4, <2>1, <2>2, StillTypes DEF HandleJson, Rest, fileVars
<1>5. CASE HandleInfo(c) \/ HandleForwards(c)
  <2>1. Places'
    BY <1>5, Answers DEF HandleInfo, HandleForwards
  <2> QED
    BY <1>5, <2>1, StillTypes DEF HandleInfo, HandleForwards, Rest, Shape, fileVars
<1>6. CASE Close(c)
  <2>1. Places'
    BY <1>0, <1>6, Moves DEF Close
  <2>2. link' \in [Conns -> {"open", "closed", "reset"}]
    BY <1>6 DEF Close, Rest
  <2> QED
    BY <1>6, <2>1, <2>2, StillTypes DEF Close, Rest, Shape, fileVars
<1>7. CASE HandlePipe(c)
  <2>1. Places'
    BY <1>0, <1>7, Answers, Moves DEF HandlePipe
  <2>2. ran' = [d \in Conns |-> ran'[d]]
    BY <1>7 DEF HandlePipe, Shape
  <2> QED
    BY <1>7, <2>1, <2>2, StillTypes DEF HandlePipe, Rest, fileVars
<1> QED
  BY <1>1, <1>2, <1>3, <1>4, <1>5, <1>6, <1>7

LEMMA ReaderTypes ==
  ASSUME TypeOK, Shape, NEW c \in Conns, ReadBody(c) \/ RunPipe(c) \/ RefuseUpdate(c)
  PROVE  TypeOK' /\ Shape'
<1> USE TypeParts
<1>1. req[c].kind \in PcDomain
  BY StreamType DEF Shape, PcDomain
<1>2. Places'
  <2>1. CASE ReadBody(c)
    BY <1>1, <2>1, Moves DEF ReadBody, Route, Places
  <2>2. CASE RunPipe(c) \/ RefuseUpdate(c)
    BY <2>2, Answers DEF RunPipe, RefuseUpdate, Places
  <2> QED
    BY <2>1, <2>2
<1>3. CASE Take(c)
  BY <1>2, <1>3, ReadTypes DEF ReadBody, RunPipe, RefuseUpdate
<1>4. CASE taken' = taken
  BY <1>2, <1>4, StillTypes DEF ReadBody, RunPipe, RefuseUpdate, Rest, Shape, fileVars
<1> QED
  BY <1>3, <1>4 DEF ReadBody, RunPipe, RefuseUpdate

LEMMA FileTypes ==
  ASSUME TypeOK, Shape, NEW c \in Conns,
         OpenUpload(c) \/ Store(c) \/ StoreEnds(c) \/ CloseUpload(c) \/ OpenDownload(c) \/ ReadFile(c)
  PROVE  TypeOK' /\ Shape'
<1> USE TypeParts
<1>0. {"store", "stored", "fread"} \subseteq PcDomain
  BY DEF PcDomain
<1>1. CASE OpenUpload(c) \/ OpenDownload(c) \/ ReadFile(c)
  <2>1. Places'
    BY <1>0, <1>1, Answers, Moves DEF OpenUpload, OpenDownload, ReadFile
  <2> QED
    BY <1>1, <2>1, StillTypes DEF OpenUpload, OpenDownload, ReadFile, Rest, Shape, fileVars
<1>2. CASE Store(c)
  <2>1. Places'
    BY <1>0, <1>2, Moves DEF Store, Places
  <2>2. /\ taken' \in [Conns -> Nat] /\ taken'[c] = taken[c] + 1
        /\ \A d \in Conns : taken'[d] \in 0..sent'[d] /\ taken'[d] >= taken[d]
    BY <1>2, TakeType DEF Store, clientVars
  <2>3. \A d \in Conns : Stream(d)' = Stream(d)
    BY <1>2, StreamStays DEF Store
  <2>4. PICK ok, b \in BOOLEAN : /\ written' = [written EXCEPT ![c] = Counted(c, ok)]
                                /\ kept' = [kept EXCEPT ![c] = ok /\ b]
    BY <1>2 DEF Store
  <2>5. written' \in [Conns -> Nat] /\ kept' \in [Conns -> BOOLEAN]
    BY <2>4 DEF Shape, Rest, Counted
  <2>6. Counts'
    <3> SUFFICES ASSUME NEW d \in Conns
                 PROVE  /\ sent'[d] \in 0..Len(Stream(d)') /\ taken'[d] \in 0..sent'[d]
                        /\ written'[d] \in 0..taken'[d]
      BY DEF Counts
    <3>1. /\ sent[d] \in 0..Len(Stream(d)) /\ written[d] \in 0..taken[d]
          /\ taken[d] \in Nat /\ taken'[d] \in Nat
      BY <2>2 DEF Counts, Shape
    <3>2. written'[d] \in 0..taken'[d]
      BY <2>2, <2>4, <3>1 DEF Shape, Counted
    <3> QED
      BY <1>2, <2>2, <2>3, <3>1, <3>2 DEF Store, clientVars
  <2>7. Rest' /\ Shape'
    BY <1>2, <2>2, <2>5 DEF Store, Rest, Shape, clientVars
  <2> QED
    BY <2>1, <2>6, <2>7, TypePartsNext
<1>3. CASE StoreEnds(c)
  <2>1. Places'
    BY <1>0, <1>3, Moves DEF StoreEnds
  <2> QED
    BY <1>3, <2>1, StillTypes DEF StoreEnds, Rest, Shape, fileVars
<1>4. CASE CloseUpload(c)
  <2>1. Places'
    BY <1>4, Answers DEF CloseUpload
  <2>2. losses' \in 0..MaxLosses /\ kept' \in [Conns -> BOOLEAN]
    BY <1>4, BoundAssumption DEF CloseUpload, Rest
  <2> QED
    BY <1>4, <2>1, <2>2, StillTypes DEF CloseUpload, Rest, Shape
<1> QED
  BY <1>1, <1>2, <1>3, <1>4

LEMMA StepType == TypeOK /\ Shape /\ [Next]_vars => TypeOK' /\ Shape'
<1> SUFFICES ASSUME TypeOK, Shape, [Next]_vars PROVE TypeOK' /\ Shape'
  OBVIOUS
<1>1. CASE UNCHANGED vars
  <2>1. Places' /\ Rest'
    BY <1>1, TypeParts DEF vars, clientVars, fileVars, Places, Rest
  <2> QED
    BY <1>1, <2>1, Idle, TypePartsNext DEF vars, clientVars, fileVars, Shape
<1>2. ASSUME NEW c \in Conns, Connect(c) \/ Client(c) \/ BreakOff(c) \/ Server(c) \/ Piped(c)
      PROVE  TypeOK' /\ Shape'
  BY <1>2, ClientTypes, ThreadTypes, ReaderTypes, FileTypes DEF Server, Piped
<1> QED
  BY <1>1, <1>2 DEF Next

(* server.c 116-225 and handler.c 238-274: every variable keeps its type,  *)
(* and no thread reads more blocks than its client has sent, nor counts    *)
(* more than it has read, for any number of connections and requests.      *)
THEOREM ConnectionTypeCorrect == Spec => []TypeOK
<1>1. Spec => [](TypeOK /\ Shape)
  BY InitType, StepType, PTL DEF Spec
<1> QED
  BY <1>1, PTL

----------------------------------------------------------------------------
(* Where a thread is tells what it was asked for.                          *)

Early == {"none", "handshake", "continue", "dispatch", "upload"}
Storing == {"store", "stored"}
Over == {"close", "end"}

Asked == \A c \in Conns :
  /\ pc[c] \in {"upload"} \cup Storing => req[c].kind = "upload"
  /\ pc[c] \in {"pipe", "run"} => req[c].kind = "pipe"
  /\ pc[c] = "json" => req[c].kind = "json"
  /\ pc[c] = "update" => req[c].kind = "update"
  /\ req[c].kind = "upload" => pc[c] \in Early \cup Storing \cup Over
  /\ client[c] = "idle" => pc[c] = "none" /\ out[c] = <<>> /\ link[c] = "open"
  /\ pc[c] = "none" => client[c] = "idle"

LEMMA InitAsked == Init => Asked
BY DEF Init, Asked, Early, Storing

LEMMA ClientAsked ==
  ASSUME TypeOK, Asked, NEW c \in Conns, Connect(c) \/ Client(c) \/ BreakOff(c)
  PROVE  Asked'
<1>1. req' = req /\ client \in [Conns -> Clients] /\ pc \in [Conns -> PcDomain]
  BY TypeParts DEF Connect, Client, Send, Receive, Fail, BreakOff, Rest, Places
<1>2. CASE Connect(c)
  BY <1>1, <1>2 DEF Connect, Asked, Goto, Early, Storing, Over, fileVars
<1>3. CASE Client(c) \/ BreakOff(c)
  <2>1. pc' = pc
    BY <1>3 DEF Client, Send, Receive, Fail, BreakOff
  <2>2. client[c] # "idle" /\ client'[c] # "idle"
    BY <1>1, <1>3 DEF Client, Send, Receive, Fail, BreakOff, Away, Asked
  <2>3. \A d \in Conns : d # c => client'[d] = client[d] /\ out'[d] = out[d] /\ link'[d] = link[d]
    BY <1>1, <1>3, TypeParts DEF Client, Send, Receive, Fail, BreakOff, Places, Rest
  <2> QED
    BY <1>1, <2>1, <2>2, <2>3 DEF Asked
<1> QED
  BY <1>2, <1>3

LEMMA ServerAsked ==
  ASSUME TypeOK, Shape, Asked, NEW c \in Conns, Server(c) \/ Piped(c)
  PROVE  Asked'
<1>1. /\ req' = req /\ client' = client /\ req[c].kind \in Kinds
      /\ pc \in [Conns -> PcDomain] /\ pc[c] # "none"
  <2>1. req[c].kind \in Kinds /\ pc \in [Conns -> PcDomain]
    BY TypeParts, StreamType DEF Shape, Places
  <2> QED
    BY <2>1 DEF Server, Piped, Handshake, Continue, Dispatch, ReadBody, HandleJson, HandleInfo,
       HandleForwards, Close, OpenUpload, Store, StoreEnds, CloseUpload, OpenDownload, ReadFile,
       RefuseUpdate, HandlePipe, RunPipe, clientVars
<1>2. /\ pc' = [pc EXCEPT ![c] = pc'[c]]
      /\ \/ pc'[c] = pc[c] \/ pc'[c] \in Over
         \/ pc[c] = "handshake" /\ pc'[c] \in {"continue", "dispatch"}
         \/ pc[c] = "continue" /\ pc'[c] = "dispatch"
         \/ pc[c] = "dispatch" /\ req[c].kind \in {"upload", "pipe", "update"} /\ pc'[c] = req[c].kind
         \/ pc[c] = "dispatch" /\ req[c].kind \notin {"upload", "pipe", "update"} /\ pc'[c] = "body"
         \/ pc[c] = "body" /\ pc'[c] = req[c].kind
         \/ pc[c] = "upload" /\ pc'[c] = "store"
         \/ pc[c] = "store" /\ pc'[c] = "stored"
         \/ pc[c] = "download" /\ pc'[c] = "fread"
         \/ pc[c] = "pipe" /\ pc'[c] = "run"
  <2> USE <1>1 DEF Goto, Reply, Over
  <2>1. CASE Handshake(c) \/ Continue(c) \/ Dispatch(c) \/ ReadBody(c)
    BY <2>1 DEF Handshake, Continue, Dispatch, ReadBody, Route
  <2>2. CASE HandleJson(c) \/ HandleInfo(c) \/ HandleForwards(c) \/ Close(c)
    BY <2>2 DEF HandleJson, HandleInfo, HandleForwards, Close
  <2>3. CASE OpenUpload(c) \/ Store(c) \/ StoreEnds(c) \/ CloseUpload(c)
    BY <2>3 DEF OpenUpload, Store, StoreEnds, CloseUpload
  <2>4. CASE OpenDownload(c) \/ ReadFile(c) \/ RefuseUpdate(c) \/ HandlePipe(c) \/ RunPipe(c)
    BY <2>4 DEF OpenDownload, ReadFile, RefuseUpdate, HandlePipe, RunPipe
  <2> QED
    BY <2>1, <2>2, <2>3, <2>4 DEF Server, Piped
<1>3. \A d \in Conns : d # c => pc'[d] = pc[d]
  BY <1>1, <1>2
<1>4. pc'[c] # "none"
  BY <1>1, <1>2 DEF Over, Kinds
<1>5. \A d \in Conns : d # c => out'[d] = out[d] /\ link'[d] = link[d]
  BY TypeParts DEF Server, Piped, Handshake, Continue, Dispatch, ReadBody, HandleJson, HandleInfo,
     HandleForwards, Close, OpenUpload, Store, StoreEnds, CloseUpload, OpenDownload, ReadFile,
     RefuseUpdate, HandlePipe, RunPipe, Reply, Write, Places, Rest
<1>6. client[c] # "idle"
  BY <1>1 DEF Asked
<1> QED
  BY <1>1, <1>2, <1>3, <1>4, <1>5, <1>6 DEF Asked, Early, Storing, Over, Kinds

LEMMA StepAsked == TypeOK /\ Shape /\ Asked /\ [Next]_vars => Asked'
<1> SUFFICES ASSUME TypeOK, Shape, Asked, [Next]_vars PROVE Asked'
  OBVIOUS
<1>1. CASE UNCHANGED vars
  BY <1>1 DEF vars, clientVars, Asked
<1>2. ASSUME NEW c \in Conns, Connect(c) \/ Client(c) \/ BreakOff(c) \/ Server(c) \/ Piped(c)
      PROVE  Asked'
  BY <1>2, ClientAsked, ServerAsked
<1> QED
  BY <1>1, <1>2 DEF Next

----------------------------------------------------------------------------
(* The JSON endpoints.                                                     *)

Announced(c) == req[c].length = "given" /\ req[c].size > 0

(* The length that was announced is what the thread goes by.               *)
Lengths == \A c \in Conns : Announced(c) =>
  /\ pc[c] \in {"continue", "dispatch"} => limit[c] = req[c].size
  /\ pc[c] \in {"body", "json"} => limit[c] > 0

BInv == Lengths /\ OwnBody

LEMMA InitBody == Init => BInv
BY DEF Init, BInv, Lengths, OwnBody

(* A body that was read and is that of some request is the own one.        *)
LEMMA ReadOwn ==
  ASSUME TypeOK, Shape, NEW c \in Conns, Announced(c), NEW d \in Conns,
         Body(d) # None, Body(d) = SubSeq(Stream(c), 1, taken[c])
  PROVE  Body(d) = Body(c)
<1>1. /\ Stream(c) = Body(c) /\ Body(c) \in Seq(Block) /\ Body(d) \in Seq(Block)
      /\ \A k \in 1..Len(Body(c)) : Body(c)[k] = <<c, k>>
      /\ \A k \in 1..Len(Body(d)) : Body(d)[k] = <<d, k>>
  BY StreamType DEF Shape, Announced
<1>2. taken[c] \in Nat /\ taken[c] <= Len(Body(c))
  BY <1>1, TypeParts DEF Counts, Shape
<1>3. /\ Len(Body(d)) = taken[c]
      /\ \A k \in 1..taken[c] : Body(d)[k] = Body(c)[k]
  BY <1>1, <1>2
<1>4. taken[c] # 0
  BY <1>1, <1>3 DEF None
<1>5. Body(d)[1] = Body(c)[1] /\ Body(d)[1] = <<d, 1>> /\ Body(c)[1] = <<c, 1>>
  <2>1. 1 \in 1..taken[c] /\ 1 \in 1..Len(Body(d)) /\ 1 \in 1..Len(Body(c))
    BY <1>2, <1>3, <1>4
  <2> QED
    BY <1>1, <1>3, <2>1
<1>6. <<d, 1>>[1] = <<c, 1>>[1]
  BY <1>5
<1>7. d = c
  BY <1>6
<1> QED
  BY <1>7

LEMMA StepBody ==
  ASSUME BodyCap > 0, TypeOK, Shape, Asked, BInv, [Next]_vars
  PROVE  BInv'
<1>1. CASE UNCHANGED vars
  BY <1>1, StreamStays DEF vars, BInv, Lengths, OwnBody, Announced
<1>2. ASSUME NEW c \in Conns, Connect(c) \/ Client(c) \/ BreakOff(c) PROVE BInv'
  <2>1. req' = req /\ limit' = limit /\ ran' = ran
    BY <1>2 DEF Connect, Client, Send, Receive, Fail, BreakOff
  <2>2. pc' = pc \/ pc' = [pc EXCEPT ![c] = "handshake"]
    BY <1>2 DEF Connect, Client, Send, Receive, Fail, BreakOff, Goto
  <2>3. Lengths'
    BY <2>1, <2>2, TypeParts DEF BInv, Lengths, Announced, Places
  <2>4. OwnBody'
    BY <2>1, StreamStays DEF BInv, OwnBody
  <2> QED
    BY <2>3, <2>4 DEF BInv
<1>3. ASSUME NEW c \in Conns, Server(c) \/ Piped(c) PROVE BInv'
  <2> USE <1>3 DEF Server, Piped
  <2>0. /\ req' = req /\ req[c].kind \in Kinds /\ req[c].size \in Nat
        /\ pc \in [Conns -> PcDomain] /\ limit \in [Conns -> Nat \cup {-1}]
    <3>1. req[c].kind \in Kinds /\ req[c].size \in Nat
      BY StreamType DEF Shape
    <3>2. pc \in [Conns -> PcDomain] /\ limit \in [Conns -> Nat \cup {-1}]
      BY TypeParts DEF Places, Rest
    <3>3. req' = req
      BY DEF Handshake, Continue, Dispatch, ReadBody, HandleJson, HandleInfo, HandleForwards, Close,
         OpenUpload, Store, StoreEnds, CloseUpload, OpenDownload, ReadFile, RefuseUpdate, HandlePipe, RunPipe
    <3> QED
      BY <3>1, <3>2, <3>3
  <2>1. Lengths'
    <3>1. \A d \in Conns : d # c => pc'[d] = pc[d] /\ limit'[d] = limit[d]
      BY <2>0 DEF Handshake, Continue, Dispatch, ReadBody, HandleJson, HandleInfo, HandleForwards, Close,
         OpenUpload, Store, StoreEnds, CloseUpload, OpenDownload, ReadFile, RefuseUpdate, HandlePipe, RunPipe,
         Reply, Goto
    <3>2. ASSUME Announced(c)
          PROVE  /\ pc'[c] \in {"continue", "dispatch"} => limit'[c] = req[c].size
                 /\ pc'[c] \in {"body", "json"} => limit'[c] > 0
      <4> USE <2>0, <3>2 DEF Goto, Reply
      <4>1. CASE Handshake(c)
        BY <4>1 DEF Handshake, ContentLength, Announced
      <4>2. CASE Continue(c)
        BY <4>2 DEF Continue, BInv, Lengths
      <4>3. CASE Dispatch(c)
        <5>1. limit[c] = req[c].size /\ req[c].size > 0
          BY <4>3 DEF Dispatch, BInv, Lengths, Announced
        <5>2. BodyLimit(c) > 0
          BY <5>1, BoundAssumption DEF BodyLimit
        <5> QED
          BY <4>3, <5>2 DEF Dispatch
      <4>4. CASE ReadBody(c)
        BY <4>4 DEF ReadBody, BInv, Lengths, Route, Kinds
      <4>5. CASE HandleJson(c) \/ HandleInfo(c) \/ HandleForwards(c) \/ Close(c) \/ OpenUpload(c) \/ Store(c)
                   \/ StoreEnds(c) \/ CloseUpload(c) \/ OpenDownload(c) \/ ReadFile(c)
        <5>1. pc'[c] \notin {"continue", "dispatch", "body", "json"}
          BY <4>5 DEF HandleJson, HandleInfo, HandleForwards, Close, OpenUpload, Store, StoreEnds, CloseUpload,
             OpenDownload, ReadFile
        <5> QED
          BY <5>1
      <4>6. CASE RefuseUpdate(c) \/ HandlePipe(c) \/ RunPipe(c)
        <5>1. pc'[c] \notin {"continue", "dispatch", "body", "json"}
          BY <4>6 DEF RefuseUpdate, HandlePipe, RunPipe
        <5> QED
          BY <5>1
      <4> QED
        BY <4>1, <4>2, <4>3, <4>4, <4>5, <4>6
    <3> QED
      BY <2>0, <3>1, <3>2 DEF BInv, Lengths, Announced
  <2>2. OwnBody'
    <3>1. CASE ran' = ran
      BY <2>0, <3>1, StreamStays DEF BInv, OwnBody
    <3>2. CASE HandlePipe(c)
      <4>1. req[c].kind = "pipe"
        BY <3>2 DEF HandlePipe, Asked
      <4>2. \A d \in Conns : d # c => ran'[d] = ran[d]
        BY <3>2 DEF HandlePipe, Shape
      <4> QED
        BY <2>0, <4>1, <4>2, StreamStays DEF BInv, OwnBody
    <3>3. CASE HandleJson(c) /\ ran' # ran
      <4>1. PICK b \in Buffers(c) : /\ b # None /\ \E d \in Conns : b = Body(d)
                                   /\ ran' = [ran EXCEPT ![c] = b]
        BY <3>3 DEF HandleJson
      <4>2. PICK d \in Conns : b = Body(d)
        BY <4>1
      <4>3. ran'[c] = b /\ \A e \in Conns : e # c => ran'[e] = ran[e]
        BY <4>1 DEF Shape
      <4>4. ASSUME Announced(c) PROVE b = Body(c)
        <5>1. limit[c] > 0
          BY <3>3, <4>4 DEF HandleJson, BInv, Lengths
        <5>2. b = SubSeq(Stream(c), 1, taken[c])
          BY <4>1, <5>1 DEF Buffers
        <5> QED
          BY <4>1, <4>2, <4>4, <5>2, ReadOwn
      <4> QED
        BY <2>0, <4>3, <4>4, StreamStays DEF BInv, OwnBody, Announced
    <3>4. HandleJson(c) \/ HandlePipe(c) \/ ran' = ran
      BY DEF Handshake, Continue, Dispatch, ReadBody, HandleInfo, HandleForwards, Close,
         OpenUpload, Store, StoreEnds, CloseUpload, OpenDownload, ReadFile, RefuseUpdate, RunPipe
    <3> QED
      BY <3>1, <3>2, <3>3, <3>4
  <2> QED
    BY <2>1, <2>2 DEF BInv
<1> QED
  BY <1>1, <1>2, <1>3 DEF Next

(* server.c 116-127 and 211-215: whatever other threads have left on the   *)
(* stack, a JSON endpoint whose request announces the length of its body   *)
(* acts on that body, the whole of it.                                     *)
THEOREM OwnBodyHolds ==
  ASSUME BodyCap > 0
  PROVE  Spec => []OwnBody
<1>1. TypeOK /\ Shape /\ Asked /\ BInv /\ [Next]_vars => TypeOK' /\ Shape' /\ Asked' /\ BInv'
  BY StepType, StepAsked, StepBody
<1>2. BInv => OwnBody
  BY DEF BInv
<1> QED
  BY <1>1, <1>2, InitType, InitAsked, InitBody, PTL DEF Spec

----------------------------------------------------------------------------
(* An upload that no other upload disturbs.                                *)

Sole(c) == req[c].kind = "upload" /\ \A d \in Conns \ {c} : req[d].kind # "upload"
InBuffer(c) == IF kept[c] THEN 1 ELSE 0

Filling(c) ==
  /\ pc[c] \in Early => taken[c] = 0 /\ written[c] = 0 /\ ~kept[c] /\ losses = 0
  /\ pc[c] = "store" => written[c] = taken[c]
  /\ pc[c] \in Storing => /\ losses = 0 /\ InBuffer(c) <= written[c]
                           /\ file = SubSeq(Stream(c), 1, written[c] - InBuffer(c))
  /\ pc[c] \in Over /\ written[c] > 0 => file = SubSeq(Stream(c), 1, written[c] - losses)

FInv == \A c \in Conns : Sole(c) => Filling(c)

LEMMA InitFile == Init => FInv
BY DEF Init, FInv, Filling, Storing, Over

LEMMA StoredNext ==
  ASSUME req \in Scenarios, NEW c \in Conns, NEW k \in Nat, k > 0, k <= Len(Stream(c)),
         NEW f, f = SubSeq(Stream(c), 1, k - 1)
  PROVE  Stored(f, c, k) = SubSeq(Stream(c), 1, k)
<1>1. Stream(c) \in Seq(Block)
  BY StreamType
<1>2. Len(f) = k - 1 /\ \A i \in 1..k - 1 : f[i] = Stream(c)[i]
  BY <1>1
<1>3. Stored(f, c, k) = [i \in 1..k |-> Stream(c)[i]]
  BY <1>2 DEF Stored
<1>4. SubSeq(Stream(c), 1, k) = [i \in 1..k |-> Stream(c)[i]]
  BY <1>1
<1> QED
  BY <1>3, <1>4

LEMMA FlushedAll ==
  ASSUME TypeOK, Shape, NEW c \in Conns, Filling(c), pc[c] \in Storing
  PROVE  Flushed(c) = SubSeq(Stream(c), 1, written[c])
<1>1. /\ written[c] \in Nat /\ written[c] <= Len(Stream(c)) /\ kept[c] \in BOOLEAN
      /\ Stream(c) \in Seq(Block)
  BY TypeParts, StreamType DEF Counts, Rest, Shape
<1>2. CASE kept[c]
  <2>1. written[c] > 0 /\ file = SubSeq(Stream(c), 1, written[c] - 1)
    BY <1>1, <1>2 DEF Filling, InBuffer
  <2> QED
    BY <1>1, <1>2, <2>1, StoredNext DEF Flushed, Shape
<1>3. CASE ~kept[c]
  BY <1>1, <1>3 DEF Flushed, Filling, InBuffer
<1> QED
  BY <1>1, <1>2, <1>3

(* A step that leaves the upload and the file alone.                       *)
LEMMA Undisturbed ==
  ASSUME NEW c \in Conns, Filling(c), UNCHANGED <<req, file, losses>>,
         pc'[c] = pc[c] \/ (pc[c] \in Early /\ pc'[c] \in Early \cup Over),
         taken'[c] = taken[c], written'[c] = written[c], kept'[c] = kept[c]
  PROVE  Filling(c)'
<1>1. Stream(c)' = Stream(c) /\ InBuffer(c)' = InBuffer(c)
  BY StreamStays DEF InBuffer
<1>2. (Early \cup Over) \cap Storing = {} /\ Early \cap Over = {}
  BY DEF Early, Storing, Over
<1>3. CASE pc'[c] = pc[c]
  BY <1>1, <1>3 DEF Filling
<1>4. CASE pc[c] \in Early /\ pc'[c] \in Early \cup Over
  BY <1>1, <1>2, <1>4 DEF Filling, Storing
<1> QED
  BY <1>3, <1>4

LEMMA StoreFile ==
  ASSUME TypeOK, Shape, NEW c \in Conns, Filling(c), Store(c)
  PROVE  Filling(c)'
<1>0. /\ written[c] \in Nat /\ written[c] = taken[c] /\ pc[c] = "store" /\ losses' = 0
      /\ written[c] + 1 <= Len(Stream(c)) /\ taken'[c] = taken[c] + 1 /\ Stream(c)' = Stream(c)
  <2>1. sent[c] \in 0..Len(Stream(c)) /\ taken[c] \in Nat /\ sent[c] \in Nat /\ written[c] \in Nat
    BY TypeParts DEF Counts, Shape
  <2>2. Stream(c) \in Seq(Block) /\ Stream(c)' = Stream(c)
    BY StreamType, StreamStays DEF Shape, Store
  <2>3. taken[c] < sent[c] /\ taken'[c] = taken[c] + 1 /\ losses' = losses /\ pc[c] = "store"
    BY DEF Store, Take, CanRead, Shape
  <2> QED
    BY <2>1, <2>2, <2>3 DEF Filling, Storing
<1>1. Flushed(c) = SubSeq(Stream(c), 1, written[c])
  BY <1>0, FlushedAll DEF Storing
<1>2. Stored(Flushed(c), c, written[c] + 1) = SubSeq(Stream(c), 1, written[c] + 1)
  <2>1. written[c] + 1 \in Nat /\ written[c] + 1 > 0 /\ (written[c] + 1) - 1 = written[c]
    BY <1>0
  <2> QED
    BY <1>0, <1>1, <2>1, StoredNext DEF Shape
<1>3. PICK ok, b \in BOOLEAN :
        /\ written' = [written EXCEPT ![c] = Counted(c, ok)]
        /\ kept' = [kept EXCEPT ![c] = ok /\ b]
        /\ file' = IF ok /\ ~b THEN Stored(Flushed(c), c, written[c] + 1) ELSE Flushed(c)
        /\ IF ok THEN UNCHANGED pc ELSE Goto(c, "stored")
  BY DEF Store
<1>4. written'[c] = Counted(c, ok) /\ (kept'[c] <=> (ok /\ b))
  BY <1>3, TypeParts DEF Shape, Rest
<1>5. CASE ok /\ ~b
  <2>1. /\ written'[c] = written[c] + 1 /\ ~kept'[c] /\ pc'[c] = "store"
        /\ file' = SubSeq(Stream(c), 1, written[c] + 1)
    BY <1>0, <1>2, <1>3, <1>4, <1>5 DEF Counted
  <2> QED
    BY <1>0, <2>1 DEF Filling, InBuffer, Storing, Early, Over
<1>6. CASE ok /\ b
  <2>1. /\ written'[c] = written[c] + 1 /\ kept'[c] /\ pc'[c] = "store"
        /\ file' = SubSeq(Stream(c), 1, written[c])
    BY <1>0, <1>1, <1>3, <1>4, <1>6 DEF Counted
  <2> QED
    BY <1>0, <2>1 DEF Filling, InBuffer, Storing, Early, Over
<1>7. CASE ~ok
  <2>1. /\ written'[c] = written[c] /\ ~kept'[c] /\ pc'[c] = "stored"
        /\ file' = SubSeq(Stream(c), 1, written[c])
    BY <1>0, <1>1, <1>3, <1>4, <1>7, TypeParts DEF Counted, Goto, Places
  <2> QED
    BY <1>0, <2>1 DEF Filling, InBuffer, Storing, Early, Over
<1> QED
  BY <1>5, <1>6, <1>7

LEMMA CloseFile ==
  ASSUME TypeOK, Shape, NEW c \in Conns, Filling(c), CloseUpload(c)
  PROVE  Filling(c)'
<1>1. /\ written[c] \in Nat /\ losses = 0 /\ pc'[c] = "close" /\ written' = written
      /\ Stream(c)' = Stream(c) /\ pc[c] = "stored"
  BY TypeParts, StreamStays DEF CloseUpload, Filling, Storing, Shape, Places, Reply, Goto
<1>2. Flushed(c) = SubSeq(Stream(c), 1, written[c])
  BY <1>1, FlushedAll DEF Storing
<1>3. CASE file' = Flushed(c) /\ losses' = losses
  BY <1>1, <1>2, <1>3 DEF Filling, Early, Storing, Over
<1>4. CASE kept[c] /\ losses' = losses + 1 /\ file' = file
  <2>1. file' = SubSeq(Stream(c), 1, written[c] - losses')
    BY <1>1, <1>4 DEF Filling, InBuffer, Storing
  <2> QED
    BY <1>1, <2>1 DEF Filling, Early, Storing, Over
<1> QED
  BY <1>3, <1>4 DEF CloseUpload

(* A step of the thread of the upload.                                     *)
LEMMA UploadFile ==
  ASSUME TypeOK, Shape, Asked, NEW c \in Conns, req[c].kind = "upload", Filling(c), Server(c) \/ Piped(c)
  PROVE  Filling(c)'
<1>0. pc[c] \in Early \cup Storing \cup Over /\ pc \in [Conns -> PcDomain]
  BY TypeParts DEF Asked, Places
<1>1. CASE Handshake(c) \/ Continue(c) \/ Dispatch(c)
  <2>1. pc[c] \in Early /\ pc'[c] \in Early \cup Over
    BY <1>0, <1>1 DEF Handshake, Continue, Dispatch, Goto, Reply, Early, Over
  <2> QED
    BY <1>1, <2>1, Undisturbed DEF Handshake, Continue, Dispatch, fileVars
<1>2. CASE OpenUpload(c)
  <2>1. CASE file' = file /\ pc'[c] = "close"
    BY <1>2, <2>1, Undisturbed DEF OpenUpload, Early, Over
  <2>2. CASE file' = <<>> /\ pc'[c] = "store"
    <3>1. /\ taken'[c] = 0 /\ written'[c] = 0 /\ ~kept'[c] /\ losses' = 0
      BY <1>2, <2>2 DEF OpenUpload, Filling, Early
    <3>2. Stream(c)' \in Seq(Block)
      BY <1>2, StreamStays, StreamType DEF OpenUpload, Shape
    <3>3. SubSeq(Stream(c)', 1, 0) = <<>>
      BY <3>2
    <3> QED
      BY <2>2, <3>1, <3>3 DEF Filling, InBuffer, Storing, Early, Over
  <2> QED
    BY <1>0, <1>2, <2>1, <2>2 DEF OpenUpload, Reply, Goto
<1>3. CASE Store(c)
  BY <1>3, StoreFile
<1>4. CASE StoreEnds(c)
  <2>1. /\ pc[c] = "store" /\ pc'[c] = "stored" /\ Stream(c)' = Stream(c) /\ InBuffer(c)' = InBuffer(c)
    BY <1>0, <1>4, StreamStays DEF StoreEnds, Goto, InBuffer, fileVars
  <2> QED
    BY <1>4, <2>1 DEF StoreEnds, Filling, Storing, Early, Over, fileVars
<1>5. CASE CloseUpload(c)
  BY <1>5, CloseFile
<1>6. CASE Close(c)
  <2>1. pc[c] = "close" /\ pc'[c] = "end" /\ Stream(c)' = Stream(c)
    BY <1>0, <1>6, StreamStays DEF Close, Goto
  <2> QED
    BY <1>6, <2>1 DEF Close, Filling, Storing, Early, Over, fileVars
<1>7. ~(ReadBody(c) \/ HandleJson(c) \/ HandleInfo(c) \/ HandleForwards(c) \/ OpenDownload(c)
          \/ ReadFile(c) \/ RefuseUpdate(c) \/ Piped(c))
  BY <1>0 DEF ReadBody, HandleJson, HandleInfo, HandleForwards, OpenDownload, ReadFile, RefuseUpdate,
     Piped, HandlePipe, RunPipe, Early, Storing, Over
<1> QED
  BY <1>1, <1>2, <1>3, <1>4, <1>5, <1>6, <1>7 DEF Server

LEMMA StepFile ==
  ASSUME TypeOK, Shape, Asked, FInv, [Next]_vars
  PROVE  FInv'
<1> SUFFICES ASSUME NEW c \in Conns, Sole(c)' PROVE Filling(c)'
  BY DEF FInv
<1>0. req' = req
  BY DEF Next, vars, Connect, Client, Send, Receive, Fail, BreakOff, Server, Piped, Handshake, Continue,
     Dispatch, ReadBody, HandleJson, HandleInfo, HandleForwards, Close, OpenUpload, Store, StoreEnds,
     CloseUpload, OpenDownload, ReadFile, RefuseUpdate, HandlePipe, RunPipe
<1>1. Sole(c) /\ Filling(c)
  BY <1>0 DEF FInv, Sole
<1>2. CASE UNCHANGED vars
  BY <1>1, <1>2, Undisturbed DEF vars, fileVars
<1>3. ASSUME NEW d \in Conns, Connect(d) \/ Client(d) \/ BreakOff(d) PROVE Filling(c)'
  <2>1. pc'[c] = pc[c] \/ (pc[c] \in Early /\ pc'[c] \in Early \cup Over)
    BY <1>3, TypeParts DEF Connect, Client, Send, Receive, Fail, BreakOff, Goto, Asked, Early, Places
  <2> QED
    BY <1>1, <1>3, <2>1, Undisturbed DEF Connect, Client, Send, Receive, Fail, BreakOff, fileVars
<1>4. ASSUME NEW d \in Conns, Server(d) \/ Piped(d) PROVE Filling(c)'
  <2>1. CASE d = c
    BY <1>1, <1>4, <2>1, UploadFile DEF Sole
  <2>2. CASE d # c
    <3>1. ~(OpenUpload(d) \/ Store(d) \/ StoreEnds(d) \/ CloseUpload(d))
      BY <1>1, <2>2 DEF Sole, Asked, OpenUpload, Store, StoreEnds, CloseUpload, Storing
    <3>2. UNCHANGED fileVars
      BY <1>4, <3>1 DEF Server, Piped, Handshake, Continue, Dispatch, ReadBody, HandleJson, HandleInfo,
         HandleForwards, Close, OpenDownload, ReadFile, RefuseUpdate, HandlePipe, RunPipe
    <3>3. pc'[c] = pc[c] /\ taken'[c] = taken[c]
      BY <1>4, <2>2, <3>1, TypeParts DEF Server, Piped, Handshake, Continue, Dispatch, ReadBody, HandleJson,
         HandleInfo, HandleForwards, Close, OpenDownload, ReadFile, RefuseUpdate, HandlePipe, RunPipe,
         Goto, Reply, Take, Places, Shape
    <3> QED
      BY <1>0, <1>1, <3>2, <3>3, Undisturbed DEF fileVars
  <2> QED
    BY <2>1, <2>2
<1> QED
  BY <1>2, <1>3, <1>4 DEF Next

(* handler.c 257-274: for every body, every way stdio buffers it and every *)
(* failure of fwrite, the number an upload is answered with is what the    *)
(* file holds, but for a last block that was lost at fclose.               *)
THEOREM UploadTrueHolds == Spec => []UploadTrue
<1>1. TypeOK /\ Shape /\ Asked /\ FInv /\ [Next]_vars => TypeOK' /\ Shape' /\ Asked' /\ FInv'
  BY StepType, StepAsked, StepFile
<1>2. FInv => UploadTrue
  BY DEF FInv, Sole, Filling, UploadTrue, Over
<1> QED
  BY <1>1, <1>2, InitType, InitAsked, InitFile, PTL DEF Spec

----------------------------------------------------------------------------
(* The answer arrives.                                                     *)

After == {"json", "plain", "download", "fread"} \cup Over
WholeRead(c) ==
  /\ req[c].length = "given" /\ req[c].size <= BodyCap
  /\ req[c].kind \notin {"pipe", "update"}
Unfinished(c) == req[c].kind = "upload" /\ written[c] < req[c].size

(* Once the header was read the length is known; the thread comes to the   *)
(* handler and to its end only when nothing of the body is left or comes;  *)
(* and until its client has an answer, one is on its way.                  *)
Delivery(c) ==
  /\ pc[c] \in {"none", "handshake"} => limit[c] = -1
  /\ link[c] # "open" \/ client[c] = "failed" => pc[c] = "end"
  /\ limit[c] # -1 =>
       /\ limit[c] = req[c].size
       /\ pc[c] \in After /\ req[c].kind # "upload" => taken[c] = req[c].size \/ Eof(c)
       /\ pc[c] \in Over /\ ~Away(c) => \E k \in 1..Len(out[c]) : out[c][k] # 100
       /\ link[c] = "reset" \/ client[c] = "failed" => Unfinished(c)

DInv == \A c \in Conns : WholeRead(c) => Delivery(c)

LEMMA InitDelivery == Init => DInv
BY DEF Init, DInv, Delivery

(* A step of another connection.                                           *)
Untouched(c) ==
  /\ client'[c] = client[c] /\ sent'[c] = sent[c] /\ taken'[c] = taken[c] /\ out'[c] = out[c]
  /\ link'[c] = link[c] /\ pc'[c] = pc[c] /\ limit'[c] = limit[c] /\ written'[c] = written[c]

LEMMA OthersUntouched ==
  ASSUME TypeOK, Shape, NEW c \in Conns, NEW d \in Conns \ {c},
         Connect(d) \/ Client(d) \/ BreakOff(d) \/ Server(d) \/ Piped(d)
  PROVE  Untouched(c)
<1>6. CASE HandleJson(d)
  <2>1. PICK status \in {200, 400, 500} : Reply(d, status)
    BY <1>6 DEF HandleJson
  <2>2. UNCHANGED <<client, sent, taken, link, limit, written>>
    BY <1>6 DEF HandleJson, clientVars, fileVars
  <2> QED
    BY <2>1, <2>2, TypeParts DEF Reply, Write, Goto, Places, Untouched
<1> USE TypeParts DEF Places, Counts, Rest, Shape, clientVars, fileVars, Goto, Write, Reply, Take, Untouched
<1>1. CASE Connect(d) \/ Client(d) \/ BreakOff(d)
  BY <1>1 DEF Connect, Client, Send, Receive, Fail, BreakOff
<1>2. CASE Handshake(d) \/ Continue(d) \/ Dispatch(d) \/ Close(d)
  BY <1>2 DEF Handshake, Continue, Dispatch, Close
<1>5. CASE ReadBody(d) \/ HandleInfo(d) \/ HandleForwards(d)
  BY <1>5 DEF ReadBody, HandleInfo, HandleForwards
<1>3. CASE OpenUpload(d) \/ Store(d) \/ StoreEnds(d) \/ CloseUpload(d)
  BY <1>3 DEF OpenUpload, Store, StoreEnds, CloseUpload
<1>4. CASE OpenDownload(d) \/ ReadFile(d) \/ RefuseUpdate(d) \/ Piped(d)
  BY <1>4 DEF OpenDownload, ReadFile, RefuseUpdate, Piped, HandlePipe, RunPipe
<1> QED
  BY <1>1, <1>2, <1>3, <1>4, <1>5, <1>6 DEF Server

LEMMA Elsewhere ==
  ASSUME NEW c \in Conns, Delivery(c), Untouched(c), req' = req
  PROVE  Delivery(c)'
BY DEF Delivery, Untouched, Unfinished, Eof, Away

LEMMA Quantities ==
  ASSUME TypeOK, Shape, NEW c \in Conns, WholeRead(c)
  PROVE  /\ client \in [Conns -> Clients] /\ pc \in [Conns -> PcDomain]
         /\ out \in [Conns -> Seq(Nat)] /\ link \in [Conns -> {"open", "closed", "reset"}]
         /\ limit \in [Conns -> Nat \cup {-1}]
         /\ sent \in [Conns -> Nat] /\ taken \in [Conns -> Nat] /\ taken[c] <= sent[c]
         /\ written \in [Conns -> Nat] /\ written[c] <= taken[c]
         /\ Len(Stream(c)) = req[c].size /\ sent[c] <= Len(Stream(c))
         /\ req[c].size \in Nat /\ req[c].kind \in Kinds
<1>1. Len(Stream(c)) = req[c].size /\ req[c].size \in Nat /\ req[c].kind \in Kinds
  BY StreamType DEF Shape, WholeRead
<1> QED
  BY <1>1, TypeParts DEF Places, Rest, Counts, Shape

(* A step of the client: what it sends the thread still waits for, and the *)
(* first answer that is not 100 Continue is the end for it.                *)
LEMMA ClientDelivery ==
  ASSUME TypeOK, Shape, Asked, NEW c \in Conns, WholeRead(c), Delivery(c),
         Connect(c) \/ Client(c) \/ BreakOff(c)
  PROVE  Delivery(c)'
<1>0. /\ req' = req /\ taken' = taken /\ limit' = limit /\ written' = written
      /\ client \in [Conns -> Clients] /\ pc \in [Conns -> PcDomain]
      /\ out \in [Conns -> Seq(Nat)] /\ link \in [Conns -> {"open", "closed", "reset"}]
      /\ sent \in [Conns -> Nat] /\ taken[c] <= sent[c] /\ taken[c] \in Nat
      /\ Len(Stream(c)) = req[c].size /\ sent[c] <= Len(Stream(c)) /\ req[c].size \in Nat
      /\ written[c] \in Nat /\ written[c] <= taken[c]
  <2>1. /\ req' = req /\ taken' = taken /\ limit' = limit /\ written' = written
    BY DEF Connect, Client, Send, Receive, Fail, BreakOff, fileVars
  <2> QED
    BY <2>1, Quantities
<1>1. CASE Connect(c)
  <2>1. pc[c] = "none" /\ link[c] = "open"
    BY <1>1 DEF Connect, Asked
  <2>2. limit[c] = -1 /\ link'[c] = "open" /\ pc'[c] = "handshake" /\ client'[c] \in {"expect", "send"}
    BY <1>0, <1>1, <2>1 DEF Connect, Goto, Delivery
  <2> QED
    BY <1>0, <2>2 DEF Delivery
<1>2. CASE Send(c)
  <2>1. pc' = pc /\ out' = out /\ client' = client /\ ~Away(c) /\ ~Away(c)' /\ sent[c] < req[c].size
    BY <1>0, <1>2 DEF Send, Away
  <2>2. CASE link[c] = "open"
    <3>1. link'[c] = "open"
      BY <1>0, <1>2, <2>2 DEF Send
    <3>2. ~Eof(c)
      BY <2>1 DEF Eof
    <3> QED
      BY <1>0, <2>1, <3>1, <3>2 DEF Delivery, Unfinished
  <2>3. CASE link[c] # "open"
    <3>1. pc[c] = "end" /\ link'[c] = "reset"
      BY <1>0, <1>2, <2>3 DEF Send, Delivery
    <3>2. limit[c] # -1 => req[c].kind = "upload"
      BY <1>0, <2>1, <3>1 DEF Delivery, After, Over, Eof
    <3>3. limit[c] # -1 => Unfinished(c)
      BY <1>0, <2>1, <3>2 DEF Unfinished
    <3> QED
      BY <1>0, <2>1, <3>1, <3>2, <3>3 DEF Delivery, Unfinished
  <2> QED
    BY <2>2, <2>3
<1>3. CASE Receive(c)
  <2>1. pc' = pc /\ link' = link /\ sent' = sent /\ ~Away(c) /\ client'[c] # "failed"
    BY <1>0, <1>3 DEF Receive, Clients, Away
  <2>2. CASE Head(out[c]) # 100
    <3>1. Away(c)'
      BY <1>0, <1>3, <2>2 DEF Receive, Away
    <3> QED
      BY <1>0, <2>1, <3>1 DEF Delivery, Eof, Unfinished
  <2>3. CASE Head(out[c]) = 100
    <3>1. out[c] \in Seq(Nat) /\ out[c] # <<>> /\ out'[c] = Tail(out[c])
      BY <1>0, <1>3 DEF Receive
    <3>2. Len(out'[c]) = Len(out[c]) - 1 /\ \A k \in 1..Len(out'[c]) : out'[c][k] = out[c][k + 1]
      BY <3>1
    <3>3. ASSUME NEW k \in 1..Len(out[c]), out[c][k] # 100
          PROVE  \E j \in 1..Len(out'[c]) : out'[c][j] # 100
      <4>1. k # 1
        BY <2>3, <3>1, <3>3
      <4>2. k - 1 \in 1..Len(out'[c]) /\ out'[c][k - 1] = out[c][k]
        BY <3>1, <3>2, <4>1
      <4> QED
        BY <3>3, <4>2
    <3>4. ~Eof(c)
      BY <2>1 DEF Eof
    <3> QED
      BY <1>0, <2>1, <3>3, <3>4 DEF Delivery, Unfinished
  <2> QED
    BY <2>2, <2>3
<1>4. CASE Fail(c)
  <2>1. pc' = pc /\ link' = link /\ sent' = sent /\ out' = out /\ ~Away(c) /\ Away(c)'
    BY <1>0, <1>4 DEF Fail, Away
  <2>2. pc[c] = "end"
    BY <1>4 DEF Fail, Delivery
  <2>3. limit[c] # -1 => Unfinished(c)
    <3>1. CASE link[c] = "reset"
      BY <3>1 DEF Delivery
    <3>2. CASE link[c] = "closed" /\ out[c] = <<>>
      BY <1>0, <2>1, <3>2 DEF Delivery, Over
    <3> QED
      BY <1>4, <3>1, <3>2 DEF Fail
  <2> QED
    BY <1>0, <2>1, <2>2, <2>3 DEF Delivery, Unfinished, Eof
<1>5. CASE BreakOff(c)
  <2>1. pc' = pc /\ link' = link /\ sent' = sent /\ out' = out /\ Away(c)' /\ client'[c] # "failed"
    BY <1>0, <1>5 DEF BreakOff, Away
  <2> QED
    BY <1>0, <2>1 DEF Delivery, Unfinished, Eof
<1> QED
  BY <1>1, <1>2, <1>3, <1>4, <1>5 DEF Client

(* A thread that goes to its end without an answer has not read a header.  *)
LEMMA ReplyDelivery ==
  ASSUME TypeOK, Shape, NEW c \in Conns, WholeRead(c), Delivery(c), NEW status \in Nat, status # 100,
         Reply(c, status), UNCHANGED <<req, clientVars, taken, link, limit, written>>,
         pc[c] \notin Over,
         limit[c] # -1 /\ req[c].kind # "upload" => taken[c] = req[c].size \/ Eof(c)
  PROVE  Delivery(c)'
<1>1. pc'[c] = "close" /\ out'[c] = Append(out[c], status) /\ out[c] \in Seq(Nat)
  BY Quantities DEF Reply, Write, Goto
<1>2. Len(out'[c]) \in 1..Len(out'[c]) /\ out'[c][Len(out'[c])] # 100
  BY <1>1
<1>3. link'[c] = "open" /\ client'[c] # "failed"
  BY DEF Delivery, Over, clientVars
<1>4. Eof(c)' <=> Eof(c)
  BY DEF Eof, Away, clientVars
<1>5. limit[c] # -1 => limit[c] = req[c].size
  BY DEF Delivery
<1> QED
  BY <1>1, <1>2, <1>3, <1>4, <1>5 DEF Delivery, clientVars

LEMMA HandlerDelivery ==
  ASSUME TypeOK, Shape, NEW c \in Conns, WholeRead(c), Delivery(c),
         NEW status \in {200, 400, 404, 413, 500}, pc[c] \in After \ Over,
         Reply(c, status), UNCHANGED <<req, clientVars, taken, link, limit, written>>
  PROVE  Delivery(c)'
<1>1. limit[c] # -1 /\ req[c].kind # "upload" => taken[c] = req[c].size \/ Eof(c)
  BY DEF Delivery
<1>2. status \in Nat /\ status # 100
  OBVIOUS
<1> QED
  BY <1>1, <1>2, ReplyDelivery

(* A step within the thread that does not end it.                          *)
LEMMA WithinDelivery ==
  ASSUME TypeOK, Shape, NEW c \in Conns, WholeRead(c), Delivery(c),
         UNCHANGED <<req, clientVars, link>>,
         pc[c] \notin Over, pc'[c] \notin Over \cup {"none", "handshake"},
         limit'[c] # -1 => limit'[c] = req[c].size,
         pc'[c] \in After /\ limit'[c] # -1 /\ req[c].kind # "upload" => taken'[c] = req[c].size \/ Eof(c)'
  PROVE  Delivery(c)'
<1>1. link'[c] = "open" /\ client'[c] # "failed"
  BY DEF Delivery, Over, clientVars
<1> QED
  BY <1>1 DEF Delivery

LEMMA ServerDelivery ==
  ASSUME TypeOK, Shape, Asked, NEW c \in Conns, WholeRead(c), Delivery(c), Server(c) \/ Piped(c)
  PROVE  Delivery(c)'
<1>0. /\ client \in [Conns -> Clients] /\ pc \in [Conns -> PcDomain]
      /\ out \in [Conns -> Seq(Nat)] /\ link \in [Conns -> {"open", "closed", "reset"}]
      /\ limit \in [Conns -> Nat \cup {-1}]
      /\ sent \in [Conns -> Nat] /\ taken \in [Conns -> Nat] /\ taken[c] <= sent[c]
      /\ written \in [Conns -> Nat] /\ written[c] <= taken[c]
      /\ sent[c] <= req[c].size /\ req[c].size \in Nat /\ req[c].kind \in Kinds
  BY Quantities
<1>14. /\ req' = req /\ client' = client /\ sent' = sent /\ pc[c] \notin {"none", "end"}
  BY DEF Server, Piped, Handshake, Continue, Dispatch, ReadBody, HandleJson, HandleInfo,
     HandleForwards, Close, OpenUpload, Store, StoreEnds, CloseUpload, OpenDownload, ReadFile,
     RefuseUpdate, HandlePipe, RunPipe, clientVars
<1>1. CASE Handshake(c)
  <2>1. limit[c] = -1 /\ pc[c] = "handshake" /\ ContentLength(c) = req[c].size
    BY <1>0, <1>1 DEF Handshake, Delivery, WholeRead, ContentLength
  <2>2. CASE Goto(c, IF Expects(c) THEN "continue" ELSE "dispatch") /\ limit' = [limit EXCEPT ![c] = ContentLength(c)]
    <3>1. pc'[c] \in {"continue", "dispatch"} /\ limit'[c] = req[c].size
      BY <1>0, <2>1, <2>2 DEF Goto
    <3> QED
      BY <1>1, <2>1, <3>1, WithinDelivery DEF Handshake, After, Over
  <2>3. CASE limit' = limit /\ pc'[c] = "close"
    BY <1>1, <2>1, <2>3 DEF Handshake, Delivery, clientVars
  <2> QED
    BY <1>0, <1>1, <2>2, <2>3 DEF Handshake, Reply, Goto
<1>2. CASE Continue(c)
  <2>1. pc[c] = "continue" /\ pc'[c] = "dispatch"
    BY <1>0, <1>2 DEF Continue, Goto
  <2> QED
    BY <1>2, <2>1, WithinDelivery DEF Continue, Delivery, After, Over
<1>3. CASE Dispatch(c)
  <2>1. pc[c] = "dispatch" /\ pc'[c] \in {"upload", "pipe", "update", "body"}
    BY <1>0, <1>3 DEF Dispatch, Goto
  <2>2. limit'[c] # -1 => limit'[c] = req[c].size
    BY <1>0, <1>3, BoundAssumption DEF Dispatch, BodyLimit, Delivery, WholeRead
  <2> QED
    BY <1>3, <2>1, <2>2, WithinDelivery DEF Dispatch, After, Over
<1>4. CASE ReadBody(c)
  <2>1. CASE Take(c)
    <3>1. pc[c] = "body" /\ pc'[c] = "body"
      BY <1>0, <1>4, <2>1 DEF ReadBody, Take, Route, Goto, CanRead, Eof
    <3> QED
      BY <1>4, <3>1, WithinDelivery DEF ReadBody, Delivery, After, Over
  <2>2. CASE pc'[c] = req[c].kind /\ taken' = taken /\ (taken[c] >= limit[c] \/ Eof(c))
    <3>1. pc[c] = "body" /\ pc'[c] \notin Over \cup {"none", "handshake"}
      BY <1>0, <1>4, <2>2 DEF ReadBody, Kinds, Over
    <3>2. limit[c] # -1 => limit[c] = req[c].size
      BY DEF Delivery
    <3>3. limit[c] # -1 => taken[c] = req[c].size \/ Eof(c)
      BY <1>0, <2>2, <3>2
    <3>4. Eof(c)' <=> Eof(c)
      BY <1>0, <1>14, <2>2 DEF Eof, Away
    <3>5. UNCHANGED <<req, clientVars, link, limit>>
      BY <1>4 DEF ReadBody
    <3> QED
      BY <2>2, <3>1, <3>2, <3>3, <3>4, <3>5, WithinDelivery DEF Over
  <2> QED
    BY <1>0, <1>4, <2>1, <2>2 DEF ReadBody, Route, Goto
<1>5. CASE HandleJson(c)
  <2>1. PICK status \in {200, 400, 500} : Reply(c, status)
    BY <1>5 DEF HandleJson
  <2>2. pc[c] = "json" /\ UNCHANGED <<req, clientVars, taken, link, limit, written>>
    BY <1>5 DEF HandleJson, fileVars
  <2> QED
    BY <2>1, <2>2, HandlerDelivery DEF After, Over
<1>6. CASE HandleInfo(c) \/ HandleForwards(c)
  <2>1. PICK status \in {200, 400, 404} : Reply(c, status)
    BY <1>6 DEF HandleInfo, HandleForwards
  <2>2. pc[c] = "plain" /\ UNCHANGED <<req, clientVars, taken, link, limit, written>>
    BY <1>6 DEF HandleInfo, HandleForwards, fileVars
  <2> QED
    BY <2>1, <2>2, HandlerDelivery DEF After, Over
<1>7. CASE Close(c)
  <2>1. /\ pc[c] = "close" /\ pc'[c] = "end" /\ link'[c] \in {"closed", "reset"}
        /\ link'[c] = "reset" <=> CanRead(c)
    BY <1>0, <1>7 DEF Close, Goto
  <2>2. ASSUME limit[c] # -1, CanRead(c) PROVE Unfinished(c)
    <3>1. taken[c] < sent[c] /\ sent[c] <= req[c].size
      BY <1>0, <2>2 DEF CanRead
    <3>2. req[c].kind = "upload"
      BY <1>0, <2>1, <2>2, <3>1 DEF Delivery, After, Over, Eof
    <3> QED
      BY <1>0, <3>1, <3>2 DEF Unfinished
  <2> QED
    BY <1>0, <1>14, <1>7, <2>1, <2>2 DEF Close, Delivery, Unfinished, Eof, Away, After, Over, fileVars
<1>8. CASE OpenUpload(c)
  <2>1. pc[c] = "upload" /\ req[c].kind = "upload"
    BY <1>8 DEF OpenUpload, Asked
  <2>2. CASE \E status \in {400, 500} : Reply(c, status)
    BY <1>8, <2>1, <2>2, ReplyDelivery DEF OpenUpload, Over
  <2>3. CASE pc'[c] = "store"
    BY <1>8, <2>1, <2>3, WithinDelivery DEF OpenUpload, Delivery, After, Over
  <2> QED
    BY <1>0, <1>8, <2>2, <2>3 DEF OpenUpload, Goto
<1>9. CASE Store(c) \/ StoreEnds(c)
  <2>1. pc[c] = "store" /\ pc'[c] \in {"store", "stored"} /\ UNCHANGED <<req, clientVars, link, limit>>
    BY <1>0, <1>9 DEF Store, StoreEnds, Goto
  <2> QED
    BY <2>1, WithinDelivery DEF Delivery, After, Over
<1>10. CASE CloseUpload(c)
  <2>1. pc[c] = "stored" /\ req[c].kind = "upload" /\ Reply(c, 200)
    BY <1>10 DEF CloseUpload, Asked, Storing
  <2>2. UNCHANGED <<req, clientVars, taken, link, limit, written>>
    BY <1>10 DEF CloseUpload
  <2> QED
    BY <2>1, <2>2, ReplyDelivery DEF Over
<1>11. CASE OpenDownload(c)
  <2>1. pc[c] = "download"
    BY <1>11 DEF OpenDownload
  <2>2. CASE \E status \in {400, 404, 413, 500} : Reply(c, status)
    <3>1. UNCHANGED <<req, clientVars, taken, link, limit, written>>
      BY <1>11 DEF OpenDownload, fileVars
    <3> QED
      BY <2>1, <2>2, <3>1, HandlerDelivery DEF After, Over
  <2>3. CASE pc'[c] = "fread"
    <3>1. Eof(c)' <=> Eof(c)
      BY <1>0, <1>14, <1>11 DEF OpenDownload, Eof, Away
    <3> QED
      BY <1>11, <2>1, <2>3, <3>1, WithinDelivery DEF OpenDownload, Delivery, After, Over
  <2> QED
    BY <1>0, <1>11, <2>2, <2>3 DEF OpenDownload, Goto
<1>12. CASE ReadFile(c)
  <2>1. pc[c] = "fread" /\ Reply(c, 200) /\ UNCHANGED <<req, clientVars, taken, link, limit, written>>
    BY <1>12 DEF ReadFile, fileVars
  <2> QED
    BY <2>1, HandlerDelivery DEF After, Over
<1>13. ~(RefuseUpdate(c) \/ Piped(c))
  BY DEF RefuseUpdate, Piped, HandlePipe, RunPipe, Asked, WholeRead
<1> QED
  BY <1>1, <1>2, <1>3, <1>4, <1>5, <1>6, <1>7, <1>8, <1>9, <1>10, <1>11, <1>12, <1>13 DEF Server

LEMMA StepDelivery ==
  ASSUME TypeOK, Shape, Asked, DInv, [Next]_vars
  PROVE  DInv'
<1> SUFFICES ASSUME NEW c \in Conns, WholeRead(c)' PROVE Delivery(c)'
  BY DEF DInv
<1>0. req' = req
  BY DEF Next, vars, Connect, Client, Send, Receive, Fail, BreakOff, Server, Piped, Handshake, Continue,
     Dispatch, ReadBody, HandleJson, HandleInfo, HandleForwards, Close, OpenUpload, Store, StoreEnds,
     CloseUpload, OpenDownload, ReadFile, RefuseUpdate, HandlePipe, RunPipe
<1>1. WholeRead(c) /\ Delivery(c)
  BY <1>0 DEF DInv, WholeRead
<1>2. CASE UNCHANGED vars
  BY <1>1, <1>2, Elsewhere DEF vars, clientVars, fileVars, Untouched
<1>3. ASSUME NEW d \in Conns, Connect(d) \/ Client(d) \/ BreakOff(d) \/ Server(d) \/ Piped(d)
      PROVE  Delivery(c)'
  <2>1. CASE d = c
    BY <1>1, <1>3, <2>1, ClientDelivery, ServerDelivery
  <2>2. CASE d # c
    <3>1. Untouched(c)
      BY <1>3, <2>2, OthersUntouched
    <3> QED
      BY <1>0, <1>1, <3>1, Elsewhere
  <2> QED
    BY <2>1, <2>2
<1> QED
  BY <1>2, <1>3 DEF Next

(* server.c 195-225: for any number of connections, bodies and buffers, a  *)
(* client whose header was read and whose body is read whole never sees    *)
(* the connection break before its answer.                                 *)
THEOREM ArrivesHolds == Spec => []Arrives
<1>1. TypeOK /\ Shape /\ Asked /\ DInv /\ [Next]_vars => TypeOK' /\ Shape' /\ Asked' /\ DInv'
  BY StepType, StepAsked, StepDelivery
<1>2. TypeOK /\ Shape /\ DInv => Arrives
  <2> SUFFICES ASSUME TypeOK, Shape, DInv, NEW c \in Conns, client[c] = "failed",
                      req[c].length = "given", limit[c] # -1,
                      req[c].kind \notin {"pipe", "update"}, ~(req[c].size > BodyCap)
               PROVE  Unfinished(c)
    BY DEF Arrives, Unfinished
  <2>1. req[c].size \in Nat /\ BodyCap \in Nat
    BY StreamType, BoundAssumption DEF Shape
  <2>2. WholeRead(c)
    BY <2>1 DEF WholeRead
  <2> QED
    BY <2>2 DEF DInv, Delivery
<1> QED
  BY <1>1, <1>2, InitType, InitAsked, InitDelivery, PTL DEF Spec

----------------------------------------------------------------------------
(* A set of natural numbers that is not empty has a least one, and one     *)
(* that has 0 and with each number the next has all.                       *)
Less == {ss \in Nat \X Nat : ss[1] < ss[2]}

LEMMA LeastOf == ASSUME NEW T \in SUBSET Nat, T # {} PROVE \E m \in T : \A j \in T : m <= j
<1>1. IsWellFoundedOn(Less, Nat)
  BY NatLessThanWellFounded DEF OpToRel, Less
<1>2. PICK m \in T : \A j \in T : ~(<<j, m>> \in Less)
  BY <1>1, WFMin
<1>3. ASSUME NEW j \in T PROVE m <= j
  <2>1. m \in Nat /\ j \in Nat
    OBVIOUS
  <2>2. j < m => <<j, m>> \in Less
    BY <2>1 DEF Less
  <2> QED
    BY <1>2, <2>1, <2>2
<1> QED
  BY <1>3

LEMMA Induction ==
  ASSUME NEW T, 0 \in T, \A n \in Nat : n \in T => n + 1 \in T
  PROVE  \A n \in Nat : n \in T
<1> DEFINE Bad == {n \in Nat : n \notin T}
<1>1. CASE Bad = {}
  BY <1>1
<1>2. CASE Bad # {}
  <2>1. PICK m \in Bad : \A j \in Bad : m <= j
    BY <1>2, LeastOf
  <2>2. m \in Nat /\ m \notin T /\ m # 0
    OBVIOUS
  <2>3. m - 1 \in Nat /\ m - 1 \in T /\ (m - 1) + 1 = m
    BY <2>1, <2>2
  <2> QED
    BY <2>2, <2>3
<1> QED
  BY <1>1, <1>2

----------------------------------------------------------------------------
(* Recursive functions from position i of a string to its end: f[i] is a   *)
(* piece E[i] and then what f is at J[i].                                  *)
Unrolls(f, n, E, J) == /\ f[n + 1] = <<>>
                       /\ \A i \in 1..n : f[i] = E[i] \o f[J[i]]
Forward(n, J) == J \in [1..n -> Nat] /\ \A i \in 1..n : i < J[i] /\ J[i] <= n + 1

(* There is one.                                                           *)
Recursive(f, n, E, J) == f = [i \in 1..n + 1 |-> IF i > n THEN <<>> ELSE E[i] \o f[J[i]]]
Value(f, n, E, J, i) == IF i > n THEN <<>> ELSE E[i] \o f[J[i]]
From(f, n, E, J, k) ==
  /\ f = [i \in 1..n + 1 |-> f[i]]
  /\ \A i \in 1..n + 1 : i > n - k => f[i] = Value(f, n, E, J, i)

LEMMA UnrollsMore ==
  ASSUME NEW n \in Nat, NEW E, NEW J, Forward(n, J), NEW k \in Nat, NEW f, From(f, n, E, J, k)
  PROVE  \E g : From(g, n, E, J, k + 1)
<1> DEFINE m == n - k
           v == Value(f, n, E, J, m)
           g == [i \in 1..n + 1 |-> IF i = m THEN v ELSE f[i]]
<1>1. g = [i \in 1..n + 1 |-> g[i]]
  OBVIOUS
<1>2. \A i \in 1..n + 1 : g[i] = IF i = m THEN v ELSE f[i]
  OBVIOUS
<1> HIDE DEF g
<1>3. ASSUME NEW i \in 1..n + 1, i > n - (k + 1) PROVE g[i] = Value(g, n, E, J, i)
  <2>1. i >= m /\ m \in Int
    BY <1>3
  <2>2. i <= n => J[i] \in 1..n + 1 /\ J[i] # m
    BY <2>1 DEF Forward
  <2> HIDE DEF m, v
  <2>3. i <= n => g[J[i]] = f[J[i]]
    BY <1>2, <2>2
  <2>4. Value(g, n, E, J, i) = Value(f, n, E, J, i)
    <3>1. CASE i > n
      BY <3>1 DEF Value
    <3>2. CASE ~(i > n)
      <4>1. g[J[i]] = f[J[i]]
        BY <2>3, <3>2
      <4> QED
        BY <3>2, <4>1, Zenon DEF Value
    <3> QED
      BY <3>1, <3>2
  <2>5. CASE i = m
    BY <1>2, <2>4, <2>5 DEF v
  <2>6. CASE i # m
    <3>1. i > n - k
      BY <2>1, <2>6 DEF m
    <3>2. f[i] = Value(f, n, E, J, i)
      BY <3>1 DEF From
    <3> QED
      BY <1>2, <2>4, <2>6, <3>2
  <2> QED
    BY <2>5, <2>6
<1> QED
  BY <1>1, <1>3 DEF From

LEMMA UnrollsExists ==
  ASSUME NEW n \in Nat, NEW E, NEW J, Forward(n, J)
  PROVE  \E f : Recursive(f, n, E, J)
<1> DEFINE T == {k \in Nat : \E f : From(f, n, E, J, k)}
<1>1. 0 \in T
  <2> DEFINE f == [i \in 1..n + 1 |-> <<>>]
  <2>1. f = [i \in 1..n + 1 |-> f[i]] /\ \A i \in 1..n + 1 : i > n - 0 => f[i] = <<>> /\ i > n
    OBVIOUS
  <2> HIDE DEF f
  <2>2. From(f, n, E, J, 0)
    BY <2>1 DEF From, Value
  <2> QED
    BY <2>2
<1>2. ASSUME NEW k \in Nat, k \in T PROVE k + 1 \in T
  BY <1>2, UnrollsMore
<1> HIDE DEF T
<1>3. n \in T
  BY <1>1, <1>2, Induction
<1>4. PICK f : From(f, n, E, J, n)
  BY <1>3 DEF T
<1>5. f = [i \in 1..n + 1 |-> f[i]] /\ \A i \in 1..n + 1 : f[i] = Value(f, n, E, J, i)
  BY <1>4 DEF From
<1>6. f = [i \in 1..n + 1 |-> Value(f, n, E, J, i)]
  BY <1>5, Zenon
<1> QED
  BY <1>6, Zenon DEF Value, Recursive

LEMMA RecursiveUnrolls ==
  ASSUME NEW n \in Nat, NEW E, NEW J, NEW f, Recursive(f, n, E, J)
  PROVE  Unrolls(f, n, E, J)
<1>1. \A i \in 1..n + 1 : f[i] = IF i > n THEN <<>> ELSE E[i] \o f[J[i]]
  BY Zenon DEF Recursive
<1>2. n + 1 \in 1..n + 1 /\ n + 1 > n /\ \A i \in 1..n : i \in 1..n + 1 /\ ~(i > n)
  OBVIOUS
<1>3. f[n + 1] = <<>>
  BY <1>1, <1>2, Zenon
<1>4. \A i \in 1..n : f[i] = E[i] \o f[J[i]]
  BY <1>1, <1>2, Zenon
<1> QED
  BY <1>3, <1>4, Zenon DEF Unrolls

(* Its values are strings, and what it is at j is the end of what it is at *)
(* every i it comes from.                                                  *)
LEMMA UnrollsType ==
  ASSUME NEW n \in Nat, NEW S, NEW E \in [1..n -> Seq(S)], NEW J, Forward(n, J), NEW f,
         Unrolls(f, n, E, J)
  PROVE  \A i \in 1..n + 1 : f[i] \in Seq(S)
<1> DEFINE T == {k \in Nat : \A i \in 1..n + 1 : i > n - k => f[i] \in Seq(S)}
<1>1. 0 \in T
  <2>1. \A i \in 1..n + 1 : i > n - 0 => i = n + 1
    OBVIOUS
  <2>2. f[n + 1] \in Seq(S)
    BY DEF Unrolls
  <2> QED
    BY <2>1, <2>2
<1>2. ASSUME NEW k \in Nat, k \in T PROVE k + 1 \in T
  <2> SUFFICES ASSUME NEW i \in 1..n + 1, i > n - (k + 1) PROVE f[i] \in Seq(S)
    OBVIOUS
  <2>1. CASE i > n - k
    BY <1>2, <2>1
  <2>2. CASE ~(i > n - k)
    <3>1. i \in 1..n /\ J[i] \in 1..n + 1 /\ J[i] > n - k
      BY <2>2 DEF Forward
    <3>2. f[J[i]] \in Seq(S) /\ E[i] \in Seq(S)
      BY <1>2, <3>1
    <3>3. E[i] \o f[J[i]] \in Seq(S)
      BY <3>2
    <3> QED
      BY <3>1, <3>3 DEF Unrolls
  <2> QED
    BY <2>1, <2>2
<1> HIDE DEF T
<1>3. n \in T
  BY <1>1, <1>2, Induction
<1> QED
  BY <1>3 DEF T

----------------------------------------------------------------------------
(* The way of a string through Encode and Decode.                          *)
Alphabet == Chars \cup DOMAIN Hex \cup Digits
            \cup {" ", "+", "%", "&", "=", "command=", "env_", "raw=1", "control", "NUL"}
Escapes(s) == [i \in 1..Len(s) |-> Escape(s[i])]
Nexts(s) == [i \in 1..Len(s) |-> i + 1]

LEMMA One ==
  ASSUME NEW S, NEW x \in S
  PROVE  /\ <<x>> \in Seq(S) /\ Len(<<x>>) = 1 /\ <<x>>[1] = x
         /\ \A k \in 1..Len(<<x>>) : <<x>>[k] = x
<1>1. <<x>> \in Seq(S) /\ Len(<<x>>) = 1 /\ <<x>>[1] = x
  OBVIOUS
<1>2. \A k \in 1..1 : k = 1
  OBVIOUS
<1> QED
  BY <1>1, <1>2, Zenon
LEMMA Three ==
  ASSUME NEW S, NEW a \in S, NEW b \in S, NEW c \in S
  PROVE  /\ <<a>> \o <<b, c>> = <<a, b, c>> /\ <<a, b, c>> \in Seq(S) /\ Len(<<a, b, c>>) = 3
         /\ <<a, b, c>>[1] = a /\ <<a, b, c>>[2] = b /\ <<a, b, c>>[3] = c
<1>1. <<a, b, c>> \in Seq(S) /\ Len(<<a, b, c>>) = 3
  OBVIOUS
<1>2. <<a>> \in Seq(S) /\ <<b, c>> \in Seq(S) /\ Len(<<a>>) = 1 /\ Len(<<b, c>>) = 2
  OBVIOUS
<1>3. \A i \in 1..3 : (<<a>> \o <<b, c>>)[i] = <<a, b, c>>[i]
  <2>1. \A i \in 1..1 + 2 : (<<a>> \o <<b, c>>)[i] = IF i <= 1 THEN <<a>>[i] ELSE <<b, c>>[i - 1]
    BY <1>2, ConcatProperties
  <2>2. (<<a>> \o <<b, c>>)[1] = a
    BY <2>1
  <2>3. (<<a>> \o <<b, c>>)[2] = b
    BY <2>1
  <2>4. (<<a>> \o <<b, c>>)[3] = c
    BY <2>1
  <2>5. \A i \in 1..3 : i = 1 \/ i = 2 \/ i = 3
    OBVIOUS
  <2> QED
    BY <2>2, <2>3, <2>4, <2>5
<1>4. <<a>> \o <<b, c>> \in Seq(S) /\ Len(<<a>> \o <<b, c>>) = 3
  BY <1>2, ConcatProperties
<1>5. <<a>> \o <<b, c>> = <<a, b, c>>
  BY <1>1, <1>3, <1>4, SeqEqual
<1> QED
  BY <1>1, <1>5

LEMMA EscapeIs ==
  ASSUME NEW c \in Chars
  PROVE  /\ Escape(c) \in Seq(Alphabet)
         /\ \A k \in 1..Len(Escape(c)) : Escape(c)[k] \notin {"&", "="}
         /\ \/ c = " " /\ Escape(c) = <<"+">>
            \/ /\ c \in DOMAIN Hex /\ Escape(c) = <<"%", Hex[c][1], Hex[c][2]>>
               /\ Hex[c] = <<Hex[c][1], Hex[c][2]>> /\ Hex[c][1] \in Digits /\ Hex[c][2] \in Digits
            \/ c \notin {" ", "+", "%", "&", "="} /\ Escape(c) = <<c>>
<1>1. CASE c = " "
  <2>1. Escape(c) = <<"+">> /\ "+" \in Alphabet
    BY <1>1 DEF Escape, Alphabet
  <2>2. <<"+">> \in Seq(Alphabet) /\ \A k \in 1..Len(<<"+">>) : <<"+">>[k] = "+"
    BY <2>1, One
  <2>3. "+" \notin {"&", "="}
    OBVIOUS
  <2> QED
    BY <1>1, <2>1, <2>2, <2>3, Zenon
<1>2. CASE c # " " /\ c \in DOMAIN Hex
  <2>1. Hex[c] = <<Hex[c][1], Hex[c][2]>> /\ Hex[c][1] \in Digits /\ Hex[c][2] \in Digits
    <3>1. Hex[c] \in Digits \X Digits
      BY <1>2, HexAssumption
    <3> QED
      BY <3>1
  <2> DEFINE a == Hex[c][1]
             b == Hex[c][2]
  <2>2. Escape(c) = <<"%">> \o <<a, b>>
    BY <1>2, <2>1 DEF Escape
  <2>3. a \in Digits /\ b \in Digits /\ a \notin {"&", "="} /\ b \notin {"&", "="}
    BY <2>1, HexAssumption
  <2> HIDE DEF a, b
  <2>4. "%" \in Alphabet /\ a \in Alphabet /\ b \in Alphabet
    BY <2>3 DEF Alphabet
  <2> DEFINE t == <<"%", a, b>>
  <2>5. <<"%">> \o <<a, b>> = t /\ t \in Seq(Alphabet) /\ Len(t) = 3 /\ t[1] = "%" /\ t[2] = a /\ t[3] = b
    BY <2>4, Three
  <2> HIDE DEF t
  <2>6. \A k \in 1..3 : t[k] \notin {"&", "="}
    <3>1. \A k \in 1..3 : k = 1 \/ k = 2 \/ k = 3
      OBVIOUS
    <3> QED
      BY <2>3, <2>5, <3>1
  <2>7. Escape(c) = t /\ t = <<"%", Hex[c][1], Hex[c][2]>>
    BY <2>2, <2>5 DEF t, a, b
  <2> QED
    BY <1>2, <2>1, <2>5, <2>6, <2>7
<1>3. CASE c # " " /\ c \notin DOMAIN Hex
  <2>1. Escape(c) = <<c>> /\ c \notin {" ", "+", "%", "&", "="} /\ c \in Alphabet
    BY <1>3, HexAssumption DEF Escape, Alphabet
  <2>2. <<c>> \in Seq(Alphabet) /\ \A k \in 1..Len(<<c>>) : <<c>>[k] = c
    BY <2>1, One
  <2>3. c \notin {"&", "="}
    BY <2>1
  <2> QED
    BY <2>1, <2>2, <2>3, Zenon
<1> QED
  BY <1>1, <1>2, <1>3

LEMMA NextsForward == ASSUME NEW s \in Seq(Chars) PROVE Forward(Len(s), Nexts(s))
BY DEF Forward, Nexts

(* The function Encode is defined by unrolls the escapes.                  *)
LEMMA EncodeIs ==
  ASSUME NEW s \in Seq(Chars)
  PROVE  /\ Len(s) \in Nat /\ Escapes(s) \in [1..Len(s) -> Seq(Alphabet)]
         /\ \E f : Unrolls(f, Len(s), Escapes(s), Nexts(s)) /\ Encode(s) = f[1]
<1> DEFINE n == Len(s)
<1>1. n \in Nat /\ \A i \in 1..n : s[i] \in Chars
  OBVIOUS
<1>2. PICK f : Recursive(f, n, Escapes(s), Nexts(s))
  BY <1>1, NextsForward, UnrollsExists
<1>3. \A i \in 1..n : Escapes(s)[i] = Escape(s[i]) /\ Nexts(s)[i] = i + 1
  BY DEF Escapes, Nexts
<1>4. ASSUME NEW g
      PROVE  [i \in 1..n + 1 |-> IF i > n THEN <<>> ELSE Escapes(s)[i] \o g[Nexts(s)[i]]]
               = [i \in 1..n + 1 |-> IF i > n THEN <<>> ELSE Escape(s[i]) \o g[i + 1]]
  <2>1. ASSUME NEW i \in 1..n + 1
        PROVE  (IF i > n THEN <<>> ELSE Escapes(s)[i] \o g[Nexts(s)[i]])
                 = IF i > n THEN <<>> ELSE Escape(s[i]) \o g[i + 1]
    <3>1. CASE i > n
      BY <3>1
    <3>2. CASE ~(i > n)
      <4>1. i \in 1..n
        BY <1>1, <3>2
      <4> QED
        BY <1>3, <3>2, <4>1, Zenon
    <3> QED
      BY <3>1, <3>2
  <2> QED
    BY <2>1, Zenon
<1>5. f = [i \in 1..n + 1 |-> IF i > n THEN <<>> ELSE Escape(s[i]) \o f[i + 1]]
  BY <1>2, <1>4, Zenon DEF Recursive
<1>6. \E g : /\ g = [i \in 1..n + 1 |-> IF i > n THEN <<>> ELSE Escape(s[i]) \o g[i + 1]]
             /\ Encode(s) = g[1]
  BY <1>5, Zenon DEF Encode
<1>7. PICK g : /\ g = [i \in 1..n + 1 |-> IF i > n THEN <<>> ELSE Escape(s[i]) \o g[i + 1]]
               /\ Encode(s) = g[1]
  BY <1>6
<1>8. Recursive(g, n, Escapes(s), Nexts(s))
  BY <1>4, <1>7, Zenon DEF Recursive
<1>9. Escapes(s) \in [1..n -> Seq(Alphabet)]
  BY <1>1, EscapeIs DEF Escapes
<1> QED
  BY <1>1, <1>7, <1>8, <1>9, RecursiveUnrolls

(* What is encoded has neither of the characters that separate the parts.  *)
Inner == Alphabet \ {"&", "="}

LEMMA EscapesInner == ASSUME NEW s \in Seq(Chars) PROVE Escapes(s) \in [1..Len(s) -> Seq(Inner)]
<1>1. ASSUME NEW i \in 1..Len(s) PROVE Escape(s[i]) \in Seq(Inner)
  <2>1. s[i] \in Chars
    OBVIOUS
  <2>2. Escape(s[i]) \in Seq(Alphabet) /\ \A k \in 1..Len(Escape(s[i])) : Escape(s[i])[k] \notin {"&", "="}
    BY <2>1, EscapeIs
  <2>3. \A k \in 1..Len(Escape(s[i])) : Escape(s[i])[k] \in Inner
    BY <2>2 DEF Inner
  <2> QED
    BY <2>2, <2>3
<1> QED
  BY <1>1 DEF Escapes

LEMMA EncodeType ==
  ASSUME NEW s \in Seq(Chars)
  PROVE  Encode(s) \in Seq(Inner) /\ Encode(s) \in Seq(Alphabet)
<1>1. PICK f : Unrolls(f, Len(s), Escapes(s), Nexts(s)) /\ Encode(s) = f[1]
  BY EncodeIs
<1>2. Len(s) \in Nat /\ 1 \in 1..Len(s) + 1
  BY EncodeIs
<1>3. f[1] \in Seq(Inner)
  BY <1>1, <1>2, EscapesInner, NextsForward, UnrollsType
<1>4. Inner \subseteq Alphabet
  BY DEF Inner
<1> QED
  BY <1>1, <1>3, <1>4, SeqMonotonic

----------------------------------------------------------------------------
Pieces(q) == [i \in 1..Len(q) |-> IF Escaped(q, i) THEN <<Chr(q[i + 1], q[i + 2])>>
                                  ELSE <<IF q[i] = "+" THEN " " ELSE q[i]>>]
Jumps(q) == [i \in 1..Len(q) |-> IF Escaped(q, i) THEN i + 3 ELSE i + 1]

LEMMA JumpsForward == ASSUME NEW S, NEW q \in Seq(S) PROVE Forward(Len(q), Jumps(q))
BY DEF Forward, Jumps, Escaped

(* Decode takes an escape, or a character, at a time.                      *)
LEMMA DecodeIs ==
  ASSUME NEW S, NEW q \in Seq(S)
  PROVE  \E d : Unrolls(d, Len(q), Pieces(q), Jumps(q)) /\ Decode(q) = d[1]
<1> DEFINE n == Len(q)
           Copied(i) == <<IF q[i] = "+" THEN " " ELSE q[i]>>
<1>1. n \in Nat
  OBVIOUS
<1>2. PICK f : Recursive(f, n, Pieces(q), Jumps(q))
  BY <1>1, JumpsForward, UnrollsExists
<1>3. \A i \in 1..n : /\ Escaped(q, i) => Pieces(q)[i] = <<Chr(q[i + 1], q[i + 2])>> /\ Jumps(q)[i] = i + 3
                      /\ ~Escaped(q, i) => Pieces(q)[i] = Copied(i) /\ Jumps(q)[i] = i + 1
  BY DEF Pieces, Jumps
<1>4. ASSUME NEW g
      PROVE  [i \in 1..n + 1 |-> IF i > n THEN <<>> ELSE Pieces(q)[i] \o g[Jumps(q)[i]]]
               = [i \in 1..n + 1 |-> IF i > n THEN <<>>
                                     ELSE IF Escaped(q, i) THEN <<Chr(q[i + 1], q[i + 2])>> \o g[i + 3]
                                     ELSE Copied(i) \o g[i + 1]]
  <2>1. ASSUME NEW i \in 1..n + 1
        PROVE  (IF i > n THEN <<>> ELSE Pieces(q)[i] \o g[Jumps(q)[i]])
                 = IF i > n THEN <<>>
                   ELSE IF Escaped(q, i) THEN <<Chr(q[i + 1], q[i + 2])>> \o g[i + 3]
                   ELSE Copied(i) \o g[i + 1]
    <3>1. CASE i > n
      BY <3>1, Zenon
    <3>2. CASE ~(i > n)
      <4>1. i \in 1..n
        BY <1>1, <3>2
      <4> HIDE DEF Copied
      <4> QED
        BY <1>3, <3>2, <4>1, Zenon
    <3> QED
      BY <3>1, <3>2
  <2> HIDE DEF Copied
  <2> QED
    BY <2>1, Zenon
<1>5. f = [i \in 1..n + 1 |-> IF i > n THEN <<>>
                               ELSE IF Escaped(q, i) THEN <<Chr(q[i + 1], q[i + 2])>> \o f[i + 3]
                               ELSE Copied(i) \o f[i + 1]]
  <2> HIDE DEF Copied
  <2> QED
    BY <1>2, <1>4, Zenon DEF Recursive
<1>6. \E g : /\ g = [i \in 1..n + 1 |-> IF i > n THEN <<>>
                                        ELSE IF Escaped(q, i) THEN <<Chr(q[i + 1], q[i + 2])>> \o g[i + 3]
                                        ELSE <<IF q[i] = "+" THEN " " ELSE q[i]>> \o g[i + 1]]
             /\ Decode(q) = g[1]
  BY <1>5, Zenon DEF Decode
<1>7. PICK g : /\ g = [i \in 1..n + 1 |-> IF i > n THEN <<>>
                                        ELSE IF Escaped(q, i) THEN <<Chr(q[i + 1], q[i + 2])>> \o g[i + 3]
                                        ELSE Copied(i) \o g[i + 1]]
               /\ Decode(q) = g[1]
  BY <1>6, Zenon
<1>8. Recursive(g, n, Pieces(q), Jumps(q))
  <2> HIDE DEF Copied
  <2> QED
    BY <1>4, <1>7, Zenon DEF Recursive
<1> QED
  BY <1>1, <1>7, <1>8, RecursiveUnrolls

----------------------------------------------------------------------------
(* t is the end of q.                                                      *)
Ending(q, t) == Len(t) <= Len(q) /\ \A k \in 1..Len(t) : q[Len(q) - Len(t) + k] = t[k]
At(q, t) == Len(q) - Len(t) + 1

(* So is what is left of it, behind e.                                     *)
LEMMA EndingTail ==
  ASSUME NEW S, NEW q \in Seq(S), NEW e \in Seq(S), NEW t \in Seq(S), Ending(q, e \o t)
  PROVE  /\ Ending(q, t)
         /\ At(q, e \o t) \in Nat /\ At(q, t) = At(q, e \o t) + Len(e) /\ At(q, t) \in 1..Len(q) + 1
         /\ \A k \in 1..Len(e) : q[At(q, e \o t) + k - 1] = e[k]
<1> DEFINE u == e \o t
<1>1. /\ u \in Seq(S) /\ Len(u) = Len(e) + Len(t)
      /\ \A i \in 1..Len(e) + Len(t) : u[i] = IF i <= Len(e) THEN e[i] ELSE t[i - Len(e)]
  BY ConcatProperties
<1>2. Len(q) \in Nat /\ Len(e) \in Nat /\ Len(t) \in Nat
  OBVIOUS
<1>3. Len(u) <= Len(q) /\ \A k \in 1..Len(u) : q[Len(q) - Len(u) + k] = u[k]
  BY DEF Ending
<1> HIDE DEF u
<1>4. ASSUME NEW k \in 1..Len(t) PROVE q[Len(q) - Len(t) + k] = t[k]
  <2>1. Len(e) + k \in 1..Len(u) /\ ~(Len(e) + k <= Len(e)) /\ (Len(e) + k) - Len(e) = k
    BY <1>1, <1>2
  <2>2. q[Len(q) - Len(u) + (Len(e) + k)] = t[k]
    BY <1>1, <1>3, <2>1
  <2>3. Len(q) - Len(u) + (Len(e) + k) = Len(q) - Len(t) + k
    BY <1>1, <1>2
  <2> QED
    BY <2>2, <2>3
<1>5. ASSUME NEW k \in 1..Len(e) PROVE q[At(q, u) + k - 1] = e[k]
  <2>1. k \in 1..Len(u) /\ k <= Len(e)
    BY <1>1, <1>2
  <2>2. q[Len(q) - Len(u) + k] = e[k]
    BY <1>1, <1>3, <2>1
  <2>3. At(q, u) + k - 1 = Len(q) - Len(u) + k
    BY <1>1, <1>2 DEF At
  <2> QED
    BY <2>2, <2>3
<1>6. Len(t) <= Len(q) /\ At(q, u) \in Nat /\ At(q, t) = At(q, u) + Len(e) /\ At(q, t) \in 1..Len(q) + 1
  BY <1>1, <1>2, <1>3 DEF At
<1> QED
  BY <1>4, <1>5, <1>6 DEF Ending, u

(* The escape of a character is read as this character.                    *)
LEMMA ReadBack ==
  ASSUME NEW c \in Chars, NEW q \in Seq(Alphabet), NEW t \in Seq(Alphabet), Ending(q, Escape(c) \o t)
  PROVE  LET p == At(q, Escape(c) \o t)
         IN  /\ p \in 1..Len(q) /\ Pieces(q)[p] = <<c>> /\ Jumps(q)[p] = At(q, t)
<1> DEFINE e == Escape(c)
           p == At(q, e \o t)
<1>1. e \in Seq(Alphabet)
  BY EscapeIs
<1>2. /\ p \in Nat /\ At(q, t) = p + Len(e) /\ At(q, t) \in 1..Len(q) + 1
      /\ \A k \in 1..Len(e) : q[p + k - 1] = e[k]
  BY <1>1, EndingTail
<1>3. p >= 1
  BY DEF Ending, At
<1>4. Len(q) \in Nat
  OBVIOUS
<1>5. CASE c = " " /\ e = <<"+">>
  <2>1. Len(e) = 1 /\ e[1] = "+"
    <3>1. "+" \in Alphabet
      BY DEF Alphabet
    <3> HIDE DEF e, p
    <3> QED
      BY <1>5, <3>1, One, Zenon
  <2>2. p \in 1..Len(q) /\ p + 1 - 1 = p
    BY <1>2, <1>3, <1>4, <2>1
  <2> HIDE DEF e, p
  <2>3. q[p] = "+"
    BY <1>2, <2>1, <2>2
  <2>4. ~Escaped(q, p)
    BY <2>3 DEF Escaped
  <2>5. Pieces(q)[p] = <<" ">> /\ Jumps(q)[p] = p + 1
    BY <2>2, <2>3, <2>4 DEF Pieces, Jumps
  <2> QED
    BY <1>2, <1>5, <2>1, <2>2, <2>5 DEF p, e
<1>6. CASE c \notin {" ", "+", "%", "&", "="} /\ e = <<c>>
  <2>1. Len(e) = 1 /\ e[1] = c
    <3> HIDE DEF e, p
    <3> QED
      BY <1>6, One, Zenon
  <2>2. p \in 1..Len(q) /\ p + 1 - 1 = p
    BY <1>2, <1>3, <1>4, <2>1
  <2> HIDE DEF e, p
  <2>3. q[p] = c
    BY <1>2, <2>1, <2>2
  <2>4. q[p] # "+" /\ q[p] # "%"
    BY <1>6, <2>3
  <2>5. ~Escaped(q, p)
    BY <2>4 DEF Escaped
  <2>6. Pieces(q)[p] = <<c>> /\ Jumps(q)[p] = p + 1
    BY <2>2, <2>3, <2>4, <2>5 DEF Pieces, Jumps
  <2> QED
    BY <1>2, <2>1, <2>2, <2>6 DEF p, e
<1>7. CASE /\ c \in DOMAIN Hex /\ e = <<"%", Hex[c][1], Hex[c][2]>>
           /\ Hex[c] = <<Hex[c][1], Hex[c][2]>>
  <2> DEFINE a == Hex[c][1]
             b == Hex[c][2]
  <2>1. Len(e) = 3 /\ e[1] = "%" /\ e[2] = a /\ e[3] = b
    BY <1>7
  <2> HIDE DEF e, p, a, b
  <2>2. p \in 1..Len(q) /\ p + 2 <= Len(q) /\ p + 1 - 1 = p /\ p + 2 - 1 = p + 1 /\ p + 3 - 1 = p + 2
    BY <1>2, <1>3, <1>4, <2>1
  <2>3. q[p] = "%" /\ q[p + 1] = a /\ q[p + 2] = b
    BY <1>2, <2>1, <2>2
  <2>4. Escaped(q, p)
    BY <2>2, <2>3 DEF Escaped
  <2>5. Hex[c] = <<a, b>>
    BY <1>7 DEF a, b
  <2>6. Chr(a, b) = c
    <3>1. \A d \in DOMAIN Hex : Hex[d] = <<a, b>> => d = c
      BY <1>7, <2>5, HexAssumption
    <3>2. Chr(a, b) = CHOOSE d \in DOMAIN Hex : Hex[d] = <<a, b>>
      BY <1>7, <2>5, Zenon DEF Chr
    <3> QED
      BY <1>7, <2>5, <3>1, <3>2, Zenon
  <2>7. Pieces(q)[p] = <<Chr(a, b)>> /\ Jumps(q)[p] = p + 3
    BY <2>2, <2>3, <2>4 DEF Pieces, Jumps
  <2> QED
    BY <1>2, <2>1, <2>2, <2>6, <2>7 DEF p, e
<1> QED
  BY <1>5, <1>6, <1>7, EscapeIs

(* adb-termux.sh 126-139 and handler.c 441-455: what the client encodes,   *)
(* the server decodes to what it was.                                      *)
THEOREM DecodeEncode == ASSUME NEW s \in Seq(Chars) PROVE Decode(Encode(s)) = s
<1> DEFINE n == Len(s)
           q == Encode(s)
<1>1. PICK f : Unrolls(f, n, Escapes(s), Nexts(s)) /\ q = f[1]
  BY EncodeIs
<1>2. PICK d : Unrolls(d, Len(q), Pieces(q), Jumps(q)) /\ Decode(q) = d[1]
  BY EncodeType, DecodeIs
<1>3. /\ n \in Nat /\ 1 \in 1..n + 1 /\ n + 1 \in 1..n + 1
      /\ \A i \in 1..n : i \in 1..n + 1 /\ i + 1 \in 1..n + 1 /\ s[i] \in Chars
  OBVIOUS
<1>4. \A i \in 1..n + 1 : f[i] \in Seq(Alphabet)
  BY <1>1, EncodeIs, NextsForward, UnrollsType
<1>5. q \in Seq(Alphabet) /\ Len(q) \in Nat
  BY EncodeType
<1> HIDE DEF q
<1>6. f[n + 1] = <<>> /\ \A i \in 1..n : f[i] = Escape(s[i]) \o f[i + 1]
  BY <1>1, <1>3 DEF Unrolls, Escapes, Nexts
<1>7. d[Len(q) + 1] = <<>> /\ \A i \in 1..Len(q) : d[i] = Pieces(q)[i] \o d[Jumps(q)[i]]
  BY <1>2 DEF Unrolls
<1>8. \A i \in 1..n + 1 : Ending(q, f[i])
  <2> DEFINE T == {k \in Nat : k + 1 <= n + 1 => Ending(q, f[k + 1])}
  <2>1. 0 \in T
    BY <1>1, <1>5 DEF Ending
  <2>2. ASSUME NEW k \in Nat, k \in T PROVE k + 1 \in T
    <3> SUFFICES ASSUME (k + 1) + 1 <= n + 1 PROVE Ending(q, f[(k + 1) + 1])
      OBVIOUS
    <3>1. k + 1 \in 1..n /\ k + 1 <= n + 1
      BY <1>3
    <3>2. Ending(q, Escape(s[k + 1]) \o f[(k + 1) + 1])
      BY <1>6, <2>2, <3>1
    <3> QED
      BY <1>3, <1>4, <1>5, <3>1, <3>2, EscapeIs, EndingTail
  <2> HIDE DEF T
  <2>3. \A k \in Nat : k \in T
    BY <2>1, <2>2, Induction
  <2>4. \A i \in 1..n + 1 : i - 1 \in Nat /\ (i - 1) + 1 = i /\ i <= n + 1
    BY <1>3
  <2> QED
    BY <2>3, <2>4 DEF T
<1>9. \A i \in 1..n + 1 : d[At(q, f[i])] = SubSeq(s, i, n)
  <2> DEFINE T == {k \in Nat : \A i \in 1..n + 1 : i >= n + 1 - k => d[At(q, f[i])] = SubSeq(s, i, n)}
  <2>1. 0 \in T
    <3>1. \A i \in 1..n + 1 : i >= n + 1 - 0 => i = n + 1
      BY <1>3
    <3>2. Len(f[n + 1]) = 0
      BY <1>6
    <3>3. At(q, f[n + 1]) = Len(q) + 1
      BY <1>5, <3>2 DEF At
    <3>4. SubSeq(s, n + 1, n) = <<>>
      BY <1>3, SubSeqEmpty
    <3> QED
      BY <1>7, <3>1, <3>3, <3>4
  <2>2. ASSUME NEW k \in Nat, k \in T PROVE k + 1 \in T
    <3> SUFFICES ASSUME NEW i \in 1..n + 1, i >= n + 1 - (k + 1) PROVE d[At(q, f[i])] = SubSeq(s, i, n)
      OBVIOUS
    <3>1. CASE i >= n + 1 - k
      BY <2>2, <3>1
    <3>2. CASE ~(i >= n + 1 - k)
      <4>1. i \in 1..n /\ i + 1 \in 1..n + 1 /\ i + 1 >= n + 1 - k
        BY <1>3, <3>2
      <4>2. f[i] = Escape(s[i]) \o f[i + 1] /\ s[i] \in Chars /\ f[i + 1] \in Seq(Alphabet) /\ Ending(q, f[i])
        BY <1>3, <1>4, <1>6, <1>8, <4>1
      <4>3. At(q, f[i]) \in 1..Len(q) /\ Pieces(q)[At(q, f[i])] = <<s[i]>> /\ Jumps(q)[At(q, f[i])] = At(q, f[i + 1])
        BY <1>5, <4>2, ReadBack
      <4>4. d[At(q, f[i])] = <<s[i]>> \o d[At(q, f[i + 1])]
        BY <1>7, <4>3
      <4>5. d[At(q, f[i + 1])] = SubSeq(s, i + 1, n)
        BY <2>2, <4>1
      <4>6. SubSeq(s, i, n) = <<s[i]>> \o SubSeq(s, i + 1, n)
        <5>1. n \in i..Len(s)
          BY <1>3, <4>1
        <5> QED
          BY <4>1, <5>1, SubSeqRecursiveFirst
      <4> QED
        BY <4>4, <4>5, <4>6
    <3> QED
      BY <3>1, <3>2
  <2> HIDE DEF T
  <2>3. n \in T
    BY <1>3, <2>1, <2>2, Induction
  <2>4. \A i \in 1..n + 1 : i >= n + 1 - n
    BY <1>3
  <2> QED
    BY <2>3, <2>4 DEF T
<1>10. At(q, f[1]) = 1
  BY <1>1, <1>5 DEF At
<1>11. d[1] = SubSeq(s, 1, Len(s))
  BY <1>3, <1>9, <1>10
<1> QED
  BY <1>2, <1>11, SubSeqFull DEF q

(* A string without NUL is taken whole.                                    *)
LEMMA CStringWhole ==
  ASSUME NEW s \in Seq(Chars)
  PROVE  CString(s) = s
<1> DEFINE n == Len(s)
           h == [i \in 1..n + 1 |-> n]
<1>1. n \in Nat /\ \A i \in 1..n : s[i] # "NUL"
  BY CharAssumption
<1>2. ASSUME NEW i \in 1..n + 1
      PROVE  n = IF i > n \/ s[i] = "NUL" THEN i - 1 ELSE h[i + 1]
  <2>1. CASE i > n
    BY <1>1, <2>1
  <2>2. CASE ~(i > n)
    <3>1. i \in 1..n /\ i + 1 \in 1..n + 1
      BY <1>1, <2>2
    <3>2. s[i] # "NUL" /\ h[i + 1] = n
      BY <1>1, <3>1
    <3> QED
      BY <2>2, <3>2, Zenon
  <2> QED
    BY <2>1, <2>2
<1>3. h = [i \in 1..n + 1 |-> IF i > n \/ s[i] = "NUL" THEN i - 1 ELSE h[i + 1]]
  <2>1. h = [i \in 1..n + 1 |-> n]
    OBVIOUS
  <2> HIDE DEF h
  <2> QED
    BY <1>2, <2>1, Zenon
<1> HIDE DEF h
<1>4. \E g : /\ g = [i \in 1..n + 1 |-> IF i > n \/ s[i] = "NUL" THEN i - 1 ELSE g[i + 1]]
             /\ CString(s) = SubSeq(s, 1, g[1])
  BY <1>3, Zenon DEF CString
<1>5. PICK g : /\ g = [i \in 1..n + 1 |-> IF i > n \/ s[i] = "NUL" THEN i - 1 ELSE g[i + 1]]
               /\ CString(s) = SubSeq(s, 1, g[1])
  BY <1>4
<1>6. \A i \in 1..n + 1 : g[i] = IF i > n \/ s[i] = "NUL" THEN i - 1 ELSE g[i + 1]
  BY <1>5, Zenon
<1> DEFINE T == {k \in Nat : \A i \in 1..n + 1 : i >= n + 1 - k => g[i] = n}
<1>7. 0 \in T
  <2>1. \A i \in 1..n + 1 : i >= n + 1 - 0 => i > n /\ i - 1 = n
    BY <1>1
  <2> QED
    BY <1>6, <2>1
<1>8. ASSUME NEW k \in Nat, k \in T PROVE k + 1 \in T
  <2> SUFFICES ASSUME NEW i \in 1..n + 1, i >= n + 1 - (k + 1) PROVE g[i] = n
    OBVIOUS
  <2>1. CASE i >= n + 1 - k
    BY <1>8, <2>1
  <2>2. CASE ~(i >= n + 1 - k)
    <3>1. i \in 1..n /\ ~(i > n) /\ i + 1 \in 1..n + 1 /\ i + 1 >= n + 1 - k
      BY <1>1, <2>2
    <3>2. g[i] = g[i + 1]
      BY <1>1, <1>6, <3>1, Zenon
    <3> QED
      BY <1>8, <3>1, <3>2
  <2> QED
    BY <2>1, <2>2
<1> HIDE DEF T
<1>9. n \in T
  BY <1>1, <1>7, <1>8, Induction
<1>10. 1 \in 1..n + 1 /\ 1 >= n + 1 - n
  BY <1>1
<1>11. g[1] = n
  BY <1>9, <1>10 DEF T
<1> QED
  BY <1>5, <1>11, SubSeqFull

LEMMA CutType ==
  ASSUME NEW S, NEW s \in Seq(S), NEW k \in Nat
  PROVE  Cut(s, k) \in Seq(S) /\ (Len(s) <= k => Cut(s, k) = s)
<1>1. CASE k < Len(s)
  <2>1. Cut(s, k) = SubSeq(s, 1, k)
    BY <1>1 DEF Cut
  <2>2. \A i \in 1..k : s[i] \in S
    BY <1>1
  <2>3. SubSeq(s, 1, k) \in Seq(S)
    BY <2>2, SubSeqProperties
  <2> QED
    BY <1>1, <2>1, <2>3
<1>2. CASE ~(k < Len(s))
  BY <1>2, SubSeqFull DEF Cut
<1> QED
  BY <1>1, <1>2

(* The segments of a query.                                                *)
LEMMA BreaksType ==
  ASSUME NEW S, NEW q \in Seq(S)
  PROVE  /\ Len(q) \in Nat /\ Breaks(q) \in SUBSET (0..Len(q) + 1) /\ Starts(q) \in SUBSET (0..Len(q))
         /\ 0 \in Starts(q) /\ Len(q) + 1 \in Breaks(q) /\ Breaks(q) = Starts(q) \cup {Len(q) + 1}
<1>1. Len(q) \in Nat
  OBVIOUS
<1> QED
  BY <1>1 DEF Breaks, Starts

LEMMA SegmentIs ==
  ASSUME NEW S, NEW q \in Seq(S), NEW i \in Nat, NEW m \in Breaks(q), m > i,
         \A j \in Breaks(q) : j > i => m <= j
  PROVE  Segment(q, i) = SubSeq(q, i + 1, m - 1)
<1> DEFINE Later == {j \in Breaks(q) : j > i}
<1>1. m \in Later /\ \A j \in Later : m <= j
  OBVIOUS
<1>2. \A x \in Later : (\A y \in Later : x <= y) => x = m
  <2>1. Breaks(q) \in SUBSET Nat
    BY BreaksType
  <2> QED
    BY <1>1, <2>1
<1>3. (CHOOSE x \in Later : \A y \in Later : x <= y) = m
  BY <1>1, <1>2
<1>4. Min(Later) = m
  BY <1>3, Zenon DEF Min
<1> QED
  BY <1>4, Zenon DEF Segment

(* r is q, a "&" and a part p.                                             *)
Within == Alphabet \ {"&"}
Joined(r, q, p) ==
  /\ Len(r) = Len(q) + 1 + Len(p)
  /\ \A i \in 1..Len(q) : r[i] = q[i]
  /\ r[Len(q) + 1] = "&"
  /\ \A k \in 1..Len(p) : r[Len(q) + 1 + k] = p[k]

LEMMA JoinedIs ==
  ASSUME NEW S, "&" \in S, NEW q \in Seq(S), NEW p \in Seq(S)
  PROVE  q \o (<<"&">> \o p) \in Seq(S) /\ Joined(q \o (<<"&">> \o p), q, p)
<1> DEFINE u == <<"&">> \o p
           r == q \o u
<1>1. Len(q) \in Nat /\ Len(p) \in Nat /\ <<"&">> \in Seq(S) /\ Len(<<"&">>) = 1 /\ <<"&">>[1] = "&"
  OBVIOUS
<1>2. /\ u \in Seq(S) /\ Len(u) = 1 + Len(p)
      /\ \A i \in 1..1 + Len(p) : u[i] = IF i <= 1 THEN <<"&">>[i] ELSE p[i - 1]
  BY <1>1, ConcatProperties
<1>3. u[1] = "&" /\ \A k \in 1..Len(p) : u[k + 1] = p[k]
  <2>1. 1 \in 1..1 + Len(p) /\ \A k \in 1..Len(p) : k + 1 \in 1..1 + Len(p) /\ ~(k + 1 <= 1) /\ (k + 1) - 1 = k
    BY <1>1
  <2> QED
    BY <1>1, <1>2, <2>1
<1> HIDE DEF u
<1>4. /\ r \in Seq(S) /\ Len(r) = Len(q) + Len(u)
      /\ \A i \in 1..Len(q) + Len(u) : r[i] = IF i <= Len(q) THEN q[i] ELSE u[i - Len(q)]
  BY <1>2, ConcatProperties
<1> HIDE DEF r
<1>5. \A i \in 1..Len(q) : r[i] = q[i]
  BY <1>1, <1>2, <1>4
<1>6. \A k \in 1..1 + Len(p) : r[Len(q) + k] = u[k]
  <2> TAKE k \in 1..1 + Len(p)
  <2>1. Len(q) + k \in 1..Len(q) + Len(u) /\ ~(Len(q) + k <= Len(q)) /\ (Len(q) + k) - Len(q) = k
    BY <1>1, <1>2
  <2> QED
    BY <1>4, <2>1
<1>7. r[Len(q) + 1] = "&"
  BY <1>1, <1>3, <1>6
<1>8. \A k \in 1..Len(p) : r[Len(q) + 1 + k] = p[k]
  <2> TAKE k \in 1..Len(p)
  <2>1. k + 1 \in 1..1 + Len(p) /\ Len(q) + (k + 1) = Len(q) + 1 + k
    BY <1>1
  <2> QED
    BY <1>3, <1>6, <2>1
<1>9. Len(r) = Len(q) + 1 + Len(p)
  BY <1>1, <1>2, <1>4
<1> QED
  BY <1>4, <1>5, <1>7, <1>8, <1>9 DEF Joined, r, u

LEMMA JoinedBreaks ==
  ASSUME NEW q \in Seq(Alphabet), NEW p \in Seq(Within), NEW r \in Seq(Alphabet), Joined(r, q, p)
  PROVE  /\ Breaks(r) = Breaks(q) \cup {Len(r) + 1}
         /\ Starts(r) = Starts(q) \cup {Len(q) + 1}
<1>1. Len(q) \in Nat /\ Len(p) \in Nat /\ Len(r) = Len(q) + 1 + Len(p)
  BY DEF Joined
<1>2. \A k \in 1..Len(p) : r[Len(q) + 1 + k] # "&"
  <2>1. \A k \in 1..Len(p) : p[k] \in Within
    OBVIOUS
  <2> QED
    BY <2>1 DEF Joined, Within
<1>3. \A i \in 1..Len(r) : r[i] = "&" <=> i = Len(q) + 1 \/ (i \in 1..Len(q) /\ q[i] = "&")
  <2> TAKE i \in 1..Len(r)
  <2>1. CASE i \in 1..Len(q)
    BY <1>1, <2>1 DEF Joined
  <2>2. CASE i = Len(q) + 1
    BY <2>2 DEF Joined
  <2>3. CASE i > Len(q) + 1
    <3>1. i - (Len(q) + 1) \in 1..Len(p) /\ Len(q) + 1 + (i - (Len(q) + 1)) = i
      BY <1>1, <2>3
    <3>2. r[i] # "&"
      BY <1>2, <3>1
    <3> QED
      BY <1>1, <2>3, <3>2
  <2> QED
    BY <1>1, <2>1, <2>2, <2>3
<1>4. Breaks(r) = Breaks(q) \cup {Len(r) + 1}
  BY <1>1, <1>3 DEF Breaks
<1> QED
  BY <1>1, <1>4 DEF Starts, Breaks

(* The segments of q are segments of r, and p is one.                      *)
LEMMA JoinedSegments ==
  ASSUME NEW q \in Seq(Alphabet), NEW p \in Seq(Within), NEW r \in Seq(Alphabet), Joined(r, q, p)
  PROVE  /\ \A i \in Starts(q) : Segment(r, i) = Segment(q, i)
         /\ Segment(r, Len(q) + 1) = p
<1>1. Len(q) \in Nat /\ Len(p) \in Nat /\ Len(r) = Len(q) + 1 + Len(p)
  BY DEF Joined
<1>2. Breaks(r) = Breaks(q) \cup {Len(r) + 1} /\ Breaks(q) \in SUBSET (0..Len(q) + 1) /\ Starts(q) \in SUBSET (0..Len(q))
  BY JoinedBreaks, BreaksType
<1>3. ASSUME NEW i \in Starts(q) PROVE Segment(r, i) = Segment(q, i)
  <2> DEFINE Later == {j \in Breaks(q) : j > i}
  <2>1. Len(q) + 1 \in Later /\ Later \in SUBSET Nat
    BY <1>2, BreaksType
  <2>2. PICK m \in Later : \A j \in Later : m <= j
    BY <2>1, LeastOf
  <2>3. /\ i \in 0..Len(q) /\ m \in Breaks(q) /\ m \in Breaks(r) /\ m > i
        /\ \A j \in Breaks(q) : j > i => m <= j
    BY <1>2, <2>2
  <2>4. m <= Len(q) + 1 /\ m \in Nat
    BY <1>2, <2>3
  <2>5. \A j \in Breaks(r) : j > i => m <= j
    BY <1>1, <1>2, <2>3, <2>4
  <2>6. Segment(q, i) = SubSeq(q, i + 1, m - 1) /\ Segment(r, i) = SubSeq(r, i + 1, m - 1)
    BY <2>3, <2>5, SegmentIs
  <2>7. \A k \in i + 1..m - 1 : k \in 1..Len(q) /\ k \in 1..Len(r)
    BY <1>1, <2>3, <2>4
  <2>8. \A k \in i + 1..m - 1 : q[k] \in Alphabet /\ r[k] \in Alphabet /\ r[k] = q[k]
    <3>1. (\A k \in 1..Len(q) : q[k] \in Alphabet) /\ \A k \in 1..Len(r) : r[k] \in Alphabet
      OBVIOUS
    <3> QED
      BY <2>7, <3>1 DEF Joined
  <2>9. i + 1 \in Int /\ m - 1 \in Int
    BY <2>3, <2>4
  <2> DEFINE u == SubSeq(q, i + 1, m - 1)
             v == SubSeq(r, i + 1, m - 1)
  <2>10. /\ u \in Seq(Alphabet) /\ v \in Seq(Alphabet) /\ Len(u) = Len(v)
         /\ Len(u) = IF i + 1 <= m - 1 THEN (m - 1) - (i + 1) + 1 ELSE 0
         /\ \A k \in 1..(m - 1) - (i + 1) + 1 : u[k] = q[(i + 1) + k - 1] /\ v[k] = r[(i + 1) + k - 1]
    BY <2>8, <2>9, SubSeqProperties
  <2> HIDE DEF u, v
  <2>11. \A k \in 1..Len(u) : u[k] = v[k]
    <3> TAKE k \in 1..Len(u)
    <3>1. k \in 1..(m - 1) - (i + 1) + 1 /\ (i + 1) + k - 1 \in i + 1..m - 1
      BY <2>9, <2>10
    <3> QED
      BY <2>8, <2>10, <3>1
  <2>12. u = v
    BY <2>10, <2>11, SeqEqual
  <2> QED
    BY <2>6, <2>12 DEF u, v
<1>4. Segment(r, Len(q) + 1) = p
  <2> DEFINE i == Len(q) + 1
             v == SubSeq(r, i + 1, Len(r))
  <2>1. i \in Nat /\ Len(r) + 1 \in Breaks(r) /\ Len(r) + 1 > i /\ (Len(r) + 1) - 1 = Len(r)
    BY <1>1, <1>2
  <2>2. \A j \in Breaks(r) : j > i => Len(r) + 1 <= j
    BY <1>1, <1>2
  <2>3. Segment(r, i) = v
    <3>1. Segment(r, i) = SubSeq(r, i + 1, (Len(r) + 1) - 1)
      BY <2>1, <2>2, SegmentIs
    <3> QED
      BY <2>1, <3>1
  <2>4. i + 1 \in Int /\ Len(r) \in Int /\ \A k \in i + 1..Len(r) : r[k] \in Alphabet
    BY <1>1
  <2>5. /\ v \in Seq(Alphabet) /\ Len(v) = IF i + 1 <= Len(r) THEN Len(r) - (i + 1) + 1 ELSE 0
        /\ \A k \in 1..Len(r) - (i + 1) + 1 : v[k] = r[(i + 1) + k - 1]
    BY <2>4, SubSeqProperties
  <2>6. p \in Seq(Alphabet)
    <3>1. Within \subseteq Alphabet
      BY DEF Within
    <3> QED
      BY <3>1, SeqMonotonic
  <2> HIDE DEF v
  <2>7. Len(v) = Len(p) /\ Len(r) - (i + 1) + 1 = Len(p)
    BY <1>1, <2>5
  <2>8. \A k \in 1..Len(v) : v[k] = p[k]
    <3> TAKE k \in 1..Len(v)
    <3>1. k \in 1..Len(p) /\ (i + 1) + k - 1 = Len(q) + 1 + k
      BY <1>1, <2>7
    <3>2. v[k] = r[Len(q) + 1 + k]
      BY <2>5, <2>7, <3>1
    <3> QED
      BY <3>1, <3>2 DEF Joined
  <2>9. v = p
    BY <2>5, <2>6, <2>7, <2>8, SeqEqual
  <2> QED
    BY <2>3, <2>9
<1> QED
  BY <1>3, <1>4

----------------------------------------------------------------------------
(* The segments of q, in order, are P[0], P[1], ... P[n]; they begin at    *)
(* b[0], b[1], ... b[n].                                                   *)
Parted(q, n, P, b) ==
  /\ q \in Seq(Alphabet)
  /\ b \in [0..n -> Nat] /\ \A j, k \in 0..n : j < k => b[j] < b[k]
  /\ Starts(q) = {b[k] : k \in 0..n}
  /\ \A k \in 0..n : Segment(q, b[k]) = P[k]

LEMMA PartedFirst ==
  ASSUME NEW P, P[0] \in Seq(Within)
  PROVE  \E b : Parted(P[0], 0, P, b)
<1> DEFINE q == P[0]
           b == [k \in 0..0 |-> 0]
<1>1. q \in Seq(Alphabet)
  <2>1. Within \subseteq Alphabet
    BY DEF Within
  <2> QED
    BY <2>1, SeqMonotonic
<1> HIDE DEF q
<1>2. Len(q) \in Nat /\ \A i \in 1..Len(q) : q[i] # "&"
  <2>1. \A i \in 1..Len(q) : q[i] \in Within
    BY DEF q
  <2> QED
    BY <1>1, <2>1 DEF Within
<1>3. Breaks(q) = {0, Len(q) + 1} /\ Starts(q) = {0}
  BY <1>2 DEF Breaks, Starts
<1>4. Segment(q, 0) = q
  <2>1. 0 \in Nat /\ Len(q) + 1 \in Breaks(q) /\ Len(q) + 1 > 0 /\ \A j \in Breaks(q) : j > 0 => Len(q) + 1 <= j
    BY <1>2, <1>3
  <2>2. Segment(q, 0) = SubSeq(q, 0 + 1, (Len(q) + 1) - 1)
    BY <1>1, <2>1, SegmentIs
  <2>3. 0 + 1 = 1 /\ (Len(q) + 1) - 1 = Len(q)
    BY <1>2
  <2> QED
    BY <1>1, <2>2, <2>3, SubSeqFull
<1>5. Parted(q, 0, P, b)
  <2>1. 0..0 = {0} /\ b[0] = 0 /\ b \in [0..0 -> Nat]
    OBVIOUS
  <2> HIDE DEF b
  <2>2. Starts(q) = {b[k] : k \in 0..0}
    BY <1>3, <2>1
  <2>3. \A j, k \in 0..0 : j < k => b[j] < b[k]
    OBVIOUS
  <2>4. \A k \in 0..0 : Segment(q, b[k]) = P[k]
    BY <1>4, <2>1 DEF q
  <2> QED
    BY <1>1, <2>1, <2>2, <2>3, <2>4 DEF Parted
<1> QED
  BY <1>5 DEF q

(* What is added is the last segment, and the others stay.                 *)
LEMMA PartedMore ==
  ASSUME NEW n \in Nat, NEW q, NEW P, NEW b, Parted(q, n, P, b), P[n + 1] \in Seq(Within),
         NEW r \in Seq(Alphabet), Joined(r, q, P[n + 1])
  PROVE  \E a : Parted(r, n + 1, P, a)
<1> DEFINE a == [k \in 0..n + 1 |-> IF k = n + 1 THEN Len(q) + 1 ELSE b[k]]
<1>1. q \in Seq(Alphabet) /\ Len(q) \in Nat
  BY DEF Parted
<1>2. \A k \in 0..n : b[k] \in Starts(q) /\ b[k] \in 0..Len(q)
  <2>1. Starts(q) \in SUBSET (0..Len(q))
    BY <1>1, BreaksType
  <2> QED
    BY <2>1 DEF Parted
<1>3. 0..n + 1 = 0..n \cup {n + 1} /\ n + 1 \notin 0..n
  OBVIOUS
<1>4. a[n + 1] = Len(q) + 1 /\ \A k \in 0..n : a[k] = b[k]
  BY <1>3
<1>5. a \in [0..n + 1 -> Nat]
  BY <1>1, <1>2, <1>3
<1> HIDE DEF a
<1>6. \A j, k \in 0..n + 1 : j < k => a[j] < a[k]
  <2> SUFFICES ASSUME NEW j \in 0..n + 1, NEW k \in 0..n + 1, j < k PROVE a[j] < a[k]
    OBVIOUS
  <2>1. j \in 0..n
    OBVIOUS
  <2>2. CASE k \in 0..n
    BY <1>4, <2>1, <2>2 DEF Parted
  <2>3. CASE k = n + 1
    BY <1>1, <1>2, <1>4, <2>1, <2>3
  <2> QED
    BY <1>3, <2>2, <2>3
<1>7. Starts(r) = {a[k] : k \in 0..n + 1}
  <2>1. Starts(r) = Starts(q) \cup {Len(q) + 1}
    BY <1>1, JoinedBreaks
  <2>2. Starts(q) = {b[k] : k \in 0..n}
    BY DEF Parted
  <2>3. {a[k] : k \in 0..n + 1} = {a[k] : k \in 0..n} \cup {a[n + 1]}
    BY <1>3, Zenon
  <2>4. {a[k] : k \in 0..n} = {b[k] : k \in 0..n}
    BY <1>4, Zenon
  <2> QED
    BY <1>4, <2>1, <2>2, <2>3, <2>4
<1>8. \A k \in 0..n + 1 : Segment(r, a[k]) = P[k]
  <2>1. (\A i \in Starts(q) : Segment(r, i) = Segment(q, i)) /\ Segment(r, Len(q) + 1) = P[n + 1]
    BY <1>1, JoinedSegments
  <2>2. \A k \in 0..n : Segment(q, b[k]) = P[k]
    BY DEF Parted
  <2> QED
    BY <1>2, <1>3, <1>4, <2>1, <2>2, Zenon
<1>9. Parted(r, n + 1, P, a)
  BY <1>5, <1>6, <1>7, <1>8, Zenon DEF Parted
<1> QED
  BY <1>9

LEMMA UrlencodeType ==
  ASSUME NEW s \in Seq(Chars)
  PROVE  Urlencode(s) \in Seq(Inner) /\ Urlencode(s) \in Seq(Alphabet)
<1>1. <<>> \in Seq(Inner) /\ <<>> \in Seq(Alphabet)
  OBVIOUS
<1> QED
  BY <1>1, EncodeType, Zenon DEF Urlencode

(* The parts the client writes.                                            *)
Setting(e) == <<"env_">> \o Urlencode(e[1]) \o <<"=">> \o Urlencode(e[2])
Parts(command, env) ==
  [k \in 0..Len(env) + 1 |-> IF k = 0 THEN <<"command=">> \o Urlencode(command)
                             ELSE IF k <= Len(env) THEN Setting(env[k]) ELSE <<"raw=1">>]
Strings == Seq(Chars) \X Seq(Chars)

LEMMA SettingType ==
  ASSUME NEW e \in Strings
  PROVE  /\ Urlencode(e[1]) \in Seq(Inner) /\ Urlencode(e[2]) \in Seq(Inner)
         /\ Urlencode(e[1]) \in Seq(Alphabet) /\ Urlencode(e[2]) \in Seq(Alphabet)
         /\ <<"env_">> \in Seq(Alphabet) /\ <<"=">> \in Seq(Alphabet) /\ <<"&">> \in Seq(Alphabet)
         /\ Setting(e) \in Seq(Alphabet)
<1>1. e[1] \in Seq(Chars) /\ e[2] \in Seq(Chars)
  BY DEF Strings
<1>2. /\ Urlencode(e[1]) \in Seq(Inner) /\ Urlencode(e[2]) \in Seq(Inner)
      /\ Urlencode(e[1]) \in Seq(Alphabet) /\ Urlencode(e[2]) \in Seq(Alphabet)
  BY <1>1, UrlencodeType
<1>3. "env_" \in Alphabet /\ "=" \in Alphabet /\ "&" \in Alphabet
  BY DEF Alphabet
<1>4. <<"env_">> \in Seq(Alphabet) /\ <<"=">> \in Seq(Alphabet) /\ <<"&">> \in Seq(Alphabet)
  BY <1>3
<1>5. Setting(e) \in Seq(Alphabet)
  <2> DEFINE x == Urlencode(e[1])
             y == Urlencode(e[2])
  <2> HIDE DEF x, y
  <2>1. x \in Seq(Alphabet) /\ y \in Seq(Alphabet)
    BY <1>2 DEF x, y
  <2>2. <<"env_">> \o x \o <<"=">> \o y \in Seq(Alphabet)
    BY <1>4, <2>1
  <2> QED
    BY <2>2 DEF Setting, x, y
<1> QED
  BY <1>2, <1>4, <1>5

(* Where its "=" is.                                                       *)
LEMMA SettingIs ==
  ASSUME NEW x \in Seq(Inner), NEW y \in Seq(Inner)
  PROVE  LET g == <<"env_">> \o x \o <<"=">> \o y
         IN  /\ Len(g) = Len(x) + Len(y) + 2 /\ g[1] = "env_" /\ g[Len(x) + 2] = "="
             /\ \A i \in 2..Len(x) + 1 : g[i] = x[i - 1] /\ g[i] # "="
             /\ \A i \in 1..Len(y) : g[Len(x) + 2 + i] = y[i]
             /\ \A i \in 1..Len(g) : g[i] # "&"
<1> DEFINE g == <<"env_">> \o x \o <<"=">> \o y
<1>1. x \in Seq(Alphabet) /\ y \in Seq(Alphabet) /\ <<"env_">> \in Seq(Alphabet) /\ <<"=">> \in Seq(Alphabet)
  <2>1. Inner \subseteq Alphabet
    BY DEF Inner
  <2>2. x \in Seq(Alphabet) /\ y \in Seq(Alphabet)
    BY <2>1, SeqMonotonic
  <2>3. "env_" \in Alphabet /\ "=" \in Alphabet
    BY DEF Alphabet
  <2> QED
    BY <2>2, <2>3
<1>2. Len(x) \in Nat /\ Len(y) \in Nat /\ (\A i \in 1..Len(x) : x[i] \notin {"&", "="}) /\ \A i \in 1..Len(y) : y[i] # "&"
  BY DEF Inner
<1>3. Len(<<"env_">>) = 1 /\ <<"env_">>[1] = "env_" /\ Len(<<"=">>) = 1 /\ <<"=">>[1] = "="
  OBVIOUS
<1> DEFINE u == <<"env_">> \o x
           v == u \o <<"=">>
<1>4. /\ u \in Seq(Alphabet) /\ Len(u) = 1 + Len(x)
      /\ \A i \in 1..1 + Len(x) : u[i] = IF i <= 1 THEN <<"env_">>[i] ELSE x[i - 1]
  BY <1>1, <1>3, ConcatProperties
<1> HIDE DEF u
<1>5. /\ v \in Seq(Alphabet) /\ Len(v) = Len(u) + 1
      /\ \A i \in 1..Len(u) + 1 : v[i] = IF i <= Len(u) THEN u[i] ELSE <<"=">>[i - Len(u)]
  BY <1>1, <1>3, <1>4, ConcatProperties
<1> HIDE DEF v
<1>6. /\ Len(v \o y) = Len(v) + Len(y)
      /\ \A i \in 1..Len(v) + Len(y) : (v \o y)[i] = IF i <= Len(v) THEN v[i] ELSE y[i - Len(v)]
  BY <1>1, <1>5, ConcatProperties
<1>7. g = v \o y
  BY DEF u, v
<1> HIDE DEF g
<1>8. Len(g) = Len(x) + Len(y) + 2
  BY <1>2, <1>4, <1>5, <1>6, <1>7
<1>9. \A i \in 1..Len(g) : \/ i = 1 /\ g[i] = "env_"
                           \/ i \in 2..Len(x) + 1 /\ g[i] = x[i - 1] /\ i - 1 \in 1..Len(x)
                           \/ i = Len(x) + 2 /\ g[i] = "="
                           \/ i > Len(x) + 2 /\ g[i] = y[i - (Len(x) + 2)] /\ i - (Len(x) + 2) \in 1..Len(y)
  <2> TAKE i \in 1..Len(g)
  <2>1. CASE i = 1
    <3>1. i <= Len(v) /\ i <= Len(u) /\ i \in 1..Len(v) + Len(y) /\ i \in 1..Len(u) + 1 /\ i \in 1..1 + Len(x) /\ i <= 1
      BY <1>2, <1>4, <1>5, <2>1
    <3> QED
      BY <1>3, <1>4, <1>5, <1>6, <1>7, <2>1, <3>1
  <2>2. CASE i \in 2..Len(x) + 1
    <3>1. /\ i <= Len(v) /\ i <= Len(u) /\ i \in 1..Len(v) + Len(y) /\ i \in 1..Len(u) + 1
          /\ i \in 1..1 + Len(x) /\ ~(i <= 1) /\ i - 1 \in 1..Len(x)
      BY <1>2, <1>4, <1>5, <2>2
    <3> QED
      BY <1>4, <1>5, <1>6, <1>7, <2>2, <3>1
  <2>3. CASE i = Len(x) + 2
    <3>1. i <= Len(v) /\ ~(i <= Len(u)) /\ i \in 1..Len(v) + Len(y) /\ i \in 1..Len(u) + 1 /\ i - Len(u) = 1
      BY <1>2, <1>4, <1>5, <2>3
    <3> QED
      BY <1>3, <1>5, <1>6, <1>7, <2>3, <3>1
  <2>4. CASE i > Len(x) + 2
    <3>1. ~(i <= Len(v)) /\ i \in 1..Len(v) + Len(y) /\ i - Len(v) = i - (Len(x) + 2) /\ i - (Len(x) + 2) \in 1..Len(y)
      BY <1>2, <1>4, <1>5, <1>8, <2>4
    <3> QED
      BY <1>6, <1>7, <2>4, <3>1
  <2> QED
    BY <1>2, <2>1, <2>2, <2>3, <2>4
<1>10. g[1] = "env_" /\ g[Len(x) + 2] = "="
  <2>1. 1 \in 1..Len(g) /\ Len(x) + 2 \in 1..Len(g) /\ Len(x) + 2 # 1 /\ ~(Len(x) + 2 > Len(x) + 2)
        /\ Len(x) + 2 \notin 2..Len(x) + 1 /\ 1 # Len(x) + 2 /\ ~(1 > Len(x) + 2)
    BY <1>2, <1>8
  <2> QED
    BY <1>9, <2>1
<1>11. \A i \in 2..Len(x) + 1 : g[i] = x[i - 1] /\ g[i] # "="
  <2> TAKE i \in 2..Len(x) + 1
  <2>1. i \in 1..Len(g) /\ i # 1 /\ i # Len(x) + 2 /\ ~(i > Len(x) + 2)
    BY <1>2, <1>8
  <2> QED
    BY <1>2, <1>9, <2>1
<1>12. \A i \in 1..Len(y) : g[Len(x) + 2 + i] = y[i]
  <2> TAKE i \in 1..Len(y)
  <2> DEFINE j == Len(x) + 2 + i
  <2>1. j \in 1..Len(g) /\ j # 1 /\ j # Len(x) + 2 /\ j \notin 2..Len(x) + 1 /\ j - (Len(x) + 2) = i
    BY <1>2, <1>8
  <2> QED
    BY <1>9, <2>1
<1>13. \A i \in 1..Len(g) : g[i] # "&"
  BY <1>2, <1>9
<1> QED
  BY <1>8, <1>10, <1>11, <1>12, <1>13 DEF g

LEMMA PartsType ==
  ASSUME NEW command \in Seq(Chars), NEW env \in Seq(Strings)
  PROVE  /\ Len(env) \in Nat /\ \A k \in 1..Len(env) : env[k] \in Strings
         /\ Parts(command, env)[0] = <<"command=">> \o Urlencode(command)
         /\ \A k \in 1..Len(env) : Parts(command, env)[k] = Setting(env[k])
         /\ Parts(command, env)[Len(env) + 1] = <<"raw=1">>
         /\ \A k \in 0..Len(env) + 1 : Parts(command, env)[k] \in Seq(Within)
<1> DEFINE P == Parts(command, env)
           n == Len(env)
<1>1. n \in Nat /\ \A k \in 1..n : env[k] \in Strings
  OBVIOUS
<1>2. 0 \in 0..n + 1 /\ n + 1 \in 0..n + 1 /\ n + 1 # 0 /\ ~(n + 1 <= n) /\ \A k \in 1..n : k \in 0..n + 1 /\ k # 0 /\ k <= n
  BY <1>1
<1>3. \A k \in 0..n + 1 : P[k] = IF k = 0 THEN <<"command=">> \o Urlencode(command)
                                 ELSE IF k <= n THEN Setting(env[k]) ELSE <<"raw=1">>
  BY Zenon DEF Parts
<1> HIDE DEF P
<1>4. P[0] = <<"command=">> \o Urlencode(command)
  BY <1>2, <1>3, Zenon
<1>5. \A k \in 1..n : P[k] = Setting(env[k])
  BY <1>2, <1>3, Zenon
<1>6. P[n + 1] = <<"raw=1">>
  BY <1>2, <1>3, Zenon
<1>7. <<"command=">> \in Seq(Within) /\ <<"raw=1">> \in Seq(Within)
  <2>1. "command=" \in Within /\ "raw=1" \in Within
    BY DEF Within, Alphabet
  <2> QED
    BY <2>1
<1>8. P[0] \in Seq(Within)
  <2>1. Inner \subseteq Within
    BY DEF Inner, Within
  <2>2. Urlencode(command) \in Seq(Within)
    BY <2>1, UrlencodeType, SeqMonotonic
  <2> QED
    BY <1>4, <1>7, <2>2, ConcatProperties
<1>9. ASSUME NEW k \in 1..n PROVE P[k] \in Seq(Within)
  <2> DEFINE g == Setting(env[k])
  <2>1. g \in Seq(Alphabet) /\ Urlencode(env[k][1]) \in Seq(Inner) /\ Urlencode(env[k][2]) \in Seq(Inner)
    BY <1>1, SettingType
  <2>2. \A i \in 1..Len(g) : g[i] # "&"
    BY <2>1, SettingIs, Zenon DEF Setting
  <2> HIDE DEF g
  <2>3. \A i \in 1..Len(g) : g[i] \in Within
    BY <2>1, <2>2 DEF Within
  <2>4. g \in Seq(Within)
    BY <2>1, <2>3
  <2> QED
    BY <1>5, <2>4 DEF g
<1>10. \A k \in 0..n + 1 : k = 0 \/ k \in 1..n \/ k = n + 1
  BY <1>1
<1> QED
  BY <1>1, <1>4, <1>5, <1>6, <1>7, <1>8, <1>9, <1>10 DEF P

(* build_pipe_query adds a variable.                                       *)
Longer(t, e) == t \o <<"&", "env_">> \o Urlencode(e[1]) \o <<"=">> \o Urlencode(e[2])
Envs(g, env) == g = [n \in 0..Len(env) |-> IF n = 0 THEN <<>> ELSE Longer(g[n - 1], env[n])]

(* Concatenation is associative; without its definition the provers use    *)
(* nothing else of it.                                                     *)
Cat(s, t) == s \o t
LEMMA CatIs == /\ \A s, t \in Seq(Alphabet) : Cat(s, t) \in Seq(Alphabet)
               /\ \A s, t, u \in Seq(Alphabet) : Cat(Cat(s, t), u) = Cat(s, Cat(t, u))
BY ConcatProperties, ConcatAssociative DEF Cat
LEMMA Regroup ==
  ASSUME NEW t \in Seq(Alphabet), NEW a \in Seq(Alphabet), NEW b \in Seq(Alphabet),
         NEW x \in Seq(Alphabet), NEW c \in Seq(Alphabet), NEW y \in Seq(Alphabet)
  PROVE  t \o (a \o b) \o x \o c \o y = t \o (a \o (b \o x \o c \o y)) /\ a \o (b \o x \o c \o y) \in Seq(Alphabet)
<1> DEFINE S == Seq(Alphabet)
<1> HIDE DEF S
<1>1. /\ \A u, v \in S : Cat(u, v) \in S
      /\ \A u, v, w \in S : Cat(Cat(u, v), w) = Cat(u, Cat(v, w))
      /\ t \in S /\ a \in S /\ b \in S /\ x \in S /\ c \in S /\ y \in S
  BY CatIs DEF S
<1>2. Cat(b, x) \in S /\ Cat(Cat(b, x), c) \in S /\ Cat(Cat(Cat(b, x), c), y) \in S
  BY <1>1
<1>3. Cat(a, Cat(b, x)) \in S /\ Cat(a, Cat(Cat(b, x), c)) \in S /\ Cat(a, Cat(Cat(Cat(b, x), c), y)) \in S
  BY <1>1, <1>2
<1>4. Cat(Cat(t, Cat(a, b)), x) = Cat(t, Cat(a, Cat(b, x)))
  BY <1>1
<1>5. Cat(Cat(t, Cat(a, Cat(b, x))), c) = Cat(t, Cat(a, Cat(Cat(b, x), c)))
  BY <1>1, <1>2, <1>3
<1>6. Cat(Cat(t, Cat(a, Cat(Cat(b, x), c))), y) = Cat(t, Cat(a, Cat(Cat(Cat(b, x), c), y)))
  BY <1>1, <1>2, <1>3
<1>7. /\ Cat(Cat(Cat(Cat(t, Cat(a, b)), x), c), y) = Cat(t, Cat(a, Cat(Cat(Cat(b, x), c), y)))
      /\ Cat(a, Cat(Cat(Cat(b, x), c), y)) \in Seq(Alphabet)
  BY <1>3, <1>4, <1>5, <1>6, Zenon DEF S
<1> QED
  BY <1>7, Zenon DEF Cat

LEMMA LongerIs ==
  ASSUME NEW h \in Seq(Alphabet), NEW t \in Seq(Alphabet), NEW e \in Strings
  PROVE  /\ Longer(t, e) \in Seq(Alphabet)
         /\ h \o Longer(t, e) = (h \o t) \o (<<"&">> \o Setting(e))
<1> DEFINE a == <<"&">>
           b == <<"env_">>
           c == <<"=">>
           x == Urlencode(e[1])
           y == Urlencode(e[2])
<1>1. a \in Seq(Alphabet) /\ b \in Seq(Alphabet) /\ c \in Seq(Alphabet) /\ x \in Seq(Alphabet) /\ y \in Seq(Alphabet)
  BY SettingType
<1>2. <<"&", "env_">> = a \o b
  OBVIOUS
<1>3. Longer(t, e) = t \o (a \o b) \o x \o c \o y /\ Setting(e) = b \o x \o c \o y
  BY <1>2 DEF Longer, Setting
<1> HIDE DEF a, b, c, x, y
<1> DEFINE u == a \o (b \o x \o c \o y)
<1>4. t \o (a \o b) \o x \o c \o y = t \o u /\ u \in Seq(Alphabet)
  BY <1>1, Regroup
<1>5. Longer(t, e) = t \o u /\ u = a \o Setting(e)
  BY <1>3, <1>4, Zenon
<1> HIDE DEF u
<1>6. t \o u \in Seq(Alphabet) /\ h \o (t \o u) = (h \o t) \o u
  BY <1>4, ConcatProperties, ConcatAssociative
<1> QED
  BY <1>5, <1>6, Zenon DEF a

LEMMA EnvsExist == ASSUME NEW env \in Seq(Strings) PROVE \E g : Envs(g, env)
<1> DEFINE N == Len(env)
           Entry(g, n) == IF n = 0 THEN <<>> ELSE Longer(g[n - 1], env[n])
           Upto(g, k) == g = [n \in 0..N |-> g[n]] /\ \A n \in 0..N : n <= k => g[n] = Entry(g, n)
           T == {k \in Nat : \E g : Upto(g, k)}
<1>1. N \in Nat
  OBVIOUS
<1>2. 0 \in T
  <2> DEFINE g == [n \in 0..N |-> <<>>]
  <2>1. g = [n \in 0..N |-> g[n]] /\ \A n \in 0..N : n <= 0 => g[n] = <<>> /\ n = 0
    OBVIOUS
  <2> HIDE DEF g
  <2>2. Upto(g, 0)
    BY <2>1, Zenon
  <2> QED
    BY <2>2
<1>3. ASSUME NEW k \in Nat, k \in T PROVE k + 1 \in T
  <2>1. PICK f : Upto(f, k)
    BY <1>3
  <2> DEFINE v == Entry(f, k + 1)
             g == [n \in 0..N |-> IF n = k + 1 THEN v ELSE f[n]]
  <2>2. g = [n \in 0..N |-> g[n]]
    OBVIOUS
  <2>3. \A n \in 0..N : g[n] = IF n = k + 1 THEN v ELSE f[n]
    OBVIOUS
  <2> HIDE DEF g
  <2>4. ASSUME NEW n \in 0..N, n <= k + 1 PROVE g[n] = Entry(g, n)
    <3>1. n # 0 => n - 1 \in 0..N /\ n - 1 # k + 1
      BY <2>4
    <3> HIDE DEF v, N
    <3>2. n # 0 => g[n - 1] = f[n - 1]
      BY <2>3, <3>1, Zenon
    <3>3. Entry(g, n) = Entry(f, n)
      BY <3>2, Zenon
    <3>4. CASE n = k + 1
      BY <2>3, <3>3, <3>4, Zenon DEF v
    <3>5. CASE n # k + 1
      <4>1. n <= k
        BY <1>1, <2>4, <3>5
      <4> QED
        BY <2>1, <2>3, <3>3, <3>5, <4>1, Zenon
    <3> QED
      BY <3>4, <3>5
  <2>5. Upto(g, k + 1)
    <3> HIDE DEF v, N
    <3> QED
      BY <2>2, <2>4, Zenon
  <2> QED
    BY <2>5
<1>4. N \in T
  <2> HIDE DEF T
  <2> QED
    BY <1>1, <1>2, <1>3, Induction
<1>5. PICK g : Upto(g, N)
  BY <1>4
<1>6. g = [n \in 0..N |-> g[n]] /\ \A n \in 0..N : g[n] = Entry(g, n)
  BY <1>1, <1>5
<1>7. g = [n \in 0..N |-> Entry(g, n)]
  <2> HIDE DEF Entry, N
  <2> QED
    BY <1>6, Zenon
<1> QED
  BY <1>7, Zenon DEF Envs

(* The query has the segments the client means to write.                   *)
LEMMA WrittenIs ==
  ASSUME NEW command \in Seq(Chars), NEW env \in Seq(Strings), NEW raw \in BOOLEAN
  PROVE  \E b : Parted(Written(command, env, raw), IF raw THEN Len(env) + 1 ELSE Len(env), Parts(command, env), b)
<1> DEFINE P == Parts(command, env)
           N == Len(env)
<1>1. \E g : Envs(g, env) /\ Written(command, env, raw)
                = <<"command=">> \o Urlencode(command) \o g[N] \o (IF raw THEN <<"&", "raw=1">> ELSE <<>>)
  BY EnvsExist, Zenon DEF Envs, Longer, Written
<1>2. PICK g : Envs(g, env) /\ Written(command, env, raw)
                 = <<"command=">> \o Urlencode(command) \o g[N] \o (IF raw THEN <<"&", "raw=1">> ELSE <<>>)
  BY <1>1
<1>3. N \in Nat /\ \A n \in 0..N : g[n] = IF n = 0 THEN <<>> ELSE Longer(g[n - 1], env[n])
  BY <1>2, Zenon, PartsType DEF Envs
<1>4. /\ P[0] = <<"command=">> \o Urlencode(command)
      /\ \A k \in 1..N : P[k] = Setting(env[k]) /\ env[k] \in Strings
      /\ P[N + 1] = <<"raw=1">>
      /\ \A k \in 0..N + 1 : P[k] \in Seq(Within)
  BY PartsType, Zenon
<1>5. \A k \in 0..N + 1 : P[k] \in Seq(Alphabet)
  <2>1. Within \subseteq Alphabet
    BY DEF Within
  <2> QED
    BY <1>4, <2>1, SeqMonotonic
<1>6. "&" \in Alphabet
  BY DEF Alphabet
<1> HIDE DEF P
<1> DEFINE T == {n \in Nat : n <= N => g[n] \in Seq(Alphabet) /\ \E b : Parted(P[0] \o g[n], n, P, b)}
<1>7. 0 \in T
  <2>1. g[0] = <<>>
    BY <1>3
  <2>2. P[0] \o g[0] = P[0]
    BY <1>3, <1>5, <2>1, ConcatEmptySeq
  <2>3. P[0] \in Seq(Within)
    <3>1. 0 \in 0..N + 1
      BY <1>3
    <3> QED
      BY <1>4, <3>1
  <2>4. g[0] \in Seq(Alphabet)
    BY <2>1
  <2> QED
    BY <2>2, <2>3, <2>4, PartedFirst
<1>8. ASSUME NEW n \in Nat, n \in T PROVE n + 1 \in T
  <2> SUFFICES ASSUME n + 1 <= N PROVE g[n + 1] \in Seq(Alphabet) /\ \E b : Parted(P[0] \o g[n + 1], n + 1, P, b)
    OBVIOUS
  <2>1. n <= N /\ n + 1 \in 1..N /\ n + 1 \in 0..N /\ n + 1 \in 0..N + 1 /\ 0 \in 0..N + 1 /\ n + 1 # 0 /\ (n + 1) - 1 = n
    BY <1>3
  <2>2. g[n] \in Seq(Alphabet) /\ \E b : Parted(P[0] \o g[n], n, P, b)
    BY <1>8, <2>1
  <2>3. g[n + 1] = Longer(g[n], env[n + 1])
    BY <1>3, <2>1, Zenon
  <2>4. PICK b : Parted(P[0] \o g[n], n, P, b)
    BY <2>2
  <2>5. P[0] \in Seq(Alphabet) /\ P[n + 1] \in Seq(Alphabet) /\ P[n + 1] = Setting(env[n + 1]) /\ env[n + 1] \in Strings
    BY <1>4, <1>5, <2>1
  <2>6. g[n + 1] \in Seq(Alphabet) /\ P[0] \o g[n + 1] = (P[0] \o g[n]) \o (<<"&">> \o P[n + 1])
    <3> DEFINE t == g[n]
               e == env[n + 1]
    <3>1. t \in Seq(Alphabet) /\ e \in Strings
      BY <2>2, <2>5
    <3> HIDE DEF t, e
    <3>2. Longer(t, e) \in Seq(Alphabet) /\ P[0] \o Longer(t, e) = (P[0] \o t) \o (<<"&">> \o Setting(e))
      BY <2>5, <3>1, LongerIs
    <3> QED
      BY <2>3, <2>5, <3>2, Zenon DEF t, e
  <2>7. P[0] \o g[n] \in Seq(Alphabet)
    BY <2>2, <2>5, ConcatProperties
  <2>8. P[0] \o g[n + 1] \in Seq(Alphabet) /\ Joined(P[0] \o g[n + 1], P[0] \o g[n], P[n + 1])
    BY <1>6, <2>5, <2>6, <2>7, JoinedIs
  <2>9. P[n + 1] \in Seq(Within)
    BY <1>4, <2>1
  <2> QED
    BY <2>4, <2>6, <2>8, <2>9, PartedMore
<1>9. g[N] \in Seq(Alphabet) /\ \E b : Parted(P[0] \o g[N], N, P, b)
  <2> HIDE DEF T
  <2>1. N \in T
    BY <1>3, <1>7, <1>8, Induction
  <2> QED
    BY <1>3, <2>1 DEF T
<1>10. P[0] \o g[N] \in Seq(Alphabet)
  BY <1>3, <1>5, <1>9, ConcatProperties
<1>11. CASE ~raw
  <2>1. Written(command, env, raw) = (P[0] \o g[N]) \o <<>>
    BY <1>2, <1>4, <1>11
  <2>2. Written(command, env, raw) = P[0] \o g[N]
    BY <1>10, <2>1, ConcatEmptySeq
  <2> QED
    BY <1>9, <1>11, <2>2 DEF P
<1>12. CASE raw
  <2>1. <<"&", "raw=1">> = <<"&">> \o <<"raw=1">>
    OBVIOUS
  <2> DEFINE r == (P[0] \o g[N]) \o (<<"&">> \o P[N + 1])
  <2>2. Written(command, env, raw) = r
    BY <1>2, <1>4, <1>12, <2>1
  <2>3. P[N + 1] \in Seq(Within) /\ P[N + 1] \in Seq(Alphabet)
    BY <1>3, <1>4, <1>5
  <2>4. r \in Seq(Alphabet) /\ Joined(r, P[0] \o g[N], P[N + 1])
    BY <1>6, <1>10, <2>3, JoinedIs
  <2>5. PICK b : Parted(P[0] \o g[N], N, P, b)
    BY <1>9
  <2> HIDE DEF r, N
  <2>6. \E a : Parted(r, N + 1, P, a)
    BY <1>3, <2>3, <2>4, <2>5, PartedMore
  <2> QED
    BY <1>12, <2>2, <2>6 DEF P, N
<1> QED
  BY <1>11, <1>12

(* What the server sees of a part.                                         *)
LEMMA EnvSegmentIs ==
  ASSUME NEW e \in Strings
  PROVE  LET g == Setting(e)
         IN  /\ EnvSegment(g) = <<Urlencode(e[1]), Urlencode(e[2])>>
             /\ \E i \in 2..Len(g) : g[i] = "="
             /\ Len(g) > 1 /\ Head(g) = "env_"
<1> DEFINE g == Setting(e)
           x == Urlencode(e[1])
           y == Urlencode(e[2])
           m == Len(x) + 2
           Equals == {i \in 2..Len(g) : g[i] = "="}
<1>1. /\ x \in Seq(Inner) /\ y \in Seq(Inner) /\ g \in Seq(Alphabet)
      /\ x \in Seq(Alphabet) /\ y \in Seq(Alphabet)
  BY SettingType
<1>2. /\ Len(g) = Len(x) + Len(y) + 2 /\ g[1] = "env_" /\ g[Len(x) + 2] = "="
      /\ \A i \in 2..Len(x) + 1 : g[i] = x[i - 1] /\ g[i] # "="
      /\ \A i \in 1..Len(y) : g[Len(x) + 2 + i] = y[i]
  BY <1>1, SettingIs, Zenon DEF Setting
<1> HIDE DEF g, x, y
<1>3. Len(x) \in Nat /\ Len(y) \in Nat
  BY <1>1
<1>4. m \in Equals /\ \A i \in Equals : m <= i
  BY <1>2, <1>3
<1>5. Min(Equals) = m
  <2>1. \A i \in Equals : (\A j \in Equals : i <= j) => i = m
    BY <1>3, <1>4
  <2>2. (CHOOSE i \in Equals : \A j \in Equals : i <= j) = m
    BY <1>4, <2>1
  <2> QED
    BY <2>2, Zenon DEF Min
<1>6. EnvSegment(g) = <<SubSeq(g, 2, m - 1), SubSeq(g, m + 1, Len(g))>>
  BY <1>5, Zenon DEF EnvSegment
<1>7. SubSeq(g, 2, m - 1) = x
  <2> DEFINE u == SubSeq(g, 2, m - 1)
  <2>1. \A i \in 2..m - 1 : g[i] \in Alphabet
    BY <1>1, <1>2, <1>3
  <2>2. /\ u \in Seq(Alphabet) /\ Len(u) = IF 2 <= m - 1 THEN (m - 1) - 2 + 1 ELSE 0
        /\ \A i \in 1..(m - 1) - 2 + 1 : u[i] = g[2 + i - 1]
    BY <1>3, <2>1, SubSeqProperties
  <2> HIDE DEF u
  <2>3. Len(u) = Len(x)
    BY <1>3, <2>2
  <2>4. \A i \in 1..Len(u) : u[i] = x[i]
    <3> TAKE i \in 1..Len(u)
    <3>1. i \in 1..(m - 1) - 2 + 1 /\ 2 + i - 1 = i + 1 /\ i + 1 \in 2..Len(x) + 1 /\ (i + 1) - 1 = i
      BY <1>3, <2>3
    <3> QED
      BY <1>2, <2>2, <3>1
  <2>5. u = x
    BY <1>1, <2>2, <2>3, <2>4, SeqEqual
  <2> QED
    BY <2>5 DEF u
<1>8. SubSeq(g, m + 1, Len(g)) = y
  <2> DEFINE u == SubSeq(g, m + 1, Len(g))
  <2>1. \A i \in m + 1..Len(g) : g[i] \in Alphabet
    BY <1>1, <1>2, <1>3
  <2>2. /\ u \in Seq(Alphabet) /\ Len(u) = IF m + 1 <= Len(g) THEN Len(g) - (m + 1) + 1 ELSE 0
        /\ \A i \in 1..Len(g) - (m + 1) + 1 : u[i] = g[(m + 1) + i - 1]
    <3>1. m + 1 \in Int /\ Len(g) \in Int
      BY <1>2, <1>3
    <3> QED
      BY <2>1, <3>1, SubSeqProperties
  <2> HIDE DEF u
  <2>3. Len(u) = Len(y)
    BY <1>2, <1>3, <2>2
  <2>4. \A i \in 1..Len(u) : u[i] = y[i]
    <3> TAKE i \in 1..Len(u)
    <3>1. i \in 1..Len(g) - (m + 1) + 1 /\ (m + 1) + i - 1 = Len(x) + 2 + i /\ i \in 1..Len(y)
      BY <1>2, <1>3, <2>3
    <3> QED
      BY <1>2, <2>2, <3>1
  <2>5. u = y
    BY <1>1, <2>2, <2>3, <2>4, SeqEqual
  <2> QED
    BY <2>5 DEF u
<1>9. EnvSegment(g) = <<x, y>>
  BY <1>6, <1>7, <1>8, Zenon
<1>10. \E i \in 2..Len(g) : g[i] = "="
  BY <1>4
<1>11. Len(g) > 1 /\ Head(g) = "env_"
  BY <1>1, <1>2, <1>3
<1> QED
  BY <1>9, <1>10, <1>11 DEF g, x, y

LEMMA CommandPart ==
  ASSUME NEW x \in Seq(Alphabet)
  PROVE  LET g == <<"command=">> \o x IN Len(g) = Len(x) + 1 /\ Head(g) = "command=" /\ Tail(g) = x
<1> DEFINE g == <<"command=">> \o x
<1>1. "command=" \in Alphabet
  BY DEF Alphabet
<1>2. Len(x) \in Nat /\ <<"command=">> \in Seq(Alphabet) /\ Len(<<"command=">>) = 1 /\ <<"command=">>[1] = "command="
  BY <1>1
<1>3. /\ g \in Seq(Alphabet) /\ Len(g) = 1 + Len(x)
      /\ \A i \in 1..1 + Len(x) : g[i] = IF i <= 1 THEN <<"command=">>[i] ELSE x[i - 1]
  BY <1>2, ConcatProperties
<1> HIDE DEF g
<1>4. g[1] = "command=" /\ \A i \in 1..Len(x) : g[i + 1] = x[i]
  <2>1. 1 \in 1..1 + Len(x) /\ \A i \in 1..Len(x) : i + 1 \in 1..1 + Len(x) /\ ~(i + 1 <= 1) /\ (i + 1) - 1 = i
    BY <1>2
  <2> QED
    BY <1>2, <1>3, <2>1
<1>5. g # <<>> /\ Head(g) = g[1]
  BY <1>2, <1>3
<1>6. Tail(g) \in Seq(Alphabet) /\ Len(Tail(g)) = Len(x) /\ \A i \in 1..Len(Tail(g)) : Tail(g)[i] = g[i + 1]
  BY <1>2, <1>3, <1>5, HeadTailProperties
<1>7. Tail(g) = x
  BY <1>4, <1>6, SeqEqual
<1> QED
  BY <1>2, <1>3, <1>4, <1>5, <1>7 DEF g

(* The command, the flag and the environment are read from their segments. *)
LEMMA CommandRead ==
  ASSUME NEW command \in Seq(Chars), NEW env \in Seq(Strings), NEW q, NEW m, NEW b,
         Parted(q, m, Parts(command, env), b), m \in {Len(env), Len(env) + 1}
  PROVE  CommandOf(q) = Urlencode(command)
<1> DEFINE P == Parts(command, env)
           N == Len(env)
           x == Urlencode(command)
           named == {i \in Starts(q) : Named(q, i, "command=")}
<1>1. /\ N \in Nat /\ P[0] = <<"command=">> \o x
      /\ \A k \in 1..N : P[k] = Setting(env[k]) /\ env[k] \in Strings
      /\ P[N + 1] = <<"raw=1">>
  BY PartsType, Zenon
<1>2. x \in Seq(Alphabet) /\ Len(x) \in Nat
  BY UrlencodeType
<1>3. Starts(q) = {b[k] : k \in 0..m} /\ \A k \in 0..m : Segment(q, b[k]) = P[k]
  BY DEF Parted
<1> HIDE DEF P, N, x
<1>4. \A k \in 0..m : k = 0 \/ k \in 1..N \/ k = N + 1
  BY <1>1 DEF N
<1>5. 0 \in 0..m
  BY <1>1 DEF N
<1>6. \A k \in 1..N : Head(P[k]) = "env_"
  BY <1>1, EnvSegmentIs, Zenon
<1>7. ~(Len(P[N + 1]) > 1)
  BY <1>1
<1>8. Len(P[0]) = Len(x) + 1 /\ Head(P[0]) = "command=" /\ Tail(P[0]) = x
  BY <1>1, <1>2, CommandPart, Zenon
<1>9. \A k \in 0..m : Named(q, b[k], "command=") <=> k = 0 /\ Len(x) > 0
  <2> TAKE k \in 0..m
  <2>1. Named(q, b[k], "command=") <=> Len(P[k]) > 1 /\ Head(P[k]) = "command="
    BY <1>3, Zenon DEF Named
  <2>2. CASE k = 0
    BY <1>2, <1>8, <2>1, <2>2
  <2>3. CASE k \in 1..N
    BY <1>6, <2>1, <2>3
  <2>4. CASE k = N + 1
    BY <1>1, <1>7, <2>1, <2>4
  <2> QED
    BY <1>4, <2>2, <2>3, <2>4
<1>10. CASE Len(x) > 0
  <2>1. named = {b[0]}
    BY <1>3, <1>5, <1>9, <1>10
  <2>2. b[0] \in Nat
    BY <1>5 DEF Parted
  <2>3. Max(named) = b[0]
    <3>1. b[0] >= b[0]
      BY <2>2
    <3>2. (CHOOSE i \in {b[0]} : \A j \in {b[0]} : i >= j) = b[0]
      BY <3>1
    <3> QED
      BY <2>1, <3>2, Zenon DEF Max
  <2>4. named # {}
    BY <2>1
  <2>5. CommandOf(q) = Tail(Segment(q, b[0]))
    BY <2>3, <2>4, Zenon DEF CommandOf
  <2> QED
    BY <1>3, <1>5, <1>8, <2>5 DEF x
<1>11. CASE ~(Len(x) > 0)
  <2>1. named = {}
    BY <1>3, <1>9, <1>11
  <2>2. CommandOf(q) = <<>>
    BY <2>1, Zenon DEF CommandOf
  <2>3. x = <<>>
    BY <1>2, <1>11
  <2> QED
    BY <2>2, <2>3 DEF x
<1> QED
  BY <1>10, <1>11

LEMMA RawRead ==
  ASSUME NEW command \in Seq(Chars), NEW env \in Seq(Strings), NEW q, NEW m, NEW b,
         Parted(q, m, Parts(command, env), b), m \in {Len(env), Len(env) + 1}
  PROVE  RawOf(q) <=> m = Len(env) + 1
<1> DEFINE P == Parts(command, env)
           N == Len(env)
           x == Urlencode(command)
<1>1. /\ N \in Nat /\ P[0] = <<"command=">> \o x
      /\ \A k \in 1..N : P[k] = Setting(env[k]) /\ env[k] \in Strings
      /\ P[N + 1] = <<"raw=1">>
  BY PartsType, Zenon
<1>2. x \in Seq(Alphabet)
  BY UrlencodeType
<1>3. Starts(q) = {b[k] : k \in 0..m} /\ \A k \in 0..m : Segment(q, b[k]) = P[k]
  BY DEF Parted
<1> HIDE DEF P, N, x
<1>4. \A k \in 1..N : Len(P[k]) > 1
  BY <1>1, EnvSegmentIs, Zenon
<1>5. Head(P[0]) = "command="
  BY <1>1, <1>2, CommandPart, Zenon
<1>6. Head(<<"raw=1">>) = "raw=1" /\ ~(Len(<<"raw=1">>) > 1)
  OBVIOUS
<1>7. \A k \in 0..m : P[k] = <<"raw=1">> <=> k = N + 1
  <2> TAKE k \in 0..m
  <2>1. k = 0 \/ k \in 1..N \/ k = N + 1
    BY <1>1 DEF N
  <2>2. k = 0 \/ k \in 1..N => k # N + 1
    BY <1>1
  <2>3. "command=" # "raw=1"
    OBVIOUS
  <2> QED
    BY <1>1, <1>4, <1>5, <1>6, <2>1, <2>2, <2>3, Zenon
<1>8. RawOf(q) <=> \E k \in 0..m : P[k] = <<"raw=1">>
  BY <1>3, Zenon DEF RawOf
<1>9. N + 1 \in 0..m <=> m = N + 1
  BY <1>1 DEF N
<1> QED
  BY <1>7, <1>8, <1>9 DEF N

LEMMA Count ==
  ASSUME NEW n \in Nat, NEW b, \A k \in 1..n : b[k] \in Nat, \A j, k \in 1..n : j < k => b[j] < b[k]
  PROVE  Cardinality({b[k] : k \in 1..n}) = n
<1> DEFINE T == {b[k] : k \in 1..n}
           f == [k \in 1..n |-> b[k]]
<1>1. f \in [1..n -> T] /\ \A k \in 1..n : f[k] = b[k]
  OBVIOUS
<1>2. \A j, k \in 1..n : b[j] = b[k] => j = k
  <2> SUFFICES ASSUME NEW j \in 1..n, NEW k \in 1..n, b[j] = b[k], j # k PROVE FALSE
    OBVIOUS
  <2>1. j < k \/ k < j
    OBVIOUS
  <2>2. b[j] \in Nat /\ b[k] \in Nat
    OBVIOUS
  <2> QED
    BY <2>1, <2>2
<1> HIDE DEF f
<1>3. f \in Injection(1..n, T)
  BY <1>1, <1>2 DEF Injection, IsInjective
<1>4. f \in Surjection(1..n, T)
  BY <1>1 DEF Surjection
<1>5. ExistsBijection(1..n, T)
  BY <1>3, <1>4 DEF ExistsBijection, Bijection
<1> HIDE DEF T
<1>6. Cardinality(T) = n
  BY <1>5, FS_CountingElements
<1> QED
  BY <1>6 DEF T

(* The n-th of them.                                                       *)
LEMMA NthIs ==
  ASSUME NEW n \in Nat, NEW b, \A k \in 1..n : b[k] \in Nat, \A j, k \in 1..n : j < k => b[j] < b[k],
         NEW m \in 1..n
  PROVE  Nth({b[k] : k \in 1..n}, m) = b[m]
<1> DEFINE T == {b[k] : k \in 1..n}
<1>1. ASSUME NEW l \in 1..n PROVE Cardinality({j \in T : j <= b[l]}) = l
  <2>1. \A k \in 1..n : b[k] <= b[l] <=> k <= l
    <3> TAKE k \in 1..n
    <3>1. k < l \/ k = l \/ l < k
      OBVIOUS
    <3>2. b[k] \in Nat /\ b[l] \in Nat
      OBVIOUS
    <3> QED
      BY <3>1, <3>2
  <2>2. {j \in T : j <= b[l]} = {b[k] : k \in 1..l}
    <3>1. \A k \in 1..l : k \in 1..n /\ k <= l
      OBVIOUS
    <3>2. \A k \in 1..n : k <= l => k \in 1..l
      OBVIOUS
    <3> QED
      BY <2>1, <3>1, <3>2
  <2>3. \A k \in 1..l : k \in 1..n
    OBVIOUS
  <2>4. Cardinality({b[k] : k \in 1..l}) = l
    BY <2>3, Count
  <2> QED
    BY <2>2, <2>4
<1>2. b[m] \in T
  OBVIOUS
<1>3. \A i \in T : Cardinality({j \in T : j <= i}) = m => i = b[m]
  <2> SUFFICES ASSUME NEW l \in 1..n, Cardinality({j \in T : j <= b[l]}) = m PROVE b[l] = b[m]
    OBVIOUS
  <2>1. l = m
    BY <1>1
  <2> QED
    BY <2>1
<1> HIDE DEF T
<1>4. (CHOOSE i \in T : Cardinality({j \in T : j <= i}) = m) = b[m]
  <2>1. Cardinality({j \in T : j <= b[m]}) = m
    BY <1>1
  <2> QED
    BY <1>2, <1>3, <2>1, Zenon
<1>5. Nth(T, m) = b[m]
  BY <1>4, Zenon DEF Nth
<1> QED
  BY <1>5 DEF T

LEMMA EnvRead ==
  ASSUME NEW command \in Seq(Chars), NEW env \in Seq(Strings), NEW q, NEW m, NEW b,
         Parted(q, m, Parts(command, env), b), m \in {Len(env), Len(env) + 1}, Len(env) <= MaxEnv,
         \A k \in 1..Len(env) : Plain(env[k][1]) /\ Plain(env[k][2])
  PROVE  EnvOf(q) = env
<1> DEFINE P == Parts(command, env)
           N == Len(env)
           x == Urlencode(command)
           settings == {i \in Starts(q) : Named(q, i, "env_") /\ IsEnv(Segment(q, i))}
<1>1. /\ N \in Nat /\ P[0] = <<"command=">> \o x
      /\ \A k \in 1..N : P[k] = Setting(env[k]) /\ env[k] \in Strings
      /\ P[N + 1] = <<"raw=1">>
  BY PartsType, Zenon
<1>2. x \in Seq(Alphabet)
  BY UrlencodeType
<1>3. /\ Starts(q) = {b[k] : k \in 0..m} /\ \A k \in 0..m : Segment(q, b[k]) = P[k] /\ b[k] \in Nat
      /\ \A j, k \in 0..m : j < k => b[j] < b[k]
  BY DEF Parted
<1>4. \A k \in 1..N : Plain(env[k][1]) /\ Plain(env[k][2])
  OBVIOUS
<1>5. env = [k \in 1..N |-> env[k]]
  OBVIOUS
<1> HIDE DEF P, x
<1>6. Head(P[0]) = "command="
  BY <1>1, <1>2, CommandPart, Zenon
<1>7. ASSUME NEW k \in 1..N
      PROVE  EnvSegment(P[k]) = env[k] /\ IsEnv(P[k]) /\ Len(P[k]) > 1 /\ Head(P[k]) = "env_"
  <2> DEFINE e == env[k]
             g == Setting(e)
  <2>1. e \in Strings /\ P[k] = g
    BY <1>1
  <2>2. /\ EnvSegment(g) = <<Urlencode(e[1]), Urlencode(e[2])>>
        /\ \E i \in 2..Len(g) : g[i] = "="
        /\ Len(g) > 1 /\ Head(g) = "env_"
    BY <2>1, EnvSegmentIs, Zenon
  <2>3. Urlencode(e[1]) = e[1] /\ Urlencode(e[2]) = e[2] /\ Len(e[1]) < EnvCap /\ Len(e[2]) < EnvCap
    BY <1>4, Zenon DEF Plain
  <2>4. e = <<e[1], e[2]>>
    BY <2>1 DEF Strings
  <2> HIDE DEF e, g
  <2>5. EnvSegment(g) = e /\ EnvSegment(g)[1] = e[1] /\ EnvSegment(g)[2] = e[2]
    BY <2>2, <2>3, <2>4, Zenon
  <2>6. IsEnv(g)
    BY <2>2, <2>3, <2>5, Zenon DEF IsEnv
  <2> QED
    BY <2>1, <2>2, <2>5, <2>6, Zenon DEF e
<1>8. ~(Len(P[N + 1]) > 1)
  BY <1>1
<1> HIDE DEF N
<1>9. (\A k \in 0..m : k = 0 \/ k \in 1..N \/ k = N + 1) /\ \A k \in 1..N : k \in 0..m
  BY <1>1 DEF N
<1>10. \A k \in 0..m : (Named(q, b[k], "env_") /\ IsEnv(Segment(q, b[k]))) <=> k \in 1..N
  <2> TAKE k \in 0..m
  <2>1. Segment(q, b[k]) = P[k] /\ (Named(q, b[k], "env_") <=> Len(P[k]) > 1 /\ Head(P[k]) = "env_")
    BY <1>3, Zenon DEF Named
  <2>2. CASE k = 0
    <3>1. "command=" # "env_" /\ 0 \notin 1..N
      OBVIOUS
    <3> QED
      BY <1>6, <2>1, <2>2, <3>1, Zenon
  <2>3. CASE k \in 1..N
    BY <1>7, <2>1, <2>3, Zenon
  <2>4. CASE k = N + 1
    <3>1. N + 1 \notin 1..N
      BY <1>1
    <3> QED
      BY <1>8, <2>1, <2>4, <3>1, Zenon
  <2> QED
    BY <1>9, <2>2, <2>3, <2>4
<1>11. settings = {b[k] : k \in 1..N}
  BY <1>3, <1>9, <1>10
<1>12. (\A k \in 1..N : b[k] \in Nat) /\ \A j, k \in 1..N : j < k => b[j] < b[k]
  BY <1>3, <1>9
<1>13. Cardinality(settings) = N
  BY <1>1, <1>11, <1>12, Count
<1>14. \A k \in 1..N : Nth(settings, k) = b[k]
  BY <1>1, <1>11, <1>12, NthIs
<1> DEFINE list == [k \in 1..Cardinality(settings) |-> EnvSegment(Segment(q, Nth(settings, k)))]
<1>15. EnvOf(q) = Cut(list, MaxEnv)
  BY Zenon DEF EnvOf
<1> HIDE DEF settings
<1>16. \A k \in 1..N : EnvSegment(Segment(q, Nth(settings, k))) = env[k]
  BY <1>3, <1>7, <1>9, <1>14, Zenon
<1>17. list = [k \in 1..N |-> env[k]]
  BY <1>13, <1>16, Zenon
<1>18. list = env
  BY <1>5, <1>17, Zenon DEF N
<1>19. Cut(env, MaxEnv) = env
  BY CapAssumption, CutType
<1> QED
  BY <1>15, <1>18, <1>19, Zenon

(* Nothing is read as nothing.                                             *)
LEMMA NothingDecoded == Decode(<<>>) = <<>>
<1>1. <<>> \in Seq(Chars) /\ Len(<<>>) = 0
  OBVIOUS
<1>2. PICK f : Unrolls(f, Len(<<>>), Escapes(<<>>), Nexts(<<>>)) /\ Encode(<<>>) = f[1]
  BY <1>1, EncodeIs
<1>3. f[0 + 1] = <<>>
  BY <1>1, <1>2 DEF Unrolls
<1>4. Encode(<<>>) = <<>>
  BY <1>2, <1>3
<1> QED
  BY <1>1, <1>4, DecodeEncode

(* The server calls exec_run_pipe with what the script was given, if it    *)
(* calls it at all.                                                        *)
LEMMA CallIs ==
  ASSUME NEW command \in Seq(Chars), NEW env \in Seq(Strings), NEW raw \in BOOLEAN,
         Len(Written(command, env, raw)) <= QueryCap
  PROVE  LET call == Call(Written(command, env, raw))
         IN  /\ call.command # <<>> => call.command = Cut(command, CmdCap)
             /\ call.raw = raw
             /\ (/\ Len(env) <= MaxEnv
                 /\ \A k \in 1..Len(env) : Plain(env[k][1]) /\ Plain(env[k][2]))
                  => call.env = env
<1> DEFINE q == Written(command, env, raw)
           m == IF raw THEN Len(env) + 1 ELSE Len(env)
<1>1. PICK b : Parted(q, m, Parts(command, env), b)
  BY WrittenIs
<1>2. Len(env) \in Nat /\ m \in {Len(env), Len(env) + 1} /\ (m = Len(env) + 1 <=> raw)
  OBVIOUS
<1> HIDE DEF q, m
<1>3. q \in Seq(Alphabet) /\ Len(q) <= QueryCap
  BY <1>1 DEF Parted, q
<1>4. {QueryCap, CmdCap, MaxEnv} \subseteq Nat
  BY CapAssumption
<1>5. Cut(q, QueryCap) = q
  BY <1>3, <1>4, CutType
<1>6. Call(q) = [command |-> CString(Cut(Decode(CommandOf(q)), CmdCap)), env |-> EnvOf(q), raw |-> RawOf(q)]
  BY <1>5, Zenon DEF Call, CallOf
<1>7. CommandOf(q) = Urlencode(command)
  BY <1>1, <1>2, CommandRead
<1> DEFINE read == CString(Cut(Decode(CommandOf(q)), CmdCap))
<1>8. read # <<>> => read = Cut(command, CmdCap)
  <2>1. ASSUME NEW s \in Seq(Chars) PROVE CString(Cut(s, CmdCap)) = Cut(s, CmdCap)
    <3>1. Cut(s, CmdCap) \in Seq(Chars)
      BY <1>4, CutType
    <3> QED
      BY <3>1, CStringWhole
  <2>2. CASE Urlencode(command) = Encode(command)
    <3>1. Decode(CommandOf(q)) = command
      BY <1>7, <2>2, DecodeEncode
    <3> QED
      BY <2>1, <3>1, Zenon
  <2>3. CASE Urlencode(command) = <<>>
    <3>1. Decode(CommandOf(q)) = <<>>
      BY <1>7, <2>3, NothingDecoded, Zenon
    <3>2. <<>> \in Seq(Chars) /\ Len(<<>>) = 0
      OBVIOUS
    <3>3. Cut(<<>>, CmdCap) = <<>>
      <4>1. CmdCap \in Nat /\ Len(<<>>) <= CmdCap
        BY <1>4, <3>2
      <4> QED
        BY <3>2, <4>1, CutType, Zenon
    <3>4. read = <<>>
      BY <2>1, <3>1, <3>2, <3>3, Zenon
    <3> QED
      BY <3>4
  <2> QED
    BY <2>2, <2>3, Zenon DEF Urlencode
<1> HIDE DEF read
<1>9. RawOf(q) = raw
  <2>1. RawOf(q) <=> raw
    BY <1>1, <1>2, RawRead
  <2>2. RawOf(q) \in BOOLEAN
    BY Zenon DEF RawOf
  <2> QED
    BY <2>1, <2>2
<1>10. ASSUME Len(env) <= MaxEnv, \A k \in 1..Len(env) : Plain(env[k][1]) /\ Plain(env[k][2])
       PROVE  EnvOf(q) = env
  BY <1>1, <1>2, <1>10, EnvRead
<1>11. Call(q).command = read /\ Call(q).raw = raw /\ Call(q).env = EnvOf(q)
  <2> DEFINE y == EnvOf(q)
             z == RawOf(q)
  <2>1. Call(q) = [command |-> read, env |-> y, raw |-> z]
    BY <1>6 DEF read
  <2> HIDE DEF y, z
  <2>2. Call(q).command = read /\ Call(q).env = y /\ Call(q).raw = z
    BY <2>1
  <2> QED
    BY <1>9, <2>2 DEF y, z
<1> QED
  BY <1>8, <1>10, <1>11, Zenon DEF q

----------------------------------------------------------------------------
(* What /api/exec/pipe has started is what its query says.                 *)
Typed(c) == Written(req[c].command, req[c].env, req[c].raw)
PInv == \A c \in Conns :
  req[c].kind = "pipe" => \/ ran[c] = None
                          \/ ran[c] = <<Call(Typed(c))>> /\ Call(Typed(c)).command # <<>>

LEMMA InitPiped == Init => PInv
BY DEF Init, PInv

LEMMA StepPiped ==
  ASSUME TypeOK, Shape, Asked, PInv, [Next]_vars
  PROVE  PInv'
<1>1. ASSUME req' = req PROVE \A c \in Conns : Typed(c)' = Typed(c)
  BY <1>1 DEF Typed
<1>2. CASE req' = req /\ ran' = ran
  <2> HIDE DEF Typed
  <2> QED
    BY <1>1, <1>2 DEF PInv
<1>3. ASSUME NEW c \in Conns, HandleJson(c) PROVE PInv'
  <2>1. req' = req /\ req[c].kind = "json"
    BY <1>3 DEF HandleJson, Asked
  <2>2. \A d \in Conns : d # c => ran'[d] = ran[d]
    BY <1>3 DEF HandleJson, Shape
  <2>3. \A d \in Conns : Typed(d)' = Typed(d)
    BY <1>1, <2>1
  <2> QED
    BY <2>1, <2>2, <2>3 DEF PInv
<1>4. ASSUME NEW c \in Conns, HandlePipe(c) PROVE PInv'
  <2>1. req' = req
    BY <1>4 DEF HandlePipe
  <2>2. \/ ran' = ran
        \/ ran' = [ran EXCEPT ![c] = <<Call(Typed(c))>>] /\ Call(Typed(c)).command # <<>>
    BY <1>4 DEF HandlePipe, Typed
  <2>3. \A d \in Conns : Typed(d)' = Typed(d)
    BY <1>1, <2>1
  <2>4. \A d \in Conns : \/ ran'[d] = ran[d]
                         \/ ran'[d] = <<Call(Typed(d))>> /\ Call(Typed(d)).command # <<>>
    BY <2>2 DEF Shape
  <2> QED
    BY <2>1, <2>3, <2>4 DEF PInv
<1>5. \/ req' = req /\ ran' = ran
      \/ \E c \in Conns : HandleJson(c) \/ HandlePipe(c)
  BY DEF Next, vars, Connect, Client, Send, Receive, Fail, BreakOff, Server, Piped, Handshake, Continue,
     Dispatch, ReadBody, HandleInfo, HandleForwards, Close, OpenUpload, Store, StoreEnds, CloseUpload,
     OpenDownload, ReadFile, RefuseUpdate, RunPipe
<1> QED
  BY <1>2, <1>3, <1>4, <1>5

(* adb-termux.sh 126-186 and handler.c 398-470: whatever build_pipe_query  *)
(* is given, a shell that /api/exec/pipe starts has this command, as much  *)
(* of it as the buffer holds, and the environment if it reads the same     *)
(* encoded and has not more variables, nor longer ones, than the server    *)
(* keeps.                                                                  *)
THEOREM OwnCommandHolds == Spec => []OwnCommand
<1>1. TypeOK /\ Shape /\ Asked /\ PInv /\ [Next]_vars => TypeOK' /\ Shape' /\ Asked' /\ PInv'
  BY StepType, StepAsked, StepPiped
<1>2. ASSUME Shape, PInv PROVE OwnCommand
  <2> SUFFICES ASSUME NEW c \in Conns, req[c].kind = "pipe", ran[c] # None, Len(Typed(c)) <= QueryCap
               PROVE  /\ ran[c][1].command = Cut(req[c].command, CmdCap)
                      /\ ran[c][1].raw = req[c].raw
                      /\ (/\ Len(req[c].env) <= MaxEnv
                          /\ \A i \in 1..Len(req[c].env) : Plain(req[c].env[i][1]) /\ Plain(req[c].env[i][2]))
                           => ran[c][1].env = req[c].env
    BY Zenon DEF OwnCommand, Typed
  <2>1. ran[c] = <<Call(Typed(c))>> /\ Call(Typed(c)).command # <<>>
    BY <1>2, Zenon DEF PInv
  <2>2. ran[c][1] = Call(Typed(c))
    BY <2>1
  <2>3. req[c].command \in Seq(Chars) /\ req[c].env \in Seq(Strings) /\ req[c].raw \in BOOLEAN
    BY <1>2, ScenarioAssumption, Zenon DEF Shape, Strings
  <2> DEFINE command == req[c].command
             env == req[c].env
             raw == req[c].raw
             call == Call(Written(command, env, raw))
  <2>4. Len(Written(command, env, raw)) <= QueryCap
    BY DEF Typed
  <2> HIDE DEF command, env, raw
  <2>5. command \in Seq(Chars) /\ env \in Seq(Strings) /\ raw \in BOOLEAN
    BY <2>3 DEF command, env, raw
  <2>6. /\ call.command # <<>> => call.command = Cut(command, CmdCap)
        /\ call.raw = raw
        /\ (/\ Len(env) <= MaxEnv
            /\ \A k \in 1..Len(env) : Plain(env[k][1]) /\ Plain(env[k][2]))
             => call.env = env
    BY <2>4, <2>5, CallIs
  <2> QED
    BY <2>1, <2>2, <2>6, Zenon DEF Typed, command, env, raw
<1> QED
  BY <1>1, <1>2, InitType, InitAsked, InitPiped, PTL DEF Spec
=============================================================================
