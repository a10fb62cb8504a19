--------------------------- MODULE ExecPipeProofs ---------------------------
(***************************************************************************)
(* Proofs about ExecPipe for every value of its constants.                 *)
(***************************************************************************)
EXTENDS ExecPipe, SequenceTheorems, TLAPS

LoopStages == {"sslread", "sslwrite", "stdin", "out", "err", "eof", "waitpid"}
Ended == {"flush", "exit", "final", "close", "done"}

(* Proceed goes to a call of the iteration, never out of the loop.         *)
LEMMA ProceedStage ==
  ASSUME NEW i \in 1..7, Proceed(i)
  PROVE  pc' \in LoopStages
<1>1. Len(Stages) = 7
  BY DEF Stages
<1>2. PICK j \in 1..7 : pc' = Stages[j]
  BY <1>1 DEF Proceed
<1> QED
  BY <1>2 DEF Stages, LoopStages

(* What the code after the loop starts with.                               *)
LEMMA AfterLoopStage ==
  /\ Ending \in {"close", "flush", "final", "exit"}
  /\ AfterLoop \in {"kill", "close", "flush", "final", "exit"}
  /\ AfterLoop = "kill" <=> ~child_exited
BY DEF AfterLoop, Ending, LastWords

----------------------------------------------------------------------------
(* The life of the child.  child_exited is the thread's knowledge that     *)
(* waitpid released the process id; after the loop it is released too, but *)
(* child_exited keeps its value when the child had to be killed.           *)
Life ==
  /\ child_exited => child = "reaped"
  /\ child = "reaped" => child_exited \/ pc \in Ended
  /\ pc \in Ended => child = "reaped"
  /\ pc \in {"kill", "reap"} => ~child_exited

LEMMA LifeInit == Init => Life
BY DEF Init, Life, Ended

LEMMA LifeNext == Life /\ [Next]_vars => Life'
<1> SUFFICES ASSUME Life, [Next]_vars
             PROVE  Life'
  OBVIOUS
<1> USE DEF Life, Ended
<1>1. CASE Client
  BY <1>1 DEF Client, ClientSend, ClientFragment, ClientClose, ClientRecv,
              serverVars, childVars, procVars, waitVars
<1>2. CASE ProcessTree
  BY <1>2 DEF ProcessTree, ChildRead, ChildExit, ChildKilled, ChildWrite, ChildClose,
              serverVars, procVars, waitVars
<1>3. CASE Server
  <2>1. CASE LoopEnds
    BY <2>1, AfterLoopStage DEF LoopEnds, childVars, procVars, waitVars
  <2>2. CASE Poll
    BY <2>2, ProceedStage DEF Poll, childVars, procVars, waitVars, LoopStages
  <2>3. CASE PollError
    BY <2>3, AfterLoopStage DEF PollError, childVars, procVars, waitVars
  <2>4. CASE WaitBlocking
    <3>1. AfterLoop' \in {"close", "flush", "final", "exit"} /\ child_exited'
      BY <2>4 DEF WaitBlocking, AfterLoop, Ending, LastWords, waitVars
    <3>2. child' = "reaped"
      BY <2>4 DEF WaitBlocking
    <3> QED
      BY <2>4, <3>1, <3>2 DEF WaitBlocking
  <2>5. CASE ReadHeader \/ ReadData \/ ReadLineEnd \/ ReadNothing
    <3>1. pc' \in LoopStages
      BY <2>5, ProceedStage DEF ReadHeader, ReadData, ReadLineEnd, ReadNothing
    <3> QED
      BY <2>5, <3>1 DEF ReadHeader, ReadData, ReadLineEnd, ReadNothing, LoopStages,
                        childVars, procVars, waitVars
  <2>6. CASE SslWrite
    BY <2>6, ProceedStage DEF SslWrite, LoopStages, childVars, procVars, waitVars
  <2>7. CASE SslWriteFails
    <3>1. /\ AfterLoop' \in {"kill", "close", "flush", "final", "exit"}
          /\ AfterLoop' = "kill" <=> ~child_exited'
      BY DEF AfterLoop, Ending, LastWords
    <3> QED
      BY <2>7, <3>1 DEF SslWriteFails, childVars, procVars, waitVars
  <2>8. CASE WriteStdin
    BY <2>8, ProceedStage DEF WriteStdin, LoopStages, procVars, waitVars
  <2>9. ASSUME NEW s \in Streams, ReadOutput(s) \/ EmitLine(s)
        PROVE  Life'
    <3>1. pc' \in LoopStages \cup {"outlines", "errlines"}
      BY <2>9, ProceedStage DEF ReadOutput, EmitLine, AfterOutput, LinesOf
    <3>2. pc \notin Ended \cup {"kill", "reap"}
      BY <2>9 DEF ReadOutput, EmitLine, LinesOf, Streams
    <3> QED
      BY <2>9, <3>1, <3>2 DEF ReadOutput, EmitLine, LoopStages, childVars,
                              procVars, waitVars
  <2>10. CASE CloseStdin
    BY <2>10, ProceedStage DEF CloseStdin, LoopStages, childVars, procVars, waitVars
  <2>11. CASE CheckExit
    BY <2>11 DEF CheckExit, waitVars
  <2>12. CASE Kill
    BY <2>12 DEF Kill, waitVars
  <2>13. CASE Reap
    BY <2>13, AfterLoopStage DEF Reap
  <2>14. CASE FlushItem \/ FlushDone
    BY <2>14 DEF FlushItem, FlushDone, LastWords, childVars, procVars, waitVars
  <2>15. CASE SendExit \/ SendFinal \/ Return
    BY <2>15 DEF SendExit, SendFinal, SendLast, Return, childVars, procVars, waitVars
  <2> QED
    BY <1>3, <2>1, <2>2, <2>3, <2>4, <2>5, <2>6, <2>7, <2>8, <2>9, <2>10, <2>11,
       <2>12, <2>13, <2>14, <2>15 DEF Server
<1>4. CASE UNCHANGED vars
  BY <1>4 DEF vars, serverVars, childVars, procVars, waitVars
<1> QED
  BY <1>1, <1>2, <1>3, <1>4 DEF Next, Returned

(* Every behaviour: the call returns only after the child is reaped.       *)
THEOREM NoZombieHolds == Spec => []NoZombie
<1>1. Life => NoZombie
  BY DEF Life, NoZombie, Ended
<1> QED
  BY <1>1, LifeInit, LifeNext, PTL DEF Spec

(* Every behaviour: SIGTERM goes only to a process id not yet released.    *)
THEOREM NoKillAfterReapHolds == Spec => NoKillAfterReap
<1>1. ASSUME Life, [Next]_vars
      PROVE  [signalled' # signalled => child # "reaped"]_vars
  <2>1. CASE Kill
    BY <1>1, <2>1 DEF Kill, Life, Ended
  <2>2. CASE signalled' = signalled
    BY <2>2
  <2>3. Kill \/ signalled' = signalled
    <3>1. CASE Client
      BY <3>1 DEF Client, ClientSend, ClientFragment, ClientClose, ClientRecv,
                  childVars, procVars
    <3>2. CASE ProcessTree
      BY <3>2 DEF ProcessTree, ChildRead, ChildExit, ChildKilled, ChildWrite,
                  ChildClose, procVars
    <3>3. CASE Server
      BY <3>3 DEF Server, LoopEnds, Poll, PollError, WaitBlocking, ReadHeader, ReadData,
                  ReadLineEnd, ReadNothing, SslWrite, SslWriteFails, WriteStdin,
                  ReadOutput, EmitLine, CloseStdin, CheckExit, Reap, FlushItem,
                  FlushDone, SendExit, SendFinal, SendLast, Return, childVars, procVars
    <3>4. CASE UNCHANGED vars
      BY <3>4 DEF vars, childVars, procVars
    <3> QED
      BY <1>1, <3>1, <3>2, <3>3, <3>4 DEF Next, Returned
  <2> QED
    BY <2>1, <2>2, <2>3
<1> QED
  BY <1>1, LifeInit, LifeNext, PTL DEF Spec, NoKillAfterReap

----------------------------------------------------------------------------
(* The buffers and the pipes stay within their capacity, and the SSE loop  *)
(* emits a line only while it has room.                                    *)
Bounds ==
  /\ Len(net) <= NetCap
  /\ wpend <= Len(sse_buf)
  /\ Len(stdin_buf) <= StdinCap
  /\ Len(inpipe) <= PipeCap
  /\ \A s \in Streams : Len(pipe[s]) <= PipeCap
  /\ Len(out_buf) <= PipeCap
  /\ pc \in {"outlines", "errlines"} => HasRoom

LEMMA Constants ==
  /\ Len(Body) \in Nat
  /\ MaxRecord \in Nat \ {0} /\ NetCap \in Nat \ {0} /\ PipeCap \in Nat \ {0}
  /\ StdinCap \in Nat \ {0} /\ SseCap \in Nat \ {0} /\ Frame \in Nat \ {0}
  /\ Slack \in Nat
BY BodyAssumption, SizeAssumption

LEMMA MinType ==
  ASSUME NEW a \in Int, NEW b \in Int
  PROVE  /\ Min2(a, b) \in Int /\ Min2(a, b) <= a /\ Min2(a, b) <= b
         /\ a >= 0 /\ b >= 0 => Min2(a, b) >= 0
BY DEF Min2

LEMMA RestType ==
  ASSUME NEW S, NEW q \in Seq(S), NEW k \in Nat
  PROVE  /\ Rest(q, k) \in Seq(S)
         /\ Len(Rest(q, k)) = IF k <= Len(q) THEN Len(q) - k ELSE 0
<1>1. \A i \in k + 1..Len(q) : q[i] \in S
  OBVIOUS
<1> QED
  BY <1>1, SubSeqProperties DEF Rest

LEMMA PieceType ==
  ASSUME NEW S, NEW q \in Seq(S), NEW m \in Nat, NEW k \in Int, m + k <= Len(q)
  PROVE  /\ SubSeq(q, m + 1, m + k) \in Seq(S)
         /\ Len(SubSeq(q, m + 1, m + k)) = IF k >= 0 THEN k ELSE 0
<1>1. \A i \in m + 1..m + k : q[i] \in S
  OBVIOUS
<1> QED
  BY <1>1, SubSeqProperties

LEMMA TypeInit == Init => TypeOK /\ Bounds
<1> SUFFICES ASSUME Init PROVE TypeOK /\ Bounds
  OBVIOUS
<1>1. PlainWire \in Seq(Token)
  BY BodyAssumption DEF PlainWire, ByteTok, Token
<1>2. unsent \in Seq(Token)
  BY <1>1, WireAssumption DEF Init
<1>3. br_remaining \in Int /\ (br_state = "data" => br_remaining > 0)
  BY BodyAssumption DEF Init
<1>4. pipe \in [Streams -> Seq(Nat)] /\ made \in [Streams -> Seq(Nat)]
  BY DEF Init
<1>5. DataOK
  BY <1>2, <1>3, <1>4 DEF Init, DataOK
<1>6. FlagsOK
  BY CallAssumption, Zenon DEF Init, FlagsOK, NoBody
<1>7. Bounds
  BY Constants DEF Init, Bounds, Streams
<1> QED
  BY <1>5, <1>6, <1>7 DEF TypeOK

LEMMA FlagsNext ==
  ASSUME FlagsOK, [Next]_vars
  PROVE  FlagsOK'
<1> USE DEF FlagsOK, peerVars, serverVars, childVars, args, sendVars, recvVars,
            bodyVars, sseVars, waitVars, procVars, inVars, outVars
<1>1. CASE Client
  BY <1>1, Zenon DEF Client, ClientSend, ClientFragment, ClientClose, ClientRecv
<1>2. CASE ProcessTree
  <2>1. UNCHANGED <<chunked, raw, frag, body_eof, stdin_closed, child_exited, ssl_error,
                    signalled>>
    BY <1>2 DEF ProcessTree, ChildRead, ChildExit, ChildKilled, ChildWrite, ChildClose
  <2> QED
    BY <2>1, Zenon
<1>3. CASE Server
  <2>1. CASE LoopEnds \/ Poll \/ PollError \/ WaitBlocking
    BY <2>1, Zenon DEF LoopEnds, Poll, PollError, WaitBlocking
  <2>2. CASE ReadHeader \/ ReadData \/ ReadLineEnd \/ ReadNothing
    BY <2>2, Zenon DEF ReadHeader, ReadData, ReadLineEnd, ReadNothing, Take
  <2>3. CASE SslWrite \/ SslWriteFails \/ WriteStdin
    BY <2>3, Zenon DEF SslWrite, SslWriteFails, WriteStdin
  <2>4. ASSUME NEW s \in Streams, ReadOutput(s) \/ EmitLine(s)
        PROVE  FlagsOK'
    BY <2>4, Zenon DEF ReadOutput, EmitLine
  <2>5. CASE CloseStdin \/ CheckExit \/ Kill \/ Reap
    BY <2>5, Zenon DEF CloseStdin, CheckExit, Kill, Reap
  <2>6. CASE FlushItem \/ FlushDone \/ SendExit \/ SendFinal \/ Return
    BY <2>6, Zenon DEF FlushItem, FlushDone, SendExit, SendFinal, SendLast, Return
  <2> QED
    BY <1>3, <2>1, <2>2, <2>3, <2>4, <2>5, <2>6 DEF Server
<1>4. CASE UNCHANGED vars
  BY <1>4, Zenon DEF vars
<1> QED
  BY <1>1, <1>2, <1>3, <1>4 DEF Next, Returned

LEMMA DataClient ==
  ASSUME DataOK, Bounds, Client
  PROVE  DataOK' /\ Bounds'
<1> USE DEF peerVars, serverVars, childVars, args, sendVars, recvVars, bodyVars,
            sseVars, waitVars, procVars, inVars, outVars
<1>1. CASE ClientSend
  <2>1. PICK k \in 1..Min2(MaxRecord, Len(unsent)) :
          sock' = SubSeq(unsent, 1, k) /\ unsent' = Rest(unsent, k)
    BY <1>1 DEF ClientSend
  <2>2. unsent \in Seq(Token) /\ Len(unsent) \in Nat
    BY DEF DataOK
  <2>3. k \in 1..Len(unsent)
    BY <2>1, <2>2, Constants DEF Min2
  <2>4. sock' \in Seq(Token) /\ unsent' \in Seq(Token)
    <3>1. SubSeq(unsent, 0 + 1, 0 + k) \in Seq(Token)
      BY <2>2, <2>3, PieceType
    <3> QED
      BY <2>1, <2>2, <2>3, <3>1, RestType
  <2>5. DataOK'
    BY <1>1, <2>4 DEF ClientSend, DataOK
  <2>6. Bounds'
    BY <1>1 DEF ClientSend, Bounds, HasRoom
  <2> QED
    BY <2>5, <2>6
<1>2. CASE ClientFragment \/ ClientClose
  <2>1. DataOK'
    <3>1. CASE ClientFragment
      BY <3>1 DEF ClientFragment, DataOK
    <3>2. CASE ClientClose
      BY <3>2 DEF ClientClose, DataOK
    <3> QED
      BY <1>2, <3>1, <3>2
  <2>2. Bounds'
    BY <1>2 DEF ClientFragment, ClientClose, Bounds, HasRoom
  <2> QED
    BY <2>1, <2>2
<1>3. CASE ClientRecv
  <2>1. net' \in Seq(Item) /\ recv' \in Seq(Item) /\ Len(net') = Len(net) - 1
    BY <1>3 DEF ClientRecv, DataOK
  <2>2. DataOK'
    BY <1>3, <2>1 DEF ClientRecv, DataOK
  <2>3. Len(net) \in Nat
    BY DEF DataOK
  <2>4. Bounds'
    BY <1>3, <2>1, <2>3, Constants DEF ClientRecv, Bounds, HasRoom
  <2> QED
    BY <2>2, <2>4
<1> QED
  BY <1>1, <1>2, <1>3 DEF Client

LEMMA DataChild ==
  ASSUME DataOK, Bounds, ProcessTree
  PROVE  DataOK' /\ Bounds'
<1> USE DEF peerVars, serverVars, childVars, args, sendVars, recvVars, bodyVars,
            sseVars, waitVars, procVars, inVars, outVars
<1>1. CASE ChildRead
  <2>1. /\ inpipe' \in Seq(Nat) /\ consumed' \in Seq(Nat)
        /\ Len(inpipe') = Len(inpipe) - 1 /\ Len(inpipe) \in Nat
    BY <1>1 DEF ChildRead, DataOK
  <2>2. DataOK'
    BY <1>1, <2>1 DEF ChildRead, DataOK
  <2>3. Bounds'
    BY <1>1, <2>1, Constants DEF ChildRead, Bounds, HasRoom
  <2> QED
    BY <2>2, <2>3
<1>2. ASSUME NEW s \in Streams, ChildWrite(s)
      PROVE  DataOK' /\ Bounds'
  <2>1. Output(s) \in Seq(Nat)
    BY OutputAssumption DEF Output, DataOK
  <2>2. Output(s)[Len(made[s]) + 1] \in Nat
    <3>1. Len(made[s]) \in Nat
      BY DEF DataOK
    <3> QED
      BY <1>2, <2>1, <3>1 DEF ChildWrite
  <2>3. /\ pipe' \in [Streams -> Seq(Nat)] /\ made' \in [Streams -> Seq(Nat)]
        /\ Len(pipe'[s]) = Len(pipe[s]) + 1 /\ Len(pipe[s]) \in Nat
        /\ \A t \in Streams \ {s} : pipe'[t] = pipe[t]
    BY <1>2, <2>2 DEF ChildWrite, DataOK
  <2>4. DataOK'
    BY <1>2, <2>3 DEF ChildWrite, DataOK
  <2>5. Bounds'
    BY <1>2, <2>3, Constants DEF ChildWrite, Bounds, HasRoom
  <2> QED
    BY <2>4, <2>5
<1>3. ASSUME NEW f \in {"in", "out", "err"}, ChildClose(f)
      PROVE  DataOK' /\ Bounds'
  <2>1. DataOK'
    BY <1>3 DEF ChildClose, DataOK
  <2>2. Bounds'
    BY <1>3 DEF ChildClose, Bounds, HasRoom
  <2> QED
    BY <2>1, <2>2
<1>4. CASE ChildExit \/ ChildKilled
  <2>1. fds' \subseteq {"in", "out", "err"}
    BY <1>4 DEF ChildExit, ChildKilled, DataOK
  <2>2. status' \in Int /\ child' = "zombie"
    <3>1. CASE ChildExit
      BY <3>1, CodeAssumption DEF ChildExit
    <3>2. CASE ChildKilled
      BY <3>2 DEF ChildKilled
    <3> QED
      BY <1>4, <3>1, <3>2
  <2>3. DataOK'
    BY <1>4, <2>1, <2>2 DEF ChildExit, ChildKilled, DataOK
  <2>4. Bounds'
    BY <1>4 DEF ChildExit, ChildKilled, Bounds, HasRoom
  <2> QED
    BY <2>3, <2>4
<1> QED
  BY <1>1, <1>2, <1>3, <1>4 DEF ProcessTree

LEMMA AvailType == DataOK => Avail \in Seq(Token)
BY DEF DataOK, Avail

LEMMA TakeType ==
  ASSUME DataOK, NEW k \in Nat, Take(k)
  PROVE  /\ pend' \in Seq(Token) /\ sock' \in Seq(Token)
         /\ ssl_want' \subseteq {"read", "write"}
         /\ unsent' = unsent /\ client' = client
<1>1. Rest(Avail, k) \in Seq(Token)
  BY AvailType, RestType
<1> QED
  BY <1>1 DEF Take, DataOK

(* The calls of the loop that read the body.                               *)
LEMMA DataRead ==
  ASSUME DataOK, Bounds, ReadHeader \/ ReadData \/ ReadLineEnd \/ ReadNothing
  PROVE  DataOK' /\ Bounds'
<1> USE DEF peerVars, serverVars, childVars, args, sendVars, recvVars, bodyVars,
            sseVars, waitVars, procVars, inVars, outVars
<1>1. pc' \in LoopStages
  BY ProceedStage DEF ReadHeader, ReadData, ReadLineEnd, ReadNothing
<1>2. CASE ReadHeader
  <2>1. Take(1)
    BY <1>2 DEF ReadHeader
  <2>2. Head(Avail) \in Token
    BY <1>2, AvailType DEF ReadHeader
  <2>3. br_hdr' \in Nat /\ br_remaining' \in Int
    BY <1>2, <2>2 DEF ReadHeader, DataOK, Token
  <2>4. /\ br_state' \in {"header", "final", "data"}
        /\ br_state' = "data" => br_remaining' > 0
    BY <1>2 DEF ReadHeader, DataOK
  <2>5. DataOK'
    BY <1>1, <1>2, <2>1, <2>3, <2>4, TakeType DEF ReadHeader, DataOK, LoopStages
  <2>6. Bounds'
    BY <1>1, <1>2 DEF ReadHeader, Bounds, LoopStages
  <2> QED
    BY <2>5, <2>6
<1>3. CASE ReadData
  <2> DEFINE n == DataLen
  <2>1. /\ Take(n)
        /\ stdin_buf' = stdin_buf \o [i \in 1..n |-> Avail[i].val]
        /\ br_remaining' = br_remaining - n
    BY <1>3 DEF ReadData
  <2>2. Len(Avail) \in Nat /\ Len(stdin_buf) \in Nat /\ br_remaining \in Nat
    BY <1>3, AvailType DEF ReadData, DataOK
  <2>3. n \in Nat /\ n <= br_remaining /\ n <= Len(Avail) /\ n + Len(stdin_buf) <= StdinCap
    BY <2>2, Constants DEF Bounds, DataLen, Min2, Space
  <2>4. [i \in 1..n |-> Avail[i].val] \in Seq(Nat)
    <3> HIDE DEF n
    <3>1. ASSUME NEW i \in 1..n PROVE Avail[i].val \in Nat
      <4>1. Avail[i] \in Token
        BY <2>2, <2>3, AvailType
      <4> QED
        BY <4>1 DEF Token
    <3> QED
      BY <2>3, <3>1
  <2>5. stdin_buf' \in Seq(Nat) /\ Len(stdin_buf') = Len(stdin_buf) + n
    BY <2>1, <2>3, <2>4 DEF DataOK
  <2>6. /\ br_remaining' \in Int
        /\ br_state' \in {"data", "trailer", "done"}
        /\ br_state' = "data" => br_remaining' > 0
    BY <1>3, <2>1, <2>2, <2>3 DEF ReadData
  <2>7. DataOK'
    BY <1>1, <1>3, <2>1, <2>3, <2>5, <2>6, TakeType DEF ReadData, DataOK, LoopStages
  <2>8. Bounds'
    BY <1>1, <1>3, <2>2, <2>3, <2>5 DEF ReadData, Bounds, LoopStages
  <2> QED
    BY <2>7, <2>8
<1>4. CASE ReadLineEnd
  <2>1. Take(1)
    BY <1>4 DEF ReadLineEnd
  <2>2. br_state' \in {"trailer", "final", "header", "done"}
    BY <1>4 DEF ReadLineEnd
  <2>3. DataOK'
    BY <1>1, <1>4, <2>1, <2>2, TakeType DEF ReadLineEnd, DataOK, LoopStages
  <2>4. Bounds'
    BY <1>1, <1>4 DEF ReadLineEnd, Bounds, LoopStages
  <2> QED
    BY <2>3, <2>4
<1>5. CASE ReadNothing
  <2>1. DataOK'
    BY <1>1, <1>5 DEF ReadNothing, DataOK, LoopStages
  <2>2. Bounds'
    BY <1>1, <1>5 DEF ReadNothing, Bounds, LoopStages
  <2> QED
    BY <2>1, <2>2
<1> QED
  BY <1>2, <1>3, <1>4, <1>5

(* The calls that write to the client and to the child, and read the       *)
(* child's output.                                                         *)
LEMMA DataWrite ==
  ASSUME DataOK, Bounds, SslWrite \/ SslWriteFails \/ WriteStdin
  PROVE  DataOK' /\ Bounds'
<1> USE DEF peerVars, serverVars, childVars, args, sendVars, recvVars, bodyVars,
            sseVars, waitVars, procVars, inVars, outVars
<1>1. CASE SslWrite
  <2> DEFINE todo == Len(sse_buf) - wpend
             k == Min2(NetCap - Len(net), todo)
  <2>1. /\ net' = net \o SubSeq(sse_buf, wpend + 1, wpend + k)
        /\ IF k = todo
           THEN sse_buf' = <<>> /\ sse_buf_len' = 0 /\ wpend' = 0
           ELSE wpend' = wpend + k /\ UNCHANGED <<sse_buf, sse_buf_len>>
        /\ ssl_want' \in {ssl_want \ {"write"}, ssl_want \cup {"write"}}
    BY <1>1 DEF SslWrite, AlreadySent
  <2>2. Len(net) \in Nat /\ Len(sse_buf) \in Nat /\ wpend \in Nat
    BY DEF DataOK
  <2>3. k \in Nat /\ k <= todo /\ k <= NetCap - Len(net)
    BY <2>2, Constants DEF Bounds, Min2
  <2>4. /\ SubSeq(sse_buf, wpend + 1, wpend + k) \in Seq(Item)
        /\ Len(SubSeq(sse_buf, wpend + 1, wpend + k)) = k
    <3> HIDE DEF k
    <3> QED
      BY <2>2, <2>3, PieceType DEF DataOK
  <2>5. net' \in Seq(Item) /\ Len(net') = Len(net) + k
    <3> HIDE DEF k
    <3> QED
      BY <2>1, <2>4 DEF DataOK
  <2>6. /\ sse_buf' \in Seq(Item) /\ sse_buf_len' \in Nat /\ wpend' \in Nat
        /\ wpend' <= Len(sse_buf')
    <3> HIDE DEF k
    <3>1. CASE k = todo
      BY <2>1, <3>1
    <3>2. CASE k # todo
      <4>1. UNCHANGED <<sse_buf, sse_buf_len>> /\ wpend' = wpend + k
        BY <2>1, <3>2
      <4> QED
        BY <2>2, <2>3, <4>1 DEF DataOK
    <3> QED
      BY <3>1, <3>2
  <2>7. pc' \in LoopStages
    BY <1>1, ProceedStage DEF SslWrite
  <2>8. DataOK'
    BY <1>1, <2>1, <2>5, <2>6, <2>7 DEF SslWrite, DataOK, LoopStages
  <2>9. Bounds'
    <3>1. Len(net') <= NetCap
      <4> HIDE DEF k
      <4> QED
        BY <2>2, <2>3, <2>5, Constants
    <3>2. UNCHANGED <<stdin_buf, inpipe, pipe, out_buf>>
      BY <1>1 DEF SslWrite
    <3> QED
      BY <2>6, <2>7, <3>1, <3>2 DEF Bounds, LoopStages
  <2> QED
    BY <2>8, <2>9
<1>2. CASE SslWriteFails
  <2>1. pc' \in {"kill", "close", "flush", "final", "exit"}
    BY <1>2 DEF SslWriteFails, AfterLoop, Ending, LastWords
  <2>2. DataOK'
    BY <1>2, <2>1 DEF SslWriteFails, DataOK
  <2>3. Bounds'
    BY <1>2, <2>1 DEF SslWriteFails, Bounds
  <2> QED
    BY <2>2, <2>3
<1>3. CASE WriteStdin
  <2>1. pc' \in LoopStages
    BY <1>3, ProceedStage DEF WriteStdin
  <2>2. Len(inpipe) \in Nat /\ Len(stdin_buf) \in Nat
    BY DEF DataOK
  <2>3. CASE "in" \in fds
    <3> DEFINE n == Min2(PipeCap - Len(inpipe), Len(stdin_buf))
    <3>1. /\ inpipe' = inpipe \o SubSeq(stdin_buf, 1, n)
          /\ stdin_buf' = Rest(stdin_buf, n)
      BY <1>3, <2>3 DEF WriteStdin, Unwritten
    <3>2. n \in Nat /\ n <= Len(stdin_buf) /\ n <= PipeCap - Len(inpipe)
      BY <2>2, Constants DEF Bounds, Min2
    <3> HIDE DEF n
    <3>3. /\ SubSeq(stdin_buf, 0 + 1, 0 + n) \in Seq(Nat)
          /\ Len(SubSeq(stdin_buf, 0 + 1, 0 + n)) = n
      BY <3>2, PieceType DEF DataOK
    <3>4. inpipe' \in Seq(Nat) /\ Len(inpipe') = Len(inpipe) + n
      BY <3>1, <3>2, <3>3 DEF DataOK
    <3>5. stdin_buf' \in Seq(Nat) /\ Len(stdin_buf') = Len(stdin_buf) - n
      BY <3>1, <3>2, RestType DEF DataOK
    <3>6. DataOK'
      BY <1>3, <2>1, <3>4, <3>5 DEF WriteStdin, DataOK, LoopStages
    <3>7. Bounds'
      BY <1>3, <2>1, <2>2, <3>2, <3>4, <3>5, Constants DEF WriteStdin, Bounds, LoopStages
    <3> QED
      BY <3>6, <3>7
  <2>4. CASE "in" \notin fds
    <3>1. UNCHANGED <<inpipe, stdin_buf>>
      BY <1>3, <2>4 DEF WriteStdin
    <3>2. DataOK'
      BY <1>3, <2>1, <3>1 DEF WriteStdin, DataOK, LoopStages
    <3>3. Bounds'
      BY <1>3, <2>1, <3>1 DEF WriteStdin, Bounds, LoopStages
    <3> QED
      BY <3>2, <3>3
  <2> QED
    BY <2>3, <2>4
<1> QED
  BY <1>1, <1>2, <1>3

(* The calls that read the child's output.                                 *)
LEMMA DataOutput ==
  ASSUME DataOK, Bounds, NEW s \in Streams, ReadOutput(s) \/ EmitLine(s)
  PROVE  DataOK' /\ Bounds'
<1> USE DEF peerVars, serverVars, childVars, args, sendVars, recvVars, bodyVars,
            sseVars, waitVars, procVars, inVars, outVars
<1> DEFINE lines == {"outlines", "errlines"}
<1>1. pc' \in LoopStages \cup lines
  BY ProceedStage DEF ReadOutput, EmitLine, AfterOutput, LinesOf
<1>2. CASE ReadOutput(s)
  <2>1. /\ pipe' = [pipe EXCEPT ![s] = <<>>]
        /\ output_done' \in {output_done, output_done \cup {s}}
        /\ out_buf' \in {<<>>, pipe[s]}
        /\ out_buf' # <<>> => ~raw /\ HasRoom
        /\ \/ UNCHANGED <<sse_buf, sse_buf_len>>
           \/ /\ raw
              /\ sse_buf' = Append(sse_buf, OutItem(s, pipe[s]))
              /\ sse_buf_len' = sse_buf_len + Frame + Len(pipe[s])
    BY <1>2 DEF ReadOutput
  <2>2. pipe[s] \in Seq(Nat) /\ Len(pipe[s]) \in Nat
    BY DEF DataOK
  <2>3. pipe' \in [Streams -> Seq(Nat)] /\ \A t \in Streams : Len(pipe'[t]) <= PipeCap
    <3>1. pipe \in [Streams -> Seq(Nat)] /\ \A t \in Streams : Len(pipe[t]) <= PipeCap
      BY DEF DataOK, Bounds
    <3>2. pipe' = [pipe EXCEPT ![s] = <<>>]
      BY <2>1
    <3>3. \A t \in Streams : pipe'[t] = IF t = s THEN <<>> ELSE pipe[t]
      BY <3>1, <3>2
    <3>4. Len(<<>>) = 0 /\ <<>> \in Seq(Nat)
      OBVIOUS
    <3>5. pipe' \in [Streams -> Seq(Nat)]
      BY <3>1, <3>2, <3>4
    <3> QED
      BY <3>1, <3>3, <3>4, <3>5, Constants
  <2>4. sse_buf' \in Seq(Item) /\ sse_buf_len' \in Nat /\ wpend <= Len(sse_buf')
    <3>1. OutItem(s, pipe[s]) \in Item
      BY <2>2 DEF OutItem, Item, Streams
    <3>2. /\ wpend \in Nat /\ sse_buf \in Seq(Item) /\ sse_buf_len \in Nat
          /\ wpend <= Len(sse_buf)
      BY DEF DataOK, Bounds
    <3>3. CASE UNCHANGED <<sse_buf, sse_buf_len>>
      BY <3>2, <3>3
    <3>4. CASE /\ sse_buf' = Append(sse_buf, OutItem(s, pipe[s]))
               /\ sse_buf_len' = sse_buf_len + Frame + Len(pipe[s])
      <4>1. sse_buf' \in Seq(Item) /\ Len(sse_buf') = Len(sse_buf) + 1
        BY <3>1, <3>2, <3>4
      <4>2. sse_buf_len' \in Nat
        <5> DEFINE n == Len(pipe[s])
        <5>1. sse_buf_len' = sse_buf_len + Frame + n
          BY <3>4
        <5>2. sse_buf_len \in Nat /\ Frame \in Nat /\ n \in Nat
          BY <2>2, <3>2, Constants
        <5> HIDE DEF n
        <5> QED
          BY <5>1, <5>2
      <4>3. wpend <= Len(sse_buf')
        <5>1. Len(sse_buf) \in Nat
          BY <3>2
        <5> QED
          BY <3>2, <4>1, <5>1
      <4> QED
        BY <4>1, <4>2, <4>3
    <3> QED
      BY <2>1, <3>3, <3>4
  <2>5. out_buf' \in Seq(Nat) /\ Len(out_buf') <= PipeCap
    <3>1. Len(pipe[s]) <= PipeCap
      BY DEF Bounds
    <3>2. CASE out_buf' = <<>>
      BY <3>2, Constants
    <3>3. CASE out_buf' = pipe[s]
      BY <2>2, <3>1, <3>3
    <3> QED
      BY <2>1, <3>2, <3>3
  <2>6. pc' \in lines => HasRoom'
    <3>1. CASE out_buf' = <<>>
      <4>1. pc' \in LoopStages
        BY <1>2, <3>1, ProceedStage DEF ReadOutput, AfterOutput
      <4> QED
        BY <4>1 DEF LoopStages
    <3>2. CASE out_buf' # <<>>
      BY <1>2, <2>1, <3>2 DEF ReadOutput, HasRoom
    <3> QED
      BY <3>1, <3>2
  <2>7. DataOK'
    <3>1. output_done' \subseteq Streams
      BY <2>1 DEF DataOK
    <3>2. UNCHANGED <<unsent, sock, pend, client, net, recv, revents, br_state,
                      br_remaining, br_hdr, exit_code, stdin_buf, wpend, ssl_want,
                      child, status, fds, inpipe, consumed, made>>
      BY <1>2 DEF ReadOutput
    <3> QED
      BY <1>1, <2>3, <2>4, <2>5, <3>1, <3>2 DEF DataOK, LoopStages
  <2>8. Bounds'
    <3>1. UNCHANGED <<net, wpend, stdin_buf, inpipe>>
      BY <1>2 DEF ReadOutput
    <3> QED
      BY <2>3, <2>4, <2>5, <2>6, <3>1 DEF Bounds
  <2> QED
    BY <2>7, <2>8
<1>3. CASE EmitLine(s)
  <2>1. PICK k \in 0..Len(out_buf) :
          /\ IF k > 0
             THEN /\ sse_buf' = Append(sse_buf, OutItem(s, SubSeq(out_buf, 1, k)))
                  /\ sse_buf_len' = sse_buf_len + Frame + k
             ELSE UNCHANGED <<sse_buf, sse_buf_len>>
          /\ out_buf' = <<>> \/ (HasRoom' /\ out_buf' = Rest(out_buf, k + 1))
    BY <1>3 DEF EmitLine
  <2>2. out_buf \in Seq(Nat) /\ Len(out_buf) \in Nat /\ k \in Nat /\ k <= Len(out_buf)
    BY <2>1 DEF DataOK
  <2>3. OutItem(s, SubSeq(out_buf, 1, k)) \in Item
    <3>1. SubSeq(out_buf, 0 + 1, 0 + k) \in Seq(Nat)
      BY <2>2, PieceType
    <3> QED
      BY <2>2, <3>1 DEF OutItem, Item, Streams
  <2>4. sse_buf' \in Seq(Item) /\ sse_buf_len' \in Nat /\ wpend <= Len(sse_buf')
    <3>1. /\ wpend \in Nat /\ sse_buf \in Seq(Item) /\ sse_buf_len \in Nat
          /\ wpend <= Len(sse_buf)
      BY DEF DataOK, Bounds
    <3>2. CASE k = 0
      BY <2>1, <3>1, <3>2
    <3>3. CASE k > 0
      <4>1. sse_buf' \in Seq(Item) /\ Len(sse_buf') = Len(sse_buf) + 1
        BY <2>1, <2>3, <3>1, <3>3
      <4> QED
        BY <2>1, <2>2, <3>1, <3>3, <4>1, Constants
    <3> QED
      BY <2>2, <3>2, <3>3
  <2>5. out_buf' \in Seq(Nat) /\ Len(out_buf') <= PipeCap
    <3>1. Len(out_buf) <= PipeCap
      BY DEF Bounds
    <3>2. k + 1 \in Nat
      BY <2>2
    <3>3. /\ Rest(out_buf, k + 1) \in Seq(Nat)
          /\ Len(Rest(out_buf, k + 1)) <= Len(out_buf)
      <4>1. /\ Rest(out_buf, k + 1) \in Seq(Nat)
            /\ Len(Rest(out_buf, k + 1)) = IF k + 1 <= Len(out_buf)
                                           THEN Len(out_buf) - (k + 1) ELSE 0
        BY <2>2, <3>2, RestType
      <4> QED
        BY <2>2, <4>1
    <3>4. CASE out_buf' = <<>>
      BY <3>4, Constants
    <3>5. CASE out_buf' = Rest(out_buf, k + 1)
      BY <2>2, <3>1, <3>3, <3>5, Constants
    <3> QED
      BY <2>1, <3>4, <3>5
  <2>6. pc' \in lines => HasRoom'
    <3>1. CASE out_buf' = <<>>
      <4>1. pc' \in LoopStages
        BY <1>3, <3>1, ProceedStage DEF EmitLine, AfterOutput
      <4> QED
        BY <4>1 DEF LoopStages
    <3>2. CASE out_buf' # <<>>
      BY <2>1, <3>2
    <3> QED
      BY <3>1, <3>2
  <2>7. DataOK'
    BY <1>1, <1>3, <2>4, <2>5 DEF EmitLine, DataOK, LoopStages
  <2>8. Bounds'
    <3>1. UNCHANGED <<net, wpend, stdin_buf, inpipe, pipe>>
      BY <1>3 DEF EmitLine
    <3> QED
      BY <2>4, <2>5, <2>6, <3>1 DEF Bounds
  <2> QED
    BY <2>7, <2>8
<1> QED
  BY <1>2, <1>3

(* What is left: the ends of an iteration and of the call.                 *)
LEMMA DataRest ==
  ASSUME DataOK, Bounds,
         \/ LoopEnds \/ Poll \/ PollError \/ WaitBlocking \/ CloseStdin \/ CheckExit
         \/ Kill \/ Reap \/ FlushItem \/ FlushDone \/ SendExit \/ SendFinal \/ Return
         \/ UNCHANGED vars
  PROVE  DataOK' /\ Bounds'
<1> USE DEF peerVars, serverVars, childVars, args, sendVars, recvVars, bodyVars,
            sseVars, waitVars, procVars, inVars, outVars
<1> DEFINE after == {"kill", "close", "flush", "final", "exit"}
<1>1. CASE LoopEnds \/ PollError
  <2>1. pc' \in after
    BY <1>1, AfterLoopStage DEF LoopEnds, PollError
  <2>2. DataOK'
    BY <1>1, <2>1 DEF LoopEnds, PollError, DataOK
  <2>3. Bounds'
    BY <1>1, <2>1 DEF LoopEnds, PollError, Bounds
  <2> QED
    BY <2>2, <2>3
<1>2. CASE Poll
  <2>1. pc' \in LoopStages
    BY <1>2, ProceedStage DEF Poll
  <2>2. revents' \subseteq {"sslin", "sslout", "stdin", "stdinerr", "out", "err"}
    BY <1>2 DEF Poll, Ready, Streams
  <2>3. DataOK'
    BY <1>2, <2>1, <2>2 DEF Poll, DataOK, LoopStages
  <2>4. Bounds'
    BY <1>2, <2>1 DEF Poll, Bounds, LoopStages
  <2> QED
    BY <2>3, <2>4
<1>3. CASE WaitBlocking
  <2>1. pc' \in after
    BY <1>3 DEF WaitBlocking, AfterLoop, Ending, LastWords
  <2>2. child' \in {child, "reaped"} /\ exit_code' \in {exit_code, status}
    BY <1>3 DEF WaitBlocking
  <2>3. DataOK'
    BY <1>3, <2>1, <2>2 DEF WaitBlocking, DataOK
  <2>4. Bounds'
    BY <1>3, <2>1 DEF WaitBlocking, Bounds
  <2> QED
    BY <2>3, <2>4
<1>4. CASE CloseStdin
  <2>1. pc' \in LoopStages
    BY <1>4, ProceedStage DEF CloseStdin
  <2>2. DataOK'
    BY <1>4, <2>1 DEF CloseStdin, DataOK, LoopStages
  <2>3. Bounds'
    BY <1>4, <2>1 DEF CloseStdin, Bounds, LoopStages
  <2> QED
    BY <2>2, <2>3
<1>5. CASE CheckExit
  <2>1. child' \in {child, "reaped"} /\ exit_code' \in {exit_code, status}
    BY <1>5 DEF CheckExit
  <2>2. DataOK'
    BY <1>5, <2>1 DEF CheckExit, DataOK
  <2>3. Bounds'
    BY <1>5 DEF CheckExit, Bounds
  <2> QED
    BY <2>2, <2>3
<1>6. CASE Kill
  <2>1. DataOK'
    BY <1>6 DEF Kill, DataOK
  <2>2. Bounds'
    BY <1>6 DEF Kill, Bounds
  <2> QED
    BY <2>1, <2>2
<1>7. CASE Reap
  <2>1. pc' \in after
    BY <1>7, AfterLoopStage DEF Reap
  <2>2. DataOK'
    BY <1>7, <2>1 DEF Reap, DataOK
  <2>3. Bounds'
    BY <1>7, <2>1 DEF Reap, Bounds
  <2> QED
    BY <2>2, <2>3
<1>8. CASE FlushItem
  <2>1. /\ Len(net) \in Nat /\ Len(sse_buf) \in Nat /\ wpend \in Nat
        /\ sse_buf \in Seq(Item) /\ net \in Seq(Item)
    BY DEF DataOK
  <2>2. wpend + 1 \in 1..Len(sse_buf)
    BY <1>8, <2>1 DEF FlushItem, Flushed, Bounds
  <2>3. net' \in Seq(Item) /\ Len(net') = Len(net) + 1
    BY <1>8, <2>1, <2>2 DEF FlushItem
  <2>4. DataOK'
    BY <1>8, <2>1, <2>3 DEF FlushItem, DataOK
  <2>5. Bounds'
    BY <1>8, <2>1, <2>2, <2>3, Constants DEF FlushItem, Bounds
  <2> QED
    BY <2>4, <2>5
<1>9. CASE FlushDone
  <2>1. DataOK'
    BY <1>9 DEF FlushDone, DataOK, LastWords
  <2>2. Bounds'
    BY <1>9 DEF FlushDone, Bounds, LastWords
  <2> QED
    BY <2>1, <2>2
<1>10. CASE SendExit \/ SendFinal
  <2>1. PICK item \in Item : SendLast(item)
    <3>1. ExitItem \in Item /\ FinalItem \in Item
      BY DEF ExitItem, FinalItem, Item, DataOK
    <3> QED
      BY <1>10, <3>1 DEF SendExit, SendFinal
  <2>2. pc' \in {"final", "close"}
    BY <1>10 DEF SendExit, SendFinal
  <2>3. net' \in Seq(Item) /\ Len(net') <= NetCap
    <3>1. net \in Seq(Item) /\ Len(net) \in Nat
      BY DEF DataOK
    <3> QED
      BY <2>1, <3>1, Constants DEF SendLast, Bounds
  <2>4. DataOK'
    BY <2>1, <2>2, <2>3 DEF SendLast, DataOK
  <2>5. Bounds'
    BY <2>1, <2>2, <2>3 DEF SendLast, Bounds
  <2> QED
    BY <2>4, <2>5
<1>11. CASE Return
  <2>1. DataOK'
    BY <1>11 DEF Return, DataOK
  <2>2. Bounds'
    BY <1>11 DEF Return, Bounds
  <2> QED
    BY <2>1, <2>2
<1>12. CASE UNCHANGED vars
  <2>1. DataOK'
    BY <1>12 DEF vars, DataOK
  <2>2. Bounds'
    BY <1>12 DEF vars, Bounds, HasRoom
  <2> QED
    BY <2>1, <2>2
<1> QED
  BY <1>1, <1>2, <1>3, <1>4, <1>5, <1>6, <1>7, <1>8, <1>9, <1>10, <1>11, <1>12

LEMMA TypeNext == TypeOK /\ Bounds /\ [Next]_vars => TypeOK' /\ Bounds'
<1> SUFFICES ASSUME TypeOK, Bounds, [Next]_vars
             PROVE  TypeOK' /\ Bounds'
  OBVIOUS
<1>1. FlagsOK'
  BY FlagsNext DEF TypeOK
<1>2. DataOK' /\ Bounds'
  <2> USE DEF TypeOK
  <2>1. CASE Client
    BY <2>1, DataClient
  <2>2. CASE ProcessTree
    BY <2>2, DataChild
  <2>3. CASE Server
    BY <2>3, DataRead, DataWrite, DataOutput, DataRest DEF Server
  <2>4. CASE UNCHANGED vars
    BY <2>4, DataRest
  <2> QED
    BY <2>1, <2>2, <2>3, <2>4 DEF Next, Returned
<1> QED
  BY <1>1, <1>2 DEF TypeOK

(* Every behaviour: every variable keeps its type, and with it no chunk is *)
(* read past its end.                                                      *)
THEOREM TypeCorrect == Spec => []TypeOK
BY TypeInit, TypeNext, PTL DEF Spec

----------------------------------------------------------------------------
(* The fill level of sse_buf.  Lines are split in SSE mode only, and every *)
(* append was preceded by a test that left room for it.                    *)
LinesInSse == pc \in {"outlines", "errlines"} => ~raw

Growth ==
  \E n \in Nat :
    /\ sse_buf_len' = sse_buf_len + Frame + n
    /\ raw => sse_buf_len' <= SseCap
    /\ ~raw => HasRoom /\ n <= PipeCap

LEMMA RawFixed == [Next]_vars => raw' = raw
<1> SUFFICES ASSUME [Next]_vars PROVE raw' = raw
  OBVIOUS
<1>1. CASE Client
  BY <1>1 DEF Client, ClientSend, ClientFragment, ClientClose, ClientRecv, args
<1>2. CASE ProcessTree
  BY <1>2 DEF ProcessTree, ChildRead, ChildExit, ChildKilled, ChildWrite, ChildClose,
              peerVars, args
<1>3. CASE Server
  BY <1>3 DEF Server, LoopEnds, Poll, PollError, WaitBlocking, ReadHeader, ReadData,
              ReadLineEnd, ReadNothing, SslWrite, SslWriteFails, WriteStdin, ReadOutput,
              EmitLine, CloseStdin, CheckExit, Kill, Reap, FlushItem, FlushDone, SendExit,
              SendFinal, SendLast, Return, peerVars, args
<1>4. CASE UNCHANGED vars
  BY <1>4 DEF vars, peerVars, args
<1> QED
  BY <1>1, <1>2, <1>3, <1>4 DEF Next, Returned

LEMMA LinesNext ==
  ASSUME LinesInSse, [Next]_vars
  PROVE  LinesInSse'
<1> USE DEF LinesInSse
<1>1. raw' = raw
  BY RawFixed
<1>2. CASE pc' = pc
  BY <1>1, <1>2
<1>3. CASE pc' \notin {"outlines", "errlines"}
  BY <1>3
<1>4. ASSUME NEW s \in Streams, ReadOutput(s)
      PROVE  pc' \in {"outlines", "errlines"} => ~raw
  <2>1. CASE raw
    <3>1. out_buf' = <<>>
      BY <1>4, <2>1 DEF ReadOutput
    <3>2. pc' \in LoopStages
      BY <1>4, <3>1, ProceedStage DEF ReadOutput, AfterOutput
    <3> QED
      BY <3>2 DEF LoopStages
  <2> QED
    BY <2>1
<1>5. ASSUME NEW s \in Streams, EmitLine(s)
      PROVE  pc' \in LoopStages \cup {pc}
  BY <1>5, ProceedStage DEF EmitLine, AfterOutput
<1>6. \/ \E s \in Streams : ReadOutput(s) \/ EmitLine(s)
      \/ pc' = pc \/ pc' \notin {"outlines", "errlines"}
  <2>1. CASE Client
    BY <2>1 DEF Client, ClientSend, ClientFragment, ClientClose, ClientRecv, serverVars
  <2>2. CASE ProcessTree
    BY <2>2 DEF ProcessTree, ChildRead, ChildExit, ChildKilled, ChildWrite, ChildClose,
                serverVars
  <2>3. CASE LoopEnds \/ PollError \/ Reap
    BY <2>3, AfterLoopStage DEF LoopEnds, PollError, Reap
  <2>4. CASE Poll \/ ReadHeader \/ ReadData \/ ReadLineEnd \/ ReadNothing
             \/ SslWrite \/ WriteStdin \/ CloseStdin
    <3>1. pc' \in LoopStages
      BY <2>4, ProceedStage DEF Poll, ReadHeader, ReadData, ReadLineEnd, ReadNothing,
                                SslWrite, WriteStdin, CloseStdin
    <3> QED
      BY <3>1 DEF LoopStages
  <2>5. CASE WaitBlocking \/ SslWriteFails
    BY <2>5 DEF WaitBlocking, SslWriteFails, AfterLoop, Ending, LastWords
  <2>6. CASE CheckExit \/ Kill \/ FlushItem \/ FlushDone \/ SendExit \/ SendFinal \/ Return
    BY <2>6 DEF CheckExit, Kill, FlushItem, FlushDone, SendExit, SendFinal, Return,
                LastWords
  <2>7. CASE UNCHANGED vars
    BY <2>7 DEF vars, serverVars
  <2> QED
    BY <2>1, <2>2, <2>3, <2>4, <2>5, <2>6, <2>7 DEF Next, Server, Returned
<1> QED
  BY <1>1, <1>2, <1>3, <1>4, <1>5, <1>6 DEF LoopStages

(* Every step leaves sse_buf_len alone, resets it, or lets it grow by an   *)
(* item there was room for.                                                *)
LEMMA SseGrowth ==
  ASSUME TypeOK, Bounds, LinesInSse, [Next]_vars
  PROVE  sse_buf_len' \in {0, sse_buf_len} \/ Growth
<1> USE DEF sseVars
<1>1. CASE Client
  BY <1>1 DEF Client, ClientSend, ClientFragment, ClientClose, ClientRecv, serverVars
<1>2. CASE ProcessTree
  BY <1>2 DEF ProcessTree, ChildRead, ChildExit, ChildKilled, ChildWrite, ChildClose,
              serverVars
<1>3. ASSUME NEW s \in Streams, ReadOutput(s)
      PROVE  sse_buf_len' = sse_buf_len \/ Growth
  <2> DEFINE n == Len(pipe[s])
  <2>1. CASE raw /\ Kept(s, pipe[s]) /\ sse_buf_len' = sse_buf_len + Frame + n
    <3>1. n \in Nat
      BY DEF TypeOK, DataOK
    <3>2. sse_buf_len' <= SseCap
      BY <2>1 DEF Kept
    <3> QED
      BY <2>1, <3>1, <3>2 DEF Growth
  <2> QED
    BY <1>3, <2>1 DEF ReadOutput
<1>4. ASSUME NEW s \in Streams, EmitLine(s)
      PROVE  sse_buf_len' = sse_buf_len \/ Growth
  <2>1. PICK k \in 0..Len(out_buf) :
          sse_buf_len' = sse_buf_len \/ sse_buf_len' = sse_buf_len + Frame + k
    BY <1>4 DEF EmitLine
  <2>2. pc \in {"outlines", "errlines"}
    BY <1>4 DEF EmitLine, LinesOf
  <2>3. ~raw /\ HasRoom
    BY <2>2 DEF Bounds, LinesInSse
  <2>4. k \in Nat /\ k <= PipeCap
    <3>1. Len(out_buf) \in Nat /\ Len(out_buf) <= PipeCap
      BY DEF TypeOK, DataOK, Bounds
    <3> QED
      BY <2>1, <3>1, Constants
  <2> QED
    BY <2>1, <2>3, <2>4 DEF Growth
<1>5. CASE LoopEnds \/ Poll \/ PollError \/ WaitBlocking \/ ReadHeader \/ ReadData
           \/ ReadLineEnd \/ ReadNothing \/ SslWriteFails \/ WriteStdin
  BY <1>5 DEF LoopEnds, Poll, PollError, WaitBlocking, ReadHeader, ReadData,
              ReadLineEnd, ReadNothing, SslWriteFails, WriteStdin
<1>6. CASE SslWrite \/ CloseStdin \/ CheckExit \/ Kill \/ Reap \/ FlushItem \/ FlushDone
           \/ SendExit \/ SendFinal \/ Return
  BY <1>6 DEF SslWrite, CloseStdin, CheckExit, Kill, Reap, FlushItem, FlushDone,
              SendExit, SendFinal, SendLast, Return
<1>7. CASE UNCHANGED vars
  BY <1>7 DEF vars, serverVars
<1> QED
  BY <1>1, <1>2, <1>3, <1>4, <1>5, <1>6, <1>7 DEF Next, Server, Returned

(* Every behaviour: the response buffer is never overrun, if in SSE mode   *)
(* the slack covers one read of the child's output with its framing.       *)
THEOREM BufferBoundHolds == Spec => []BufferBound
<1> DEFINE IInv == TypeOK /\ Bounds /\ LinesInSse /\ BufferBound
<1>1. Init => IInv
  <2>1. Init => LinesInSse /\ sse_buf_len = 0
    BY DEF Init, LinesInSse
  <2> QED
    BY <2>1, TypeInit, Constants DEF BufferBound
<1>2. IInv /\ [Next]_vars => IInv'
  <2> SUFFICES ASSUME IInv, [Next]_vars PROVE IInv'
    OBVIOUS
  <2>1. TypeOK' /\ Bounds' /\ LinesInSse'
    BY TypeNext, LinesNext
  <2>2. sse_buf_len \in Nat
    BY DEF TypeOK, DataOK
  <2>3. ASSUME raw PROVE sse_buf_len' <= SseCap
    BY <2>2, <2>3, SseGrowth, Constants DEF BufferBound, Growth
  <2>4. ASSUME ~raw, Frame + PipeCap <= Slack + 1 PROVE sse_buf_len' <= SseCap
    BY <2>2, <2>4, SseGrowth, Constants DEF BufferBound, Growth, HasRoom
  <2> QED
    BY <2>1, <2>3, <2>4, RawFixed DEF BufferBound
<1> QED
  BY <1>1, <1>2, PTL DEF Spec

=============================================================================
