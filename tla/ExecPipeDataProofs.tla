------------------------ MODULE ExecPipeDataProofs ------------------------
(***************************************************************************)
(* Proofs about the data of ExecPipe, for every value of its constants:    *)
(* the child is given the body and nothing else, and what the client gets  *)
(* is what the child wrote, in order, all of it while sse_buf has room for *)
(* it, with the exit event behind it.                                      *)
(***************************************************************************)
EXTENDS ExecPipeProofs

----------------------------------------------------------------------------
(* The way in: from the wire to the child.                                 *)

(* The whole request body on the wire, what of it the server has not yet   *)
(* read, and how far it has read.                                          *)
Wire == IF chunked THEN ChunkedWire ELSE PlainWire
Ahead == pend \o sock \o unsent
Pos == Len(Wire) - Len(Ahead)
Line == Len(Ahead) <= Len(Wire) /\ \A m \in 1..Len(Ahead) : Ahead[m] = Wire[Pos + m]

(* What the child has got or will get.                                     *)
Got == Fed \o stdin_buf
Start == Len(Got) <= Len(Body) /\ \A m \in 1..Len(Got) : Got[m] = Body[m]

(* Where chunk i begins on the wire, and its size; chunk n + 1 is the last. *)
ChunkAt(off, i) == off[i] + 3 * (i - 1)
SizeAt(n, off, i) == IF i = n + 1 THEN 0 ELSE off[i + 1] - off[i]

(* The place on the wire each state of the body reader stands for, with    *)
(* what it has decoded so far.                                             *)
InHeader(n, off) ==
  \E i \in 1..n + 1 :
    /\ Len(Got) = off[i]
    /\ \/ Pos = ChunkAt(off, i) /\ br_hdr = 0
       \/ Pos = ChunkAt(off, i) + 1 /\ br_hdr = SizeAt(n, off, i)
InData(n, off) ==
  \E i \in 1..n : \E j \in 0..SizeAt(n, off, i) - 1 :
    /\ Len(Got) = off[i] + j /\ br_hdr = 0
    /\ Pos = ChunkAt(off, i) + 2 + j /\ br_remaining = SizeAt(n, off, i) - j
InTrailer(n, off) ==
  \E i \in 1..n :
    /\ Len(Got) = off[i + 1] /\ br_hdr = 0
    /\ Pos = ChunkAt(off, i) + 2 + SizeAt(n, off, i)
InFinal(n, off) == Len(Got) = Len(Body) /\ Pos = ChunkAt(off, n + 1) + 2
Place(n, off) ==
  /\ br_state = "header" => InHeader(n, off)
  /\ br_state = "data" => InData(n, off)
  /\ br_state = "trailer" => InTrailer(n, off)
  /\ br_state = "final" => InFinal(n, off)
Parse ==
  IF chunked
  THEN \E n \in 0..Len(Body) : \E off \in [1..n + 1 -> 0..Len(Body)] :
         Layout(ChunkedWire, Body, n, off) /\ Place(n, off)
  ELSE /\ br_state \in {"data", "done"}
       /\ br_state = "data" => Pos = Len(Got) /\ br_remaining = Len(Body) - Pos

(* The reader ends with the whole body, unless the client broke off, and   *)
(* the pipe is closed for the end of the body or because nobody reads it.  *)
Eof ==
  /\ body_eof <=> br_state = "done"
  /\ body_eof /\ client = "open" => Len(Got) = Len(Body)
  /\ pc = "eof" => body_eof /\ stdin_buf = <<>>
Close ==
  stdin_closed /\ pc # "done" /\ client = "open" /\ "in" \in fds
    => body_eof /\ stdin_buf = <<>>

Input == Line /\ Start /\ Parse
InputInv == Input /\ Eof /\ Close

Reads == ReadHeader \/ ReadData \/ ReadLineEnd \/ ReadNothing

----------------------------------------------------------------------------
(* Sequences: a piece moved from the front of one to the end of another.   *)
LEMMA HeadMoved ==
  ASSUME NEW S, NEW p \in Seq(S), NEW q \in Seq(S), q # <<>>
  PROVE  Append(p, Head(q)) \o Tail(q) = p \o q
OBVIOUS

LEMMA RestElements ==
  ASSUME NEW S, NEW q \in Seq(S), NEW k \in Nat, k <= Len(q)
  PROVE  \A m \in 1..Len(q) - k : Rest(q, k)[m] = q[m + k]
<1>1. \A i \in k + 1..Len(q) : q[i] \in S
  OBVIOUS
<1> QED
  BY <1>1, SubSeqProperties DEF Rest

LEMMA PieceMoved ==
  ASSUME NEW S, NEW p \in Seq(S), NEW q \in Seq(S), NEW k \in Nat, k <= Len(q)
  PROVE  (p \o SubSeq(q, 1, k)) \o Rest(q, k) = p \o q
<1> DEFINE a == SubSeq(q, 1, k)
           b == Rest(q, k)
<1>1. a \in Seq(S) /\ Len(a) = k
  <2>1. SubSeq(q, 0 + 1, 0 + k) \in Seq(S) /\ Len(SubSeq(q, 0 + 1, 0 + k)) = k
    BY PieceType
  <2> QED
    BY <2>1
<1>2. b \in Seq(S) /\ Len(b) = Len(q) - k
  BY RestType
<1>3. \A m \in 1..k : a[m] = q[m]
  OBVIOUS
<1>4. \A m \in 1..Len(q) - k : b[m] = q[m + k]
  BY RestElements
<1> HIDE DEF a, b
<1>5. /\ (p \o a) \o b \in Seq(S) /\ p \o q \in Seq(S)
      /\ Len((p \o a) \o b) = Len(p) + Len(q) /\ Len(p \o q) = Len(p) + Len(q)
  BY <1>1, <1>2
<1>6. ASSUME NEW m \in 1..Len(p) + Len(q) PROVE ((p \o a) \o b)[m] = (p \o q)[m]
  <2>1. p \o a \in Seq(S) /\ Len(p \o a) = Len(p) + k
    BY <1>1
  <2>2. CASE m <= Len(p) + k
    BY <1>1, <1>2, <1>3, <2>1, <2>2
  <2>3. CASE m > Len(p) + k
    <3>1. m - (Len(p) + k) \in 1..Len(q) - k
      BY <2>3
    <3>2. ((p \o a) \o b)[m] = b[m - (Len(p) + k)]
      BY <1>2, <2>1, <2>3
    <3>3. b[m - (Len(p) + k)] = q[m - (Len(p) + k) + k]
      BY <1>4, <3>1
    <3>4. (p \o q)[m] = q[m - Len(p)]
      BY <2>3
    <3>5. m - (Len(p) + k) + k = m - Len(p)
      BY <2>3
    <3> QED
      BY <3>2, <3>3, <3>4, <3>5
  <2>4. m <= Len(p) + k \/ m > Len(p) + k
    BY <2>1
  <2> QED
    BY <2>2, <2>3, <2>4, Zenon
<1>7. (p \o a) \o b = p \o q
  BY <1>5, <1>6, SeqEqual
<1> QED
  BY <1>7 DEF a, b

LEMMA Associative ==
  ASSUME NEW S, NEW p \in Seq(S), NEW q \in Seq(S), NEW r \in Seq(S)
  PROVE  (p \o q) \o r = p \o (q \o r) /\ (p \o q) \o r \in Seq(S)
BY ConcatAssociative

----------------------------------------------------------------------------
(* The wire.                                                               *)
LEMMA WireType ==
  /\ PlainWire \in Seq(Token) /\ Len(PlainWire) = Len(Body)
  /\ \A m \in 1..Len(Body) : PlainWire[m] = ByteTok(Body[m]) /\ Body[m] \in Nat
  /\ Wire \in Seq(Token)
<1>1. \A m \in 1..Len(Body) : Body[m] \in Nat
  BY BodyAssumption
<1>2. Len(Body) \in Nat
  BY BodyAssumption
<1>3. PlainWire \in Seq(Token)
  BY <1>1, <1>2 DEF PlainWire, ByteTok, Token
<1>4. Len(PlainWire) = Len(Body)
  BY <1>2 DEF PlainWire
<1> QED
  BY <1>1, <1>3, <1>4, WireAssumption DEF Wire, PlainWire

LEMMA LayoutAt ==
  ASSUME NEW n \in 0..Len(Body), NEW off \in [1..n + 1 -> 0..Len(Body)],
         Layout(ChunkedWire, Body, n, off), NEW i \in 1..n + 1
  PROVE  /\ n \in Nat /\ Len(Body) \in Nat
         /\ off[i] \in Nat /\ SizeAt(n, off, i) \in Nat
         /\ i # n + 1 => /\ SizeAt(n, off, i) > 0 /\ i + 1 \in 1..n + 1
                         /\ off[i + 1] \in Nat /\ off[i] + SizeAt(n, off, i) = off[i + 1]
         /\ i = n + 1 => off[i] = Len(Body) /\ SizeAt(n, off, i) = 0
         /\ Chunk(ChunkedWire, Body, off[i], SizeAt(n, off, i), ChunkAt(off, i))
<1>1. n \in Nat /\ Len(Body) \in Nat
  BY BodyAssumption
<1>2. CASE i = n + 1
  <2>1. off[i] = Len(Body) /\ SizeAt(n, off, i) = 0 /\ ChunkAt(off, i) = Len(Body) + 3 * n
    <3>1. off[i] = Len(Body)
      BY <1>2 DEF Layout
    <3>2. i - 1 = n
      BY <1>1, <1>2
    <3> QED
      BY <1>2, <3>1, <3>2 DEF SizeAt, ChunkAt
  <2>2. Chunk(ChunkedWire, Body, Len(Body), 0, Len(Body) + 3 * n)
    BY DEF Layout
  <2> QED
    BY <1>1, <1>2, <2>1, <2>2
<1>3. CASE i # n + 1
  <2>1. i \in 1..n /\ i + 1 \in 1..n + 1
    BY <1>1, <1>3
  <2>2. off[i] \in Nat /\ off[i + 1] \in Nat /\ off[i] < off[i + 1]
    BY <1>1, <2>1 DEF Layout
  <2>3. SizeAt(n, off, i) = off[i + 1] - off[i]
    BY <1>3 DEF SizeAt
  <2>4. Chunk(ChunkedWire, Body, off[i], off[i + 1] - off[i], off[i] + 3 * (i - 1))
    BY <2>1 DEF Layout
  <2>5. Chunk(ChunkedWire, Body, off[i], SizeAt(n, off, i), ChunkAt(off, i))
    BY <2>3, <2>4 DEF ChunkAt
  <2> QED
    BY <1>1, <1>3, <2>1, <2>2, <2>3, <2>5
<1> QED
  BY <1>2, <1>3

LEMMA AheadType == DataOK => /\ Ahead \in Seq(Token) /\ Len(Ahead) \in Nat
                             /\ Got \in Seq(Nat) /\ Len(Got) \in Nat
BY DEF DataOK, Ahead, Got, Fed

(* SSL_read takes the next tokens of the wire.                             *)
LEMMA TakeAhead ==
  ASSUME DataOK, NEW k \in Nat, k <= Len(Avail), Take(k)
  PROVE  /\ Len(Avail) \in Nat /\ Len(Avail) <= Len(Ahead)
         /\ \A m \in 1..Len(Avail) : Avail[m] = Ahead[m]
         /\ Len(Ahead') = Len(Ahead) - k
         /\ \A m \in 1..Len(Ahead) - k : Ahead'[m] = Ahead[m + k]
<1> DEFINE t == IF pend # <<>> THEN sock \o unsent ELSE unsent
           r == Rest(Avail, k)
<1>1. t \in Seq(Token) /\ Avail \in Seq(Token) /\ Len(Avail) \in Nat
  BY AvailType DEF DataOK
<1>2. Ahead = Avail \o t
  <2>1. pend \in Seq(Token) /\ sock \in Seq(Token) /\ unsent \in Seq(Token)
    BY DEF DataOK
  <2>2. CASE pend # <<>>
    BY <2>1, <2>2, Associative DEF Ahead, Avail
  <2>3. CASE pend = <<>>
    BY <2>1, <2>3 DEF Ahead, Avail
  <2> QED
    BY <2>2, <2>3
<1>3. r \in Seq(Token) /\ Len(r) = Len(Avail) - k
  BY <1>1, RestType
<1>4. \A m \in 1..Len(Avail) - k : r[m] = Avail[m + k]
  BY <1>1, RestElements
<1>5. Ahead' = r \o t
  <2>1. pend' = r /\ unsent' = unsent /\ sock' = (IF pend # <<>> THEN sock ELSE <<>>)
    BY DEF Take
  <2>2. sock \in Seq(Token) /\ unsent \in Seq(Token)
    BY DEF DataOK
  <2> HIDE DEF r
  <2>3. CASE pend # <<>>
    BY <1>3, <2>1, <2>2, <2>3, Associative DEF Ahead
  <2>4. CASE pend = <<>>
    BY <1>3, <2>1, <2>2, <2>4 DEF Ahead
  <2> QED
    BY <2>3, <2>4
<1> HIDE DEF t, r
<1>6. Len(Ahead) = Len(Avail) + Len(t) /\ Len(Ahead') = Len(Ahead) - k
  <2>1. Len(Avail \o t) = Len(Avail) + Len(t) /\ Len(r \o t) = Len(r) + Len(t)
    BY <1>1, <1>3
  <2>2. Len(t) \in Nat
    BY <1>1
  <2> QED
    BY <1>1, <1>2, <1>3, <1>5, <2>1, <2>2
<1>7. \A m \in 1..Len(Avail) : Avail[m] = Ahead[m]
  BY <1>1, <1>2
<1>8. ASSUME NEW m \in 1..Len(Ahead) - k PROVE Ahead'[m] = Ahead[m + k]
  <2>1. CASE m <= Len(Avail) - k
    <3>1. Ahead'[m] = r[m] /\ Ahead[m + k] = Avail[m + k]
      BY <1>1, <1>2, <1>3, <1>5, <1>6, <2>1
    <3> QED
      BY <1>1, <1>4, <2>1, <3>1
  <2>2. CASE m > Len(Avail) - k
    <3>1. Ahead'[m] = t[m - (Len(Avail) - k)]
      BY <1>1, <1>3, <1>5, <1>6, <2>2
    <3>2. Ahead[m + k] = t[m + k - Len(Avail)]
      BY <1>1, <1>2, <1>6, <2>2
    <3>3. m - (Len(Avail) - k) = m + k - Len(Avail)
      BY <1>1
    <3> QED
      BY <3>1, <3>2, <3>3
  <2> QED
    BY <1>1, <2>1, <2>2
<1> QED
  BY <1>1, <1>6, <1>7, <1>8

LEMMA TakeLine ==
  ASSUME DataOK, Line, NEW k \in Nat, k <= Len(Avail), Take(k), chunked' = chunked
  PROVE  /\ Line' /\ Pos' = Pos + k /\ Pos \in Nat
         /\ \A m \in 1..Len(Avail) : Avail[m] = Wire[Pos + m]
         /\ Pos + Len(Avail) <= Len(Wire)
<1>1. Wire' = Wire /\ Len(Wire) \in Nat /\ Len(Ahead) \in Nat
  BY WireType, AheadType DEF Wire, PlainWire
<1>2. /\ Len(Avail) \in Nat /\ Len(Avail) <= Len(Ahead)
      /\ \A m \in 1..Len(Avail) : Avail[m] = Ahead[m]
      /\ Len(Ahead') = Len(Ahead) - k
      /\ \A m \in 1..Len(Ahead) - k : Ahead'[m] = Ahead[m + k]
  BY TakeAhead
<1>3. Len(Ahead) <= Len(Wire) /\ \A m \in 1..Len(Ahead) : Ahead[m] = Wire[Pos + m]
  BY DEF Line
<1>4. Pos' = Pos + k /\ Pos \in Nat /\ Pos + Len(Ahead) = Len(Wire)
  BY <1>1, <1>2, <1>3 DEF Pos
<1>5. ASSUME NEW m \in 1..Len(Ahead) - k PROVE Ahead'[m] = Wire'[Pos' + m]
  <2>1. m + k \in 1..Len(Ahead) /\ Pos' + m = Pos + (m + k)
    BY <1>1, <1>4
  <2> QED
    BY <1>1, <1>2, <1>3, <2>1
<1>6. Line'
  <2>1. Len(Ahead') <= Len(Wire')
    BY <1>1, <1>2, <1>3
  <2>2. \A m \in 1..Len(Ahead') : Ahead'[m] = Wire'[Pos' + m]
    BY <1>2, <1>5
  <2> QED
    BY <2>1, <2>2 DEF Line
<1>7. \A m \in 1..Len(Avail) : Avail[m] = Wire[Pos + m]
  BY <1>1, <1>2, <1>3
<1> QED
  BY <1>1, <1>2, <1>4, <1>6, <1>7

----------------------------------------------------------------------------
(* What the steps leave alone.                                             *)
LEMMA ChunkedFixed == [Next]_vars => chunked' = chunked
<1> SUFFICES ASSUME [Next]_vars PROVE chunked' = chunked
  OBVIOUS
<1>1. CASE Client
  BY <1>1 DEF Client, ClientSend, ClientFragment, ClientClose, ClientRecv, args
<1>2. CASE ProcessTree
  BY <1>2 DEF ProcessTree, ChildRead, ChildExit, ChildKilled, ChildWrite, ChildClose,
              peerVars, args
<1>3. CASE Server
  BY <1>3 DEF Server, LoopEnds, Poll, PollError, WaitBlocking, ReadHeader, ReadData,
              ReadLineEnd, ReadNothing, SslWrite, SslWriteFails, WriteStdin, ReadOutput,
              EmitLine, CloseStdin, CheckExit, Kill, Reap, FlushItem, FlushDone, SendExit,
              SendFinal, SendLast, Return, peerVars, args
<1>4. CASE UNCHANGED vars
  BY <1>4 DEF vars, peerVars, args
<1> QED
  BY <1>1, <1>2, <1>3, <1>4 DEF Next, Returned

(* Steps that neither read the body, nor send it, nor feed the child.      *)
LEMMA Bystanders ==
  ASSUME [Next]_vars
  PROVE  \/ Reads \/ ClientSend \/ ChildRead \/ WriteStdin
         \/ UNCHANGED <<bodyVars, pend, sock, unsent, consumed, inpipe, stdin_buf>>
<1> USE DEF peerVars, serverVars, childVars, sendVars, inVars
<1>1. CASE ClientFragment \/ ClientClose \/ ClientRecv
  BY <1>1 DEF ClientFragment, ClientClose, ClientRecv
<1>2. CASE ProcessTree
  BY <1>2 DEF ProcessTree, ChildExit, ChildKilled, ChildWrite, ChildClose
<1>3. CASE LoopEnds \/ Poll \/ PollError \/ WaitBlocking
  BY <1>3 DEF LoopEnds, Poll, PollError, WaitBlocking
<1>4. CASE SslWrite \/ SslWriteFails \/ \E s \in Streams : ReadOutput(s) \/ EmitLine(s)
  BY <1>4 DEF SslWrite, SslWriteFails, ReadOutput, EmitLine
<1>5. CASE CloseStdin \/ CheckExit \/ Kill \/ Reap
  BY <1>5 DEF CloseStdin, CheckExit, Kill, Reap
<1>6. CASE FlushItem \/ FlushDone \/ SendExit \/ SendFinal \/ Return
  BY <1>6 DEF FlushItem, FlushDone, SendExit, SendFinal, SendLast, Return
<1>7. CASE UNCHANGED vars
  BY <1>7 DEF vars
<1> QED
  BY <1>1, <1>2, <1>3, <1>4, <1>5, <1>6, <1>7 DEF Next, Client, Server, Returned, Reads

(* A step that does not read the body changes neither what is ahead of the *)
(* server nor what the child has got or will get.                          *)
LEMMA OnlyReads ==
  ASSUME TypeOK, Bounds, [Next]_vars, ~Reads
  PROVE  UNCHANGED bodyVars /\ Ahead' = Ahead /\ Got' = Got
<1>1. /\ pend \in Seq(Token) /\ sock \in Seq(Token) /\ unsent \in Seq(Token)
      /\ consumed \in Seq(Nat) /\ inpipe \in Seq(Nat) /\ stdin_buf \in Seq(Nat)
  BY DEF TypeOK, DataOK
<1>2. CASE ClientSend
  <2>1. PICK k \in 1..Min2(MaxRecord, Len(unsent)) :
          sock' = SubSeq(unsent, 1, k) /\ unsent' = Rest(unsent, k)
    BY <1>2 DEF ClientSend
  <2>2. k \in Nat /\ k <= Len(unsent)
    BY <1>1, <2>1, Constants DEF Min2
  <2>3. sock = <<>> /\ UNCHANGED <<pend, consumed, inpipe, stdin_buf, bodyVars>>
    BY <1>2 DEF ClientSend, serverVars, childVars, inVars
  <2>4. (pend \o SubSeq(unsent, 1, k)) \o Rest(unsent, k) = pend \o unsent
    BY <1>1, <2>2, PieceMoved
  <2>5. Ahead = pend \o unsent
    BY <1>1, <2>3 DEF Ahead
  <2> QED
    BY <2>1, <2>3, <2>4, <2>5 DEF Ahead, Got, Fed
<1>3. CASE ChildRead
  <2>1. /\ inpipe # <<>> /\ consumed' = Append(consumed, Head(inpipe)) /\ inpipe' = Tail(inpipe)
        /\ UNCHANGED <<pend, sock, unsent, stdin_buf, bodyVars>>
    BY <1>3 DEF ChildRead, peerVars, sendVars, serverVars
  <2>2. Fed' = Fed
    BY <1>1, <2>1, HeadMoved DEF Fed
  <2> QED
    BY <2>1, <2>2 DEF Ahead, Got
<1>4. CASE WriteStdin
  <2>1. UNCHANGED <<pend, sock, unsent, consumed, bodyVars>>
    BY <1>4 DEF WriteStdin, peerVars, sendVars
  <2>2. Got' = Got
    <3>1. CASE "in" \in fds
      <4> DEFINE n == Min2(PipeCap - Len(inpipe), Len(stdin_buf))
      <4>1. inpipe' = inpipe \o SubSeq(stdin_buf, 1, n) /\ stdin_buf' = Rest(stdin_buf, n)
        BY <1>4, <3>1 DEF WriteStdin, Unwritten
      <4>2. n \in Nat /\ n <= Len(stdin_buf)
        BY <1>1, Constants DEF Bounds, Min2
      <4> HIDE DEF n
      <4> DEFINE piece == SubSeq(stdin_buf, 1, n)
      <4>3. piece \in Seq(Nat)
        <5>1. SubSeq(stdin_buf, 0 + 1, 0 + n) \in Seq(Nat)
          BY <1>1, <4>2, PieceType
        <5> QED
          BY <5>1, <4>2
      <4>4. Fed \in Seq(Nat)
        BY <1>1 DEF Fed
      <4>5. consumed \o (inpipe \o piece) = Fed \o piece
        <5> HIDE DEF piece
        <5>1. (consumed \o inpipe) \o piece = consumed \o (inpipe \o piece)
          <6>1. consumed \in Seq(Nat) /\ inpipe \in Seq(Nat)
            BY <1>1
          <6> QED
            BY <4>3, <6>1, ConcatAssociative
        <5> QED
          BY <5>1 DEF Fed
      <4>6. (Fed \o piece) \o Rest(stdin_buf, n) = Fed \o stdin_buf
        BY <1>1, <4>2, <4>4, PieceMoved
      <4> QED
        BY <2>1, <4>1, <4>5, <4>6 DEF Got, Fed
    <3>2. CASE "in" \notin fds
      BY <1>4, <2>1, <3>2 DEF WriteStdin, Got, Fed
    <3> QED
      BY <3>1, <3>2
  <2> QED
    BY <2>1, <2>2 DEF Ahead
<1>5. CASE UNCHANGED <<bodyVars, pend, sock, unsent, consumed, inpipe, stdin_buf>>
  BY <1>5 DEF Ahead, Got, Fed
<1> QED
  BY <1>2, <1>3, <1>4, <1>5, Bystanders

LEMMA Unmoved ==
  ASSUME Input, chunked' = chunked, UNCHANGED bodyVars, Ahead' = Ahead, Got' = Got
  PROVE  Input'
<1>1. Wire' = Wire /\ Pos' = Pos
  BY DEF Wire, PlainWire, Pos
<1>2. Line' /\ Start'
  BY <1>1 DEF Input, Line, Start
<1>3. \A n, off : Place(n, off)' = Place(n, off)
  BY <1>1 DEF Place, InHeader, InData, InTrailer, InFinal, ChunkAt, SizeAt, bodyVars
<1>4. Parse'
  BY <1>1, <1>3 DEF Input, Parse, bodyVars
<1> QED
  BY <1>2, <1>4 DEF Input

----------------------------------------------------------------------------
(* The steps of the body reader in a chunked body.                         *)
LEMMA HeaderStep ==
  ASSUME TypeOK, Line, Start, chunked, [Next]_vars, ReadHeader,
         NEW n \in 0..Len(Body), NEW off \in [1..n + 1 -> 0..Len(Body)],
         Layout(ChunkedWire, Body, n, off), Place(n, off)
  PROVE  Line' /\ Start' /\ Place(n, off)'
<1>1. /\ Take(1) /\ br_state = "header" /\ Avail # <<>>
      /\ IF Head(Avail) = ByteTok(NL)
         THEN /\ br_remaining' = br_hdr /\ br_hdr' = 0
              /\ br_state' = IF br_hdr = 0 THEN "final" ELSE "data"
         ELSE /\ br_hdr' = IF Head(Avail).kind = "size" THEN Head(Avail).val ELSE br_hdr
              /\ UNCHANGED <<br_remaining, br_state>>
      /\ UNCHANGED <<stdin_buf, childVars>>
  BY DEF ReadHeader
<1>2. Got' = Got
  BY <1>1 DEF Got, Fed, childVars, inVars
<1>3. Len(Avail) >= 1 /\ Head(Avail) = Avail[1]
  BY <1>1, AvailType DEF TypeOK
<1>4. chunked' = chunked /\ Wire = ChunkedWire
  BY ChunkedFixed DEF Wire
<1>5. Line' /\ Pos' = Pos + 1 /\ Pos \in Nat /\ Head(Avail) = Wire[Pos + 1]
  <2>1. DataOK /\ 1 \in 1..Len(Avail) /\ 1 <= Len(Avail)
    BY <1>3, AvailType DEF TypeOK
  <2> QED
    BY <1>1, <1>3, <1>4, <2>1, TakeLine
<1>6. PICK i \in 1..n + 1 :
        /\ Len(Got) = off[i]
        /\ \/ Pos = ChunkAt(off, i) /\ br_hdr = 0
           \/ Pos = ChunkAt(off, i) + 1 /\ br_hdr = SizeAt(n, off, i)
  BY <1>1 DEF Place, InHeader
<1> DEFINE at == ChunkAt(off, i)
           size == SizeAt(n, off, i)
<1>7. /\ n \in Nat /\ off[i] \in Nat /\ size \in Nat /\ at \in Int
      /\ i # n + 1 => i \in 1..n /\ size > 0
      /\ i = n + 1 => off[i] = Len(Body) /\ size = 0
      /\ ChunkedWire[at + 1] = SizeTok(size) /\ ChunkedWire[at + 2] = ByteTok(NL)
  <2>1. /\ n \in Nat /\ off[i] \in Nat /\ size \in Nat
        /\ i # n + 1 => size > 0
        /\ i = n + 1 => off[i] = Len(Body) /\ size = 0
        /\ Chunk(ChunkedWire, Body, off[i], size, at)
    BY LayoutAt
  <2>2. at \in Int /\ (i # n + 1 => i \in 1..n)
    BY <2>1 DEF ChunkAt
  <2> HIDE DEF at, size
  <2> QED
    BY <2>1, <2>2 DEF Chunk
<1>8. Start'
  BY <1>2 DEF Start
<1> HIDE DEF at, size
<1>9. CASE Pos = at /\ br_hdr = 0
  <2>1. Head(Avail) = SizeTok(size) /\ Head(Avail) # ByteTok(NL)
    BY <1>4, <1>5, <1>7, <1>9 DEF SizeTok, ByteTok
  <2>2. br_hdr' = size /\ br_state' = "header"
    BY <1>1, <2>1 DEF SizeTok
  <2>3. Pos' = at + 1
    BY <1>5, <1>9
  <2>4. InHeader(n, off)'
    BY <1>2, <1>6, <2>2, <2>3 DEF InHeader, at, size
  <2> QED
    BY <1>5, <1>8, <2>2, <2>4 DEF Place
<1>10. CASE Pos = at + 1 /\ br_hdr = size
  <2>1. Head(Avail) = ByteTok(NL)
    <3>1. Pos + 1 = at + 2
      BY <1>7, <1>10
    <3> QED
      BY <1>4, <1>5, <1>7, <3>1
  <2>2. /\ br_remaining' = size /\ br_hdr' = 0
        /\ br_state' = IF size = 0 THEN "final" ELSE "data"
    BY <1>1, <1>10, <2>1
  <2>3. Pos' = at + 2
    BY <1>5, <1>7, <1>10
  <2>4. CASE i = n + 1
    <3>1. InFinal(n, off)'
      BY <1>2, <1>6, <1>7, <2>3, <2>4 DEF InFinal, at
    <3> QED
      BY <1>5, <1>7, <1>8, <2>2, <2>4, <3>1 DEF Place
  <2>5. CASE i # n + 1
    <3>1. i \in 1..n /\ 0 \in 0..size - 1 /\ br_state' = "data"
      BY <1>7, <2>2, <2>5
    <3>2. Len(Got)' = off[i] + 0 /\ Pos' = at + 2 + 0 /\ br_remaining' = size - 0
      BY <1>2, <1>6, <1>7, <2>2, <2>3
    <3>3. InData(n, off)'
      BY <2>2, <3>1, <3>2 DEF InData, at, size
    <3> QED
      BY <1>5, <1>8, <3>1, <3>3 DEF Place
  <2> QED
    BY <2>4, <2>5
<1> QED
  BY <1>6, <1>9, <1>10 DEF at, size

LEMMA LineEndStep ==
  ASSUME TypeOK, Line, Start, chunked, [Next]_vars, ReadLineEnd,
         NEW n \in 0..Len(Body), NEW off \in [1..n + 1 -> 0..Len(Body)],
         Layout(ChunkedWire, Body, n, off), Place(n, off)
  PROVE  Line' /\ Start' /\ Place(n, off)'
<1>1. /\ Take(1) /\ br_state \in {"trailer", "final"} /\ Avail # <<>>
      /\ br_state' = IF Head(Avail) # ByteTok(NL) THEN br_state
                     ELSE IF br_state = "trailer" THEN "header" ELSE "done"
      /\ UNCHANGED <<br_hdr, br_remaining, stdin_buf, childVars>>
  BY DEF ReadLineEnd
<1>2. Got' = Got /\ br_hdr' = br_hdr
  BY <1>1 DEF Got, Fed, childVars, inVars
<1>3. Len(Avail) >= 1 /\ Head(Avail) = Avail[1]
  BY <1>1, AvailType DEF TypeOK
<1>4. chunked' = chunked /\ Wire = ChunkedWire
  BY ChunkedFixed DEF Wire
<1>5. Line' /\ Pos' = Pos + 1 /\ Pos \in Nat /\ Head(Avail) = Wire[Pos + 1]
  <2>1. DataOK /\ 1 \in 1..Len(Avail) /\ 1 <= Len(Avail)
    BY <1>3, AvailType DEF TypeOK
  <2> QED
    BY <1>1, <1>3, <1>4, <2>1, TakeLine
<1>6. Start'
  BY <1>2 DEF Start
<1>7. CASE br_state = "trailer"
  <2>1. PICK i \in 1..n :
          /\ Len(Got) = off[i + 1] /\ br_hdr = 0
          /\ Pos = ChunkAt(off, i) + 2 + SizeAt(n, off, i)
    BY <1>7 DEF Place, InTrailer
  <2> DEFINE at == ChunkAt(off, i)
             size == SizeAt(n, off, i)
  <2>2. /\ n \in Nat /\ i \in 1..n + 1 /\ i # n + 1
    BY BodyAssumption
  <2>3. /\ i + 1 \in 1..n + 1 /\ off[i] \in Nat /\ size \in Nat
        /\ off[i + 1] \in Nat /\ off[i] + size = off[i + 1]
        /\ Chunk(ChunkedWire, Body, off[i], size, at)
    BY <2>2, LayoutAt
  <2>4. at = off[i] + 3 * (i - 1) /\ ChunkAt(off, i + 1) = off[i + 1] + 3 * i
    BY <2>2 DEF ChunkAt
  <2> HIDE DEF at, size
  <2>5. ChunkedWire[at + size + 3] = ByteTok(NL)
    BY <2>3 DEF Chunk
  <2>6. Pos + 1 = at + size + 3 /\ Pos' = ChunkAt(off, i + 1)
    <3>1. Pos = at + 2 + size
      BY <2>1 DEF at, size
    <3>2. i \in Int /\ 3 * (i - 1) = 3 * i - 3 /\ 3 * i \in Int
      BY <2>2
    <3>3. off[i] \in Int /\ size \in Int /\ off[i + 1] = off[i] + size
      BY <2>3
    <3>4. at \in Int /\ at + 3 + size = off[i + 1] + 3 * i
      <4>1. at = off[i] + (3 * i - 3)
        BY <2>4, <3>2
      <4>2. \A x \in Int : off[i] + (x - 3) \in Int /\ off[i] + (x - 3) + 3 + size = off[i + 1] + x
        BY <3>3
      <4> QED
        BY <3>2, <4>1, <4>2
    <3>5. Pos + 1 = at + size + 3
      BY <3>1, <3>3, <3>4
    <3>6. Pos + 1 = ChunkAt(off, i + 1)
      BY <2>4, <3>3, <3>4, <3>5
    <3> QED
      BY <1>5, <3>5, <3>6
  <2>7. br_state' = "header"
    BY <1>1, <1>4, <1>5, <1>7, <2>5, <2>6
  <2>8. InHeader(n, off)'
    BY <1>2, <2>1, <2>3, <2>6 DEF InHeader
  <2> QED
    BY <1>5, <1>6, <2>7, <2>8 DEF Place
<1>8. CASE br_state = "final"
  <2>1. Len(Got) = Len(Body) /\ Pos = ChunkAt(off, n + 1) + 2
    BY <1>8 DEF Place, InFinal
  <2>2. n + 1 \in 1..n + 1
    BY BodyAssumption
  <2>3. off[n + 1] \in Nat /\ n \in Nat /\ Chunk(ChunkedWire, Body, off[n + 1], 0, ChunkAt(off, n + 1))
    BY <2>2, LayoutAt DEF SizeAt
  <2>4. ChunkAt(off, n + 1) \in Int
    BY <2>3 DEF ChunkAt
  <2>5. ChunkedWire[Pos + 1] = ByteTok(NL)
    <3>1. ChunkedWire[ChunkAt(off, n + 1) + 0 + 3] = ByteTok(NL)
      BY <2>3 DEF Chunk
    <3>2. Pos + 1 = ChunkAt(off, n + 1) + 0 + 3
      BY <2>1, <2>4
    <3> QED
      BY <3>1, <3>2
  <2>6. br_state' = "done"
    BY <1>1, <1>4, <1>5, <1>8, <2>5
  <2> QED
    BY <1>5, <1>6, <2>6 DEF Place
<1> QED
  BY <1>1, <1>7, <1>8

(* A read of n bytes of payload that are the next of the body.             *)
LEMMA Payload ==
  ASSUME TypeOK, Bounds, Start, ReadData, br_remaining \in Nat,
         \A m \in 1..DataLen : Avail[m] = ByteTok(Body[Len(Got) + m]),
         Len(Got) + DataLen <= Len(Body)
  PROVE  Start' /\ Len(Got') = Len(Got) + DataLen
<1> DEFINE n == DataLen
           read == [i \in 1..n |-> Avail[i].val]
<1>1. n \in Nat
  <2>1. Len(Avail) \in Nat /\ Len(stdin_buf) \in Nat
    BY AvailType DEF TypeOK, DataOK
  <2> QED
    BY <2>1, Constants DEF Bounds, DataLen, Min2, Space
<1>2. stdin_buf' = stdin_buf \o read /\ UNCHANGED <<consumed, inpipe>>
  BY DEF ReadData, childVars, inVars
<1> HIDE DEF n
<1>3. ASSUME NEW m \in 1..n PROVE read[m] = Body[Len(Got) + m] /\ read[m] \in Nat
  <2>1. Len(Got) \in Nat /\ Len(Body) \in Nat
    BY AheadType, BodyAssumption DEF TypeOK
  <2>2. Len(Got) + m \in 1..Len(Body)
    BY <1>1, <2>1 DEF n
  <2>3. Body[Len(Got) + m] \in Nat
    BY <2>2, WireType
  <2>4. Avail[m] = ByteTok(Body[Len(Got) + m])
    BY DEF n
  <2>5. Avail[m].val = Body[Len(Got) + m]
    <3>1. \A b : ByteTok(b).val = b
      BY DEF ByteTok
    <3> QED
      BY <2>4, <3>1
  <2>6. read[m] = Avail[m].val
    OBVIOUS
  <2> QED
    BY <2>3, <2>5, <2>6
<1>4. read \in Seq(Nat) /\ Len(read) = n
  BY <1>1, <1>3
<1> HIDE DEF read
<1>5. Got' = Got \o read
  <2>1. Fed \in Seq(Nat) /\ stdin_buf \in Seq(Nat)
    BY DEF TypeOK, DataOK, Fed
  <2>2. Got' = Fed \o (stdin_buf \o read)
    BY <1>2 DEF Got, Fed
  <2>3. (Fed \o stdin_buf) \o read = Fed \o (stdin_buf \o read)
    BY <1>4, <2>1, ConcatAssociative
  <2>4. Got = Fed \o stdin_buf
    BY DEF Got
  <2> QED
    BY <2>2, <2>3, <2>4
<1>6. Got \in Seq(Nat) /\ Len(Got') = Len(Got) + n
  <2>1. Got \in Seq(Nat)
    BY AheadType DEF TypeOK
  <2>2. Len(Got \o read) = Len(Got) + Len(read)
    BY <1>4, <2>1
  <2> QED
    BY <1>4, <1>5, <2>1, <2>2
<1>7. ASSUME NEW m \in 1..Len(Got') PROVE Got'[m] = Body[m]
  <2>1. CASE m <= Len(Got)
    BY <1>4, <1>5, <1>6, <2>1 DEF Start
  <2>2. CASE m > Len(Got)
    <3>1. m - Len(Got) \in 1..n /\ Len(Got) + (m - Len(Got)) = m
      BY <1>1, <1>6, <2>2
    <3>2. Got'[m] = read[m - Len(Got)]
      BY <1>4, <1>5, <1>6, <2>2
    <3> QED
      BY <1>3, <3>1, <3>2
  <2> QED
    BY <1>6, <2>1, <2>2
<1>8. Len(Got') <= Len(Body)
  BY <1>6 DEF n
<1> QED
  BY <1>6, <1>7, <1>8 DEF Start, n

LEMMA DataLenIs ==
  ASSUME TypeOK, Bounds, br_remaining \in Nat
  PROVE  DataLen \in Nat /\ DataLen <= br_remaining /\ DataLen <= Len(Avail)
<1>1. Len(Avail) \in Nat /\ Len(stdin_buf) \in Nat
  BY AvailType DEF TypeOK, DataOK
<1> QED
  BY <1>1, Constants DEF Bounds, DataLen, Min2, Space

LEMMA ChunkDataStep ==
  ASSUME TypeOK, Bounds, Line, Start, chunked, [Next]_vars, ReadData,
         NEW n \in 0..Len(Body), NEW off \in [1..n + 1 -> 0..Len(Body)],
         Layout(ChunkedWire, Body, n, off), Place(n, off)
  PROVE  Line' /\ Start' /\ Place(n, off)'
<1> DEFINE k == DataLen
<1>1. /\ Take(k) /\ br_state = "data" /\ br_remaining' = br_remaining - k /\ br_hdr' = br_hdr
      /\ br_state' = IF br_remaining' # 0 THEN "data" ELSE "trailer"
  BY DEF ReadData
<1>i. PICK i \in 1..n : \E j \in 0..SizeAt(n, off, i) - 1 :
        /\ Len(Got) = off[i] + j /\ br_hdr = 0
        /\ Pos = ChunkAt(off, i) + 2 + j /\ br_remaining = SizeAt(n, off, i) - j
  BY <1>1 DEF Place, InData
<1>2. PICK j \in 0..SizeAt(n, off, i) - 1 :
        /\ Len(Got) = off[i] + j /\ br_hdr = 0
        /\ Pos = ChunkAt(off, i) + 2 + j /\ br_remaining = SizeAt(n, off, i) - j
  BY <1>i
<1> DEFINE at == ChunkAt(off, i)
           size == SizeAt(n, off, i)
<1>3. n \in Nat /\ i \in 1..n + 1 /\ i # n + 1
  BY BodyAssumption
<1>4. /\ i + 1 \in 1..n + 1 /\ off[i] \in Nat /\ size \in Nat
      /\ off[i] + size = off[i + 1]
      /\ Chunk(ChunkedWire, Body, off[i], size, at)
  BY <1>3, LayoutAt
<1>5. at \in Int /\ off[i + 1] <= Len(Body) /\ Len(Body) \in Nat /\ off[i + 1] \in Nat
  BY <1>3, <1>4, BodyAssumption DEF ChunkAt
<1>6. /\ Len(Got) = off[i] + j /\ br_hdr = 0 /\ j \in 0..size - 1
      /\ Pos = at + 2 + j /\ br_remaining = size - j
  BY <1>2
<1> HIDE DEF at, size
<1>7. \A m \in 1..size : ChunkedWire[at + 2 + m] = ByteTok(Body[off[i] + m])
  BY <1>4 DEF Chunk
<1>8. br_remaining \in Nat /\ size \in Nat /\ off[i] \in Nat /\ off[i] + size <= Len(Body)
  BY <1>4, <1>5, <1>6
<1>9. k \in Nat /\ k <= br_remaining /\ k <= Len(Avail)
  BY <1>8, DataLenIs
<1> HIDE DEF k
<1>10. chunked' = chunked /\ Wire = ChunkedWire
  BY ChunkedFixed DEF Wire
<1>11. /\ Line' /\ Pos' = Pos + k /\ Pos \in Nat
       /\ \A m \in 1..Len(Avail) : Avail[m] = Wire[Pos + m]
  BY <1>1, <1>9, <1>10, TakeLine DEF TypeOK
<1>12. ASSUME NEW m \in 1..k PROVE Avail[m] = ByteTok(Body[Len(Got) + m])
  <2>1. m \in 1..Len(Avail) /\ j + m \in 1..size
    <3>1. Len(Avail) \in Nat
      BY AvailType DEF TypeOK
    <3> QED
      BY <1>4, <1>6, <1>9, <3>1
  <2>2. Pos + m = at + 2 + (j + m) /\ Len(Got) + m = off[i] + (j + m)
    BY <1>4, <1>5, <1>6
  <2> QED
    BY <1>7, <1>10, <1>11, <2>1, <2>2
<1>13. Len(Got) + k <= Len(Body)
  BY <1>5, <1>6, <1>8, <1>9
<1>14. Start' /\ Len(Got') = Len(Got) + k
  BY <1>8, <1>12, <1>13, Payload DEF k
<1>15. CASE k = br_remaining
  <2>1. br_state' = "trailer"
    BY <1>1, <1>8, <1>15
  <2>2. Len(Got') = off[i + 1] /\ Pos' = at + 2 + size /\ br_hdr' = 0
    <3>1. j \in Nat /\ k = size - j
      BY <1>6, <1>8, <1>15
    <3>2. Len(Got') = off[i] + j + k
      BY <1>6, <1>14
    <3>3. Pos' = at + 2 + j + k
      BY <1>6, <1>11
    <3>4. off[i] + j + (size - j) = off[i] + size /\ at + 2 + j + (size - j) = at + 2 + size
      BY <1>5, <1>8, <3>1
    <3> QED
      BY <1>1, <1>4, <1>6, <3>1, <3>2, <3>3, <3>4
  <2>3. InTrailer(n, off)'
    BY <2>2 DEF InTrailer, at, size
  <2> QED
    BY <1>11, <1>14, <2>1, <2>3 DEF Place
<1>16. CASE k # br_remaining
  <2>1. br_state' = "data"
    BY <1>1, <1>8, <1>9, <1>16
  <2>2. /\ j + k \in 0..size - 1 /\ Len(Got') = off[i] + (j + k) /\ br_hdr' = 0
        /\ Pos' = at + 2 + (j + k) /\ br_remaining' = size - (j + k)
    <3>1. /\ j \in Nat /\ k \in Nat /\ j + k < size
          /\ Pos' = at + 2 + j + k /\ Len(Got') = off[i] + j + k
          /\ br_remaining' = size - j - k /\ br_hdr' = 0
      BY <1>1, <1>6, <1>8, <1>9, <1>11, <1>14, <1>16
    <3> QED
      BY <1>5, <1>8, <3>1
  <2>3. InData(n, off)'
    BY <2>2 DEF InData, at, size
  <2> QED
    BY <1>11, <1>14, <2>1, <2>3 DEF Place
<1> QED
  BY <1>15, <1>16

(* A body of known length.                                                 *)
LEMMA PlainDataStep ==
  ASSUME TypeOK, Bounds, Line, Start, ~chunked, [Next]_vars, ReadData,
         Pos = Len(Got), br_remaining = Len(Body) - Pos
  PROVE  /\ Line' /\ Start' /\ br_state' \in {"data", "done"}
         /\ Pos' = Len(Got') /\ br_remaining' = Len(Body) - Pos'
         /\ br_state' = "done" => Len(Got') = Len(Body)
<1> DEFINE k == DataLen
<1>1. /\ Take(k) /\ br_remaining' = br_remaining - k
      /\ br_state' = IF br_remaining' # 0 THEN "data" ELSE "done"
  BY DEF ReadData
<1>2. Len(Body) \in Nat /\ Len(Got) \in Nat /\ Len(Got) <= Len(Body)
  BY BodyAssumption, AheadType DEF TypeOK, Start
<1>3. br_remaining \in Nat
  BY <1>2
<1>4. k \in Nat /\ k <= br_remaining /\ k <= Len(Avail)
  BY <1>3, DataLenIs
<1> HIDE DEF k
<1>5. chunked' = chunked /\ Wire = PlainWire
  BY ChunkedFixed DEF Wire
<1>6. /\ Line' /\ Pos' = Pos + k /\ Pos \in Nat
      /\ \A m \in 1..Len(Avail) : Avail[m] = Wire[Pos + m]
  BY <1>1, <1>4, <1>5, TakeLine DEF TypeOK
<1>7. ASSUME NEW m \in 1..k PROVE Avail[m] = ByteTok(Body[Len(Got) + m])
  <2>1. m \in 1..Len(Avail) /\ Len(Got) + m \in 1..Len(Body)
    <3>1. Len(Avail) \in Nat
      BY AvailType DEF TypeOK
    <3> QED
      BY <1>2, <1>4, <3>1
  <2>2. PlainWire[Len(Got) + m] = ByteTok(Body[Len(Got) + m])
    BY <2>1, WireType
  <2> QED
    BY <1>5, <1>6, <2>1, <2>2
<1>8. Start' /\ Len(Got') = Len(Got) + k
  <2>1. Len(Got) + k <= Len(Body)
    BY <1>2, <1>4
  <2> QED
    BY <1>3, <1>7, <2>1, Payload DEF k
<1> QED
  BY <1>1, <1>2, <1>4, <1>6, <1>8

----------------------------------------------------------------------------
(* The end of the body.                                                    *)
LEMMA ParseStep ==
  ASSUME TypeOK, Bounds, Input, Eof, [Next]_vars, ReadHeader \/ ReadData \/ ReadLineEnd
  PROVE  /\ Input'
         /\ body_eof' <=> br_state' = "done"
         /\ br_state' = "done" => Len(Got') = Len(Body)
<1>1. Line /\ Start /\ Parse /\ chunked' = chunked
  BY ChunkedFixed DEF Input
<1>2. body_eof' <=> br_state' = "done"
  <2>1. CASE ReadHeader
    BY <2>1 DEF ReadHeader, Eof
  <2>2. CASE ReadData \/ ReadLineEnd
    BY <2>2, Zenon DEF ReadData, ReadLineEnd
  <2> QED
    BY <2>1, <2>2
<1>3. CASE chunked
  <2>n. PICK n \in 0..Len(Body) : \E off \in [1..n + 1 -> 0..Len(Body)] :
          Layout(ChunkedWire, Body, n, off) /\ Place(n, off)
    BY <1>1, <1>3 DEF Parse
  <2>1. PICK off \in [1..n + 1 -> 0..Len(Body)] :
          Layout(ChunkedWire, Body, n, off) /\ Place(n, off)
    BY <2>n
  <2>2. Line' /\ Start' /\ Place(n, off)'
    BY <1>1, <1>3, <2>1, HeaderStep, ChunkDataStep, LineEndStep
  <2>3. Input'
    BY <1>1, <1>3, <2>1, <2>2 DEF Input, Parse
  <2>4. br_state' = "done" => Len(Got') = Len(Body)
    <3>1. CASE ReadHeader \/ ReadData
      BY <1>3, <3>1 DEF ReadHeader, ReadData
    <3>2. CASE ReadLineEnd
      <4>1. br_state' = "done" => br_state = "final"
        BY <3>2 DEF ReadLineEnd
      <4>2. Got' = Got
        BY <3>2 DEF ReadLineEnd, Got, Fed, childVars, inVars
      <4> QED
        BY <2>1, <4>1, <4>2 DEF Place, InFinal
    <3> QED
      BY <3>1, <3>2
  <2> QED
    BY <1>2, <2>3, <2>4
<1>4. CASE ~chunked
  <2>1. ReadData /\ br_state = "data"
    BY <1>1, <1>4 DEF ReadHeader, ReadData, ReadLineEnd, Parse
  <2>2. Pos = Len(Got) /\ br_remaining = Len(Body) - Pos
    BY <1>1, <1>4, <2>1 DEF Parse
  <2>3. /\ Line' /\ Start' /\ br_state' \in {"data", "done"}
        /\ Pos' = Len(Got') /\ br_remaining' = Len(Body) - Pos'
        /\ br_state' = "done" => Len(Got') = Len(Body)
    BY <1>1, <1>4, <2>1, <2>2, PlainDataStep
  <2>4. Input'
    BY <1>1, <1>4, <2>3 DEF Input, Parse
  <2> QED
    BY <1>2, <2>3, <2>4
<1> QED
  BY <1>3, <1>4

LEMMA NothingStep ==
  ASSUME Input, Eof, [Next]_vars, ReadNothing
  PROVE  /\ Input'
         /\ body_eof' <=> br_state' = "done"
         /\ body_eof' /\ client' = "open" => Len(Got') = Len(Body)
<1>1. /\ UNCHANGED <<client, unsent, sock, pend, br_remaining, br_hdr, consumed, inpipe, stdin_buf>>
      /\ IF client = "open" THEN UNCHANGED <<body_eof, br_state>>
                            ELSE body_eof' = TRUE /\ br_state' = "done"
  BY DEF ReadNothing, childVars, inVars
<1>2. chunked' = chunked /\ Ahead' = Ahead /\ Got' = Got
  BY <1>1, ChunkedFixed DEF Ahead, Got, Fed
<1>3. CASE client = "open"
  <2>1. UNCHANGED bodyVars
    BY <1>1, <1>3 DEF bodyVars
  <2>2. Input'
    BY <1>2, <2>1, Unmoved
  <2> QED
    BY <1>1, <1>2, <1>3, <2>2 DEF Eof
<1>4. CASE client # "open"
  <2>1. br_state' = "done" /\ body_eof' = TRUE /\ client' # "open"
    BY <1>1, <1>4
  <2>2. Line' /\ Start'
    BY <1>2 DEF Input, Line, Start, Pos, Wire, PlainWire
  <2>3. \A n, off : Place(n, off)'
    BY <2>1 DEF Place
  <2>4. Parse'
    BY <1>2, <2>1, <2>3 DEF Input, Parse
  <2> QED
    BY <2>1, <2>2, <2>4 DEF Input
<1> QED
  BY <1>3, <1>4

LEMMA ProceedEof ==
  ASSUME NEW i \in 1..7, Proceed(i), pc' = "eof"
  PROVE  body_eof' /\ stdin_buf' = <<>>
<1>1. PICK j \in i..Len(Stages) : pc' = Stages[j] /\ Due(Stages[j])'
  BY DEF Proceed
<1>2. Stages[j] = "eof" /\ Stages[j]' = Stages[j]
  BY <1>1 DEF Stages
<1>3. CloseDue'
  BY <1>1, <1>2 DEF Due, Streams
<1> QED
  BY <1>3 DEF CloseDue

(* The program counter comes to the close of the pipe from Proceed only.   *)
LEMMA ToEof ==
  ASSUME [Next]_vars, pc' = "eof", ~(pc' = pc /\ UNCHANGED <<body_eof, stdin_buf>>)
  PROVE  body_eof' /\ stdin_buf' = <<>>
<1>1. CASE Client \/ ProcessTree \/ UNCHANGED vars
  BY <1>1 DEF Client, ClientSend, ClientFragment, ClientClose, ClientRecv, ProcessTree,
              ChildRead, ChildExit, ChildKilled, ChildWrite, ChildClose, vars, serverVars,
              bodyVars
<1>2. CASE LoopEnds \/ PollError \/ Reap
  BY <1>2, AfterLoopStage DEF LoopEnds, PollError, Reap
<1>3. CASE WaitBlocking \/ SslWriteFails
  BY <1>3 DEF WaitBlocking, SslWriteFails, AfterLoop, Ending, LastWords
<1>4. CASE CheckExit \/ Kill \/ FlushItem \/ FlushDone \/ SendExit \/ SendFinal \/ Return
  BY <1>4 DEF CheckExit, Kill, FlushItem, FlushDone, SendExit, SendFinal, Return, LastWords
<1>5. CASE Poll \/ ReadHeader \/ ReadData \/ ReadLineEnd \/ ReadNothing
           \/ SslWrite \/ WriteStdin \/ CloseStdin
  <2>1. \E i \in 1..7 : Proceed(i)
    BY <1>5 DEF Poll, ReadHeader, ReadData, ReadLineEnd, ReadNothing, SslWrite,
                WriteStdin, CloseStdin
  <2> QED
    BY <2>1, ProceedEof
<1>6. ASSUME NEW s \in Streams, ReadOutput(s) \/ EmitLine(s)
      PROVE  body_eof' /\ stdin_buf' = <<>>
  <2>1. AfterOutput(s)
    BY <1>6 DEF ReadOutput, EmitLine, LinesOf
  <2>2. \E i \in 1..7 : Proceed(i)
    BY <2>1 DEF AfterOutput
  <2> QED
    BY <2>2, ProceedEof
<1> QED
  BY <1>1, <1>2, <1>3, <1>4, <1>5, <1>6 DEF Next, Server, Returned

(* A client that broke off does not come back.                             *)
LEMMA ClientGoes == [Next]_vars => (client' = "open" => client = "open")
<1> SUFFICES ASSUME [Next]_vars PROVE client' = "open" => client = "open"
  OBVIOUS
<1>1. CASE Client
  BY <1>1 DEF Client, ClientSend, ClientFragment, ClientClose, ClientRecv, sendVars
<1>2. CASE ProcessTree
  BY <1>2 DEF ProcessTree, ChildRead, ChildExit, ChildKilled, ChildWrite, ChildClose,
              peerVars, sendVars
<1>3. CASE Server
  BY <1>3 DEF Server, LoopEnds, Poll, PollError, WaitBlocking, ReadHeader, ReadData,
              ReadLineEnd, ReadNothing, Take, SslWrite, SslWriteFails, WriteStdin,
              ReadOutput, EmitLine, CloseStdin, CheckExit, Kill, Reap, FlushItem, FlushDone,
              SendExit, SendFinal, SendLast, Return, peerVars, sendVars
<1>4. CASE UNCHANGED vars
  BY <1>4 DEF vars, peerVars, sendVars
<1> QED
  BY <1>1, <1>2, <1>3, <1>4 DEF Next, Returned

LEMMA EofStep ==
  ASSUME TypeOK, Bounds, Input, Eof, [Next]_vars
  PROVE  Input' /\ Eof'
<1>1. pc' = "eof" => body_eof' /\ stdin_buf' = <<>>
  BY ToEof DEF Eof
<1>2. CASE ~Reads
  <2>1. UNCHANGED bodyVars /\ Ahead' = Ahead /\ Got' = Got
    BY <1>2, OnlyReads
  <2>2. Input'
    BY <2>1, ChunkedFixed, Unmoved
  <2>3. body_eof' = body_eof /\ br_state' = br_state
    BY <2>1 DEF bodyVars
  <2> QED
    BY <1>1, <2>1, <2>2, <2>3, ClientGoes DEF Eof
<1>3. CASE ReadHeader \/ ReadData \/ ReadLineEnd
  BY <1>1, <1>3, ParseStep DEF Eof
<1>4. CASE ReadNothing
  BY <1>1, <1>4, NothingStep DEF Eof
<1> QED
  BY <1>2, <1>3, <1>4 DEF Reads

----------------------------------------------------------------------------
(* The close of the pipe.                                                  *)

(* What has to happen for the pipe to be closed, or for a closed pipe to   *)
(* have data before it.                                                    *)
LEMMA CloseCauses ==
  ASSUME [Next]_vars
  PROVE  \/ UNCHANGED <<stdin_closed, stdin_buf, body_eof>> /\ (pc' = pc \/ pc # "done")
         \/ Reads \/ WriteStdin \/ CloseStdin \/ pc' = "done"
<1> USE DEF peerVars, serverVars, childVars, bodyVars
<1>1. CASE Client
  BY <1>1 DEF Client, ClientSend, ClientFragment, ClientClose, ClientRecv
<1>2. CASE ProcessTree
  BY <1>2 DEF ProcessTree, ChildRead, ChildExit, ChildKilled, ChildWrite, ChildClose
<1>3. CASE LoopEnds \/ Poll \/ PollError \/ WaitBlocking \/ SslWrite \/ SslWriteFails
  BY <1>3 DEF LoopEnds, Poll, PollError, WaitBlocking, SslWrite, SslWriteFails
<1>4. CASE \E s \in Streams : ReadOutput(s) \/ EmitLine(s)
  BY <1>4 DEF ReadOutput, EmitLine, LinesOf, Streams
<1>5. CASE CheckExit \/ Kill \/ Reap \/ FlushItem \/ FlushDone
  BY <1>5 DEF CheckExit, Kill, Reap, FlushItem, FlushDone
<1>6. CASE SendExit \/ SendFinal \/ Return
  BY <1>6 DEF SendExit, SendFinal, SendLast, Return
<1>7. CASE UNCHANGED vars
  BY <1>7 DEF vars
<1> QED
  BY <1>1, <1>2, <1>3, <1>4, <1>5, <1>6, <1>7 DEF Next, Server, Returned, Reads

LEMMA StdinShrinks ==
  ASSUME TypeOK, Bounds, WriteStdin, stdin_buf = <<>>
  PROVE  stdin_buf' = <<>>
<1>1. CASE "in" \in fds
  <2> DEFINE n == Min2(PipeCap - Len(inpipe), Len(stdin_buf))
  <2>1. stdin_buf' = Rest(stdin_buf, n)
    BY <1>1 DEF WriteStdin, Unwritten
  <2>2. n \in Nat /\ stdin_buf \in Seq(Nat) /\ Len(stdin_buf) = 0
    <3>1. Len(inpipe) \in Nat /\ Len(stdin_buf) \in Nat /\ stdin_buf \in Seq(Nat)
      BY DEF TypeOK, DataOK
    <3> QED
      BY <3>1, Constants DEF Bounds, Min2
  <2> HIDE DEF n
  <2>3. Rest(stdin_buf, n) \in Seq(Nat) /\ Len(Rest(stdin_buf, n)) = 0
    <3>1. /\ Rest(stdin_buf, n) \in Seq(Nat)
          /\ Len(Rest(stdin_buf, n))
               = IF n <= Len(stdin_buf) THEN Len(stdin_buf) - n ELSE 0
      BY <2>2, RestType
    <3>2. Len(stdin_buf) = 0 /\ n \in Nat
      BY <2>2
    <3> QED
      BY <3>1, <3>2
  <2> QED
    BY <2>1, <2>3
<1>2. CASE "in" \notin fds
  BY <1>2 DEF WriteStdin
<1> QED
  BY <1>1, <1>2

(* A closed end of the input pipe is not reopened.                         *)
LEMMA FdsShrink == [Next]_vars => fds' \subseteq fds
<1> SUFFICES ASSUME [Next]_vars PROVE fds' \subseteq fds
  OBVIOUS
<1>1. CASE Client
  BY <1>1 DEF Client, ClientSend, ClientFragment, ClientClose, ClientRecv, childVars, procVars
<1>2. CASE ProcessTree
  BY <1>2 DEF ProcessTree, ChildRead, ChildExit, ChildKilled, ChildWrite, ChildClose, procVars
<1>3. CASE Server
  BY <1>3 DEF Server, LoopEnds, Poll, PollError, WaitBlocking, ReadHeader, ReadData,
              ReadLineEnd, ReadNothing, SslWrite, SslWriteFails, WriteStdin, ReadOutput,
              EmitLine, CloseStdin, CheckExit, Kill, Reap, FlushItem, FlushDone, SendExit,
              SendFinal, SendLast, Return, childVars, procVars
<1>4. CASE UNCHANGED vars
  BY <1>4 DEF vars, childVars, procVars
<1> QED
  BY <1>1, <1>2, <1>3, <1>4 DEF Next, Returned

LEMMA CloseStep ==
  ASSUME TypeOK, Bounds, Eof, Close, [Next]_vars
  PROVE  Close'
<1> SUFFICES ASSUME stdin_closed', pc' # "done", client' = "open", "in" \in fds'
             PROVE  body_eof' /\ stdin_buf' = <<>>
  BY DEF Close
<1>1. client = "open" /\ "in" \in fds
  BY ClientGoes, FdsShrink
<1>2. CASE UNCHANGED <<stdin_closed, stdin_buf, body_eof>> /\ (pc' = pc \/ pc # "done")
  BY <1>1, <1>2 DEF Close
<1>3. CASE Reads
  <2>1. pc # "done" /\ stdin_closed' = stdin_closed
    BY <1>3 DEF Reads, ReadHeader, ReadData, ReadLineEnd, ReadNothing
  <2>2. body_eof /\ stdin_buf = <<>> /\ br_state = "done"
    BY <1>1, <2>1 DEF Close, Eof
  <2>3. ReadNothing
    BY <1>3, <2>2 DEF Reads, ReadHeader, ReadData, ReadLineEnd
  <2> QED
    BY <1>1, <2>2, <2>3 DEF ReadNothing
<1>4. CASE WriteStdin
  <2>1. pc # "done" /\ stdin_closed' = stdin_closed /\ body_eof' = body_eof
    BY <1>1, <1>4 DEF WriteStdin, bodyVars
  <2>2. body_eof /\ stdin_buf = <<>>
    BY <1>1, <2>1 DEF Close
  <2> QED
    BY <1>4, <2>1, <2>2, StdinShrinks
<1>5. CASE CloseStdin
  <2>1. pc = "eof" /\ UNCHANGED <<body_eof, stdin_buf>>
    BY <1>5 DEF CloseStdin, bodyVars
  <2> QED
    BY <2>1 DEF Eof
<1> QED
  BY <1>2, <1>3, <1>4, <1>5, CloseCauses

----------------------------------------------------------------------------
LEMMA InputInit == Init => InputInv
<1> SUFFICES ASSUME Init PROVE InputInv
  OBVIOUS
<1>1. Ahead = Wire /\ Got = <<>>
  <2>1. unsent = Wire /\ pend = <<>> /\ sock = <<>> /\ consumed = <<>> /\ inpipe = <<>>
        /\ stdin_buf = <<>>
    BY DEF Init, Wire
  <2> QED
    BY <2>1, WireType DEF Ahead, Got, Fed
<1>2. Len(Body) \in Nat /\ Len(Wire) \in Nat
  BY BodyAssumption, WireType
<1>3. Pos = 0 /\ Line /\ Start
  BY <1>1, <1>2 DEF Pos, Line, Start
<1>4. Parse
  <2>1. CASE chunked
    <3>1. br_state = "header" /\ br_hdr = 0
      BY <2>1 DEF Init
    <3>n. PICK n \in 0..Len(Body) : \E off \in [1..n + 1 -> 0..Len(Body)] :
            Layout(ChunkedWire, Body, n, off)
      BY WireAssumption DEF Encodes
    <3>2. PICK off \in [1..n + 1 -> 0..Len(Body)] : Layout(ChunkedWire, Body, n, off)
      BY <3>n
    <3>3. 1 \in 1..n + 1 /\ off[1] = 0
      BY <1>2, <3>2 DEF Layout
    <3>4. Pos = ChunkAt(off, 1) /\ Len(Got) = off[1]
      BY <1>1, <1>3, <3>3 DEF ChunkAt
    <3>5. InHeader(n, off)
      BY <3>1, <3>3, <3>4 DEF InHeader
    <3> QED
      BY <2>1, <3>1, <3>2, <3>5 DEF Parse, Place
  <2>2. CASE ~chunked
    BY <1>1, <1>2, <1>3, <2>2 DEF Init, Parse
  <2> QED
    BY <2>1, <2>2
<1>5. Eof
  <2>1. br_state = "done" <=> NoBody
    BY DEF Init, NoBody
  <2>2. NoBody => Len(Got) = Len(Body)
    BY <1>1 DEF NoBody
  <2> QED
    BY <2>1, <2>2 DEF Init, Eof
<1>6. Close
  BY DEF Init, Close
<1> QED
  BY <1>3, <1>4, <1>5, <1>6 DEF InputInv, Input

LEMMA InputHolds == Spec => [](TypeOK /\ InputInv)
<1> DEFINE IInv == TypeOK /\ Bounds /\ InputInv
<1>1. Init => IInv
  BY TypeInit, InputInit
<1>2. IInv /\ [Next]_vars => IInv'
  <2> SUFFICES ASSUME IInv, [Next]_vars PROVE IInv'
    OBVIOUS
  <2>1. TypeOK' /\ Bounds'
    BY TypeNext
  <2>2. Input' /\ Eof'
    BY EofStep DEF InputInv
  <2>3. Close'
    BY CloseStep DEF InputInv
  <2> QED
    BY <2>1, <2>2, <2>3 DEF InputInv
<1> QED
  BY <1>1, <1>2, PTL DEF Spec

(* Every behaviour: what the child has read or can read, and what the      *)
(* server holds for it, is the beginning of the request body.              *)
THEOREM StdinFaithfulHolds == Spec => []StdinFaithful
<1>1. TypeOK /\ InputInv => StdinFaithful
  <2> SUFFICES ASSUME TypeOK, Start PROVE StdinFaithful
    BY DEF InputInv, Input
  <2>1. Got \in Seq(Nat) /\ Len(Got) \in Nat /\ Len(Got) <= Len(Body) /\ Len(Body) \in Nat
    BY AheadType, BodyAssumption DEF TypeOK, Start
  <2>2. Got = SubSeq(Body, 1, Len(Got))
    BY <2>1, BodyAssumption, SeqEqual DEF Start
  <2> QED
    BY <2>1, <2>2 DEF StdinFaithful, IsStart, Got
<1> QED
  BY <1>1, InputHolds, PTL

(* Every behaviour: a child that still holds its standard input sees end   *)
(* of file only after the whole body, unless the client broke off.         *)
THEOREM CleanEofHolds == Spec => []CleanEof
<1>1. TypeOK /\ InputInv => CleanEof
  <2> SUFFICES ASSUME TypeOK, InputInv, stdin_closed, pc # "done", client = "open",
                      "in" \in fds
               PROVE  Fed = Body
    BY DEF CleanEof
  <2>1. body_eof /\ stdin_buf = <<>>
    BY DEF InputInv, Close
  <2>2. Len(Got) = Len(Body) /\ Start
    BY <2>1 DEF InputInv, Input, Eof
  <2>3. Got = Fed /\ Fed \in Seq(Nat)
    BY <2>1 DEF Got, Fed, TypeOK, DataOK
  <2> QED
    BY <2>2, <2>3, BodyAssumption, SeqEqual DEF Start
<1> QED
  BY <1>1, InputHolds, PTL

----------------------------------------------------------------------------
(* The end of the answer: one exit event, behind all output.               *)


(* Only output.                                                            *)
Plain(q) == \A i \in 1..Len(q) : q[i].kind \in Streams

Written == recv \o net
Quit == {"final", "close", "done"}

(* sse_buf has output only, and is empty when its length says so.          *)
Buf == Plain(sse_buf) /\ (sse_buf_len = 0 => sse_buf = <<>>)

(* The exit code is settled when the child is known to have exited, and    *)
(* after the loop.                                                         *)
Settled == child_exited \/ pc \in Ended => exit_code = IF child_exited THEN status ELSE -1

Clean == pc \in {"exit", "final"} => sse_buf = <<>>

(* Output, then at most one exit event, then at most one final chunk.      *)
Marks(q) == \A i \in 1..Len(q) :
  \/ q[i].kind \in Streams
  \/ q[i] = ExitItem /\ \A j \in i + 1..Len(q) : q[j].kind = "final"
  \/ q[i].kind = "final" /\ i = Len(q)

Order ==
  /\ pc \notin Quit => Plain(Written)
  /\ pc = "final" => \A i \in 1..Len(Written) :
       Written[i].kind \in Streams \/ (i = Len(Written) /\ Written[i] = ExitItem)
  /\ pc \in {"close", "done"} => Plain(Written) \/ (sse_buf = <<>> /\ Marks(Written))

EInv == Buf /\ Settled /\ Clean /\ Order

LEMMA EndInit == Init => EInv
<1> SUFFICES ASSUME Init PROVE EInv
  OBVIOUS
<1>1. Written = <<>> /\ sse_buf = <<>> /\ pc = "loop" /\ ~child_exited
  BY DEF Init, Written
<1> QED
  BY <1>1 DEF EInv, Buf, Plain, Settled, Clean, Order, Quit, Ended

----------------------------------------------------------------------------
(* Sequences of items.                                                     *)
LEMMA AppendPlain ==
  ASSUME NEW q \in Seq(Item), Plain(q), NEW x \in Item, x.kind \in Streams
  PROVE  Plain(Append(q, x))
BY DEF Plain

LEMMA ConcatPlain ==
  ASSUME NEW p \in Seq(Item), Plain(p), NEW q \in Seq(Item), Plain(q)
  PROVE  Plain(p \o q)
BY DEF Plain

LEMMA PiecePlain ==
  ASSUME NEW q \in Seq(Item), Plain(q), NEW m \in Nat, NEW k \in Nat, m + k <= Len(q)
  PROVE  SubSeq(q, m + 1, m + k) \in Seq(Item) /\ Plain(SubSeq(q, m + 1, m + k))
<1>1. \A i \in m + 1..m + k : q[i] \in Item /\ q[i].kind \in Streams
  BY DEF Plain
<1>2. /\ SubSeq(q, m + 1, m + k) \in Seq(Item)
      /\ Len(SubSeq(q, m + 1, m + k)) = k
      /\ \A i \in 1..k : SubSeq(q, m + 1, m + k)[i] = q[m + i]
  BY <1>1, PieceType, SubSeqProperties
<1> QED
  BY <1>1, <1>2 DEF Plain

LEMMA Longer ==
  ASSUME NEW p \in Seq(Item), NEW q \in Seq(Item), NEW x \in Item
  PROVE  p \o Append(q, x) = Append(p \o q, x) /\ p \o q \in Seq(Item)
OBVIOUS

----------------------------------------------------------------------------
(* sse_buf.                                                                *)

(* Only SSL_write, the flush and the two loops over output touch it.       *)
LEMMA Untouched ==
  ASSUME [Next]_vars
  PROVE  \/ UNCHANGED <<sse_buf, sse_buf_len>>
         \/ SslWrite \/ FlushDone \/ \E s \in Streams : ReadOutput(s) \/ EmitLine(s)
<1> USE DEF sseVars
<1>1. CASE Client
  BY <1>1 DEF Client, ClientSend, ClientFragment, ClientClose, ClientRecv, serverVars
<1>2. CASE ProcessTree
  BY <1>2 DEF ProcessTree, ChildRead, ChildExit, ChildKilled, ChildWrite, ChildClose,
              serverVars
<1>3. CASE LoopEnds \/ Poll \/ PollError \/ WaitBlocking \/ ReadHeader \/ ReadData
           \/ ReadLineEnd \/ ReadNothing \/ SslWriteFails \/ WriteStdin
  BY <1>3 DEF LoopEnds, Poll, PollError, WaitBlocking, ReadHeader, ReadData,
              ReadLineEnd, ReadNothing, SslWriteFails, WriteStdin
<1>4. CASE CloseStdin \/ CheckExit \/ Kill \/ Reap \/ FlushItem \/ SendExit \/ SendFinal \/ Return
  BY <1>4 DEF CloseStdin, CheckExit, Kill, Reap, FlushItem, SendExit, SendFinal, SendLast, Return
<1>5. CASE UNCHANGED vars
  BY <1>5 DEF vars, serverVars
<1> QED
  BY <1>1, <1>2, <1>3, <1>4, <1>5 DEF Next, Server, Returned

LEMMA OutItemType ==
  ASSUME NEW s \in Streams, NEW d \in Seq(Nat)
  PROVE  OutItem(s, d) \in Item /\ OutItem(s, d).kind \in Streams
BY DEF OutItem, Item, Streams

LEMMA BufStep == ASSUME TypeOK, TypeOK', Bounds, Buf, [Next]_vars PROVE Buf'
<1>1. /\ sse_buf \in Seq(Item) /\ sse_buf_len \in Nat /\ out_buf \in Seq(Nat)
      /\ \A s \in Streams : pipe[s] \in Seq(Nat)
  BY DEF TypeOK, DataOK
<1>2. CASE UNCHANGED <<sse_buf, sse_buf_len>>
  BY <1>2 DEF Buf, Plain
<1>3. CASE SslWrite \/ FlushDone
  <2>1. (sse_buf' = <<>> /\ sse_buf_len' = 0) \/ UNCHANGED <<sse_buf, sse_buf_len>>
    BY <1>3 DEF SslWrite, FlushDone
  <2> QED
    BY <1>2, <2>1 DEF Buf, Plain
<1>4. ASSUME NEW d \in Seq(Nat), NEW s \in Streams,
             sse_buf' = Append(sse_buf, OutItem(s, d)), sse_buf_len' = sse_buf_len + Frame + Len(d)
      PROVE  Buf'
  <2>1. sse_buf_len' # 0
    BY <1>1, <1>4, Constants
  <2>2. Plain(sse_buf)'
    BY <1>1, <1>4, OutItemType, AppendPlain DEF Buf, Plain
  <2> QED
    BY <2>1, <2>2 DEF Buf
<1>5. ASSUME NEW s \in Streams, ReadOutput(s) PROVE Buf'
  <2>1. CASE raw /\ pipe[s] # <<>> /\ Kept(s, pipe[s])
    BY <1>1, <1>4, <1>5, <2>1 DEF ReadOutput
  <2>2. CASE ~(raw /\ pipe[s] # <<>> /\ Kept(s, pipe[s]))
    BY <1>2, <1>5, <2>2 DEF ReadOutput
  <2> QED
    BY <2>1, <2>2
<1>6. ASSUME NEW s \in Streams, EmitLine(s) PROVE Buf'
  <2>1. PICK k \in 0..Len(out_buf) :
          IF k > 0
          THEN /\ sse_buf' = Append(sse_buf, OutItem(s, SubSeq(out_buf, 1, k)))
               /\ sse_buf_len' = sse_buf_len + Frame + k
          ELSE UNCHANGED <<sse_buf, sse_buf_len>>
    BY <1>6 DEF EmitLine
  <2>2. k \in Nat /\ 0 + k <= Len(out_buf)
    BY <1>1
  <2>3. SubSeq(out_buf, 1, k) \in Seq(Nat) /\ Len(SubSeq(out_buf, 1, k)) = k
    <3>1. /\ SubSeq(out_buf, 0 + 1, 0 + k) \in Seq(Nat)
          /\ Len(SubSeq(out_buf, 0 + 1, 0 + k)) = IF k >= 0 THEN k ELSE 0
      BY <1>1, <2>2, PieceType
    <3> QED
      BY <2>2, <3>1
  <2>4. CASE k > 0
    BY <1>4, <2>1, <2>3, <2>4
  <2>5. CASE ~(k > 0)
    BY <1>2, <2>1, <2>5
  <2> QED
    BY <2>4, <2>5
<1> QED
  BY <1>2, <1>3, <1>5, <1>6, Untouched

----------------------------------------------------------------------------
(* Where the thread goes.                                                  *)

LEMMA Places ==
  ASSUME [Next]_vars
  PROVE  \/ pc' = pc \/ pc' \notin Ended
         \/ pc' = Ending /\ ((LoopEnds /\ child_exited) \/ (PollError /\ child_exited) \/ Reap)
         \/ pc' = Ending' /\ (WaitBlocking \/ SslWriteFails) /\ child_exited'
         \/ FlushDone \/ SendExit \/ SendFinal \/ Return
<1> USE DEF Ended
<1>1. CASE Client
  BY <1>1 DEF Client, ClientSend, ClientFragment, ClientClose, ClientRecv, serverVars
<1>2. CASE ProcessTree
  BY <1>2 DEF ProcessTree, ChildRead, ChildExit, ChildKilled, ChildWrite, ChildClose, serverVars
<1>3. CASE LoopEnds \/ PollError
  BY <1>3 DEF LoopEnds, PollError, AfterLoop
<1>4. CASE WaitBlocking \/ SslWriteFails
  BY <1>4 DEF WaitBlocking, SslWriteFails, AfterLoop
<1>5. CASE Poll \/ ReadHeader \/ ReadData \/ ReadLineEnd \/ ReadNothing
           \/ SslWrite \/ WriteStdin \/ CloseStdin
  <2>1. pc' \in LoopStages
    BY <1>5, ProceedStage DEF Poll, ReadHeader, ReadData, ReadLineEnd, ReadNothing,
                              SslWrite, WriteStdin, CloseStdin
  <2> QED
    BY <2>1 DEF LoopStages
<1>6. ASSUME NEW s \in Streams, ReadOutput(s) \/ EmitLine(s) PROVE pc' = pc \/ pc' \notin Ended
  <2>1. pc' \in LoopStages \cup {"outlines", "errlines", pc}
    BY <1>6, ProceedStage DEF ReadOutput, EmitLine, AfterOutput, LinesOf
  <2> QED
    BY <2>1 DEF LoopStages
<1>7. CASE CheckExit \/ Kill \/ FlushItem
  BY <1>7 DEF CheckExit, Kill, FlushItem
<1>8. CASE Reap
  BY <1>8 DEF Reap
<1>9. CASE UNCHANGED vars
  BY <1>9 DEF vars, serverVars
<1> QED
  BY <1>1, <1>2, <1>3, <1>4, <1>5, <1>6, <1>7, <1>8, <1>9 DEF Next, Server, Returned

(* What waitpid said does not change any more.                             *)
LEMMA CodeStep ==
  ASSUME Life, [Next]_vars
  PROVE  \/ UNCHANGED <<child_exited, exit_code>> /\ (child = "reaped" => status' = status)
         \/ Reap
         \/ (WaitBlocking \/ CheckExit) /\ child_exited' /\ exit_code' = status' /\ ~child_exited
<1>1. CASE Client
  BY <1>1 DEF Client, ClientSend, ClientFragment, ClientClose, ClientRecv, serverVars, waitVars,
              childVars, procVars
<1>2. CASE ProcessTree
  BY <1>2 DEF ProcessTree, ChildRead, ChildExit, ChildKilled, ChildWrite, ChildClose, serverVars,
              waitVars, procVars
<1>3. CASE WaitBlocking \/ CheckExit
  BY <1>3 DEF WaitBlocking, CheckExit, waitVars
<1>4. CASE LoopEnds \/ Poll \/ PollError \/ ReadHeader \/ ReadData
           \/ ReadLineEnd \/ ReadNothing \/ SslWrite \/ SslWriteFails \/ WriteStdin
  BY <1>4 DEF LoopEnds, Poll, PollError, ReadHeader, ReadData, ReadLineEnd, ReadNothing, SslWrite,
              SslWriteFails, WriteStdin, waitVars, childVars, procVars
<1>5. CASE CloseStdin \/ Kill \/ FlushItem \/ FlushDone \/ SendExit \/ SendFinal \/ Return
  BY <1>5 DEF CloseStdin, Kill, FlushItem, FlushDone, SendExit, SendFinal, SendLast, Return,
              waitVars, childVars, procVars
<1>6. ASSUME NEW s \in Streams, ReadOutput(s) \/ EmitLine(s)
      PROVE  UNCHANGED <<child_exited, exit_code, status>>
  BY <1>6 DEF ReadOutput, EmitLine, waitVars, childVars, procVars
<1>7. CASE UNCHANGED vars
  BY <1>7 DEF vars, serverVars, childVars, waitVars, procVars
<1> QED
  BY <1>1, <1>2, <1>3, <1>4, <1>5, <1>6, <1>7 DEF Next, Server, Returned

LEMMA SettledStep == ASSUME Life, Settled, [Next]_vars PROVE Settled'
<1>1. CASE Reap
  BY <1>1 DEF Reap, Settled, Life
<1>2. CASE (WaitBlocking \/ CheckExit) /\ child_exited' /\ exit_code' = status'
  BY <1>2 DEF Settled
<1>3. CASE UNCHANGED <<child_exited, exit_code>> /\ (child = "reaped" => status' = status) /\ ~Reap
  <2>1. pc' \in Ended => pc \in Ended \/ child_exited'
    BY <1>3, Places DEF FlushDone, SendExit, SendFinal, Return, Ended
  <2>2. CASE child_exited' \/ pc' \in Ended
    BY <1>3, <2>1, <2>2 DEF Settled, Life
  <2>3. CASE ~(child_exited' \/ pc' \in Ended)
    BY <2>3 DEF Settled
  <2> QED
    BY <2>2, <2>3
<1> QED
  BY <1>1, <1>2, <1>3, CodeStep

LEMMA CleanStep == ASSUME TypeOK, TypeOK', Buf, Buf', Clean, [Next]_vars PROVE Clean'
<1> SUFFICES ASSUME pc' \in {"exit", "final"} PROVE sse_buf' = <<>>
  BY DEF Clean
<1>1. sse_buf_len \in Nat /\ sse_buf_len' \in Nat
  BY DEF TypeOK, DataOK
<1>2. CASE FlushDone
  BY <1>2 DEF FlushDone
<1>3. CASE SendExit \/ SendFinal \/ Return
  BY <1>3 DEF SendExit, SendFinal, SendLast, Return, sseVars, Clean
<1>4. CASE pc' = Ending /\ (LoopEnds \/ PollError \/ Reap)
  <2>1. sse_buf_len = 0
    BY <1>1, <1>4 DEF Ending
  <2>2. sse_buf' = sse_buf
    BY <1>4 DEF LoopEnds, PollError, Reap, sseVars
  <2> QED
    BY <2>1, <2>2 DEF Buf
<1>5. CASE pc' = Ending'
  <2>1. sse_buf_len' = 0
    BY <1>1, <1>5 DEF Ending
  <2> QED
    BY <2>1 DEF Buf
<1>6. CASE pc' = pc
  <2>1. UNCHANGED sse_buf \/ FlushDone
    BY <1>6, Untouched DEF SslWrite, ReadOutput, EmitLine, LinesOf, Streams
  <2> QED
    BY <1>2, <1>6, <2>1 DEF Clean
<1> QED
  BY <1>2, <1>3, <1>4, <1>5, <1>6, Places DEF Ended

----------------------------------------------------------------------------
(* What was written to the socket.                                         *)

(* Who writes, and the client's reading, which leaves it as it is.         *)
LEMMA WrittenStep ==
  ASSUME TypeOK, TypeOK', [Next]_vars
  PROVE  \/ Written' = Written
         \/ SslWrite \/ FlushItem \/ SendExit \/ SendFinal
<1> USE DEF recvVars, peerVars
<1>1. CASE ClientRecv
  <2>1. net \in Seq(Item) /\ recv \in Seq(Item) /\ net # <<>>
    BY <1>1 DEF ClientRecv, TypeOK, DataOK
  <2> QED
    BY <1>1, <2>1, HeadMoved DEF ClientRecv, Written
<1>2. CASE ClientSend \/ ClientFragment \/ ClientClose
  BY <1>2 DEF ClientSend, ClientFragment, ClientClose, Written
<1>3. CASE ProcessTree
  BY <1>3 DEF ProcessTree, ChildRead, ChildExit, ChildKilled, ChildWrite, ChildClose, Written
<1>4. CASE LoopEnds \/ Poll \/ PollError \/ WaitBlocking \/ ReadHeader \/ ReadData
           \/ ReadLineEnd \/ ReadNothing \/ SslWriteFails \/ WriteStdin
  BY <1>4 DEF LoopEnds, Poll, PollError, WaitBlocking, ReadHeader, ReadData,
              ReadLineEnd, ReadNothing, SslWriteFails, WriteStdin, Written
<1>5. CASE CloseStdin \/ CheckExit \/ Kill \/ Reap \/ FlushDone \/ Return
  BY <1>5 DEF CloseStdin, CheckExit, Kill, Reap, FlushDone, Return, Written
<1>6. ASSUME NEW s \in Streams, ReadOutput(s) \/ EmitLine(s) PROVE Written' = Written
  BY <1>6 DEF ReadOutput, EmitLine, Written
<1>7. CASE UNCHANGED vars
  BY <1>7 DEF vars, Written
<1> QED
  BY <1>1, <1>2, <1>3, <1>4, <1>5, <1>6, <1>7 DEF Next, Client, Server, Returned

(* SSL_write and the flush pass on output only.                            *)
LEMMA WritePlain ==
  ASSUME TypeOK, Bounds, Buf, Plain(Written), SslWrite \/ FlushItem
  PROVE  Plain(Written)'
<1>1. /\ sse_buf \in Seq(Item) /\ net \in Seq(Item) /\ recv \in Seq(Item) /\ Written \in Seq(Item)
      /\ wpend \in Nat /\ wpend <= Len(sse_buf) /\ Len(net) <= NetCap /\ Len(sse_buf) \in Nat
      /\ Len(net) \in Nat
  BY DEF TypeOK, DataOK, Bounds, Written
<1>2. CASE SslWrite
  <2> DEFINE todo == Len(sse_buf) - wpend
             k == Min2(NetCap - Len(net), todo)
             piece == SubSeq(sse_buf, wpend + 1, wpend + k)
  <2>1. net' = net \o piece /\ recv' = recv
    BY <1>2 DEF SslWrite, AlreadySent
  <2>2. k \in Nat /\ wpend + k <= Len(sse_buf)
    <3>1. NetCap - Len(net) \in Int /\ todo \in Int /\ NetCap - Len(net) >= 0 /\ todo >= 0
      BY <1>1, Constants
    <3>2. k \in Int /\ k <= todo /\ k >= 0
      BY <3>1, MinType
    <3> HIDE DEF k
    <3> QED
      BY <1>1, <3>2
  <2> HIDE DEF k
  <2>3. piece \in Seq(Item) /\ Plain(piece)
    BY <1>1, <2>2, PiecePlain DEF Buf
  <2> HIDE DEF piece
  <2>4. recv' \o net' = Written \o piece
    BY <1>1, <2>1, <2>3 DEF Written
  <2>5. Plain(Written \o piece)
    BY <1>1, <2>3, ConcatPlain
  <2> QED
    BY <2>4, <2>5 DEF Plain, Written
<1>3. CASE FlushItem
  <2> DEFINE x == sse_buf[wpend + 1]
  <2>1. net' = Append(net, x) /\ recv' = recv
    BY <1>3 DEF FlushItem
  <2>2. wpend + 1 \in 1..Len(sse_buf)
    BY <1>1, <1>3 DEF FlushItem, Flushed
  <2>3. x \in Item /\ x.kind \in Streams
    BY <1>1, <2>2 DEF Buf, Plain
  <2> HIDE DEF x
  <2>4. recv' \o net' = Append(Written, x)
    BY <1>1, <2>1, <2>3, Longer DEF Written
  <2>5. Plain(Append(Written, x))
    BY <1>1, <2>3, AppendPlain
  <2> QED
    BY <2>4, <2>5 DEF Plain, Written
<1> QED
  BY <1>2, <1>3

(* The exit event and the final chunk are the last.                        *)
LEMMA LastWritten ==
  ASSUME TypeOK, TypeOK', Settled, Order, SendExit \/ SendFinal
  PROVE  \/ Written' = Written
         \/ /\ Written \in Seq(Item)
            /\ \/ SendExit /\ Written' = Append(Written, ExitItem)
               \/ SendFinal /\ Written' = Append(Written, FinalItem)
<1>1. /\ net \in Seq(Item) /\ recv \in Seq(Item) /\ recv' = recv /\ Written \in Seq(Item)
      /\ ExitItem \in Item /\ FinalItem \in Item
  BY DEF TypeOK, DataOK, SendExit, SendFinal, SendLast, Written, ExitItem, FinalItem, Item
<1>2. CASE net' = net
  BY <1>1, <1>2 DEF Written
<1>3. CASE SendExit /\ net' = Append(net, ExitItem)
  BY <1>1, <1>3, Longer DEF Written
<1>4. CASE SendFinal /\ net' = Append(net, FinalItem)
  BY <1>1, <1>4, Longer DEF Written
<1> QED
  BY <1>2, <1>3, <1>4 DEF SendExit, SendFinal, SendLast

(* After the exit event only the final chunk and the return are left.      *)
LEMMA QuitStep ==
  ASSUME pc \in Quit, [Next]_vars
  PROVE  /\ UNCHANGED <<exit_code, sse_buf>>
         /\ pc' = pc \/ SendFinal \/ (pc = "close" /\ pc' = "done")
<1> USE DEF Quit
<1>1. CASE Client
  BY <1>1 DEF Client, ClientSend, ClientFragment, ClientClose, ClientRecv, serverVars, waitVars,
              sseVars
<1>2. CASE ProcessTree
  BY <1>2 DEF ProcessTree, ChildRead, ChildExit, ChildKilled, ChildWrite, ChildClose, serverVars,
              waitVars, sseVars
<1>3. CASE Server
  <2>1. SendFinal \/ Return
    BY <1>3 DEF Server, LoopEnds, Poll, PollError, WaitBlocking, ReadHeader, ReadData, ReadLineEnd,
                ReadNothing, SslWrite, SslWriteFails, WriteStdin, ReadOutput, EmitLine, LinesOf,
                Streams, CloseStdin, CheckExit, Kill, Reap, FlushItem, FlushDone, SendExit
  <2> QED
    BY <2>1 DEF SendFinal, SendLast, Return, waitVars, sseVars
<1>4. CASE UNCHANGED vars
  BY <1>4 DEF vars, serverVars, waitVars, sseVars
<1> QED
  BY <1>1, <1>2, <1>3, <1>4 DEF Next, Returned

LEMMA OrderStep ==
  ASSUME TypeOK, TypeOK', Bounds, EInv, [Next]_vars
  PROVE  Order'
<1>1. CASE SendExit
  <2>1. /\ pc' = "final" /\ Plain(Written) /\ ExitItem' = ExitItem
    BY <1>1 DEF SendExit, SendLast, waitVars, ExitItem, EInv, Order, Quit
  <2>2. CASE Written' = Written
    BY <2>1, <2>2 DEF Order, Plain, Quit
  <2>3. CASE Written \in Seq(Item) /\ Written' = Append(Written, ExitItem)
    <3>1. \A i \in 1..Len(Written)' :
            \/ i \in 1..Len(Written) /\ Written'[i] = Written[i]
            \/ i = Len(Written') /\ Written'[i] = ExitItem
      BY <2>3
    <3> QED
      BY <2>1, <3>1 DEF Order, Plain, Quit
  <2> QED
    BY <1>1, <2>2, <2>3, LastWritten DEF EInv, SendFinal, SendExit
<1>2. CASE SendFinal
  <2>1. /\ pc' = "close" /\ sse_buf' = <<>> /\ ExitItem' = ExitItem
        /\ \A i \in 1..Len(Written) :
             Written[i].kind \in Streams \/ (i = Len(Written) /\ Written[i] = ExitItem)
    BY <1>2 DEF SendFinal, SendLast, waitVars, sseVars, ExitItem, EInv, Order, Quit, Clean
  <2>2. CASE Written' = Written
    <3>1. Written \in Seq(Item)
      BY DEF TypeOK, DataOK, Written
    <3>2. Marks(Written)
      BY <2>1, <3>1 DEF Marks
    <3>3. Marks(Written)'
      BY <2>1, <2>2, <3>2 DEF Marks
    <3> QED
      BY <2>1, <3>3 DEF Order, Quit
  <2>3. CASE Written \in Seq(Item) /\ Written' = Append(Written, FinalItem)
    <3>1. /\ Len(Written') = Len(Written) + 1 /\ Len(Written) \in Nat
          /\ \A i \in 1..Len(Written) : Written'[i] = Written[i]
          /\ Written'[Len(Written) + 1].kind = "final"
      BY <2>3 DEF FinalItem
    <3>2. Marks(Written)'
      BY <2>1, <3>1 DEF Marks
    <3> QED
      BY <2>1, <3>2 DEF Order, Quit
  <2> QED
    BY <1>2, <2>2, <2>3, LastWritten DEF EInv, SendFinal, SendExit
<1>3. CASE pc \notin Quit /\ ~SendExit /\ ~SendFinal
  <2>1. Plain(Written)
    BY <1>3 DEF EInv, Order
  <2>2. CASE Written' = Written
    BY <2>1, <2>2 DEF Order, Plain
  <2>3. CASE SslWrite \/ FlushItem
    <3>1. Plain(Written)'
      BY <2>1, <2>3, WritePlain DEF EInv
    <3> QED
      BY <3>1 DEF Order, Plain
  <2> QED
    BY <1>3, <2>2, <2>3, WrittenStep
<1>4. CASE pc \in Quit /\ ~SendFinal
  <2>1. /\ Written' = Written /\ ExitItem' = ExitItem /\ sse_buf' = sse_buf
        /\ pc' = pc \/ (pc = "close" /\ pc' = "done")
    BY <1>4, QuitStep, WrittenStep DEF Quit, SslWrite, FlushItem, SendExit, ExitItem
  <2> QED
    BY <1>4, <2>1 DEF EInv, Order, Quit, Plain, Marks
<1> QED
  BY <1>1, <1>2, <1>3, <1>4

LEMMA EndStep ==
  TypeOK /\ Bounds /\ TypeOK' /\ Life /\ EInv /\ [Next]_vars => EInv'
<1> SUFFICES ASSUME TypeOK, Bounds, TypeOK', Life, EInv, [Next]_vars PROVE EInv'
  OBVIOUS
<1>1. Buf'
  BY BufStep DEF EInv
<1> QED
  BY <1>1, SettledStep, CleanStep, OrderStep DEF EInv

(* executor.c 481-515: whatever the child and the client do and whatever   *)
(* fails, the exit event is sent once, after all output, with the status   *)
(* of the reaped child or -1 for a child that had to be killed, and        *)
(* nothing follows the final chunk.                                        *)
THEOREM TerminatorHolds == Spec => []Terminator
<1>1. TypeOK /\ Bounds /\ Life /\ EInv => Terminator
  <2> SUFFICES ASSUME TypeOK, Bounds, Life, EInv PROVE Terminator
    OBVIOUS
  <2> DEFINE rest == Rest(sse_buf, wpend)
  <2>1. /\ Written \in Seq(Item) /\ sse_buf \in Seq(Item) /\ wpend \in Nat
        /\ wpend <= Len(sse_buf) /\ Sent = Written \o rest
    BY DEF TypeOK, DataOK, Bounds, Written, Sent
  <2>2. rest \in Seq(Item) /\ Plain(rest)
    <3> DEFINE k == Len(sse_buf) - wpend
    <3>1. k \in Nat /\ wpend + k = Len(sse_buf)
      BY <2>1
    <3>2. Plain(sse_buf)
      BY DEF EInv, Buf
    <3> HIDE DEF k
    <3>3. /\ SubSeq(sse_buf, wpend + 1, wpend + k) \in Seq(Item)
          /\ Plain(SubSeq(sse_buf, wpend + 1, wpend + k))
      <4>1. wpend + k <= Len(sse_buf)
        BY <2>1, <3>1
      <4> QED
        BY <2>1, <3>1, <3>2, <4>1, PiecePlain
    <3>4. rest = SubSeq(sse_buf, wpend + 1, wpend + k)
      BY <3>1 DEF Rest
    <3> QED
      BY <3>3, <3>4
  <2>3. sse_buf = <<>> => rest = <<>>
    BY <2>1 DEF Rest
  <2> HIDE DEF rest
  <2>4. CASE Plain(Written)
    <3>1. Plain(Sent)
      BY <2>1, <2>2, <2>4, ConcatPlain
    <3> QED
      BY <3>1 DEF Terminator, Plain, Streams
  <2>5. CASE pc \in Quit /\ sse_buf = <<>> /\ Marks(Written)
    <3>1. Sent = Written
      BY <2>1, <2>3, <2>5
    <3>2. child = "reaped" /\ exit_code = IF child_exited THEN status ELSE -1
      BY <2>5 DEF Life, EInv, Settled, Quit, Ended
    <3> QED
      BY <2>5, <3>1, <3>2 DEF Terminator, Marks, ExitItem, Streams
  <2>6. CASE pc = "final"
    <3>1. Marks(Written)
      BY <2>1, <2>6 DEF EInv, Order, Marks
    <3> QED
      BY <2>5, <2>6, <3>1 DEF EInv, Clean, Quit
  <2> QED
    BY <2>4, <2>5, <2>6 DEF EInv, Order, Quit
<1> QED
  BY <1>1, TypeInit, TypeNext, LifeInit, LifeNext, EndInit, EndStep, PTL DEF Spec

----------------------------------------------------------------------------
(* The way out: what the client gets of the child's output.                *)

(* How much of stream s the thread has passed on or thrown away.           *)
Splitting(s) == pc = LinesOf(s)
Read(s) == Len(made[s]) - Len(pipe[s]) - IF Splitting(s) THEN Len(out_buf) ELSE 0

(* The pipe holds the last of what the child wrote, and out_buf, while it  *)
(* is being split into lines, what comes before that.                      *)
Piped == \A s \in Streams :
  /\ Len(pipe[s]) <= Len(made[s])
  /\ \A m \in 1..Len(pipe[s]) : pipe[s][m] = made[s][Len(made[s]) - Len(pipe[s]) + m]
Split == \A s \in Streams : Splitting(s) =>
  Read(s) >= 0 /\ \A m \in 1..Len(out_buf) : out_buf[m] = made[s][Read(s) + m]

(* The items of stream s in q are pieces of t, one behind the other, and   *)
(* the last ends at or before top.                                         *)
Fits(q, s, t, at, top) == \A i \in ItemsOf(q, s) :
  /\ IsPiece(q[i].data, t, at[i])
  /\ at[i] + Len(q[i].data) <= top
  /\ \A j \in ItemsOf(q, s) : j < i => at[j] + Len(q[j].data) <= at[i]
Placed(q, s, t, top) == \E at \in [ItemsOf(q, s) -> 0..Len(t)] : Fits(q, s, t, at, top)

Ordered == \A s \in Streams : Placed(Sent, s, made[s], Read(s))

OutInv == Piped /\ Split /\ Ordered /\ (~raw => Unbroken(Sent))

----------------------------------------------------------------------------
(* ItemsOf that keep their places when a sequence or what they are pieces of *)
(* grows.                                                                  *)
LEMMA PlacedTop ==
  ASSUME NEW q \in Seq(Item), NEW s, NEW t \in Seq(Nat), NEW top \in Int, NEW higher \in Int,
         top <= higher, Placed(q, s, t, top)
  PROVE  Placed(q, s, t, higher)
<1>1. PICK at \in [ItemsOf(q, s) -> 0..Len(t)] : Fits(q, s, t, at, top)
  BY DEF Placed
<1>2. \A i \in ItemsOf(q, s) : at[i] \in Int /\ Len(q[i].data) \in Int
  <2>1. \A i \in ItemsOf(q, s) : q[i] \in Item
    BY DEF ItemsOf
  <2> QED
    BY <2>1 DEF Item
<1>3. Fits(q, s, t, at, higher)
  BY <1>1, <1>2 DEF Fits
<1> QED
  BY <1>3 DEF Placed

LEMMA PlacedLonger ==
  ASSUME NEW q \in Seq(Item), NEW s, NEW t \in Seq(Nat), NEW b \in Nat, NEW top \in Int,
         Placed(q, s, t, top)
  PROVE  Placed(q, s, Append(t, b), top)
<1> DEFINE u == Append(t, b)
<1>1. PICK at \in [ItemsOf(q, s) -> 0..Len(t)] : Fits(q, s, t, at, top)
  BY DEF Placed
<1>2. Len(t) \in Nat /\ Len(u) = Len(t) + 1 /\ \A m \in 1..Len(t) : u[m] = t[m]
  OBVIOUS
<1> HIDE DEF u
<1>3. at \in [ItemsOf(q, s) -> 0..Len(u)]
  BY <1>2
<1>4. ASSUME NEW i \in ItemsOf(q, s) PROVE IsPiece(q[i].data, u, at[i])
  <2>1. IsPiece(q[i].data, t, at[i]) /\ at[i] \in Nat /\ Len(q[i].data) \in Nat
    <3>1. q[i] \in Item
      BY DEF ItemsOf
    <3> QED
      BY <1>1, <3>1 DEF Fits, Item
  <2> DEFINE k == at[i]
             d == q[i].data
  <2>2. k + Len(d) <= Len(t) /\ \A j \in 1..Len(d) : d[j] = t[k + j]
    BY <2>1 DEF IsPiece
  <2>3. k \in Nat /\ Len(d) \in Nat
    BY <2>1
  <2> HIDE DEF k, d
  <2>4. k + Len(d) <= Len(u) /\ \A j \in 1..Len(d) : k + j \in 1..Len(t)
    BY <1>2, <2>2, <2>3
  <2> QED
    BY <1>2, <2>2, <2>4 DEF IsPiece, k, d
<1>5. Fits(q, s, u, at, top)
  BY <1>1, <1>4 DEF Fits
<1> QED
  BY <1>3, <1>5 DEF Placed, u

LEMMA PlacedPrefix ==
  ASSUME NEW p \in Seq(Item), NEW r \in Seq(Item), NEW s, NEW t \in Seq(Nat), NEW top \in Int,
         Placed(p \o r, s, t, top)
  PROVE  Placed(p, s, t, top)
<1> DEFINE q == p \o r
<1>1. PICK at \in [ItemsOf(q, s) -> 0..Len(t)] : Fits(q, s, t, at, top)
  BY DEF Placed
<1>2. ItemsOf(p, s) \subseteq ItemsOf(q, s) /\ \A i \in ItemsOf(p, s) : q[i] = p[i]
  BY DEF ItemsOf
<1> HIDE DEF q
<1> DEFINE low == [i \in ItemsOf(p, s) |-> at[i]]
<1>3. low \in [ItemsOf(p, s) -> 0..Len(t)] /\ \A i \in ItemsOf(p, s) : low[i] = at[i]
  BY <1>2
<1> HIDE DEF low
<1>4. Fits(p, s, t, low, top)
  BY <1>1, <1>2, <1>3 DEF Fits
<1> QED
  BY <1>3, <1>4 DEF Placed

(* An item of another kind changes nothing.                                *)
LEMMA PlacedOther ==
  ASSUME NEW q \in Seq(Item), NEW x \in Item, NEW s, x.kind # s, NEW t \in Seq(Nat),
         NEW top \in Int, Placed(q, s, t, top)
  PROVE  Placed(Append(q, x), s, t, top)
<1> DEFINE r == Append(q, x)
<1>1. ItemsOf(r, s) = ItemsOf(q, s) /\ \A i \in ItemsOf(q, s) : r[i] = q[i]
  BY DEF ItemsOf
<1> HIDE DEF r
<1>2. PICK at \in [ItemsOf(q, s) -> 0..Len(t)] : Fits(q, s, t, at, top)
  BY DEF Placed
<1>3. at \in [ItemsOf(r, s) -> 0..Len(t)] /\ Fits(r, s, t, at, top)
  BY <1>1, <1>2 DEF Fits
<1> QED
  BY <1>3 DEF Placed, r

(* The next piece.                                                         *)
LEMMA PlacedNext ==
  ASSUME NEW q \in Seq(Item), NEW x \in Item, NEW s, x.kind = s, NEW t \in Seq(Nat),
         NEW top \in Int, Placed(q, s, t, top),
         NEW k \in Nat, top <= k, IsPiece(x.data, t, k)
  PROVE  Placed(Append(q, x), s, t, k + Len(x.data))
<1> DEFINE r == Append(q, x)
           n == Len(q) + 1
           new == k + Len(x.data)
<1>1. /\ ItemsOf(r, s) = ItemsOf(q, s) \cup {n} /\ n \notin ItemsOf(q, s)
      /\ r[n] = x /\ \A i \in ItemsOf(q, s) : r[i] = q[i] /\ i < n
  BY DEF ItemsOf
<1>2. Len(x.data) \in Nat /\ Len(t) \in Nat /\ new \in Nat /\ new <= Len(t)
  BY DEF Item, IsPiece
<1>3. PICK old \in [ItemsOf(q, s) -> 0..Len(t)] : Fits(q, s, t, old, top)
  BY DEF Placed
<1>4. \A i \in ItemsOf(q, s) : i \in Nat /\ old[i] \in Nat /\ Len(q[i].data) \in Nat
  <2>1. \A i \in ItemsOf(q, s) : q[i] \in Item /\ i \in Nat
    BY DEF ItemsOf
  <2> QED
    BY <1>3, <2>1 DEF Item
<1>n. n \in Nat
  OBVIOUS
<1>5. k \in 0..Len(t) /\ x.data \in Seq(Nat)
  BY <1>2 DEF Item
<1> HIDE DEF r, n, new
<1> DEFINE at == [i \in ItemsOf(r, s) |-> IF i = n THEN k ELSE old[i]]
<1>6. at \in [ItemsOf(r, s) -> 0..Len(t)] /\ at[n] = k /\ \A i \in ItemsOf(q, s) : at[i] = old[i]
  BY <1>1, <1>3, <1>5
<1> HIDE DEF at
<1>7. ASSUME NEW i \in ItemsOf(q, s)
      PROVE  /\ IsPiece(r[i].data, t, at[i])
             /\ at[i] + Len(r[i].data) <= k /\ at[i] + Len(r[i].data) <= new
  <2>1. /\ IsPiece(q[i].data, t, old[i]) /\ old[i] + Len(q[i].data) <= top
        /\ at[i] = old[i] /\ r[i] = q[i]
    BY <1>1, <1>3, <1>6 DEF Fits
  <2>2. old[i] + Len(q[i].data) <= k /\ k <= new
    BY <1>2, <1>4, <2>1 DEF new
  <2> QED
    BY <1>2, <1>4, <2>1, <2>2
<1>8. ASSUME NEW i \in ItemsOf(r, s), NEW j \in ItemsOf(r, s), j < i
      PROVE  at[j] + Len(r[j].data) <= at[i]
  <2>1. j \in ItemsOf(q, s)
    BY <1>1, <1>4, <1>8, <1>n
  <2>2. CASE i = n
    BY <1>6, <1>7, <2>1, <2>2
  <2>3. CASE i \in ItemsOf(q, s)
    BY <1>1, <1>3, <1>6, <1>8, <2>1, <2>3 DEF Fits
  <2> QED
    BY <1>1, <2>2, <2>3
<1>9. IsPiece(r[n].data, t, at[n]) /\ at[n] + Len(r[n].data) <= new
  BY <1>1, <1>2, <1>6 DEF new
<1>10. Fits(r, s, t, at, new)
  BY <1>1, <1>7, <1>8, <1>9 DEF Fits
<1> QED
  BY <1>6, <1>10 DEF Placed, r, new

LEMMA UnbrokenNext ==
  ASSUME NEW q \in Seq(Item), Unbroken(q), NEW x \in Item,
         x.kind \in Streams => \A j \in 1..Len(x.data) : x.data[j] # NL
  PROVE  Unbroken(Append(q, x))
<1>1. /\ Len(Append(q, x)) = Len(q) + 1 /\ Append(q, x)[Len(q) + 1] = x
      /\ \A i \in 1..Len(q) : Append(q, x)[i] = q[i]
  OBVIOUS
<1> QED
  BY <1>1 DEF Unbroken

LEMMA UnbrokenPrefix ==
  ASSUME NEW p \in Seq(Item), NEW r \in Seq(Item), Unbroken(p \o r)
  PROVE  Unbroken(p)
<1>1. Len(p) <= Len(p \o r) /\ \A i \in 1..Len(p) : (p \o r)[i] = p[i] /\ i \in 1..Len(p \o r)
  OBVIOUS
<1> QED
  BY <1>1 DEF Unbroken

----------------------------------------------------------------------------
(* Who touches the output.                                                 *)

Lines == {"outlines", "errlines"}

LEMMA OnlyOutput ==
  ASSUME [Next]_vars
  PROVE  \/ \E s \in Streams : ChildWrite(s) \/ ReadOutput(s) \/ EmitLine(s)
         \/ /\ UNCHANGED <<pipe, made, out_buf>>
            /\ pc \in Lines \/ pc' \in Lines => pc' = pc
<1> USE DEF Lines, sseVars, childVars, outVars
<1>1. CASE Client
  BY <1>1 DEF Client, ClientSend, ClientFragment, ClientClose, ClientRecv, serverVars
<1>2. CASE ChildRead \/ ChildExit \/ ChildKilled \/ \E f \in {"in", "out", "err"} : ChildClose(f)
  BY <1>2 DEF ChildRead, ChildExit, ChildKilled, ChildClose, serverVars
<1>3. CASE Poll \/ ReadHeader \/ ReadData \/ ReadLineEnd \/ ReadNothing
           \/ SslWrite \/ WriteStdin \/ CloseStdin
  <2>1. pc' \in LoopStages
    BY <1>3, ProceedStage DEF Poll, ReadHeader, ReadData, ReadLineEnd, ReadNothing,
                              SslWrite, WriteStdin, CloseStdin
  <2> QED
    BY <1>3, <2>1 DEF Poll, ReadHeader, ReadData, ReadLineEnd, ReadNothing, SslWrite,
                      WriteStdin, CloseStdin, LoopStages
<1>4. CASE LoopEnds \/ PollError
  BY <1>4, AfterLoopStage DEF LoopEnds, PollError
<1>5. CASE WaitBlocking \/ SslWriteFails
  BY <1>5 DEF WaitBlocking, SslWriteFails, AfterLoop, Ending, LastWords
<1>6. CASE CheckExit \/ Kill \/ FlushItem
  BY <1>6 DEF CheckExit, Kill, FlushItem
<1>7. CASE Reap
  BY <1>7, AfterLoopStage DEF Reap
<1>8. CASE FlushDone \/ SendExit \/ SendFinal \/ Return
  BY <1>8 DEF FlushDone, SendExit, SendFinal, SendLast, Return, LastWords
<1>9. CASE UNCHANGED vars
  BY <1>9 DEF vars, serverVars
<1> QED
  BY <1>1, <1>2, <1>3, <1>4, <1>5, <1>6, <1>7, <1>8, <1>9
  DEF Next, Client, ProcessTree, Server, Returned

(* What was sent and will be, and how it grows.                            *)
Queued == Rest(sse_buf, wpend)

LEMMA SentType ==
  ASSUME TypeOK, Bounds
  PROVE  /\ net \in Seq(Item) /\ recv \in Seq(Item) /\ Written \in Seq(Item)
         /\ sse_buf \in Seq(Item) /\ wpend \in Nat /\ wpend <= Len(sse_buf)
         /\ Queued \in Seq(Item) /\ Len(Queued) = Len(sse_buf) - wpend
         /\ Sent = Written \o Queued /\ Sent \in Seq(Item)
<1>1. /\ net \in Seq(Item) /\ recv \in Seq(Item) /\ sse_buf \in Seq(Item)
      /\ wpend \in Nat /\ wpend <= Len(sse_buf)
  BY DEF TypeOK, DataOK, Bounds
<1>2. Queued \in Seq(Item) /\ Len(Queued) = Len(sse_buf) - wpend
  BY <1>1, RestType DEF Queued
<1>3. Written \in Seq(Item)
  BY <1>1 DEF Written
<1>4. Sent = Written \o Queued
  BY DEF Sent, Written, Queued
<1> QED
  BY <1>1, <1>2, <1>3, <1>4

LEMMA RestIs ==
  ASSUME NEW S, NEW q \in Seq(S), NEW k \in Nat, k <= Len(q)
  PROVE  /\ Rest(q, k) \in Seq(S) /\ Len(Rest(q, k)) = Len(q) - k
         /\ \A m \in 1..Len(q) - k : Rest(q, k)[m] = q[m + k]
<1>1. Rest(q, k) \in Seq(S) /\ Len(Rest(q, k)) = Len(q) - k
  BY RestType
<1>2. \A m \in 1..Len(q) - k : Rest(q, k)[m] = q[m + k]
  BY RestElements
<1> QED
  BY <1>1, <1>2

(* A piece of q behind the first m of its elements.                        *)
LEMMA PieceOfRest ==
  ASSUME NEW q \in Seq(Item), NEW m \in Nat, NEW k \in Nat, m + k <= Len(q)
  PROVE  /\ SubSeq(q, m + 1, m + k) = SubSeq(Rest(q, m), 1, k)
         /\ Rest(q, m + k) = Rest(Rest(q, m), k)
<1> DEFINE r == Rest(q, m)
           a == SubSeq(q, m + 1, m + k)
           b == SubSeq(r, 1, k)
           c == Rest(q, m + k)
           d == Rest(r, k)
<1>1. r \in Seq(Item) /\ Len(r) = Len(q) - m /\ \A i \in 1..Len(q) - m : r[i] = q[i + m]
  <2>1. m <= Len(q)
    OBVIOUS
  <2> QED
    BY <2>1, RestIs
<1>2. k <= Len(r) /\ Len(q) \in Nat /\ Len(r) \in Nat
  BY <1>1
<1>3. /\ a \in Seq(Item) /\ Len(a) = k /\ \A i \in 1..k : a[i] = q[m + i]
  <2>1. a \in Seq(Item) /\ Len(a) = k
    BY PieceType
  <2>2. \A i \in m + 1..m + k : q[i] \in Item
    OBVIOUS
  <2>3. \A i \in 1..k : a[i] = q[m + i]
    BY <2>2, SubSeqProperties
  <2> QED
    BY <2>1, <2>3
<1>4. c \in Seq(Item) /\ Len(c) = Len(q) - (m + k) /\ \A i \in 1..Len(q) - (m + k) : c[i] = q[i + (m + k)]
  BY RestIs
<1> HIDE DEF r
<1>5. /\ b \in Seq(Item) /\ Len(b) = k /\ \A i \in 1..k : b[i] = r[i]
  <2>1. SubSeq(r, 0 + 1, 0 + k) \in Seq(Item) /\ Len(SubSeq(r, 0 + 1, 0 + k)) = k
    BY <1>1, <1>2, PieceType
  <2>2. \A i \in 1..k : r[i] \in Item
    BY <1>1, <1>2
  <2>3. \A i \in 1..k : b[i] = r[i]
    BY <1>1, <1>2
  <2> QED
    BY <2>1, <2>3
<1>6. d \in Seq(Item) /\ Len(d) = Len(r) - k /\ \A i \in 1..Len(r) - k : d[i] = r[i + k]
  BY <1>1, <1>2, RestIs
<1> HIDE DEF a, b, c, d
<1>7. a = b
  <2>1. \A i \in 1..k : i \in 1..Len(q) - m /\ i + m = m + i
    BY <1>1, <1>2
  <2>2. \A i \in 1..k : a[i] = b[i]
    BY <1>1, <1>3, <1>5, <2>1
  <2> QED
    BY <1>3, <1>5, <2>2, SeqEqual
<1>8. c = d
  <2>1. Len(c) = Len(d)
    BY <1>1, <1>2, <1>4, <1>6
  <2>2. \A i \in 1..Len(c) : /\ i \in 1..Len(q) - (m + k) /\ i \in 1..Len(r) - k
                            /\ i + k \in 1..Len(q) - m /\ i + k + m = i + (m + k)
    BY <1>1, <1>2, <1>4
  <2>3. \A i \in 1..Len(c) : c[i] = d[i]
    BY <1>1, <1>4, <1>6, <2>2
  <2> QED
    BY <1>4, <1>6, <2>1, <2>3, SeqEqual
<1> QED
  BY <1>7, <1>8 DEF a, b, c, d, r

LEMMA QueuedStep ==
  ASSUME [Next]_vars
  PROVE  \/ UNCHANGED <<sse_buf, wpend>>
         \/ SslWrite \/ FlushItem \/ FlushDone \/ \E s \in Streams : ReadOutput(s) \/ EmitLine(s)
<1> USE DEF sseVars
<1>1. CASE Client
  BY <1>1 DEF Client, ClientSend, ClientFragment, ClientClose, ClientRecv, serverVars
<1>2. CASE ProcessTree
  BY <1>2 DEF ProcessTree, ChildRead, ChildExit, ChildKilled, ChildWrite, ChildClose,
              serverVars
<1>3. CASE LoopEnds \/ Poll \/ PollError \/ WaitBlocking \/ ReadHeader \/ ReadData
           \/ ReadLineEnd \/ ReadNothing \/ SslWriteFails \/ WriteStdin
  BY <1>3 DEF LoopEnds, Poll, PollError, WaitBlocking, ReadHeader, ReadData,
              ReadLineEnd, ReadNothing, SslWriteFails, WriteStdin
<1>4. CASE CloseStdin \/ CheckExit \/ Kill \/ Reap \/ SendExit \/ SendFinal \/ Return
  BY <1>4 DEF CloseStdin, CheckExit, Kill, Reap, SendExit, SendFinal, SendLast, Return
<1>5. CASE UNCHANGED vars
  BY <1>5 DEF vars, serverVars
<1> QED
  BY <1>1, <1>2, <1>3, <1>4, <1>5 DEF Next, Server, Returned

(* SSL_write and the flush send what was next, and keep the rest: nothing  *)
(* is sent twice.                                                          *)
LEMMA PassedOn ==
  ASSUME TypeOK, TypeOK', Bounds, Bounds', SslWrite \/ FlushItem
  PROVE  Sent' = Sent
<1> DEFINE q == Queued
<1>1. /\ net \in Seq(Item) /\ recv \in Seq(Item) /\ Written \in Seq(Item)
      /\ sse_buf \in Seq(Item) /\ wpend \in Nat /\ wpend <= Len(sse_buf)
      /\ q \in Seq(Item) /\ Len(q) = Len(sse_buf) - wpend
      /\ Sent = Written \o q /\ Sent' = Written' \o Queued'
  <2>1. Sent' = Written' \o Queued'
    BY DEF Sent, Written, Queued
  <2> QED
    BY <2>1, SentType
<1>2. CASE SslWrite
  <2> DEFINE todo == Len(sse_buf) - wpend
             k == Min2(NetCap - Len(net), todo)
             piece == SubSeq(sse_buf, wpend + 1, wpend + k)
  <2>1. /\ net' = net \o piece /\ recv' = recv
        /\ IF k = todo THEN sse_buf' = <<>> /\ wpend' = 0
           ELSE wpend' = wpend + k /\ sse_buf' = sse_buf
    BY <1>2 DEF SslWrite, AlreadySent
  <2>2. k \in Nat /\ wpend + k <= Len(sse_buf)
    <3>1. NetCap - Len(net) \in Int /\ todo \in Int /\ NetCap - Len(net) >= 0 /\ todo >= 0
      BY <1>1, Constants DEF Bounds
    <3>2. k \in Int /\ k <= todo /\ k >= 0
      BY <3>1, MinType
    <3> HIDE DEF k
    <3> QED
      BY <1>1, <3>2
  <2>3. todo = Len(q)
    BY <1>1
  <2> HIDE DEF k, todo
  <2>4. piece = SubSeq(q, 1, k) /\ Rest(sse_buf, wpend + k) = Rest(q, k)
    BY <1>1, <2>2, PieceOfRest DEF Queued
  <2>5. SubSeq(q, 1, k) \in Seq(Item) /\ k <= Len(q)
    <3>1. k <= Len(q)
      BY <1>1, <2>2
    <3>2. SubSeq(q, 0 + 1, 0 + k) \in Seq(Item)
      BY <1>1, <2>2, <3>1, PieceType
    <3> HIDE DEF q
    <3>3. 0 + k = k /\ 0 + 1 = 1
      BY <2>2
    <3> QED
      BY <3>1, <3>2, <3>3
  <2>6. Written' = Written \o SubSeq(q, 1, k)
    <3>0. piece \in Seq(Item)
      BY <2>4, <2>5
    <3> HIDE DEF q, piece
    <3>1. Written' = recv \o (net \o piece)
      BY <2>1 DEF Written
    <3>2. recv \o (net \o piece) = (recv \o net) \o piece
      <4>1. net \in Seq(Item) /\ recv \in Seq(Item)
        BY <1>1
      <4> QED
        BY <3>0, <4>1, ConcatAssociative
    <3> QED
      BY <2>4, <3>1, <3>2 DEF Written
  <2>7. Queued' = Rest(q, k)
    <3>1. CASE k = todo
      <4>1. Queued' = Rest(<<>>, 0)
        BY <2>1, <3>1 DEF Queued
      <4>2. Rest(<<>>, 0) = <<>>
        BY DEF Rest
      <4>3. Len(Rest(q, k)) = 0 /\ Rest(q, k) \in Seq(Item)
        <5>1. Rest(q, k) \in Seq(Item) /\ Len(Rest(q, k)) = Len(q) - k
          BY <1>1, <2>2, <2>5, RestIs
        <5> QED
          BY <1>1, <2>3, <3>1, <5>1
      <4>4. Rest(q, k) = <<>>
        BY <4>3, EmptySeq
      <4> QED
        BY <4>1, <4>2, <4>4
    <3>2. CASE k # todo
      BY <2>1, <2>4, <3>2 DEF Queued
    <3> QED
      BY <3>1, <3>2
  <2>8. (Written \o SubSeq(q, 1, k)) \o Rest(q, k) = Written \o q
    BY <1>1, <2>2, <2>5, PieceMoved
  <2> QED
    BY <1>1, <2>6, <2>7, <2>8
<1>3. CASE FlushItem
  <2> DEFINE x == sse_buf[wpend + 1]
  <2>1. net' = Append(net, x) /\ recv' = recv /\ wpend' = wpend + 1 /\ sse_buf' = sse_buf
    BY <1>3 DEF FlushItem
  <2>2. wpend + 1 <= Len(sse_buf) /\ Len(q) >= 1
    BY <1>1, <1>3 DEF FlushItem, Flushed
  <2>3. x = Head(q) /\ q # <<>> /\ x \in Item
    <3>1. \A m \in 1..Len(sse_buf) - wpend : q[m] = sse_buf[m + wpend]
      BY <1>1, RestIs DEF Queued
    <3>2. q[1] = sse_buf[1 + wpend] /\ 1 + wpend = wpend + 1 /\ wpend + 1 \in 1..Len(sse_buf)
      BY <1>1, <2>2, <3>1
    <3>3. Head(q) = q[1] /\ q # <<>>
      BY <1>1, <2>2
    <3> QED
      BY <1>1, <3>2, <3>3
  <2>4. Queued' = Tail(q)
    <3>1. Queued' = Rest(sse_buf, wpend + 1)
      BY <2>1 DEF Queued
    <3>2. Rest(sse_buf, wpend + 1) = Rest(q, 1)
      BY <1>1, <2>2, PieceOfRest DEF Queued
    <3>3. Rest(q, 1) = Tail(q)
      BY <1>1 DEF Rest
    <3> QED
      BY <3>1, <3>2, <3>3
  <2> HIDE DEF x
  <2>5. Written' = Append(Written, x)
    BY <1>1, <2>1, <2>3, Longer DEF Written
  <2>6. Append(Written, Head(q)) \o Tail(q) = Written \o q
    BY <1>1, <2>3, HeadMoved
  <2> QED
    BY <1>1, <2>3, <2>4, <2>5, <2>6
<1> QED
  BY <1>2, <1>3

(* One more item in sse_buf is one more to send.                           *)
LEMMA OneMore ==
  ASSUME TypeOK, TypeOK', Bounds, Bounds', UNCHANGED <<recv, net, wpend>>,
         NEW x \in Item, sse_buf' = Append(sse_buf, x)
  PROVE  Sent' = Append(Sent, x)
<1>1. /\ Written \in Seq(Item) /\ sse_buf \in Seq(Item) /\ wpend \in Nat
      /\ wpend <= Len(sse_buf) /\ Queued \in Seq(Item) /\ Sent = Written \o Queued
  BY SentType
<1>2. Sent' = Written' \o Queued' /\ Written' = Written
  BY DEF Sent, Written, Queued
<1> DEFINE b == Append(sse_buf, x)
           r == Rest(b, wpend)
           a == Append(Queued, x)
<1>3. b \in Seq(Item) /\ Len(b) = Len(sse_buf) + 1 /\ wpend <= Len(b)
      /\ b[Len(sse_buf) + 1] = x /\ \A i \in 1..Len(sse_buf) : b[i] = sse_buf[i]
  BY <1>1
<1>4. Queued' = r
  BY DEF Queued
<1> HIDE DEF b
<1>5. r \in Seq(Item) /\ Len(r) = Len(b) - wpend /\ \A m \in 1..Len(b) - wpend : r[m] = b[m + wpend]
  BY <1>1, <1>3, RestIs
<1>6. /\ Len(Queued) = Len(sse_buf) - wpend
      /\ \A m \in 1..Len(sse_buf) - wpend : Queued[m] = sse_buf[m + wpend]
  BY <1>1, RestIs DEF Queued
<1>7. /\ a \in Seq(Item) /\ Len(a) = Len(Queued) + 1 /\ a[Len(Queued) + 1] = x
      /\ \A m \in 1..Len(Queued) : a[m] = Queued[m]
  BY <1>1
<1> HIDE DEF r, a
<1>8. r = a
  <2>1. Len(r) = Len(a) /\ Len(sse_buf) \in Nat
    BY <1>1, <1>3, <1>5, <1>6, <1>7
  <2>2. ASSUME NEW m \in 1..Len(a) PROVE r[m] = a[m]
    <3>1. CASE m <= Len(Queued)
      <4>1. m \in 1..Len(sse_buf) - wpend /\ m + wpend \in 1..Len(sse_buf) /\ m \in 1..Len(b) - wpend
        BY <1>1, <1>3, <1>6, <1>7, <2>1, <3>1
      <4> QED
        BY <1>3, <1>5, <1>6, <1>7, <4>1
    <3>2. CASE m > Len(Queued)
      <4>1. m = Len(Queued) + 1 /\ m + wpend = Len(sse_buf) + 1 /\ m \in 1..Len(b) - wpend
        BY <1>1, <1>3, <1>6, <1>7, <2>1, <3>2
      <4> QED
        BY <1>3, <1>5, <1>7, <4>1
    <3>3. m <= Len(Queued) \/ m > Len(Queued)
      BY <1>1, <1>7
    <3> QED
      BY <3>1, <3>2, <3>3, Zenon
  <2> QED
    BY <1>5, <1>7, <2>1, <2>2, SeqEqual
<1> HIDE DEF a
<1>9. Written \o Append(Queued, x) = Append(Written \o Queued, x)
  BY <1>1, Longer
<1> QED
  BY <1>1, <1>2, <1>4, <1>8, <1>9 DEF a

LEMMA SentStep ==
  ASSUME TypeOK, TypeOK', Bounds, Bounds', EInv, [Next]_vars
  PROVE  \/ Sent' = Sent
         \/ \E x \in {ExitItem, FinalItem} : x \in Item /\ Sent' = Append(Sent, x)
         \/ client = "gone" /\ \E r \in Seq(Item) : Sent = Sent' \o r
         \/ \E s \in Streams : ReadOutput(s) \/ EmitLine(s)
<1>1. /\ Written \in Seq(Item) /\ Queued \in Seq(Item) /\ Sent = Written \o Queued
      /\ Sent \in Seq(Item)
  BY SentType
<1>2. Sent' = Written' \o Queued'
  BY DEF Sent, Written, Queued
<1>3. CASE SslWrite \/ FlushItem
  BY <1>3, PassedOn
<1>4. CASE FlushDone
  <2>1. Written' = Written /\ Queued' = Rest(<<>>, 0)
    BY <1>4 DEF FlushDone, peerVars, recvVars, Written, Queued
  <2>2. Rest(<<>>, 0) = <<>>
    BY DEF Rest
  <2>3. Sent' = Written
    BY <1>1, <1>2, <2>1, <2>2
  <2>4. CASE client = "gone"
    BY <1>1, <2>3, <2>4
  <2>5. CASE wpend = Len(sse_buf)
    <3>1. Len(Queued) = 0
      BY <2>5, SentType
    <3>2. Queued = <<>>
      BY <1>1, <3>1, EmptySeq
    <3> QED
      BY <1>1, <2>3, <3>2
  <2> QED
    BY <1>4, <2>4, <2>5 DEF FlushDone, Flushed
<1>5. CASE SendExit \/ SendFinal
  <2>1. sse_buf = <<>> /\ sse_buf' = <<>> /\ wpend' = wpend /\ wpend = 0
    <3>1. sse_buf = <<>>
      BY <1>5 DEF EInv, Clean, SendExit, SendFinal
    <3>2. UNCHANGED <<sse_buf, wpend>>
      BY <1>5 DEF SendExit, SendFinal, SendLast, sseVars
    <3> QED
      BY <3>1, <3>2, SentType
  <2>2. Queued = <<>> /\ Queued' = <<>>
    BY <2>1 DEF Queued, Rest
  <2>3. Sent = Written
    BY <1>1, <2>2
  <2>4. Sent' = Written'
    <3>1. Written' \in Seq(Item)
      BY DEF TypeOK, DataOK, Written
    <3> QED
      BY <1>2, <2>2, <3>1
  <2>5. ExitItem \in Item /\ FinalItem \in Item
    BY DEF ExitItem, FinalItem, Item, TypeOK, DataOK
  <2>6. \/ Written' = Written \/ Written' = Append(Written, ExitItem)
        \/ Written' = Append(Written, FinalItem)
    BY <1>5, LastWritten DEF EInv
  <2> QED
    BY <2>3, <2>4, <2>5, <2>6
<1>6. CASE UNCHANGED <<sse_buf, wpend>> /\ ~SslWrite /\ ~FlushItem /\ ~SendExit /\ ~SendFinal
  <2>1. Written' = Written
    BY <1>6, WrittenStep
  <2>2. Queued' = Queued
    BY <1>6 DEF Queued
  <2> QED
    BY <1>1, <1>2, <2>1, <2>2
<1> QED
  BY <1>3, <1>4, <1>5, <1>6, QueuedStep

----------------------------------------------------------------------------
(* The child writes.                                                       *)
LEMMA ReadType ==
  ASSUME TypeOK
  PROVE  \A s \in Streams : /\ Read(s) \in Int /\ made[s] \in Seq(Nat) /\ pipe[s] \in Seq(Nat)
                            /\ Len(made[s]) \in Nat /\ Len(pipe[s]) \in Nat
                            /\ out_buf \in Seq(Nat) /\ Len(out_buf) \in Nat
<1>1. out_buf \in Seq(Nat) /\ \A s \in Streams : made[s] \in Seq(Nat) /\ pipe[s] \in Seq(Nat)
  BY DEF TypeOK, DataOK
<1> TAKE s \in Streams
<1>2. made[s] \in Seq(Nat) /\ pipe[s] \in Seq(Nat)
  BY <1>1
<1>3. Len(made[s]) \in Nat /\ Len(pipe[s]) \in Nat /\ Len(out_buf) \in Nat
  BY <1>1, <1>2
<1> QED
  BY <1>1, <1>2, <1>3 DEF Read

(* What a write of the child does: one byte more in its pipe, and what the *)
(* thread has read of the stream stays as it was.                          *)
LEMMA ByteStep ==
  ASSUME TypeOK, TypeOK', OutInv, NEW w \in Streams, ChildWrite(w)
  PROVE  /\ UNCHANGED <<recv, net, sse_buf, wpend, pc, out_buf, raw, client>> /\ Sent' = Sent
         /\ \A s \in Streams \ {w} : made'[s] = made[s] /\ pipe'[s] = pipe[s]
         /\ \A s \in Streams : Read(s)' = Read(s)
         /\ \E b \in Nat : made'[w] = Append(made[w], b) /\ pipe'[w] = Append(pipe[w], b)
<1>1. /\ UNCHANGED <<recv, net, sse_buf, wpend, pc, out_buf, raw, client>>
      /\ Sent' = Sent
  BY DEF ChildWrite, peerVars, recvVars, serverVars, sseVars, args, sendVars, Sent
<1> DEFINE b == Output(w)[Len(made[w]) + 1]
<1>2. /\ made' = [made EXCEPT ![w] = Append(@, b)]
      /\ pipe' = [pipe EXCEPT ![w] = Append(@, b)]
  BY DEF ChildWrite
<1> HIDE DEF b
<1>3. made \in [Streams -> Seq(Nat)] /\ pipe \in [Streams -> Seq(Nat)]
  BY DEF TypeOK, DataOK
<1>4. /\ made'[w] = Append(made[w], b) /\ pipe'[w] = Append(pipe[w], b)
      /\ \A s \in Streams \ {w} : made'[s] = made[s] /\ pipe'[s] = pipe[s]
  BY <1>2, <1>3
<1>5. b \in Nat
  <2>1. /\ Append(made[w], b) \in Seq(Nat) /\ made[w] \in Seq(Nat)
    <3>1. made'[w] \in Seq(Nat)
      BY DEF TypeOK, DataOK
    <3> QED
      BY <1>3, <1>4, <3>1
  <2>2. Append(made[w], b)[Len(made[w]) + 1] = b
    BY <2>1
  <2>3. Len(Append(made[w], b)) = Len(made[w]) + 1
    BY <2>1
  <2>4. Len(made[w]) + 1 \in 1..Len(Append(made[w], b))
    BY <2>1, <2>3
  <2>5. Append(made[w], b)[Len(made[w]) + 1] \in Nat
    BY <2>1, <2>4, ElementOfSeq
  <2> QED
    BY <2>2, <2>5
<1> DEFINE t == made[w]
           p == pipe[w]
<1>6. /\ t \in Seq(Nat) /\ p \in Seq(Nat) /\ Len(t) \in Nat /\ Len(p) \in Nat
      /\ Len(p) <= Len(t) /\ \A m \in 1..Len(p) : p[m] = t[Len(t) - Len(p) + m]
  BY ReadType DEF OutInv, Piped
<1> HIDE DEF t, p
<1>7. /\ Append(t, b) \in Seq(Nat) /\ Len(Append(t, b)) = Len(t) + 1 /\ Append(t, b)[Len(t) + 1] = b
      /\ \A m \in 1..Len(t) : Append(t, b)[m] = t[m]
  BY <1>5, <1>6
<1>8. /\ Len(Append(p, b)) = Len(p) + 1 /\ Append(p, b)[Len(p) + 1] = b
      /\ \A m \in 1..Len(p) : Append(p, b)[m] = p[m]
  BY <1>5, <1>6
<1>9. Len(pipe'[w]) <= Len(made'[w]) /\ Len(made'[w]) - Len(pipe'[w]) = Len(t) - Len(p)
  BY <1>4, <1>6, <1>7, <1>8 DEF t, p
<1>10. \A s \in Streams : Read(s)' = Read(s)
  <2>1. ASSUME NEW s \in Streams \ {w} PROVE Read(s)' = Read(s)
    BY <1>1, <1>4 DEF Read, Splitting
  <2>2. Read(w)' = Read(w)
    <3> DEFINE u == IF Splitting(w) THEN Len(out_buf) ELSE 0
    <3>1. u' = u
      BY <1>1 DEF Splitting
    <3> HIDE DEF u
    <3>2. Read(w) = Len(t) - Len(p) - u
      BY DEF Read, t, p, u
    <3>3. Read(w)' = Len(made'[w]) - Len(pipe'[w]) - u'
      BY DEF Read, u
    <3> QED
      BY <1>9, <3>1, <3>2, <3>3
  <2> QED
    BY <2>1, <2>2
<1> QED
  BY <1>1, <1>4, <1>5, <1>10

LEMMA OutChildWrite ==
  ASSUME TypeOK, TypeOK', Bounds, Bounds', OutInv, NEW w \in Streams, ChildWrite(w)
  PROVE  OutInv'
<1>1. /\ UNCHANGED <<recv, net, sse_buf, wpend, pc, out_buf, raw>> /\ Sent' = Sent
      /\ \A s \in Streams \ {w} : made'[s] = made[s] /\ pipe'[s] = pipe[s]
      /\ \A s \in Streams : Read(s)' = Read(s)
  BY ByteStep
<1>2. PICK b \in Nat : made'[w] = Append(made[w], b) /\ pipe'[w] = Append(pipe[w], b)
  BY ByteStep
<1> DEFINE t == made[w]
           p == pipe[w]
<1>3. /\ t \in Seq(Nat) /\ p \in Seq(Nat) /\ Len(t) \in Nat /\ Len(p) \in Nat
      /\ Len(p) <= Len(t) /\ \A m \in 1..Len(p) : p[m] = t[Len(t) - Len(p) + m]
  BY ReadType DEF OutInv, Piped
<1> HIDE DEF t, p
<1>4. /\ Append(t, b) \in Seq(Nat) /\ Len(Append(t, b)) = Len(t) + 1 /\ Append(t, b)[Len(t) + 1] = b
      /\ \A m \in 1..Len(t) : Append(t, b)[m] = t[m]
  BY <1>2, <1>3
<1>5. /\ Len(Append(p, b)) = Len(p) + 1 /\ Append(p, b)[Len(p) + 1] = b
      /\ \A m \in 1..Len(p) : Append(p, b)[m] = p[m]
  BY <1>2, <1>3
<1>6. Len(pipe'[w]) <= Len(made'[w]) /\ Len(made'[w]) - Len(pipe'[w]) = Len(t) - Len(p)
  BY <1>1, <1>2, <1>3, <1>4, <1>5 DEF t, p
<1>7. Piped'
  <2>1. ASSUME NEW m \in 1..Len(pipe'[w])
        PROVE  pipe'[w][m] = made'[w][Len(made'[w]) - Len(pipe'[w]) + m]
    <3>1. pipe'[w] = Append(p, b) /\ made'[w] = Append(t, b)
      BY <1>1, <1>2 DEF p, t
    <3>2. m \in 1..Len(p) + 1
      BY <1>5, <3>1
    <3>3. CASE m \in 1..Len(p)
      <4>1. Len(t) - Len(p) + m \in 1..Len(t)
        BY <1>3, <3>3
      <4> QED
        BY <1>3, <1>4, <1>5, <1>6, <3>1, <3>3, <4>1
    <3>4. CASE m = Len(p) + 1
      <4>1. Len(t) - Len(p) + m = Len(t) + 1
        BY <1>3, <3>4
      <4> QED
        BY <1>4, <1>5, <1>6, <3>1, <3>4, <4>1
    <3>5. m \in 1..Len(p) \/ m = Len(p) + 1
      BY <1>3, <3>2
    <3> QED
      BY <3>3, <3>4, <3>5, Zenon
  <2>2. ASSUME NEW s \in Streams
        PROVE  /\ Len(pipe'[s]) <= Len(made'[s])
               /\ \A m \in 1..Len(pipe'[s]) :
                    pipe'[s][m] = made'[s][Len(made'[s]) - Len(pipe'[s]) + m]
    <3>1. CASE s # w
      BY <1>1, <1>2, <3>1 DEF Piped, OutInv
    <3>2. CASE s = w
      <4>1. Len(pipe'[w]) <= Len(made'[w])
        BY <1>6
      <4> QED
        BY <2>1, <3>2, <4>1, Zenon
    <3> QED
      BY <3>1, <3>2
  <2> QED
    BY <2>2 DEF Piped
<1>8. Split'
  <2> SUFFICES ASSUME NEW s \in Streams, Splitting(s)'
               PROVE  Read(s)' >= 0 /\ \A m \in 1..Len(out_buf') : out_buf'[m] = made'[s][Read(s)' + m]
    BY DEF Split
  <2>1. /\ Read(s) >= 0 /\ Read(s) \in Int
        /\ \A m \in 1..Len(out_buf) : out_buf[m] = made[s][Read(s) + m]
    BY <1>1, ReadType DEF OutInv, Split, Splitting
  <2>2. CASE s # w
    BY <1>1, <1>2, <2>1, <2>2
  <2>3. CASE s = w
    <3>1. Read(w) = Len(t) - Len(p) - Len(out_buf) /\ Len(out_buf) \in Nat
      BY <1>1, <2>3, ReadType DEF Read, Splitting, t, p
    <3>2. \A m \in 1..Len(out_buf) : Read(w) + m \in 1..Len(t)
      BY <1>3, <2>1, <2>3, <3>1
    <3> QED
      BY <1>1, <1>2, <1>4, <2>1, <2>3, <3>2 DEF t
  <2> QED
    BY <2>2, <2>3
<1>9. Ordered'
  <2> SUFFICES ASSUME NEW s \in Streams PROVE Placed(Sent', s, made'[s], Read(s)')
    BY DEF Ordered, Placed, ItemsOf, Fits, IsPiece
  <2>1. Placed(Sent, s, made[s], Read(s)) /\ Sent \in Seq(Item) /\ Read(s) \in Int
    BY ReadType, SentType DEF OutInv, Ordered
  <2>2. CASE s # w
    BY <1>1, <1>2, <2>1, <2>2
  <2>3. CASE s = w
    <3>1. Placed(Sent, w, Append(t, b), Read(w))
      BY <1>2, <1>3, <2>1, <2>3, PlacedLonger DEF t
    <3> QED
      BY <1>1, <1>2, <2>3, <3>1 DEF t
  <2> QED
    BY <2>2, <2>3
<1>10. ~raw' => Unbroken(Sent)'
  BY <1>1 DEF OutInv, Unbroken
<1> QED
  BY <1>7, <1>8, <1>9, <1>10 DEF OutInv

----------------------------------------------------------------------------
(* The thread reads a pipe.                                                *)
LEMMA SplittingOne == \A s, t \in Streams : LinesOf(s) = LinesOf(t) => s = t
BY DEF LinesOf, Streams

(* What taking everything from a pipe does.                                *)
LEMMA DrainStep ==
  ASSUME TypeOK, OutInv, NEW w \in Streams, ReadOutput(w)
  PROVE  /\ pipe'[w] = <<>> /\ \A s \in Streams \ {w} : pipe'[s] = pipe[s]
         /\ \A s \in Streams : Splitting(s)' => s = w /\ out_buf' # <<>>
         /\ \A s \in Streams \ {w} : Read(s)' = Read(s)
         /\ Read(w) = Len(made[w]) - Len(pipe[w]) /\ Read(w) \in Nat
         /\ Read(w)' = Len(made[w]) - IF out_buf' # <<>> THEN Len(out_buf') ELSE 0
         /\ IsPiece(pipe[w], made[w], Read(w))
<1> DEFINE d == pipe[w]
           t == made[w]
<1>1. /\ pc = w /\ UNCHANGED <<recv, net, wpend, raw, made>>
      /\ pipe' = [pipe EXCEPT ![w] = <<>>]
      /\ \/ UNCHANGED sse_buf
         \/ raw /\ d # <<>> /\ sse_buf' = Append(sse_buf, OutItem(w, d))
      /\ out_buf' = <<>> \/ (~raw /\ out_buf' = d /\ UNCHANGED sse_buf)
  BY DEF ReadOutput, peerVars, recvVars, args
<1>2. IF out_buf' # <<>> THEN pc' = LinesOf(w) ELSE pc' \in LoopStages
  BY ProceedStage DEF ReadOutput, AfterOutput
<1>3. /\ pipe'[w] = <<>> /\ \A s \in Streams \ {w} : pipe'[s] = pipe[s]
  BY <1>1 DEF TypeOK, DataOK
<1>4. /\ t \in Seq(Nat) /\ d \in Seq(Nat) /\ Len(t) \in Nat /\ Len(d) \in Nat
      /\ Len(d) <= Len(t) /\ \A m \in 1..Len(d) : d[m] = t[Len(t) - Len(d) + m]
  BY ReadType DEF OutInv, Piped
<1>5. /\ \A s \in Streams : ~Splitting(s)
      /\ \A s \in Streams : Splitting(s)' => s = w /\ out_buf' # <<>>
  <2>1. \A s \in Streams : LinesOf(s) \notin LoopStages \cup Streams
    BY DEF LinesOf, LoopStages, Streams
  <2> QED
    BY <1>1, <1>2, <2>1, SplittingOne DEF Splitting
<1>6. \A s \in Streams : Read(s) = Len(made[s]) - Len(pipe[s]) - 0
  BY <1>5 DEF Read
<1>7. \A s \in Streams \ {w} : Read(s)' = Len(made[s]) - Len(pipe[s]) - 0
  <2> TAKE s \in Streams \ {w}
  <2>1. ~Splitting(s)' /\ made' = made /\ pipe'[s] = pipe[s]
    BY <1>1, <1>3, <1>5
  <2> QED
    BY <2>1 DEF Read
<1>8. /\ Read(w) = Len(t) - Len(d)
      /\ Read(w)' = Len(t) - IF out_buf' # <<>> THEN Len(out_buf') ELSE 0
  <2>1. Splitting(w)' <=> out_buf' # <<>>
    BY <1>2, <1>5 DEF Splitting
  <2>2. Len(pipe'[w]) = 0 /\ made' = made
    BY <1>1, <1>3
  <2>3. Read(w)' = Len(t) - 0 - IF out_buf' # <<>> THEN Len(out_buf') ELSE 0
    BY <2>1, <2>2 DEF Read
  <2>4. Len(out_buf') \in Nat
    BY <1>1, <1>4
  <2>5. Read(w) = Len(t) - Len(d) - 0
    BY <1>6
  <2> HIDE DEF d, t
  <2>6. Len(t) - 0 = Len(t) /\ Len(t) - Len(d) - 0 = Len(t) - Len(d)
    BY <1>4
  <2> QED
    BY <2>3, <2>5, <2>6, Zenon
<1> HIDE DEF d, t
<1>9. Read(w) \in Nat /\ IsPiece(d, t, Read(w))
  BY <1>4, <1>8 DEF IsPiece
<1>10. \A s \in Streams \ {w} : Read(s)' = Read(s)
  BY <1>6, <1>7
<1> QED
  BY <1>3, <1>5, <1>8, <1>9, <1>10 DEF d, t

LEMMA OutReadOutput ==
  ASSUME TypeOK, TypeOK', Bounds, Bounds', OutInv, NEW w \in Streams, ReadOutput(w)
  PROVE  OutInv'
<1> DEFINE d == pipe[w]
           t == made[w]
<1>1. /\ pc = w /\ UNCHANGED <<recv, net, wpend, raw, made>>
      /\ pipe' = [pipe EXCEPT ![w] = <<>>]
      /\ \/ UNCHANGED sse_buf
         \/ raw /\ d # <<>> /\ sse_buf' = Append(sse_buf, OutItem(w, d))
      /\ out_buf' = <<>> \/ (~raw /\ out_buf' = d /\ UNCHANGED sse_buf)
  BY DEF ReadOutput, peerVars, recvVars, args
<1>2. /\ pipe'[w] = <<>> /\ \A s \in Streams \ {w} : pipe'[s] = pipe[s]
      /\ \A s \in Streams : Splitting(s)' => s = w /\ out_buf' # <<>>
      /\ \A s \in Streams \ {w} : Read(s)' = Read(s)
  BY DrainStep
<1>3. /\ Read(w) = Len(t) - Len(d) /\ Read(w) \in Nat
      /\ Read(w)' = Len(t) - IF out_buf' # <<>> THEN Len(out_buf') ELSE 0
      /\ IsPiece(d, t, Read(w))
  BY DrainStep
<1>4. /\ t \in Seq(Nat) /\ d \in Seq(Nat) /\ Len(t) \in Nat /\ Len(d) \in Nat
      /\ Len(d) <= Len(t) /\ \A m \in 1..Len(d) : d[m] = t[Len(t) - Len(d) + m]
  BY ReadType DEF OutInv, Piped
<1> HIDE DEF d, t
<1>5. Piped'
  <2> SUFFICES ASSUME NEW s \in Streams
               PROVE  /\ Len(pipe'[s]) <= Len(made'[s])
                      /\ \A m \in 1..Len(pipe'[s]) :
                           pipe'[s][m] = made'[s][Len(made'[s]) - Len(pipe'[s]) + m]
    BY DEF Piped
  <2>m. made' = made
    BY <1>1
  <2>1. CASE s # w
    <3>1. pipe'[s] = pipe[s]
      BY <1>2, <2>1
    <3> QED
      BY <2>m, <3>1 DEF OutInv, Piped
  <2>2. CASE s = w
    <3>1. Len(pipe'[w]) = 0
      BY <1>2
    <3> QED
      BY <1>4, <2>m, <2>2, <3>1 DEF t
  <2> QED
    BY <2>1, <2>2
<1>6. Split'
  <2> SUFFICES ASSUME NEW s \in Streams, Splitting(s)'
               PROVE  Read(s)' >= 0 /\ \A m \in 1..Len(out_buf') : out_buf'[m] = made'[s][Read(s)' + m]
    BY DEF Split
  <2>1. s = w /\ out_buf' = d /\ Read(w)' = Len(t) - Len(d)
    BY <1>1, <1>2, <1>3
  <2> QED
    BY <1>1, <1>4, <2>1 DEF t
<1>7. Sent \in Seq(Item) /\ \A s \in Streams : Read(s) \in Int /\ made[s] \in Seq(Nat)
  BY SentType, ReadType
<1>8. CASE UNCHANGED sse_buf
  <2>1. Sent' = Sent
    BY <1>1, <1>8 DEF Sent
  <2>2. Ordered'
    <3> SUFFICES ASSUME NEW s \in Streams PROVE Placed(Sent', s, made'[s], Read(s)')
      BY DEF Ordered, Placed, ItemsOf, Fits, IsPiece
    <3>1. Placed(Sent, s, made[s], Read(s))
      BY DEF OutInv, Ordered
    <3>2. CASE s # w
      BY <1>1, <1>2, <2>1, <3>1, <3>2
    <3>3. CASE s = w
      <4>1. Read(w) <= Read(w)' /\ Read(w)' \in Int
        BY <1>1, <1>3, <1>4
      <4>2. Placed(Sent, w, made[w], Read(w)')
        BY <1>7, <3>1, <3>3, <4>1, PlacedTop
      <4> QED
        BY <1>1, <2>1, <3>3, <4>2
    <3> QED
      BY <3>2, <3>3
  <2>3. ~raw' => Unbroken(Sent)'
    BY <1>1, <2>1 DEF OutInv, Unbroken
  <2> QED
    BY <1>5, <1>6, <2>2, <2>3 DEF OutInv
<1>9. CASE raw /\ d # <<>> /\ sse_buf' = Append(sse_buf, OutItem(w, d)) /\ ~UNCHANGED sse_buf
  <2> DEFINE x == OutItem(w, d)
  <2>1. x \in Item /\ x.kind = w /\ x.data = d
    BY <1>4, OutItemType DEF OutItem
  <2>2. out_buf' = <<>> /\ Read(w)' = Len(t)
    BY <1>1, <1>3, <1>4, <1>9
  <2> HIDE DEF x
  <2>3. Sent' = Append(Sent, x)
    BY <1>1, <1>9, <2>1, OneMore DEF x
  <2>4. Ordered'
    <3> SUFFICES ASSUME NEW s \in Streams PROVE Placed(Sent', s, made'[s], Read(s)')
      BY DEF Ordered, Placed, ItemsOf, Fits, IsPiece
    <3>1. Placed(Sent, s, made[s], Read(s))
      BY DEF OutInv, Ordered
    <3>2. CASE s # w
      <4>1. Placed(Append(Sent, x), s, made[s], Read(s))
        BY <1>7, <2>1, <3>1, <3>2, PlacedOther
      <4> QED
        BY <1>1, <1>2, <2>3, <3>2, <4>1
    <3>3. CASE s = w
      <4> DEFINE k == Len(t) - Len(d)
      <4>1. k \in Nat /\ k + Len(d) = Len(t) /\ Read(w) = k
        BY <1>3, <1>4
      <4>2. IsPiece(x.data, t, k)
        BY <1>4, <2>1, <4>1 DEF IsPiece
      <4>3. Placed(Sent, w, t, k)
        BY <3>1, <3>3, <4>1 DEF t
      <4> HIDE DEF k
      <4>4. Placed(Append(Sent, x), w, t, k + Len(x.data))
        <5>1. k \in Nat /\ k \in Int /\ k <= k
          BY <4>1
        <5>2. x \in Item /\ x.kind = w /\ Sent \in Seq(Item) /\ t \in Seq(Nat)
          BY <1>4, <1>7, <2>1
        <5> QED
          BY <4>2, <4>3, <5>1, <5>2, PlacedNext
      <4> QED
        BY <1>1, <2>1, <2>2, <2>3, <3>3, <4>1, <4>4 DEF t
    <3> QED
      BY <3>2, <3>3
  <2> QED
    BY <1>1, <1>5, <1>6, <1>9, <2>4 DEF OutInv
<1> QED
  BY <1>1, <1>8, <1>9

----------------------------------------------------------------------------
(* The thread passes on a line.                                            *)
(* What splitting off a line does: k bytes go to sse_buf, and out_buf goes *)
(* on behind the newline, or the rest of it is dropped.                    *)
LEMMA LineStep ==
  ASSUME TypeOK, TypeOK', Bounds, OutInv, NEW w \in Streams, EmitLine(w)
  PROVE  /\ UNCHANGED <<recv, net, wpend, raw, made, pipe>>
         /\ \A s \in Streams : Splitting(s)' <=> s = w /\ out_buf' # <<>>
         /\ \A s \in Streams \ {w} : Read(s)' = Read(s)
         /\ Read(w) \in Nat /\ Read(w)' \in Nat /\ Read(w) + Len(out_buf) <= Len(made[w])
         /\ \A m \in 1..Len(out_buf) : out_buf[m] = made[w][Read(w) + m]
         /\ \E k \in 0..Len(out_buf) :
              /\ EndsAt(k)
              /\ IF k > 0 THEN sse_buf' = Append(sse_buf, OutItem(w, SubSeq(out_buf, 1, k)))
                 ELSE UNCHANGED sse_buf
              /\ sse_buf_len' = IF k > 0 THEN sse_buf_len + Frame + k ELSE sse_buf_len
              /\ out_buf' # <<>> =>
                   /\ k + 1 <= Len(out_buf) /\ MoreLines(k) /\ Len(out_buf') = Len(out_buf) - (k + 1)
                   /\ \A m \in 1..Len(out_buf) - (k + 1) : out_buf'[m] = out_buf[m + (k + 1)]
              /\ out_buf' = <<>> /\ HasRoom' /\ MoreLines(k) => k + 1 = Len(out_buf)
              /\ Read(w)' = IF out_buf' # <<>> THEN Read(w) + (k + 1) ELSE Read(w) + Len(out_buf)
              /\ Read(w) + k <= Read(w)'
<1> DEFINE t == made[w]
           n == Len(out_buf)
<1>1. pc = LinesOf(w) /\ UNCHANGED <<recv, net, wpend, raw, made, pipe>>
  BY DEF EmitLine, peerVars, recvVars, args, childVars, outVars
<1>2. PICK k \in 0..n :
        /\ EndsAt(k)
        /\ IF k > 0 THEN sse_buf' = Append(sse_buf, OutItem(w, SubSeq(out_buf, 1, k)))
           ELSE UNCHANGED sse_buf
        /\ sse_buf_len' = IF k > 0 THEN sse_buf_len + Frame + k ELSE sse_buf_len
        /\ out_buf' = IF HasRoom' /\ MoreLines(k) THEN Rest(out_buf, k + 1) ELSE <<>>
  BY DEF EmitLine
<1>3. IF out_buf' # <<>> THEN pc' = pc ELSE pc' \in LoopStages
  BY ProceedStage DEF EmitLine, AfterOutput
<1>4. /\ out_buf \in Seq(Nat) /\ n \in Nat /\ t \in Seq(Nat) /\ Len(t) \in Nat
      /\ Len(pipe[w]) \in Nat /\ Read(w) \in Int
  BY ReadType
<1>5. \A s \in Streams : /\ Splitting(s) <=> s = w
                         /\ Splitting(s)' <=> s = w /\ out_buf' # <<>>
  <2>1. \A s \in Streams : LinesOf(s) \notin LoopStages
    BY DEF LinesOf, LoopStages, Streams
  <2>2. \A s \in Streams : LinesOf(s) = LinesOf(w) <=> s = w
    BY SplittingOne
  <2> QED
    BY <1>1, <1>3, <2>1, <2>2 DEF Splitting
<1>6. /\ Read(w) = Len(t) - Len(pipe[w]) - n /\ Read(w) >= 0
      /\ \A m \in 1..n : out_buf[m] = t[Read(w) + m]
  BY <1>5 DEF OutInv, Split, Read
<1> HIDE DEF t, n
<1>7. \A s \in Streams \ {w} : Read(s)' = Read(s)
  <2> TAKE s \in Streams \ {w}
  <2>1. ~Splitting(s) /\ ~Splitting(s)' /\ made' = made /\ pipe' = pipe
    BY <1>1, <1>5
  <2> QED
    BY <2>1 DEF Read
<1>8. out_buf' # <<>> => /\ k + 1 <= n /\ out_buf' \in Seq(Nat) /\ Len(out_buf') = n - (k + 1)
                        /\ \A m \in 1..n - (k + 1) : out_buf'[m] = out_buf[m + (k + 1)]
  <2> SUFFICES ASSUME out_buf' # <<>>, out_buf' = Rest(out_buf, k + 1)
               PROVE  /\ k + 1 <= n /\ out_buf' \in Seq(Nat) /\ Len(out_buf') = n - (k + 1)
                      /\ \A m \in 1..n - (k + 1) : out_buf'[m] = out_buf[m + (k + 1)]
    BY <1>2
  <2>1. k + 1 \in Nat
    BY <1>4
  <2>2. /\ Rest(out_buf, k + 1) \in Seq(Nat)
        /\ Len(Rest(out_buf, k + 1)) = IF k + 1 <= Len(out_buf) THEN Len(out_buf) - (k + 1) ELSE 0
    BY <1>4, <2>1, RestType
  <2>3. k + 1 <= n
    <3> SUFFICES ASSUME ~(k + 1 <= n) PROVE FALSE
      OBVIOUS
    <3>1. Len(out_buf') = 0 /\ out_buf' \in Seq(Nat)
      BY <2>2 DEF n
    <3> QED
      BY <3>1, EmptySeq
  <2> QED
    BY <1>4, <2>1, <2>3, RestIs DEF n
<1>9. Read(w)' = IF out_buf' # <<>> THEN Read(w) + (k + 1) ELSE Read(w) + n
  <2>1. CASE out_buf' # <<>>
    <3>1. Read(w)' = Len(t) - Len(pipe[w]) - Len(out_buf')
      BY <1>1, <1>5, <2>1 DEF Read, t
    <3>2. Len(out_buf') = n - (k + 1)
      BY <1>8, <2>1
    <3> DEFINE p == Len(pipe[w])
               a == Len(t)
    <3>3. p \in Int /\ a \in Int /\ n \in Int /\ k \in Int
      BY <1>4
    <3>4. Read(w) = a - p - n /\ Read(w)' = a - p - (n - (k + 1))
      BY <1>6, <3>1, <3>2
    <3> HIDE DEF p, a
    <3>5. Read(w)' = Read(w) + (k + 1)
      BY <3>3, <3>4
    <3> QED
      BY <2>1, <3>5
  <2>2. CASE out_buf' = <<>>
    <3>1. Read(w)' = Len(t) - Len(pipe[w]) - 0
      BY <1>1, <1>5, <2>2 DEF Read, t
    <3> QED
      BY <1>4, <1>6, <2>2, <3>1
  <2> QED
    BY <2>1, <2>2
<1>10. Read(w)' \in Int /\ Read(w) + k <= Read(w)' /\ Read(w) + n <= Len(t) /\ k \in Nat /\ k <= n
  <2>1. k \in Nat /\ k <= n
    BY <1>4
  <2>2. Read(w) + n <= Len(t)
    BY <1>4, <1>6
  <2>3. CASE out_buf' # <<>>
    BY <1>4, <1>9, <2>1, <2>2, <2>3
  <2>4. CASE out_buf' = <<>>
    BY <1>4, <1>9, <2>1, <2>2, <2>4
  <2> QED
    BY <2>3, <2>4
<1>11. out_buf' # <<>> => MoreLines(k)
  BY <1>2
<1>12. ASSUME out_buf' = <<>>, HasRoom', MoreLines(k) PROVE k + 1 = n
  <2>1. Rest(out_buf, k + 1) = <<>> /\ k + 1 <= n /\ k + 1 \in Nat
    BY <1>2, <1>4, <1>12 DEF MoreLines, n
  <2>2. Len(Rest(out_buf, k + 1)) = n - (k + 1)
    BY <1>4, <2>1, RestType DEF n
  <2>3. Len(Rest(out_buf, k + 1)) = 0
    BY <2>1
  <2> QED
    BY <1>4, <2>1, <2>2, <2>3
<1>13. Read(w) \in Nat /\ Read(w)' \in Nat
  <2>1. Read(w) \in Int /\ Read(w) >= 0 /\ Read(w)' \in Int /\ Read(w) + k <= Read(w)' /\ k \in Nat
    BY <1>4, <1>6, <1>10
  <2> QED
    BY <2>1
<1>14. EndsAt(k) /\ IF k > 0 THEN sse_buf' = Append(sse_buf, OutItem(w, SubSeq(out_buf, 1, k)))
                    ELSE UNCHANGED sse_buf
  BY <1>2
<1>15. sse_buf_len' = IF k > 0 THEN sse_buf_len + Frame + k ELSE sse_buf_len
  BY <1>2
<1> QED
  BY <1>1, <1>5, <1>6, <1>7, <1>8, <1>9, <1>10, <1>11, <1>12, <1>13, <1>14,
     <1>15 DEF t, n

LEMMA LinePiece ==
  ASSUME TypeOK, NEW w \in Streams, NEW k \in 0..Len(out_buf), NEW t \in Seq(Nat), NEW r \in Nat,
         r + Len(out_buf) <= Len(t), \A m \in 1..Len(out_buf) : out_buf[m] = t[r + m]
  PROVE  LET x == OutItem(w, SubSeq(out_buf, 1, k))
         IN /\ x \in Item /\ x.kind = w /\ Len(x.data) = k
            /\ \A j \in 1..k : x.data[j] = out_buf[j]
            /\ IsPiece(x.data, t, r)
<1> DEFINE d == SubSeq(out_buf, 1, k)
           x == OutItem(w, d)
<1>1. out_buf \in Seq(Nat) /\ Len(out_buf) \in Nat /\ k \in Nat /\ k <= Len(out_buf)
  BY ReadType
<1>2. d \in Seq(Nat) /\ Len(d) = k /\ \A j \in 1..k : d[j] = out_buf[j]
  <2>1. SubSeq(out_buf, 0 + 1, 0 + k) \in Seq(Nat) /\ Len(SubSeq(out_buf, 0 + 1, 0 + k)) = k
    BY <1>1, PieceType
  <2>2. 0 + 1 = 1 /\ 0 + k = k
    BY <1>1
  <2>3. \A j \in 1..k : d[j] = out_buf[j]
    BY <1>1
  <2> QED
    BY <2>1, <2>2, <2>3
<1> HIDE DEF d
<1>3. x \in Item /\ x.kind = w /\ x.data = d
  BY <1>2, OutItemType DEF OutItem
<1>4. IsPiece(d, t, r)
  <2>1. r + Len(d) <= Len(t) /\ \A j \in 1..Len(d) : j \in 1..Len(out_buf)
    BY <1>1, <1>2
  <2> QED
    BY <1>2, <2>1 DEF IsPiece
<1> HIDE DEF x
<1> QED
  BY <1>2, <1>3, <1>4 DEF x, d

LEMMA OutEmitLine ==
  ASSUME TypeOK, TypeOK', Bounds, Bounds', OutInv, NEW w \in Streams, EmitLine(w)
  PROVE  OutInv'
<1> DEFINE t == made[w]
           n == Len(out_buf)
<1>1. /\ UNCHANGED <<recv, net, wpend, raw, made, pipe>>
      /\ \A s \in Streams : Splitting(s)' <=> s = w /\ out_buf' # <<>>
      /\ \A s \in Streams \ {w} : Read(s)' = Read(s)
      /\ Read(w) \in Nat /\ Read(w)' \in Nat /\ Read(w) + n <= Len(t)
      /\ \A m \in 1..n : out_buf[m] = t[Read(w) + m]
  BY LineStep
<1>2. PICK k \in 0..n :
        /\ EndsAt(k)
        /\ IF k > 0 THEN sse_buf' = Append(sse_buf, OutItem(w, SubSeq(out_buf, 1, k)))
           ELSE UNCHANGED sse_buf
        /\ out_buf' # <<>> => /\ k + 1 <= n /\ Len(out_buf') = n - (k + 1)
                              /\ \A m \in 1..n - (k + 1) : out_buf'[m] = out_buf[m + (k + 1)]
        /\ Read(w)' = IF out_buf' # <<>> THEN Read(w) + (k + 1) ELSE Read(w) + n
        /\ Read(w) + k <= Read(w)'
  BY LineStep
<1>3. t \in Seq(Nat) /\ Len(t) \in Nat /\ n \in Nat /\ k \in Nat /\ k <= n
  BY <1>2, ReadType
<1> HIDE DEF t, n
<1>4. Piped'
  BY <1>1 DEF OutInv, Piped
<1>5. Split'
  <2> SUFFICES ASSUME NEW s \in Streams, Splitting(s)'
               PROVE  Read(s)' >= 0 /\ \A m \in 1..Len(out_buf') : out_buf'[m] = made'[s][Read(s)' + m]
    BY DEF Split
  <2>1. s = w /\ out_buf' # <<>> /\ made'[w] = t
    BY <1>1 DEF t
  <2>2. Read(w)' = Read(w) + (k + 1)
    BY <1>2, <2>1
  <2>3. ASSUME NEW m \in 1..Len(out_buf') PROVE out_buf'[m] = t[Read(w)' + m]
    <3>1. m \in 1..n - (k + 1) /\ m + (k + 1) \in 1..n
      BY <1>2, <1>3, <2>1
    <3>2. out_buf'[m] = t[Read(w) + (m + (k + 1))]
      BY <1>1, <1>2, <2>1, <3>1
    <3>3. Read(w) + (m + (k + 1)) = Read(w)' + m
      BY <1>1, <1>3, <2>2
    <3> QED
      BY <3>2, <3>3
  <2> QED
    BY <1>1, <2>1, <2>3
<1>6. Sent \in Seq(Item) /\ \A s \in Streams : Read(s) \in Int /\ made[s] \in Seq(Nat)
  BY SentType, ReadType
<1>7. CASE k = 0
  <2>1. Sent' = Sent
    BY <1>1, <1>2, <1>7 DEF Sent
  <2>2. Ordered'
    <3> SUFFICES ASSUME NEW s \in Streams PROVE Placed(Sent', s, made'[s], Read(s)')
      BY DEF Ordered, Placed, ItemsOf, Fits, IsPiece
    <3>1. Placed(Sent, s, made[s], Read(s))
      BY DEF OutInv, Ordered
    <3>2. CASE s # w
      BY <1>1, <2>1, <3>1, <3>2
    <3>3. CASE s = w
      <4>1. Read(w) <= Read(w)' /\ Read(w)' \in Int
        BY <1>1, <1>2, <1>3, <1>7
      <4>2. Placed(Sent, w, made[w], Read(w)')
        BY <1>6, <3>1, <3>3, <4>1, PlacedTop
      <4> QED
        BY <1>1, <2>1, <3>3, <4>2
    <3> QED
      BY <3>2, <3>3
  <2>3. ~raw' => Unbroken(Sent)'
    BY <1>1, <2>1 DEF OutInv, Unbroken
  <2> QED
    BY <1>4, <1>5, <2>2, <2>3 DEF OutInv
<1>8. CASE k > 0
  <2> DEFINE x == OutItem(w, SubSeq(out_buf, 1, k))
  <2>1. /\ x \in Item /\ x.kind = w /\ Len(x.data) = k
        /\ \A j \in 1..k : x.data[j] = out_buf[j]
        /\ IsPiece(x.data, t, Read(w))
    <3>1. k \in 0..Len(out_buf)
      BY DEF n
    <3> QED
      BY <1>1, <1>3, <3>1, LinePiece DEF n
  <2>2. sse_buf' = Append(sse_buf, x)
    BY <1>2, <1>8
  <2> HIDE DEF x
  <2>3. Sent' = Append(Sent, x)
    BY <1>1, <2>1, <2>2, OneMore
  <2>4. Ordered'
    <3> SUFFICES ASSUME NEW s \in Streams PROVE Placed(Sent', s, made'[s], Read(s)')
      BY DEF Ordered, Placed, ItemsOf, Fits, IsPiece
    <3>1. Placed(Sent, s, made[s], Read(s))
      BY DEF OutInv, Ordered
    <3>2. CASE s # w
      <4>1. Placed(Append(Sent, x), s, made[s], Read(s))
        BY <1>6, <2>1, <3>1, <3>2, PlacedOther
      <4> QED
        BY <1>1, <2>3, <3>2, <4>1
    <3>3. CASE s = w
      <4> DEFINE r == Read(w)
      <4>1. r \in Nat /\ r \in Int /\ r <= r /\ IsPiece(x.data, t, r)
        BY <1>1, <2>1
      <4>2. Placed(Sent, w, t, r)
        BY <3>1, <3>3 DEF t
      <4>3. r + k <= Read(w)' /\ r + k \in Int /\ Len(x.data) = k
        BY <1>2, <1>3, <2>1, <4>1
      <4> HIDE DEF r
      <4>4. Placed(Append(Sent, x), w, t, r + Len(x.data))
        <5>1. x \in Item /\ x.kind = w /\ Sent \in Seq(Item) /\ t \in Seq(Nat)
          BY <1>3, <1>6, <2>1
        <5> QED
          BY <4>1, <4>2, <5>1, PlacedNext
      <4>5. Placed(Append(Sent, x), w, t, Read(w)')
        <5>1. Append(Sent, x) \in Seq(Item) /\ t \in Seq(Nat) /\ Read(w)' \in Int
          BY <1>1, <1>3, <1>6, <2>1
        <5>2. Placed(Append(Sent, x), w, t, r + k)
          BY <4>3, <4>4
        <5> QED
          BY <4>3, <5>1, <5>2, PlacedTop
      <4> QED
        BY <1>1, <2>3, <3>3, <4>5 DEF t
    <3> QED
      BY <3>2, <3>3
  <2>5. ~raw' => Unbroken(Sent)'
    <3> SUFFICES ASSUME ~raw' PROVE Unbroken(Sent)'
      OBVIOUS
    <3>1. Unbroken(Sent)
      BY <1>1 DEF OutInv
    <3>2. \A j \in 1..Len(x.data) : x.data[j] # NL
      BY <1>2, <2>1 DEF EndsAt
    <3>3. Unbroken(Append(Sent, x))
      BY <1>6, <2>1, <3>1, <3>2, UnbrokenNext
    <3> QED
      BY <2>3, <3>3 DEF Unbroken
  <2> QED
    BY <1>4, <1>5, <2>4, <2>5 DEF OutInv
<1> QED
  BY <1>3, <1>7, <1>8

----------------------------------------------------------------------------
(* Everything else leaves the output where it is, or ends the answer.      *)
LEMMA OthersRead ==
  ASSUME [Next]_vars, \A s \in Streams : ~ChildWrite(s) /\ ~ReadOutput(s) /\ ~EmitLine(s)
  PROVE  /\ UNCHANGED <<pipe, made, out_buf>>
         /\ \A s \in Streams : Splitting(s)' = Splitting(s) /\ Read(s)' = Read(s)
<1>1. UNCHANGED <<pipe, made, out_buf>> /\ (pc \in Lines \/ pc' \in Lines => pc' = pc)
  BY OnlyOutput
<1>2. \A s \in Streams : Splitting(s)' = Splitting(s)
  <2>1. \A s \in Streams : LinesOf(s) \in Lines
    BY DEF LinesOf, Lines
  <2>2. \A s \in Streams : Splitting(s)' <=> Splitting(s)
    BY <1>1, <2>1 DEF Splitting
  <2> QED
    BY <2>2 DEF Splitting
<1>3. \A s \in Streams : Read(s)' = Read(s)
  BY <1>1, <1>2 DEF Read
<1> QED
  BY <1>1, <1>2, <1>3

LEMMA OutRest ==
  ASSUME TypeOK, TypeOK', Bounds, Bounds', EInv, OutInv, [Next]_vars,
         \A s \in Streams : ~ChildWrite(s) /\ ~ReadOutput(s) /\ ~EmitLine(s)
  PROVE  OutInv'
<1>1. UNCHANGED <<pipe, made, out_buf>>
  BY OthersRead
<1>2. \A s \in Streams : Splitting(s)' = Splitting(s)
  BY OthersRead
<1>3. \A s \in Streams : Read(s)' = Read(s)
  BY OthersRead
<1>4. Piped' /\ Split'
  BY <1>1, <1>2, <1>3 DEF OutInv, Piped, Split
<1>5. raw' = raw
  BY RawFixed
<1>6. Sent \in Seq(Item) /\ \A s \in Streams : Read(s) \in Int /\ made[s] \in Seq(Nat)
  BY SentType, ReadType
<1>7. Sent' \in Seq(Item)
  <2>1. recv' \in Seq(Item) /\ net' \in Seq(Item) /\ sse_buf' \in Seq(Item) /\ wpend' \in Nat
    BY DEF TypeOK, DataOK
  <2>2. Rest(sse_buf', wpend') \in Seq(Item)
    BY <2>1, RestType
  <2> QED
    BY <2>1, <2>2 DEF Sent
<1>8. ASSUME NEW q \in Seq(Item), \A s \in Streams : Placed(q, s, made[s], Read(s)),
             ~raw => Unbroken(q), Sent' = q
      PROVE  OutInv'
  <2>1. \A s \in Streams : Placed(Sent', s, made'[s], Read(s)')
    BY <1>1, <1>3, <1>8
  <2>2. Ordered'
    BY <2>1 DEF Ordered, Placed, ItemsOf, Fits, IsPiece
  <2>3. ~raw' => Unbroken(Sent)'
    BY <1>5, <1>8 DEF Unbroken
  <2> QED
    BY <1>4, <2>2, <2>3 DEF OutInv
<1>9. \A s \in Streams : Placed(Sent, s, made[s], Read(s))
  BY DEF OutInv, Ordered
<1>10. CASE Sent' = Sent
  BY <1>6, <1>8, <1>9, <1>10 DEF OutInv
<1>11. ASSUME NEW x \in {ExitItem, FinalItem}, x \in Item, Sent' = Append(Sent, x) PROVE OutInv'
  <2>1. x.kind \notin Streams
    BY <1>11 DEF ExitItem, FinalItem, Streams
  <2> DEFINE q == Append(Sent, x)
  <2>2. \A s \in Streams : Placed(q, s, made[s], Read(s))
    BY <1>6, <1>9, <1>11, <2>1, PlacedOther
  <2>3. ~raw => Unbroken(q)
    BY <1>6, <1>11, <2>1, UnbrokenNext DEF OutInv
  <2>4. q \in Seq(Item)
    BY <1>6, <1>11
  <2> HIDE DEF q
  <2>5. Sent' = q
    BY <1>11 DEF q
  <2> QED
    BY <1>8, <2>2, <2>3, <2>4, <2>5
<1>12. ASSUME NEW r \in Seq(Item), Sent = Sent' \o r PROVE OutInv'
  <2> DEFINE q == Sent'
  <2>1. q \in Seq(Item) /\ Sent = q \o r
    BY <1>7, <1>12
  <2> HIDE DEF q
  <2>2. \A s \in Streams : Placed(q, s, made[s], Read(s))
    <3> TAKE s \in Streams
    <3>1. Placed(q \o r, s, made[s], Read(s))
      BY <1>9, <2>1
    <3>2. Read(s) \in Int /\ made[s] \in Seq(Nat)
      BY <1>6
    <3> QED
      BY <2>1, <3>1, <3>2, PlacedPrefix
  <2>3. ~raw => Unbroken(q)
    BY <2>1, UnbrokenPrefix DEF OutInv
  <2>4. Sent' = q
    BY DEF q
  <2> QED
    BY <1>8, <2>1, <2>2, <2>3, <2>4
<1> QED
  BY <1>10, <1>11, <1>12, SentStep

LEMMA OutInit == Init => OutInv
<1> SUFFICES ASSUME Init PROVE OutInv
  OBVIOUS
<1>1. /\ Sent = <<>> /\ pc = "loop"
      /\ \A s \in Streams : pipe[s] = <<>> /\ made[s] = <<>>
  BY DEF Init, Sent, Rest
<1>2. \A s \in Streams : ~Splitting(s)
  BY <1>1 DEF Splitting, LinesOf
<1>3. Piped /\ Split
  <2>1. \A s \in Streams : Len(pipe[s]) = 0 /\ Len(made[s]) = 0
    BY <1>1
  <2>2. Split
    BY <1>2 DEF Split
  <2>3. ASSUME NEW s \in Streams
        PROVE  /\ Len(pipe[s]) <= Len(made[s])
               /\ \A m \in 1..Len(pipe[s]) : pipe[s][m] = made[s][Len(made[s]) - Len(pipe[s]) + m]
    <3>1. Len(pipe[s]) = 0 /\ Len(made[s]) = 0
      BY <2>1
    <3>2. 1..0 = {} /\ 0 <= 0
      OBVIOUS
    <3>3. Len(pipe[s]) <= Len(made[s])
      BY <3>1, <3>2, Zenon
    <3>4. 1..Len(pipe[s]) = {}
      BY <3>1, <3>2, Zenon
    <3> QED
      BY <3>3, <3>4, Zenon
  <2> QED
    BY <2>2, <2>3, Zenon DEF Piped
<1>4. Ordered
  <2> SUFFICES ASSUME NEW s \in Streams PROVE Placed(<<>>, s, <<>>, Read(s))
    BY <1>1 DEF Ordered
  <2> DEFINE none == [i \in ItemsOf(<<>>, s) |-> 0]
  <2>1. ItemsOf(<<>>, s) = {}
    BY DEF ItemsOf
  <2>2. none \in [ItemsOf(<<>>, s) -> 0..Len(<<>>)]
    BY <2>1
  <2> HIDE DEF none
  <2>3. Fits(<<>>, s, <<>>, none, Read(s))
    BY <2>1 DEF Fits
  <2> QED
    BY <2>2, <2>3 DEF Placed
<1>5. Unbroken(Sent)
  BY <1>1 DEF Unbroken
<1> QED
  BY <1>3, <1>4, <1>5 DEF OutInv

LEMMA OutStep ==
  TypeOK /\ TypeOK' /\ Bounds /\ Bounds' /\ EInv /\ OutInv /\ [Next]_vars => OutInv'
BY OutChildWrite, OutReadOutput, OutEmitLine, OutRest

(* executor.c 376-388 and 409-461: the client is sent what the child wrote *)
(* to each stream, in order and nothing twice, and in SSE mode in lines,   *)
(* however often OpenSSL takes only a part of sse_buf.                     *)
THEOREM OutputInOrderHolds == Spec => []OutputInOrder
<1>1. OutInv => OutputInOrder
  <2> SUFFICES ASSUME OutInv, NEW s \in Streams
               PROVE  \E at \in Placements(Sent, s, made[s]) : InOrder(Sent, s, made[s], at)
    BY DEF OutputInOrder, OutInv
  <2>1. PICK at \in [ItemsOf(Sent, s) -> 0..Len(made[s])] : Fits(Sent, s, made[s], at, Read(s))
    BY DEF OutInv, Ordered, Placed
  <2> QED
    BY <2>1 DEF Fits, InOrder, Placements
<1> QED
  BY <1>1, TypeInit, TypeNext, LifeInit, LifeNext, EndInit, EndStep, OutInit, OutStep, PTL DEF Spec

----------------------------------------------------------------------------
(* Completeness of the output: the stages of the loop, the end of the      *)
(* streams, and why the loop was left.                                     *)
(* The stages before a stream is read, in which what poll reported of it   *)
(* still holds: only the thread takes bytes from the pipe.                 *)
Before(s) == {"sslread", "sslwrite", "stdin", "out"} \cup IF s = "err" THEN {"outlines", "err"} ELSE {}
Polled == \A s \in Streams :
  /\ s \in revents /\ pc \in Before(s) => pipe[s] # <<>> \/ s \notin fds
  /\ pc = s => s \in revents

(* A stream is done when nobody can write to it any more.                  *)
Drained == \A s \in output_done : s \notin fds /\ pipe[s] = <<>>

(* A call that saw its child exit left the loop with both streams done, or *)
(* has lost its client.                                                    *)
Finished ==
  /\ ssl_error => client = "gone"
  /\ pc \in Ended /\ child_exited /\ client # "gone" => output_done = Streams

LEMMA ProceedFrom ==
  ASSUME NEW i \in 1..7, Proceed(i)
  PROVE  /\ pc' = "sslread" => i <= 1
         /\ pc' = "sslwrite" => i <= 2
         /\ pc' = "stdin" => i <= 3
         /\ pc' = "out" => i <= 4
         /\ pc' = "err" => i <= 5
         /\ pc' \in LoopStages
         /\ \A s \in Streams : pc' = s => s \in revents'
<1>1. Len(Stages) = 7
  BY DEF Stages
<1>2. PICK j \in i..7 : pc' = Stages[j] /\ Due(Stages[j])'
  BY <1>1 DEF Proceed
<1>3. j \in 1..7
  BY <1>2
<1>4. ASSUME NEW s \in Streams, pc' = s PROVE s \in revents'
  <2>1. Stages[j] = s /\ Stages[j]' = Stages[j]
    BY <1>2, <1>4 DEF Stages
  <2>2. Due(s)'
    BY <1>2, <2>1
  <2> QED
    BY <2>2 DEF Due, Streams
<1> QED
  BY <1>2, <1>3, <1>4 DEF Stages, LoopStages

(* Who changes the streams' descriptors and what poll said of them.        *)
LEMMA StageStep ==
  ASSUME [Next]_vars
  PROVE  \/ UNCHANGED <<pc, revents, output_done>>
         \/ Poll \/ CheckExit \/ \E s \in Streams : ReadOutput(s) \/ EmitLine(s)
         \/ /\ UNCHANGED <<revents, output_done, pipe>>
            /\ \A s \in Streams : pc' \in Before(s) => pc \in Before(s)
            /\ \A s \in Streams : pc' = s => s \in revents'
<1> USE DEF Before, Streams
<1>1. CASE Client
  BY <1>1 DEF Client, ClientSend, ClientFragment, ClientClose, ClientRecv, serverVars
<1>2. CASE ProcessTree
  BY <1>2 DEF ProcessTree, ChildRead, ChildExit, ChildKilled, ChildWrite, ChildClose, serverVars
<1>3. CASE LoopEnds \/ PollError
  BY <1>3, AfterLoopStage DEF LoopEnds, PollError, childVars, outVars
<1>4. CASE WaitBlocking \/ SslWriteFails
  BY <1>4 DEF WaitBlocking, SslWriteFails, AfterLoop, Ending, LastWords, childVars, outVars
<1>5. CASE Reads
  <2>1. pc = "sslread" /\ Proceed(2) /\ UNCHANGED <<revents, output_done, pipe>>
    BY <1>5 DEF Reads, ReadHeader, ReadData, ReadLineEnd, ReadNothing, childVars, outVars
  <2> QED
    BY <2>1, ProceedFrom DEF LoopStages
<1>6. CASE SslWrite
  <2>1. pc = "sslwrite" /\ Proceed(3) /\ UNCHANGED <<revents, output_done, pipe>>
    BY <1>6 DEF SslWrite, childVars, outVars
  <2> QED
    BY <2>1, ProceedFrom DEF LoopStages
<1>7. CASE WriteStdin
  <2>1. pc = "stdin" /\ Proceed(4) /\ UNCHANGED <<revents, output_done, pipe>>
    BY <1>7 DEF WriteStdin, outVars
  <2> QED
    BY <2>1, ProceedFrom DEF LoopStages
<1>8. CASE CloseStdin
  <2>1. Proceed(7) /\ UNCHANGED <<revents, output_done, pipe>>
    BY <1>8 DEF CloseStdin, childVars, outVars
  <2> QED
    BY <2>1, ProceedFrom DEF LoopStages
<1>9. CASE Kill \/ FlushItem
  BY <1>9 DEF Kill, FlushItem, childVars, outVars
<1>10. CASE Reap
  BY <1>10, AfterLoopStage DEF Reap, outVars
<1>11. CASE FlushDone \/ SendExit \/ SendFinal \/ Return
  BY <1>11 DEF FlushDone, SendExit, SendFinal, SendLast, Return, LastWords, childVars, outVars
<1>12. CASE UNCHANGED vars
  BY <1>12 DEF vars, serverVars
<1> QED
  BY <1>1, <1>2, <1>3, <1>4, <1>5, <1>6, <1>7, <1>8, <1>9, <1>10, <1>11, <1>12
  DEF Next, Server, Returned, Reads

(* A pipe is emptied by the thread only.                                   *)
LEMMA PipeStep ==
  ASSUME TypeOK, [Next]_vars, NEW s \in Streams, ~ReadOutput(s)
  PROVE  (pipe[s] # <<>> => pipe'[s] # <<>>) /\ (s \notin fds => pipe'[s] = pipe[s])
<1>1. pipe \in [Streams -> Seq(Nat)]
  BY DEF TypeOK, DataOK
<1>2. CASE UNCHANGED pipe
  BY <1>2
<1>3. ASSUME NEW w \in Streams, ChildWrite(w)
      PROVE  (pipe[s] # <<>> => pipe'[s] # <<>>) /\ (s \notin fds => pipe'[s] = pipe[s])
  <2>1. PICK b : pipe' = [pipe EXCEPT ![w] = Append(@, b)]
    BY <1>3 DEF ChildWrite
  <2>2. w \in fds
    BY <1>3 DEF ChildWrite
  <2>3. pipe'[s] = IF s = w THEN Append(pipe[w], b) ELSE pipe[s]
    BY <1>1, <2>1
  <2>4. Append(pipe[w], b) # <<>>
    <3>1. Len(Append(pipe[w], b)) = Len(pipe[w]) + 1 /\ Len(pipe[w]) \in Nat /\ Len(<<>>) = 0
      BY <1>1
    <3> QED
      BY <3>1
  <2> QED
    BY <2>2, <2>3, <2>4
<1>4. ASSUME NEW w \in Streams, ReadOutput(w)
      PROVE  (pipe[s] # <<>> => pipe'[s] # <<>>) /\ (s \notin fds => pipe'[s] = pipe[s])
  BY <1>1, <1>4 DEF ReadOutput
<1>5. ASSUME NEW w \in Streams, EmitLine(w) PROVE UNCHANGED pipe
  BY <1>5 DEF EmitLine, childVars, outVars
<1> QED
  BY <1>2, <1>3, <1>4, <1>5, OnlyOutput

LEMMA PolledStep ==
  ASSUME TypeOK, Polled, [Next]_vars
  PROVE  Polled'
<1>1. fds' \subseteq fds
  BY FdsShrink
<1>2. ASSUME NEW s \in Streams, UNCHANGED revents, pc' \in Before(s) => pc \in Before(s),
             ~ReadOutput(s)
      PROVE  s \in revents' /\ pc' \in Before(s) => pipe'[s] # <<>> \/ s \notin fds'
  BY <1>1, <1>2, PipeStep DEF Polled
<1>3. CASE UNCHANGED <<pc, revents, output_done>>
  <2>1. ASSUME NEW s \in Streams PROVE s \in revents' /\ pc' \in Before(s) => pipe'[s] # <<>> \/ s \notin fds'
    <3>1. CASE ~ReadOutput(s)
      BY <1>2, <1>3, <3>1
    <3>2. CASE ReadOutput(s)
      <4>1. pc' # pc
        <5>1. pc = s /\ pc' \in LoopStages \cup {LinesOf(s)} /\ (pc' = s => FALSE)
          <6>1. pc = s
            BY <3>2 DEF ReadOutput
          <6>2. CASE out_buf' # <<>>
            BY <3>2, <6>1, <6>2 DEF ReadOutput, LinesOf, Streams
          <6>3. CASE out_buf' = <<>>
            BY <3>2, <6>1, <6>3, ProceedFrom DEF ReadOutput, AfterOutput, Streams, LoopStages
          <6> QED
            BY <6>1, <6>2, <6>3
        <5> QED
          BY <5>1
      <4> QED
        BY <1>3, <4>1
    <3> QED
      BY <3>1, <3>2
  <2> QED
    BY <1>3, <2>1 DEF Polled, Before
<1>4. CASE Poll
  <2>1. Proceed(1) /\ revents' = Ready /\ UNCHANGED <<pipe, fds>>
    BY <1>4 DEF Poll, childVars, outVars, procVars
  <2>2. \A s \in Streams : s \in Ready => pipe[s] # <<>> \/ s \notin fds
    BY DEF Ready, Streams
  <2> QED
    BY <2>1, <2>2, ProceedFrom DEF Polled
<1>5. CASE CheckExit
  BY <1>5 DEF CheckExit, Polled, Streams
<1>6. ASSUME NEW w \in Streams, ReadOutput(w) \/ EmitLine(w) PROVE Polled'
  <2>1. UNCHANGED revents
    BY <1>6 DEF ReadOutput, EmitLine
  <2>2. pc' = LinesOf(w) \/ AfterOutput(w)
    BY <1>6 DEF ReadOutput, EmitLine
  <2>3. pc \in {w, LinesOf(w)}
    BY <1>6 DEF ReadOutput, EmitLine
  <2>4. pc' \in IF w = "out" THEN {"outlines", "err", "eof", "waitpid"} ELSE {"errlines", "eof", "waitpid"}
    BY <2>2, ProceedFrom DEF AfterOutput, LinesOf, LoopStages
  <2>5. \A s \in Streams : pc' = s => s \in revents'
    <3>1. CASE pc' = LinesOf(w)
      BY <3>1 DEF LinesOf, Streams
    <3> QED
      BY <2>2, <3>1, ProceedFrom DEF AfterOutput
  <2>6. ASSUME NEW s \in Streams PROVE s \in revents' /\ pc' \in Before(s) => pipe'[s] # <<>> \/ s \notin fds'
    <3>1. CASE w = "out" /\ s = "err"
      <4>1. ~ReadOutput(s)
        BY <1>6, <2>3, <3>1 DEF ReadOutput, LinesOf
      <4>2. pc \in Before(s)
        BY <2>3, <3>1 DEF Before, LinesOf
      <4> QED
        BY <1>2, <2>1, <4>1, <4>2
    <3>2. CASE ~(w = "out" /\ s = "err")
      BY <2>4, <3>2 DEF Before, Streams
    <3> QED
      BY <3>1, <3>2
  <2> QED
    BY <2>5, <2>6 DEF Polled, Before
<1>7. CASE /\ UNCHANGED <<revents, output_done, pipe>>
           /\ \A s \in Streams : pc' \in Before(s) => pc \in Before(s)
           /\ \A s \in Streams : pc' = s => s \in revents'
  BY <1>1, <1>7 DEF Polled, Before
<1> QED
  BY <1>3, <1>4, <1>5, <1>6, <1>7, StageStep

LEMMA DrainedStep ==
  ASSUME TypeOK, Polled, Drained, [Next]_vars
  PROVE  Drained'
<1>1. fds' \subseteq fds
  BY FdsShrink
<1>2. ASSUME NEW s \in output_done' PROVE s \notin fds' /\ pipe'[s] = <<>>
  <2>1. s \in Streams
    <3>1. output_done \subseteq Streams
      BY DEF TypeOK, DataOK
    <3>2. \A w \in Streams : ReadOutput(w) => output_done' \subseteq output_done \cup {w}
      BY DEF ReadOutput
    <3>3. \A w \in Streams : EmitLine(w) => UNCHANGED output_done
      BY DEF EmitLine
    <3>4. Poll \/ CheckExit => UNCHANGED output_done
      BY DEF Poll, CheckExit
    <3> QED
      BY <3>1, <3>2, <3>3, <3>4, StageStep
  <2>2. CASE ReadOutput(s)
    <3>1. pipe'[s] = <<>> /\ pc = s /\ UNCHANGED fds
      BY <2>1, <2>2 DEF ReadOutput, TypeOK, DataOK, procVars
    <3>2. s \in revents /\ (pipe[s] # <<>> \/ s \notin fds)
      BY <2>1, <3>1 DEF Polled, Before, Streams
    <3>3. s \in output_done \/ pipe[s] = <<>>
      BY <2>2, <1>2 DEF ReadOutput
    <3> QED
      BY <3>1, <3>2, <3>3 DEF Drained
  <2>3. CASE ~ReadOutput(s)
    <3>1. s \in output_done
      <4>1. \A w \in Streams \ {s} : ReadOutput(w) => output_done' \subseteq output_done \cup {w}
        BY DEF ReadOutput
      <4>2. \A w \in Streams : EmitLine(w) => UNCHANGED output_done
        BY DEF EmitLine
      <4>3. Poll \/ CheckExit => UNCHANGED output_done
        BY DEF Poll, CheckExit
      <4> QED
        BY <1>2, <2>3, <4>1, <4>2, <4>3, StageStep
    <3>2. s \notin fds /\ pipe[s] = <<>>
      BY <3>1 DEF Drained
    <3> QED
      BY <1>1, <2>1, <2>3, <3>2, PipeStep
  <2> QED
    BY <2>2, <2>3
<1> QED
  BY <1>2 DEF Drained

(* A client that is gone stays away.                                       *)
LEMMA GoneStays == [Next]_vars => (client = "gone" => client' = "gone")
<1> SUFFICES ASSUME [Next]_vars PROVE client = "gone" => client' = "gone"
  OBVIOUS
<1>1. CASE Client
  BY <1>1 DEF Client, ClientSend, ClientFragment, ClientClose, ClientRecv, sendVars
<1>2. CASE ProcessTree
  BY <1>2 DEF ProcessTree, ChildRead, ChildExit, ChildKilled, ChildWrite, ChildClose,
              peerVars, sendVars
<1>3. CASE Server
  BY <1>3 DEF Server, LoopEnds, Poll, PollError, WaitBlocking, ReadHeader, ReadData,
              ReadLineEnd, ReadNothing, Take, SslWrite, SslWriteFails, WriteStdin,
              ReadOutput, EmitLine, CloseStdin, CheckExit, Kill, Reap, FlushItem, FlushDone,
              SendExit, SendFinal, SendLast, Return, peerVars, sendVars
<1>4. CASE UNCHANGED vars
  BY <1>4 DEF vars, peerVars, sendVars
<1> QED
  BY <1>1, <1>2, <1>3, <1>4 DEF Next, Returned

(* What ends the loop, and who writes its reasons down.                    *)
LEMMA ReasonStep ==
  ASSUME [Next]_vars
  PROVE  /\ ssl_error' = ssl_error \/ (ssl_error' /\ client' = "gone")
         /\ \/ child_exited' = child_exited \/ WaitBlocking \/ CheckExit
         /\ \/ output_done' = output_done \/ \E s \in Streams : ReadOutput(s)
<1>1. CASE Client
  BY <1>1 DEF Client, ClientSend, ClientFragment, ClientClose, ClientRecv, serverVars, waitVars
<1>2. CASE ProcessTree
  BY <1>2 DEF ProcessTree, ChildRead, ChildExit, ChildKilled, ChildWrite, ChildClose, serverVars,
              waitVars
<1>3. CASE LoopEnds \/ Poll \/ PollError \/ WaitBlocking
  BY <1>3 DEF LoopEnds, Poll, PollError, WaitBlocking, waitVars
<1>4. CASE Reads
  BY <1>4 DEF Reads, ReadHeader, ReadData, ReadLineEnd, ReadNothing, waitVars
<1>5. CASE SslWrite \/ SslWriteFails \/ WriteStdin
  BY <1>5 DEF SslWrite, SslWriteFails, WriteStdin, peerVars, sendVars, waitVars
<1>6. ASSUME NEW s \in Streams, ReadOutput(s)
      PROVE  UNCHANGED <<ssl_error, child_exited>>
  BY <1>6 DEF ReadOutput, waitVars
<1>7. ASSUME NEW s \in Streams, EmitLine(s)
      PROVE  UNCHANGED <<ssl_error, child_exited, output_done>>
  BY <1>7 DEF EmitLine, waitVars
<1>8. CASE CloseStdin \/ CheckExit \/ Kill \/ Reap
  BY <1>8 DEF CloseStdin, CheckExit, Kill, Reap, waitVars
<1>9. CASE FlushItem \/ FlushDone \/ SendExit \/ SendFinal \/ Return
  BY <1>9 DEF FlushItem, FlushDone, SendExit, SendFinal, SendLast, Return, waitVars
<1>10. CASE UNCHANGED vars
  BY <1>10 DEF vars, serverVars, waitVars
<1> QED
  BY <1>1, <1>2, <1>3, <1>4, <1>5, <1>6, <1>7, <1>8, <1>9, <1>10
  DEF Next, Server, Returned, Reads

LEMMA FinishedStep ==
  ASSUME Life, Life', Finished, ~PollFails, [Next]_vars
  PROVE  Finished'
<1>1. ssl_error' => client' = "gone"
  BY ReasonStep, GoneStays DEF Finished
<1>2. ASSUME pc' \in Ended, child_exited', client' # "gone" PROVE output_done' = Streams
  <2>1. client # "gone" /\ ~ssl_error' /\ ~ssl_error
    BY <1>1, <1>2, GoneStays DEF Finished
  <2>2. ~PollError
    BY DEF PollError
  <2>3. CASE pc \in Ended
    <3>1. \A s \in Streams : ~ReadOutput(s)
      BY <2>3 DEF ReadOutput, Ended, Streams
    <3>2. ~WaitBlocking /\ ~CheckExit
      BY <2>3 DEF WaitBlocking, CheckExit, Ended
    <3>3. UNCHANGED <<child_exited, output_done>>
      BY <3>1, <3>2, ReasonStep
    <3> QED
      BY <1>2, <2>1, <2>3, <3>3 DEF Finished
  <2>4. CASE LoopEnds
    <3>1. ~LoopOn /\ output_done' = output_done
      BY <2>4 DEF LoopEnds
    <3> QED
      BY <2>1, <3>1 DEF LoopOn
  <2>5. CASE WaitBlocking
    BY <2>5 DEF WaitBlocking, NoFds
  <2>6. CASE Reap
    <3>1. ~child_exited /\ child_exited' = child_exited
      BY <2>6 DEF Reap, Life
    <3> QED
      BY <1>2, <3>1
  <2>7. CASE SslWriteFails
    BY <2>1, <2>7 DEF SslWriteFails
  <2>8. CASE FlushDone \/ SendExit \/ SendFinal \/ Return
    BY <2>3, <2>8 DEF FlushDone, SendExit, SendFinal, Return, Ended
  <2> QED
    BY <1>2, <2>2, <2>3, <2>4, <2>5, <2>6, <2>7, <2>8, Places
<1> QED
  BY <1>1, <1>2 DEF Finished

----------------------------------------------------------------------------
(* Pieces without gaps.                                                    *)
(* The items of stream s in q are pieces of t that leave out, up to top,   *)
(* nothing, if whole, or what lines leave out.                             *)
Explained(missing, t, m) == t[m] = NL \/ \E n \in 1..m : t[n] = NUL /\ n..m \subseteq missing
Gapless(whole, q, s, t, at, top) ==
  \A m \in Missing(q, s, t, at) : m <= top => ~whole /\ Explained(Missing(q, s, t, at), t, m)
Filled(whole, q, s, t, top) ==
  \E at \in Placements(q, s, t) : Fits(q, s, t, at, top) /\ Gapless(whole, q, s, t, at, top)

LEMMA ItemTypes ==
  ASSUME NEW q \in Seq(Item), NEW s, NEW t \in Seq(Nat), NEW at \in Placements(q, s, t)
  PROVE  /\ Len(t) \in Nat
         /\ \A i \in ItemsOf(q, s) : /\ i \in 1..Len(q) /\ i \in Nat /\ at[i] \in Nat
                                     /\ q[i].data \in Seq(Nat) /\ Len(q[i].data) \in Nat
<1>1. \A i \in ItemsOf(q, s) : i \in 1..Len(q) /\ q[i] \in Item
  BY DEF ItemsOf
<1>2. at \in [ItemsOf(q, s) -> 0..Len(t)] /\ Len(t) \in Nat
  BY DEF Placements
<1> QED
  BY <1>1, <1>2 DEF Item

(* A longer t: the new element is missing, and behind top.                 *)
LEMMA FilledLonger ==
  ASSUME NEW whole, NEW q \in Seq(Item), NEW s, NEW t \in Seq(Nat), NEW b \in Nat,
         NEW top \in Int, top <= Len(t), Filled(whole, q, s, t, top)
  PROVE  Filled(whole, q, s, Append(t, b), top)
<1> DEFINE u == Append(t, b)
<1>1. PICK at \in Placements(q, s, t) : Fits(q, s, t, at, top) /\ Gapless(whole, q, s, t, at, top)
  BY DEF Filled
<1>2. Len(t) \in Nat /\ Len(u) = Len(t) + 1 /\ \A m \in 1..Len(t) : u[m] = t[m]
  OBVIOUS
<1> HIDE DEF u
<1>3. at \in Placements(q, s, u)
  BY <1>2 DEF Placements
<1>4. Fits(q, s, u, at, top)
  <2>1. ASSUME NEW i \in ItemsOf(q, s) PROVE IsPiece(q[i].data, u, at[i])
    <3> DEFINE d == q[i].data
               k == at[i]
    <3>1. IsPiece(d, t, k) /\ k \in Nat /\ Len(d) \in Nat
      BY <1>1, ItemTypes DEF Fits
    <3> HIDE DEF d, k
    <3>2. k + Len(d) <= Len(t) /\ \A j \in 1..Len(d) : d[j] = t[k + j]
      BY <3>1 DEF IsPiece
    <3>3. k + Len(d) <= Len(u) /\ \A j \in 1..Len(d) : k + j \in 1..Len(t)
      BY <1>2, <3>1, <3>2
    <3>4. \A j \in 1..Len(d) : d[j] = u[k + j]
      BY <1>2, <3>2, <3>3
    <3> QED
      BY <3>3, <3>4 DEF IsPiece, d, k
  <2> QED
    BY <1>1, <2>1 DEF Fits
<1>5. /\ Missing(q, s, t, at) \subseteq Missing(q, s, u, at)
      /\ \A m \in Missing(q, s, u, at) : m <= top => m \in Missing(q, s, t, at)
  BY <1>2 DEF Missing
<1>6. ASSUME NEW m \in Missing(q, s, u, at), m <= top
      PROVE  ~whole /\ Explained(Missing(q, s, u, at), u, m)
  <2>1. m \in Missing(q, s, t, at) /\ m \in 1..Len(t)
    BY <1>5, <1>6 DEF Missing
  <2>2. ~whole /\ Explained(Missing(q, s, t, at), t, m)
    BY <1>1, <1>6, <2>1 DEF Gapless
  <2>3. \A n \in 1..m : n \in 1..Len(t)
    BY <1>2, <2>1
  <2> QED
    BY <1>2, <1>5, <2>1, <2>2, <2>3 DEF Explained
<1> QED
  BY <1>3, <1>4, <1>6 DEF Filled, Gapless, u

LEMMA FilledOther ==
  ASSUME NEW whole, NEW q \in Seq(Item), NEW x \in Item, NEW s, x.kind # s, NEW t \in Seq(Nat),
         NEW top \in Int, Filled(whole, q, s, t, top)
  PROVE  Filled(whole, Append(q, x), s, t, top)
<1> DEFINE r == Append(q, x)
<1>1. ItemsOf(r, s) = ItemsOf(q, s) /\ \A i \in ItemsOf(q, s) : r[i] = q[i]
  BY DEF ItemsOf
<1> HIDE DEF r
<1>2. PICK at \in Placements(q, s, t) : Fits(q, s, t, at, top) /\ Gapless(whole, q, s, t, at, top)
  BY DEF Filled
<1>3. at \in Placements(r, s, t) /\ Fits(r, s, t, at, top)
  BY <1>1, <1>2 DEF Fits, Placements
<1>4. Missing(r, s, t, at) = Missing(q, s, t, at)
  BY <1>1 DEF Missing
<1> QED
  BY <1>2, <1>3, <1>4 DEF Filled, Gapless, r

(* The next piece begins where the last one ended.                         *)
LEMMA FilledNext ==
  ASSUME NEW whole, NEW q \in Seq(Item), NEW x \in Item, NEW s, x.kind = s, NEW t \in Seq(Nat),
         NEW top \in Nat, Filled(whole, q, s, t, top), IsPiece(x.data, t, top)
  PROVE  Filled(whole, Append(q, x), s, t, top + Len(x.data))
<1> DEFINE r == Append(q, x)
           n == Len(q) + 1
           new == top + Len(x.data)
<1>1. /\ ItemsOf(r, s) = ItemsOf(q, s) \cup {n} /\ n \notin ItemsOf(q, s) /\ n \in Nat
      /\ r[n] = x /\ \A i \in ItemsOf(q, s) : r[i] = q[i] /\ i < n
  BY DEF ItemsOf
<1>2. Len(x.data) \in Nat /\ Len(t) \in Nat /\ new \in Nat /\ new <= Len(t) /\ top \in 0..Len(t)
  BY DEF Item, IsPiece
<1>3. PICK old \in Placements(q, s, t) : Fits(q, s, t, old, top) /\ Gapless(whole, q, s, t, old, top)
  BY DEF Filled
<1>4. \A i \in ItemsOf(q, s) : i \in Nat /\ old[i] \in Nat /\ Len(q[i].data) \in Nat
  BY ItemTypes
<1>new. new = top + Len(x.data)
  OBVIOUS
<1> HIDE DEF r, n, new
<1> DEFINE at == [i \in ItemsOf(r, s) |-> IF i = n THEN top ELSE old[i]]
<1>5. old \in [ItemsOf(q, s) -> 0..Len(t)]
  BY DEF Placements
<1>6. /\ at \in [ItemsOf(r, s) -> 0..Len(t)] /\ at[n] = top
      /\ \A i \in ItemsOf(q, s) : at[i] = old[i]
  BY <1>1, <1>2, <1>5
<1> HIDE DEF at
<1>7. ASSUME NEW i \in ItemsOf(q, s)
      PROVE  /\ IsPiece(r[i].data, t, at[i])
             /\ at[i] + Len(r[i].data) <= top /\ at[i] + Len(r[i].data) <= new
  <2>1. /\ IsPiece(q[i].data, t, old[i]) /\ old[i] + Len(q[i].data) <= top
        /\ at[i] = old[i] /\ r[i] = q[i]
    BY <1>1, <1>3, <1>6 DEF Fits
  <2> QED
    BY <1>2, <1>4, <1>new, <2>1
<1>8. ASSUME NEW i \in ItemsOf(r, s), NEW j \in ItemsOf(r, s), j < i
      PROVE  at[j] + Len(r[j].data) <= at[i]
  <2>1. j \in ItemsOf(q, s)
    BY <1>1, <1>4, <1>8
  <2>2. CASE i = n
    BY <1>6, <1>7, <2>1, <2>2
  <2>3. CASE i \in ItemsOf(q, s)
    BY <1>1, <1>3, <1>6, <1>8, <2>1, <2>3 DEF Fits
  <2> QED
    BY <1>1, <2>2, <2>3
<1>9. IsPiece(r[n].data, t, at[n]) /\ at[n] + Len(r[n].data) <= new
  BY <1>1, <1>2, <1>6, <1>new
<1>10. Fits(r, s, t, at, new)
  BY <1>1, <1>7, <1>8, <1>9 DEF Fits
<1>11. \A m \in 1..Len(t) :
         m \in Missing(r, s, t, at) <=> m \in Missing(q, s, t, old) /\ m \notin top + 1..new
  <2>1. \A i \in ItemsOf(q, s) : at[i] + 1..at[i] + Len(r[i].data) = old[i] + 1..old[i] + Len(q[i].data)
    BY <1>1, <1>6
  <2>2. at[n] + 1..at[n] + Len(r[n].data) = top + 1..new
    BY <1>1, <1>6, <1>new
  <2> QED
    BY <1>1, <2>1, <2>2 DEF Missing
<1>12. ASSUME NEW m \in Missing(r, s, t, at), m <= new
       PROVE  ~whole /\ Explained(Missing(r, s, t, at), t, m)
  <2>1. m \in 1..Len(t) /\ m \in Missing(q, s, t, old) /\ m \notin top + 1..new
    <3>1. m \in 1..Len(t)
      BY DEF Missing
    <3> QED
      BY <1>11, <3>1
  <2>2. m <= top /\ m \in Nat
    BY <1>2, <1>12, <2>1
  <2>3. ~whole /\ Explained(Missing(q, s, t, old), t, m)
    BY <1>3, <2>1, <2>2 DEF Gapless
  <2>4. ASSUME NEW k \in 1..m, k..m \subseteq Missing(q, s, t, old)
        PROVE  k..m \subseteq Missing(r, s, t, at)
    <3> SUFFICES ASSUME NEW j \in k..m PROVE j \in Missing(r, s, t, at)
      OBVIOUS
    <3>1. j \in 1..Len(t) /\ j \notin top + 1..new
      BY <1>2, <2>1, <2>2
    <3> QED
      BY <1>11, <2>4, <3>1
  <2> QED
    BY <2>3, <2>4 DEF Explained
<1> QED
  BY <1>6, <1>10, <1>12 DEF Filled, Gapless, Placements, r, new

(* What is left out behind the last piece.                                 *)
LEMMA FilledGap ==
  ASSUME NEW whole, NEW q \in Seq(Item), NEW s, NEW t \in Seq(Nat),
         NEW top \in Nat, NEW new \in Nat, top <= new, Filled(whole, q, s, t, top),
         \A m \in top + 1..new : ~whole /\ (t[m] = NL \/ \E n \in top + 1..m : t[n] = NUL)
  PROVE  Filled(whole, q, s, t, new)
<1>1. PICK at \in Placements(q, s, t) : Fits(q, s, t, at, top) /\ Gapless(whole, q, s, t, at, top)
  BY DEF Filled
<1>2. /\ Len(t) \in Nat
      /\ \A i \in ItemsOf(q, s) : at[i] \in Nat /\ Len(q[i].data) \in Nat
  BY ItemTypes
<1>3. Fits(q, s, t, at, new)
  BY <1>1, <1>2 DEF Fits
<1>4. \A m \in 1..Len(t) : m > top => m \in Missing(q, s, t, at)
  BY <1>1, <1>2 DEF Missing, Fits
<1>5. ASSUME NEW m \in Missing(q, s, t, at), m <= new
      PROVE  ~whole /\ Explained(Missing(q, s, t, at), t, m)
  <2>1. m \in 1..Len(t) /\ m \in Nat
    BY <1>2 DEF Missing
  <2>2. CASE m <= top
    BY <1>1, <2>2 DEF Gapless
  <2>3. CASE m > top
    <3>1. m \in top + 1..new
      BY <1>5, <2>1, <2>3
    <3>2. CASE t[m] = NL
      BY <3>1, <3>2 DEF Explained
    <3>3. ASSUME NEW n \in top + 1..m, t[n] = NUL
          PROVE  Explained(Missing(q, s, t, at), t, m)
      <4>1. n \in 1..m /\ \A j \in n..m : j \in 1..Len(t) /\ j > top
        BY <1>2, <2>1
      <4>2. n..m \subseteq Missing(q, s, t, at)
        BY <1>4, <4>1
      <4> QED
        BY <3>3, <4>1, <4>2 DEF Explained
    <3> QED
      BY <3>1, <3>2, <3>3
  <2> QED
    BY <2>1, <2>2, <2>3
<1> QED
  BY <1>1, <1>3, <1>5 DEF Filled, Gapless

----------------------------------------------------------------------------
(* While the client is there, it is sent all the thread has read.          *)
Wanted == IF raw THEN {"out"} ELSE Streams
Covered == client # "gone" => \A s \in Wanted : Filled(raw, Sent, s, made[s], Read(s))

(* There is room in sse_buf whenever output is read for it.                *)
Room ==
  /\ raw /\ pc = "out" /\ pipe["out"] # <<>> => Kept("out", pipe["out"])
  /\ ~raw => HasRoom

LEMMA CoveredNext ==
  ASSUME client' # "gone" => \A s \in Wanted' : Filled(raw', Sent', s, made'[s], Read(s)')
  PROVE  Covered'
BY DEF Covered, Filled, Fits, Gapless, Placements, Missing, Explained, IsPiece, ItemsOf

LEMMA ReadBound ==
  ASSUME TypeOK, OutInv
  PROVE  \A s \in Streams : Read(s) <= Len(made[s]) /\ Read(s) \in Nat
<1> TAKE s \in Streams
<1> DEFINE p == Len(pipe[s])
           a == Len(made[s])
           n == Len(out_buf)
<1>1. a \in Nat /\ p \in Nat /\ n \in Nat
  BY ReadType
<1>2. p <= a /\ (Splitting(s) => Read(s) >= 0)
  BY DEF OutInv, Piped, Split
<1>3. Read(s) = a - p - IF Splitting(s) THEN n ELSE 0
  BY DEF Read
<1> HIDE DEF p, a, n
<1>4. CASE Splitting(s)
  BY <1>1, <1>2, <1>3, <1>4 DEF a
<1>5. CASE ~Splitting(s)
  BY <1>1, <1>2, <1>3, <1>5 DEF a
<1> QED
  BY <1>4, <1>5
LEMMA CoverWrite ==
  ASSUME TypeOK, TypeOK', OutInv, Covered, NEW w \in Streams, ChildWrite(w)
  PROVE  Covered'
<1>1. /\ UNCHANGED <<raw, client>> /\ Sent' = Sent
      /\ \A s \in Streams \ {w} : made'[s] = made[s]
      /\ \A s \in Streams : Read(s)' = Read(s)
  BY ByteStep
<1>2. PICK b \in Nat : made'[w] = Append(made[w], b)
  BY ByteStep
<1> SUFFICES ASSUME client # "gone", NEW s \in Wanted
             PROVE  Filled(raw, Sent, s, made'[s], Read(s))
  BY <1>1, CoveredNext DEF Wanted, Streams
<1>3. s \in Streams /\ Filled(raw, Sent, s, made[s], Read(s))
  BY DEF Covered, Wanted, Streams
<1>4. CASE s # w
  BY <1>1, <1>3, <1>4
<1>5. CASE s = w
  <2>1. made[s] \in Seq(Nat) /\ Read(s) \in Int /\ Read(s) <= Len(made[s])
    BY <1>3, ReadBound, ReadType
  <2>2. Sent \in Seq(Item)
    <3>1. recv \in Seq(Item) /\ net \in Seq(Item) /\ sse_buf \in Seq(Item) /\ wpend \in Nat
      BY DEF TypeOK, DataOK
    <3> QED
      BY <3>1, RestType DEF Sent
  <2>3. Filled(raw, Sent, s, Append(made[s], b), Read(s))
    BY <1>2, <1>3, <2>1, <2>2, FilledLonger
  <2> QED
    BY <1>2, <1>5, <2>3
<1> QED
  BY <1>4, <1>5

(* With room, everything read goes to sse_buf, or to out_buf to be split.  *)
LEMMA CoverRead ==
  ASSUME TypeOK, TypeOK', Bounds, Bounds', OutInv, Covered, Room, NEW w \in Streams, ReadOutput(w)
  PROVE  Covered'
<1> DEFINE d == pipe[w]
<1>1. /\ pc = w /\ UNCHANGED <<recv, net, wpend, raw, client, made>>
      /\ IF raw /\ d # <<>> /\ Kept(w, d) THEN sse_buf' = Append(sse_buf, OutItem(w, d))
         ELSE UNCHANGED sse_buf
      /\ out_buf' = IF raw \/ ~HasRoom THEN <<>> ELSE d
  BY DEF ReadOutput, peerVars, sendVars, recvVars, args
<1>2. /\ \A s \in Streams \ {w} : Read(s)' = Read(s)
      /\ Read(w) = Len(made[w]) - Len(d) /\ Read(w) \in Nat
      /\ Read(w)' = Len(made[w]) - IF out_buf' # <<>> THEN Len(out_buf') ELSE 0
      /\ IsPiece(d, made[w], Read(w))
  BY DrainStep
<1>3. /\ d \in Seq(Nat) /\ Len(d) \in Nat /\ Len(made[w]) \in Nat /\ made[w] \in Seq(Nat)
      /\ Sent \in Seq(Item) /\ \A s \in Streams : Read(s) \in Nat /\ made[s] \in Seq(Nat)
  BY ReadType, ReadBound, SentType
<1> HIDE DEF d
<1> SUFFICES ASSUME client # "gone", NEW s \in Wanted
             PROVE  Filled(raw, Sent', s, made[s], Read(s)')
  BY <1>1, CoveredNext DEF Wanted
<1>4. s \in Streams /\ Filled(raw, Sent, s, made[s], Read(s)) /\ (raw => s = "out")
  BY DEF Covered, Wanted, Streams
<1>5. CASE raw /\ d # <<>> /\ Kept(w, d)
  <2> DEFINE x == OutItem(w, d)
  <2>1. x \in Item /\ x.kind = w /\ x.data = d /\ sse_buf' = Append(sse_buf, x)
    BY <1>1, <1>3, <1>5, OutItemType DEF OutItem
  <2> HIDE DEF x
  <2>2. Sent' = Append(Sent, x)
    BY <1>1, <2>1, OneMore
  <2>3. CASE s = w
    <3>1. Filled(raw, Append(Sent, x), s, made[w], Read(w) + Len(x.data))
      BY <1>2, <1>3, <1>4, <2>1, <2>3, FilledNext
    <3>2. Read(w)' = Read(w) + Len(x.data)
      BY <1>1, <1>2, <1>3, <1>5, <2>1
    <3> QED
      BY <2>2, <2>3, <3>1, <3>2
  <2>4. CASE s # w
    <3>1. Filled(raw, Append(Sent, x), s, made[s], Read(s))
      BY <1>3, <1>4, <2>1, <2>4, FilledOther
    <3> QED
      BY <1>2, <1>4, <2>2, <2>4, <3>1
  <2> QED
    BY <2>3, <2>4
<1>6. CASE ~(raw /\ d # <<>> /\ Kept(w, d))
  <2>1. Sent' = Sent
    BY <1>1, <1>6 DEF Sent
  <2>2. Read(s)' = Read(s)
    <3>1. CASE s # w
      BY <1>2, <1>4, <3>1
    <3>2. CASE s = w /\ d = <<>>
      <4>1. out_buf' = <<>> /\ Len(d) = 0
        BY <1>1, <3>2
      <4> QED
        BY <1>2, <1>3, <3>2, <4>1
    <3>3. CASE s = w /\ d # <<>>
      <4>1. ~raw
        BY <1>1, <1>4, <1>6, <3>3 DEF Room, d
      <4>2. out_buf' = d
        BY <1>1, <4>1 DEF Room
      <4> QED
        BY <1>2, <1>3, <3>3, <4>2
    <3> QED
      BY <3>1, <3>2, <3>3
  <2> QED
    BY <1>4, <2>1, <2>2
<1> QED
  BY <1>5, <1>6

(* With room, lines are split off to the end of out_buf or to a NUL.       *)
LEMMA CoverLine ==
  ASSUME TypeOK, TypeOK', Bounds, Bounds', OutInv, LinesInSse, Covered, Room',
         NEW w \in Streams, EmitLine(w)
  PROVE  Covered'
<1> DEFINE t == made[w]
           n == Len(out_buf)
           r == Read(w)
<1>1. /\ UNCHANGED <<recv, net, wpend, raw, made, client>> /\ ~raw
  BY DEF EmitLine, peerVars, recvVars, sendVars, args, childVars, outVars, LinesInSse, LinesOf
<1>2. HasRoom'
  BY <1>1 DEF Room
<1>3. /\ \A s \in Streams \ {w} : Read(s)' = Read(s)
      /\ r \in Nat /\ r' \in Nat /\ r + n <= Len(t)
      /\ \A m \in 1..n : out_buf[m] = t[r + m]
  BY LineStep
<1>4. PICK k \in 0..n :
        /\ EndsAt(k)
        /\ IF k > 0 THEN sse_buf' = Append(sse_buf, OutItem(w, SubSeq(out_buf, 1, k)))
           ELSE UNCHANGED sse_buf
        /\ out_buf' # <<>> => k + 1 <= n /\ MoreLines(k)
        /\ out_buf' = <<>> /\ HasRoom' /\ MoreLines(k) => k + 1 = n
        /\ r' = IF out_buf' # <<>> THEN r + (k + 1) ELSE r + n
        /\ r + k <= r'
  BY LineStep
<1>5. /\ t \in Seq(Nat) /\ Len(t) \in Nat /\ n \in Nat /\ k \in Nat /\ k <= n
      /\ Sent \in Seq(Item) /\ \A s \in Streams : Read(s) \in Nat /\ made[s] \in Seq(Nat)
  BY <1>4, ReadType, ReadBound, SentType
<1>6. \A m \in r + k + 1..r' : t[m] = NL \/ \E i \in r + k + 1..m : t[i] = NUL
  <2>1. CASE k = n
    <3>1. r' = r + k
      BY <1>3, <1>4, <1>5, <2>1
    <3> QED
      BY <1>3, <1>5, <3>1
  <2>2. CASE k < n
    <3>1. out_buf[k + 1] \in {NL, NUL} /\ out_buf[k + 1] = t[r + (k + 1)]
      <4>1. k + 1 \in 1..n
        BY <1>5, <2>2
      <4> QED
        BY <1>3, <1>4, <2>2, <4>1 DEF EndsAt
    <3>2. r + (k + 1) = r + k + 1
      BY <1>3, <1>5
    <3>3. CASE out_buf[k + 1] = NL
      <4>1. r' = r + k + 1
        BY <1>2, <1>3, <1>4, <1>5, <2>2, <3>2, <3>3 DEF MoreLines
      <4>2. \A m \in r + k + 1..r' : m = r + k + 1
        BY <1>3, <1>5, <4>1
      <4> QED
        BY <3>1, <3>2, <3>3, <4>2
    <3>4. CASE out_buf[k + 1] = NUL
      <4>1. \A m \in r + k + 1..r' : r + k + 1 \in r + k + 1..m
        BY <1>3, <1>5
      <4> QED
        BY <3>1, <3>2, <3>4, <4>1
    <3> QED
      BY <3>1, <3>3, <3>4
  <2> QED
    BY <1>5, <2>1, <2>2
<1> HIDE DEF t, n, r
<1> SUFFICES ASSUME client # "gone", NEW s \in Streams
             PROVE  Filled(raw, Sent', s, made[s], Read(s)')
  BY <1>1, CoveredNext DEF Wanted
<1>7. Filled(raw, Sent, s, made[s], Read(s))
  BY <1>1 DEF Covered, Wanted
<1>8. ASSUME s = w, NEW q \in Seq(Item), Filled(raw, q, w, t, r + k)
      PROVE  Filled(raw, q, w, t, r')
  <2> DEFINE top == r + k
             new == r'
  <2>1. top \in Nat /\ new \in Nat /\ top <= new
    BY <1>3, <1>4, <1>5
  <2>2. \A m \in top + 1..new : ~raw /\ (t[m] = NL \/ \E i \in top + 1..m : t[i] = NUL)
    BY <1>1, <1>6
  <2> HIDE DEF top, new
  <2>3. Filled(raw, q, w, t, new)
    BY <1>5, <1>8, <2>1, <2>2, FilledGap DEF top
  <2> QED
    BY <2>3 DEF new
<1>9. CASE k = 0
  <2>1. Sent' = Sent
    BY <1>1, <1>4, <1>9 DEF Sent
  <2>2. CASE s = w
    <3>1. Filled(raw, Sent, w, t, r + k)
      <4>1. r + k = r
        BY <1>3, <1>9
      <4> QED
        BY <1>7, <2>2, <4>1 DEF t, r
    <3> QED
      BY <1>5, <1>8, <2>1, <2>2, <3>1 DEF t, r
  <2> QED
    BY <1>3, <1>7, <2>1, <2>2
<1>10. CASE k > 0
  <2> DEFINE x == OutItem(w, SubSeq(out_buf, 1, k))
  <2>1. x \in Item /\ x.kind = w /\ Len(x.data) = k /\ IsPiece(x.data, t, r)
    <3>1. k \in 0..Len(out_buf)
      BY DEF n
    <3> QED
      BY <1>3, <1>5, <3>1, LinePiece DEF n
  <2>2. sse_buf' = Append(sse_buf, x)
    BY <1>4, <1>10
  <2> HIDE DEF x
  <2>3. Sent' = Append(Sent, x) /\ Append(Sent, x) \in Seq(Item)
    BY <1>1, <1>5, <2>1, <2>2, OneMore
  <2>4. CASE s = w
    <3>1. Filled(raw, Append(Sent, x), w, t, r + Len(x.data))
      BY <1>3, <1>5, <1>7, <2>1, <2>4, FilledNext DEF t, r
    <3> QED
      BY <1>8, <2>1, <2>3, <2>4, <3>1 DEF t, r
  <2>5. CASE s # w
    <3>1. Filled(raw, Append(Sent, x), s, made[s], Read(s))
      BY <1>5, <1>7, <2>1, <2>5, FilledOther
    <3> QED
      BY <1>3, <2>3, <2>5, <3>1
  <2> QED
    BY <2>4, <2>5
<1> QED
  BY <1>5, <1>9, <1>10

(* Everything else sends on what was there, or ends the answer.            *)
LEMMA CoverRest ==
  ASSUME TypeOK, TypeOK', Bounds, Bounds', EInv, OutInv, Covered, [Next]_vars,
         \A s \in Streams : ~ChildWrite(s) /\ ~ReadOutput(s) /\ ~EmitLine(s)
  PROVE  Covered'
<1>1. raw' = raw /\ made' = made /\ (client' # "gone" => client # "gone")
  BY RawFixed, OnlyOutput, GoneStays
<1>2. \A s \in Streams : Read(s)' = Read(s)
  BY OthersRead
<1> SUFFICES ASSUME client # "gone", NEW s \in Wanted
             PROVE  Filled(raw, Sent', s, made[s], Read(s))
  BY <1>1, <1>2, CoveredNext DEF Wanted, Streams
<1>3. s \in Streams /\ Filled(raw, Sent, s, made[s], Read(s))
  BY DEF Covered, Wanted, Streams
<1>4. CASE Sent' = Sent
  BY <1>3, <1>4
<1>5. ASSUME NEW x \in {ExitItem, FinalItem}, x \in Item, Sent' = Append(Sent, x)
      PROVE  Filled(raw, Sent', s, made[s], Read(s))
  <2>1. x.kind # s
    BY <1>3 DEF ExitItem, FinalItem, Streams
  <2>2. Sent \in Seq(Item) /\ made[s] \in Seq(Nat) /\ Read(s) \in Int
    BY <1>3, SentType, ReadType
  <2>3. Filled(raw, Append(Sent, x), s, made[s], Read(s))
    BY <1>3, <1>5, <2>1, <2>2, FilledOther
  <2> QED
    BY <1>5, <2>3
<1> QED
  BY <1>4, <1>5, SentStep

LEMMA CoverInit == Init => LinesInSse /\ Polled /\ Drained /\ Finished /\ Covered
<1> SUFFICES ASSUME Init PROVE LinesInSse /\ Polled /\ Drained /\ Finished /\ Covered
  OBVIOUS
<1>1. /\ Sent = <<>> /\ pc = "loop" /\ revents = {} /\ output_done = {} /\ ~ssl_error
      /\ \A s \in Streams : pipe[s] = <<>> /\ made[s] = <<>>
  BY DEF Init, Sent, Rest
<1>2. LinesInSse /\ Polled /\ Drained /\ Finished
  BY <1>1 DEF LinesInSse, Polled, Drained, Finished, Before, Ended, Streams
<1>3. ASSUME NEW s \in Streams PROVE Filled(raw, <<>>, s, <<>>, Read(s))
  <2> DEFINE none == [i \in ItemsOf(<<>>, s) |-> 0]
  <2>1. ItemsOf(<<>>, s) = {}
    BY DEF ItemsOf
  <2>2. none \in Placements(<<>>, s, <<>>)
    BY <2>1 DEF Placements
  <2>3. Missing(<<>>, s, <<>>, none) = {}
    BY DEF Missing
  <2> HIDE DEF none
  <2>4. Fits(<<>>, s, <<>>, none, Read(s)) /\ Gapless(raw, <<>>, s, <<>>, none, Read(s))
    BY <2>1, <2>3 DEF Fits, Gapless
  <2> QED
    BY <2>2, <2>4 DEF Filled
<1> QED
  BY <1>1, <1>2, <1>3 DEF Covered, Wanted, Streams

LEMMA CoverStep ==
  TypeOK /\ TypeOK' /\ Bounds /\ Bounds' /\ EInv /\ OutInv /\ LinesInSse /\ Room /\ Room'
    /\ Covered /\ [Next]_vars => Covered'
BY CoverWrite, CoverRead, CoverLine, CoverRest

(* At the end nothing is left unread, and all of it has been sent.         *)
LEMMA CoveredComplete ==
  ASSUME TypeOK, Drained, Finished, Covered
  PROVE  OutputComplete
<1> SUFFICES ASSUME pc = "done", child_exited, client # "gone", NEW s \in Wanted
             PROVE  \E at \in Placements(Sent, s, made[s]) :
                      /\ InOrder(Sent, s, made[s], at)
                      /\ Missing(Sent, s, made[s], at)
                           = IF raw THEN {} ELSE LeftOut(Missing(Sent, s, made[s], at), made[s])
  BY DEF OutputComplete, Wanted
<1>1. s \in Streams
  BY DEF Wanted, Streams
<1>2. Read(s) = Len(made[s])
  <2>1. pipe[s] = <<>>
    BY <1>1 DEF Drained, Finished, Ended
  <2>2. ~Splitting(s)
    BY DEF Splitting, LinesOf
  <2>3. Len(pipe[s]) = 0 /\ Len(made[s]) \in Nat
    BY <1>1, <2>1, ReadType
  <2> QED
    BY <2>2, <2>3 DEF Read
<1> DEFINE t == made[s]
<1>3. PICK at \in Placements(Sent, s, t) :
        Fits(Sent, s, t, at, Len(t)) /\ Gapless(raw, Sent, s, t, at, Len(t))
  BY <1>2 DEF Covered, Filled
<1> DEFINE missing == Missing(Sent, s, t, at)
<1>4. \A m \in missing : m \in 1..Len(t) /\ Len(t) \in Nat
  BY <1>1, ReadType DEF Missing
<1>5. \A m \in missing : ~raw /\ Explained(missing, t, m)
  BY <1>3, <1>4 DEF Gapless
<1>6. InOrder(Sent, s, t, at)
  BY <1>3 DEF Fits, InOrder
<1>7. missing = IF raw THEN {} ELSE LeftOut(missing, t)
  <2> HIDE DEF missing, t
  <2> QED
    BY <1>5 DEF LeftOut, Explained
<1> QED
  BY <1>3, <1>6, <1>7

(* executor.c 409-461 and 267: a call whose child has exited has sent the  *)
(* client all the output, unless there was no room in sse_buf for some of  *)
(* it when it was read, or poll failed.                                    *)
THEOREM LossNeedsFullBuffer ==
  ASSUME ~PollFails
  PROVE  Spec /\ []Room => []OutputComplete
<1> DEFINE IInv == /\ TypeOK /\ Bounds /\ Life /\ EInv /\ OutInv
                   /\ LinesInSse /\ Polled /\ Drained /\ Finished /\ Covered
<1>1. Init => IInv
  BY TypeInit, LifeInit, EndInit, OutInit, CoverInit
<1>2. IInv /\ Room /\ Room' /\ [Next]_vars => IInv'
  <2> SUFFICES ASSUME IInv, Room, Room', [Next]_vars PROVE IInv'
    OBVIOUS
  <2>1. TypeOK' /\ Bounds' /\ Life' /\ EInv' /\ OutInv' /\ LinesInSse'
    BY TypeNext, LifeNext, EndStep, OutStep, LinesNext
  <2>2. Polled' /\ Drained' /\ Finished' /\ Covered'
    BY <2>1, PolledStep, DrainedStep, FinishedStep, CoverStep
  <2> QED
    BY <2>1, <2>2
<1>3. IInv => OutputComplete
  BY CoveredComplete
<1> QED
  BY <1>1, <1>2, <1>3, PTL DEF Spec

----------------------------------------------------------------------------
(* Output that fits into sse_buf.                                          *)
(* How much a child can write to a stream, and what fits into sse_buf      *)
(* whatever it writes, each byte on a line of its own.                     *)
Limit(s) == IF Child = "filter" /\ s = "out" THEN Len(Body) ELSE Len(Outputs[s])
Roomy == (Frame + 1) * (Limit("out") + Limit("err")) + Slack < SseCap

Framed == sse_buf_len <= (Frame + 1) * (Read("out") + Read("err"))
Limited == \A s \in Streams : Len(made[s]) <= Limit(s)

LEMMA LimitType == \A s \in Streams : Limit(s) \in Nat
BY OutputAssumption, Constants DEF Limit, Streams

LEMMA LimitedStep ==
  ASSUME TypeOK, TypeOK', OutInv, Start, Limited, [Next]_vars
  PROVE  Limited'
<1>1. CASE UNCHANGED made
  BY <1>1 DEF Limited
<1>2. ASSUME NEW w \in Streams, ChildWrite(w) PROVE Limited'
  <2>1. PICK b \in Nat : /\ made'[w] = Append(made[w], b)
                         /\ \A s \in Streams \ {w} : made'[s] = made[s]
    BY <1>2, ByteStep
  <2>2. Len(made[w]) < Len(Output(w)) /\ Len(made[w]) \in Nat /\ made[w] \in Seq(Nat)
    BY <1>2, ReadType DEF ChildWrite
  <2>3. Len(Output(w)) <= Limit(w) /\ Len(Output(w)) \in Nat /\ Limit(w) \in Nat
    <3>1. CASE Child = "filter" /\ w = "out"
      <4>1. /\ consumed \in Seq(Nat) /\ inpipe \in Seq(Nat) /\ stdin_buf \in Seq(Nat)
        BY DEF TypeOK, DataOK
      <4>2. Len(Got) = Len(consumed) + Len(inpipe) + Len(stdin_buf)
        BY <4>1 DEF Got, Fed
      <4>3. Len(consumed) \in Nat /\ Len(inpipe) \in Nat /\ Len(stdin_buf) \in Nat
        BY <4>1
      <4>4. Len(consumed) <= Len(Body)
        BY <4>2, <4>3, Constants DEF Start
      <4> QED
        BY <3>1, <4>3, <4>4, LimitType DEF Output, Limit
    <3>2. CASE ~(Child = "filter" /\ w = "out")
      BY <3>2, LimitType DEF Output, Limit
    <3> QED
      BY <3>1, <3>2
  <2>4. Len(made'[w]) = Len(made[w]) + 1
    BY <2>1, <2>2
  <2> QED
    BY <2>1, <2>2, <2>3, <2>4 DEF Limited
<1>3. ASSUME NEW w \in Streams, ReadOutput(w) \/ EmitLine(w) PROVE UNCHANGED made
  BY <1>3 DEF ReadOutput, EmitLine, childVars, outVars
<1> QED
  BY <1>1, <1>2, <1>3, OnlyOutput

LEMMA ReadBoundNext == TypeOK' /\ OutInv' => \A s \in Streams : Read(s)' \in Nat
<1>1. TypeOK /\ OutInv => \A s \in Streams : Read(s) \in Nat
  BY ReadBound
<1>2. (TypeOK /\ OutInv)' => (\A s \in Streams : Read(s) \in Nat)'
  BY <1>1, PTL
<1> QED
  BY <1>2

(* Reading k bytes makes room for an item of k bytes.                      *)
LEMMA FramedMore ==
  ASSUME NEW f \in Nat, NEW l \in Int, NEW a \in Int, NEW b \in Int, NEW k \in Nat,
         k > 0, l <= (f + 1) * a, a + k <= b
  PROVE  l + f + k <= (f + 1) * b
<1>1. (f + 1) * (a + k) <= (f + 1) * b
  BY SMTT(30)
<1>2. (f + 1) * (a + k) = (f + 1) * a + f * k + k
  BY SMTT(30)
<1>3. f <= f * k
  BY SMTT(30)
<1>4. f * k \in Int /\ (f + 1) * a \in Int /\ (f + 1) * b \in Int
  OBVIOUS
<1> QED
  BY <1>1, <1>2, <1>3, <1>4

LEMMA FramedSame ==
  ASSUME NEW f \in Nat, NEW l \in Int, NEW a \in Int, NEW b \in Int,
         l <= (f + 1) * a, a <= b
  PROVE  l <= (f + 1) * b
<1>1. (f + 1) * a <= (f + 1) * b
  BY SMTT(30)
<1>2. (f + 1) * a \in Int /\ (f + 1) * b \in Int
  OBVIOUS
<1> QED
  BY <1>1, <1>2

LEMMA SseOthers ==
  ASSUME [Next]_vars, \A s \in Streams : ~ReadOutput(s) /\ ~EmitLine(s)
  PROVE  sse_buf_len' \in {0, sse_buf_len}
<1> USE DEF sseVars
<1>1. CASE Client
  BY <1>1 DEF Client, ClientSend, ClientFragment, ClientClose, ClientRecv, serverVars
<1>2. CASE ProcessTree
  BY <1>2 DEF ProcessTree, ChildRead, ChildExit, ChildKilled, ChildWrite, ChildClose,
              serverVars
<1>3. CASE LoopEnds \/ Poll \/ PollError \/ WaitBlocking \/ ReadHeader \/ ReadData
           \/ ReadLineEnd \/ ReadNothing \/ SslWriteFails \/ WriteStdin
  BY <1>3 DEF LoopEnds, Poll, PollError, WaitBlocking, ReadHeader, ReadData,
              ReadLineEnd, ReadNothing, SslWriteFails, WriteStdin
<1>4. CASE SslWrite \/ CloseStdin \/ CheckExit \/ Kill \/ Reap \/ FlushItem \/ FlushDone
           \/ SendExit \/ SendFinal \/ Return
  BY <1>4 DEF SslWrite, CloseStdin, CheckExit, Kill, Reap, FlushItem, FlushDone,
              SendExit, SendFinal, SendLast, Return
<1>5. CASE UNCHANGED vars
  BY <1>5 DEF vars, serverVars
<1> QED
  BY <1>1, <1>2, <1>3, <1>4, <1>5 DEF Next, Server, Returned

(* What is in sse_buf has been read, by which its place is paid for.       *)
LEMMA FramedStep ==
  ASSUME TypeOK, TypeOK', Bounds, OutInv, OutInv', Framed, [Next]_vars
  PROVE  Framed'
<1> DEFINE f == Frame
           l == sse_buf_len
           a == Read("out") + Read("err")
           b == Read("out")' + Read("err")'
<1>1. /\ f \in Nat /\ l \in Nat /\ l' \in Nat
      /\ \A s \in Streams : Read(s) \in Nat /\ Read(s)' \in Nat
  <2>1. \A s \in Streams : Read(s) \in Nat
    BY ReadBound
  <2>2. \A s \in Streams : Read(s)' \in Nat
    BY ReadBoundNext
  <2> QED
    BY <2>1, <2>2, Constants DEF TypeOK, DataOK
<1>2. a \in Int /\ b \in Int /\ l \in Int
  BY <1>1 DEF Streams
<1>3. l <= (f + 1) * a
  BY DEF Framed
<1>4. ASSUME l' <= (f + 1) * b PROVE Framed'
  BY <1>4 DEF Framed
<1>5. ASSUME NEW w \in Streams, NEW k \in Nat, \A s \in Streams \ {w} : Read(s)' = Read(s),
             Read(w) + k <= Read(w)'
      PROVE  a + k <= b
  BY <1>1, <1>5 DEF Streams
<1> HIDE DEF f, l, a, b
<1>6. ASSUME NEW k \in Nat, a + k <= b,
             l' = l \/ (k > 0 /\ l' = l + f + k)
      PROVE  Framed'
  <2>1. a <= b
    BY <1>2, <1>6
  <2>2. l <= (f + 1) * b
    BY <1>1, <1>2, <1>3, <2>1, FramedSame
  <2>3. k > 0 => l + f + k <= (f + 1) * b
    BY <1>1, <1>2, <1>3, <1>6, FramedMore
  <2> QED
    BY <1>4, <1>6, <2>2, <2>3
<1>7. ASSUME NEW w \in Streams, ReadOutput(w) PROVE Framed'
  <2> DEFINE d == pipe[w]
  <2>1. /\ l' = l \/ (raw /\ d # <<>> /\ l' = l + f + Len(d))
        /\ out_buf' = <<>> \/ (~raw /\ out_buf' = d)
    BY <1>7 DEF ReadOutput, l, f
  <2>2. /\ \A s \in Streams \ {w} : Read(s)' = Read(s)
        /\ Read(w) = Len(made[w]) - Len(d) /\ Read(w) \in Nat
        /\ Read(w)' = Len(made[w]) - IF out_buf' # <<>> THEN Len(out_buf') ELSE 0
    BY <1>7, DrainStep
  <2>3. d \in Seq(Nat) /\ Len(d) \in Nat /\ Len(made[w]) \in Nat
    BY ReadType
  <2> HIDE DEF d
  <2>4. CASE raw /\ d # <<>> /\ l' = l + f + Len(d)
    <3>1. Len(d) > 0
      BY <2>3, <2>4, EmptySeq
    <3>2. Read(w) + Len(d) <= Read(w)'
      BY <2>1, <2>2, <2>3, <2>4
    <3>3. a + Len(d) <= b
      BY <1>5, <2>2, <2>3, <3>2
    <3> QED
      BY <1>6, <2>3, <2>4, <3>1, <3>3
  <2>5. CASE l' = l
    <3>1. Read(w) + 0 <= Read(w)'
      BY <2>1, <2>2, <2>3
    <3>2. a + 0 <= b
      BY <1>5, <2>2, <3>1
    <3> QED
      BY <1>6, <2>5, <3>2
  <2> QED
    BY <2>1, <2>4, <2>5
<1>8. ASSUME NEW w \in Streams, EmitLine(w) PROVE Framed'
  <2>1. PICK k \in 0..Len(out_buf) :
          /\ sse_buf_len' = IF k > 0 THEN sse_buf_len + Frame + k ELSE sse_buf_len
          /\ Read(w) + k <= Read(w)'
    BY <1>8, LineStep
  <2>2. \A s \in Streams \ {w} : Read(s)' = Read(s)
    BY <1>8, LineStep
  <2>3. k \in Nat
    BY ReadType
  <2>4. a + k <= b
    BY <1>5, <2>1, <2>2, <2>3
  <2>5. l' = l \/ (k > 0 /\ l' = l + f + k)
    BY <2>1 DEF l, f
  <2> QED
    BY <1>6, <2>3, <2>4, <2>5
<1>9. ASSUME \A s \in Streams : ~ReadOutput(s) /\ ~EmitLine(s) PROVE Framed'
  <2>1. l' \in {0, l}
    BY <1>9, SseOthers DEF l
  <2>2. \A s \in Streams : Read(s)' = Read(s)
    <3>1. ASSUME NEW w \in Streams, ChildWrite(w) PROVE \A s \in Streams : Read(s)' = Read(s)
      BY <3>1, ByteStep
    <3> QED
      BY <1>9, <3>1, OthersRead
  <2>3. a = b /\ a \in Nat
    BY <1>1, <2>2 DEF a, b, Streams
  <2>4. l' = 0 => l' <= (f + 1) * b
    <3>1. 0 <= (f + 1) * a
      BY <1>1, <2>3, FramedSame
    <3> QED
      BY <2>3, <3>1
  <2> QED
    BY <1>3, <1>4, <2>1, <2>3, <2>4
<1> QED
  BY <1>7, <1>8, <1>9

LEMMA RoomFollows ==
  ASSUME TypeOK, OutInv, LinesInSse, Framed, Limited, Roomy
  PROVE  Room
<1> DEFINE o == Read("out")
           e == Read("err")
           c == (Frame + 1) * (Limit("out") + Limit("err"))
<1>1. /\ o \in Nat /\ e \in Nat /\ o <= Limit("out") /\ e <= Limit("err")
      /\ Limit("out") \in Nat /\ Limit("err") \in Nat /\ Frame \in Nat
      /\ sse_buf_len \in Nat /\ SseCap \in Nat /\ Slack \in Nat
  <2>1. \A s \in Streams : Read(s) \in Nat /\ Read(s) <= Limit(s) /\ Limit(s) \in Nat
    <3> TAKE s \in Streams
    <3>1. Read(s) \in Nat /\ Read(s) <= Len(made[s])
      BY ReadBound
    <3>2. Len(made[s]) \in Nat /\ Limit(s) \in Nat /\ Len(made[s]) <= Limit(s)
      BY ReadType, LimitType DEF Limited
    <3> QED
      BY <3>1, <3>2
  <2> QED
    BY <2>1, Constants DEF Streams, TypeOK, DataOK
<1>2. c \in Nat /\ c + Slack < SseCap
  BY <1>1 DEF Roomy
<1>3. sse_buf_len <= (Frame + 1) * (o + e)
  BY DEF Framed
<1> HIDE DEF o, e, c
<1>4. ~raw => HasRoom
  <2>1. o + e <= Limit("out") + Limit("err")
    BY <1>1
  <2>2. o + e \in Int /\ Limit("out") + Limit("err") \in Int /\ sse_buf_len \in Int
    BY <1>1
  <2>3. sse_buf_len <= c
    BY <1>1, <1>3, <2>1, <2>2, FramedSame DEF c
  <2> QED
    BY <1>1, <1>2, <2>3 DEF HasRoom
<1>5. ASSUME raw, pc = "out", pipe["out"] # <<>> PROVE Kept("out", pipe["out"])
  <2> DEFINE k == Len(pipe["out"])
             m == Len(made["out"])
  <2>1. k \in Nat /\ m \in Nat /\ pipe["out"] \in Seq(Nat) /\ m <= Limit("out")
    BY ReadType DEF Streams, Limited
  <2>2. k > 0
    BY <1>5, <2>1, EmptySeq
  <2>3. o = m - k
    <3>1. ~Splitting("out")
      BY <1>5 DEF Splitting, LinesOf
    <3> QED
      BY <2>1, <3>1 DEF Read, o
  <2> HIDE DEF k, m
  <2>4. o + e + k <= Limit("out") + Limit("err")
    BY <1>1, <2>1, <2>3
  <2>5. o + e \in Int /\ Limit("out") + Limit("err") \in Int /\ sse_buf_len \in Int
    BY <1>1
  <2>6. sse_buf_len + Frame + k <= c
    BY <1>1, <1>3, <2>1, <2>2, <2>4, <2>5, FramedMore DEF c
  <2>7. sse_buf_len + Frame + k <= SseCap
    BY <1>1, <1>2, <2>1, <2>6
  <2> QED
    BY <2>7 DEF Kept, k
<1> QED
  BY <1>4, <1>5 DEF Room

(* The same for output that fits into sse_buf, however slowly the client   *)
(* reads and in however small pieces it is read: a call whose child has    *)
(* exited has sent it all.                                                 *)
THEOREM SmallOutputComplete ==
  ASSUME ~PollFails, Roomy
  PROVE  Spec => []OutputComplete
<1> DEFINE IInv == /\ TypeOK /\ Bounds /\ Life /\ EInv /\ OutInv
                   /\ LinesInSse /\ Framed /\ Limited
<1>1. Init => IInv
  <2> SUFFICES ASSUME Init PROVE IInv
    OBVIOUS
  <2>1. TypeOK /\ Bounds /\ Life /\ EInv /\ OutInv /\ LinesInSse
    BY TypeInit, LifeInit, EndInit, OutInit, CoverInit
  <2>2. sse_buf_len = 0 /\ \A s \in Streams : made[s] = <<>>
    BY DEF Init
  <2>3. Limited
    BY <2>2, LimitType DEF Limited
  <2>4. Framed
    <3>1. Read("out") + Read("err") \in Nat
      BY <2>1, ReadBound DEF Streams
    <3> QED
      BY <2>2, <3>1, Constants, FramedSame DEF Framed
  <2> QED
    BY <2>1, <2>3, <2>4
<1>2. IInv /\ InputInv /\ [Next]_vars => IInv'
  <2> SUFFICES ASSUME IInv, InputInv, [Next]_vars PROVE IInv'
    OBVIOUS
  <2>1. TypeOK' /\ Bounds' /\ Life' /\ EInv' /\ OutInv' /\ LinesInSse'
    BY TypeNext, LifeNext, EndStep, OutStep, LinesNext
  <2>2. Framed' /\ Limited'
    BY <2>1, FramedStep, LimitedStep DEF InputInv, Input
  <2> QED
    BY <2>1, <2>2
<1>3. IInv => Room
  BY RoomFollows
<1> QED
  BY <1>1, <1>2, <1>3, InputHolds, LossNeedsFullBuffer, PTL DEF Spec

=============================================================================
