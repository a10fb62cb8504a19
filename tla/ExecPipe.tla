------------------------------ MODULE ExecPipe ------------------------------
(***************************************************************************)
(* One call of exec_run_pipe (src/src/executor.c): POST /api/exec/pipe.    *)
(* A server thread relays the request body from a TLS connection to the    *)
(* standard input of a child process and the child's output back, with one *)
(* poll loop over at most four descriptors.                                *)
(*                                                                         *)
(* Three parties interleave: the server thread, whose program counter pc   *)
(* stops at every system call and every SSL call of the loop; the client   *)
(* with the TCP connection (unsent, sock, frag, net, recv); and the        *)
(* child's process tree (fds, pipe, made), which may be any program or,    *)
(* with Child = "filter", one that copies its input like cat.              *)
(*                                                                         *)
(* Sizes are in units: a byte of the body or of the output is one unit,    *)
(* the framing of a chunk is Frame units.  The request body is a sequence  *)
(* of tokens: a payload byte, a newline (byte NL, which may also occur in  *)
(* the payload) or the hexadecimal number of a chunk header.               *)
(***************************************************************************)
EXTENDS Integers, Sequences

CONSTANTS
  Codings,       \* the values chunked may have: whether a client sends chunks
  Modes,         \* the values raw may have
  Body,          \* the request body, a sequence of bytes
  ChunkedWire,   \* its chunked encoding, a sequence of tokens
  Outputs,       \* [out, err |-> what a child that is not a filter writes]
  Codes,         \* the exit codes a child may end with
  Child,         \* "any" or "filter"
  MaxRecord,     \* bound: tokens in one TLS record of the client
  NetCap,        \* items the socket's send buffer holds
  PipeCap,       \* capacity of a kernel pipe, and sizeof(out_buf)
  StdinCap,      \* sizeof(stdin_buf)
  SseCap,        \* sizeof(sse_buf)
  Slack,         \* the 512 of the SSE loop's test
  Frame,         \* framing of a chunk
  Faults,        \* TRUE if the client may close early
  PollFails      \* TRUE if poll may fail with another error than EINTR

Streams == {"out", "err"}
NL == 10
NUL == 0
Token == [kind : {"byte", "size"}, val : Nat]
ByteTok(b) == [kind |-> "byte", val |-> b]
SizeTok(n) == [kind |-> "size", val |-> n]
Item == [kind : {"out", "err", "exit", "final"}, data : Seq(Nat), code : Int]
Min2(a, b) == IF a < b THEN a ELSE b
Rest(s, k) == SubSeq(s, k + 1, Len(s))

(* wire is the chunked coding of body: n chunks, of which the i-th starts  *)
(* behind off[i] bytes of body, and one of size 0.  A chunk is its size, a *)
(* newline, its bytes and a newline.                                       *)
Chunk(wire, body, start, size, at) ==
  /\ wire[at + 1] = SizeTok(size) /\ wire[at + 2] = ByteTok(NL)
  /\ \A j \in 1..size : wire[at + 2 + j] = ByteTok(body[start + j])
  /\ wire[at + size + 3] = ByteTok(NL)
Layout(wire, body, n, off) ==
  /\ off[1] = 0 /\ off[n + 1] = Len(body) /\ \A i \in 1..n : off[i] < off[i + 1]
  /\ Len(wire) = Len(body) + 3 * n + 3
  /\ \A i \in 1..n : Chunk(wire, body, off[i], off[i + 1] - off[i], off[i] + 3 * (i - 1))
  /\ Chunk(wire, body, Len(body), 0, Len(body) + 3 * n)
Encodes(wire, body) ==
  \E n \in 0..Len(body) : \E off \in [1..n + 1 -> 0..Len(body)] : Layout(wire, body, n, off)

ASSUME CallAssumption == {Codings, Modes} \subseteq SUBSET BOOLEAN
ASSUME BodyAssumption == Body \in Seq(Nat)
ASSUME WireAssumption == ChunkedWire \in Seq(Token) /\ Encodes(ChunkedWire, Body)
ASSUME OutputAssumption == Outputs \in [Streams -> Seq(Nat)]
ASSUME CodeAssumption == Codes \subseteq Int
ASSUME ChildAssumption == Child \in {"any", "filter"}
ASSUME SizeAssumption ==
  /\ {MaxRecord, NetCap, PipeCap, StdinCap, SseCap, Frame} \subseteq Nat \ {0}
  /\ Slack \in Nat
ASSUME FaultAssumption == {Faults, PollFails} \subseteq BOOLEAN

VARIABLES
  chunked, raw,    \* arguments of the call; content_length is Len(Body)
  \* the client and its TCP connection
  unsent,          \* tokens the client has still to send
  sock,            \* a complete TLS record in the socket's receive queue
  frag,            \* the socket holds the beginning of a record
  client,          \* "open", "shut" (sends no more, still reads), "gone"
  net,             \* items written to the socket and not yet read
  recv,            \* items the client has read
  \* OpenSSL
  pend,            \* SSL_pending: the rest of the record being read
  wpend,           \* items of sse_buf a refused SSL_write already sent
  \* the server thread
  pc, revents, br_state, br_remaining, br_hdr, body_eof, stdin_closed,
  output_done,     \* the streams whose stdout_done or stderr_done is set
  child_exited, exit_code, ssl_error, stdin_buf, sse_buf, sse_buf_len,
  out_buf,         \* what the SSE loop has still to split into lines
  ssl_want,        \* "read", "write": ssl_want_read, ssl_want_write
  \* the child's process tree and its pipes
  child,           \* "running", "zombie" or "reaped"
  status,          \* what waitpid reports of it
  signalled,       \* SIGTERM has been sent
  fds,             \* pipe ends the process tree holds open
  inpipe, pipe,    \* bytes in the three pipes
  consumed, made   \* bytes the child has read and written

args == <<chunked, raw>>
sendVars == <<unsent, sock, frag, client>>
recvVars == <<net, recv>>
bodyVars == <<br_state, br_remaining, br_hdr, body_eof>>
sseVars == <<sse_buf, sse_buf_len, out_buf, wpend>>
waitVars == <<child_exited, exit_code>>
procVars == <<child, status, signalled, fds>>
inVars == <<inpipe, consumed>>
outVars == <<pipe, made>>
serverVars == <<pc, revents, pend, bodyVars, stdin_buf, stdin_closed, output_done,
                sseVars, ssl_want, ssl_error, waitVars>>
peerVars == <<args, sendVars, recvVars>>
childVars == <<procVars, inVars, outVars>>
vars == <<peerVars, serverVars, childVars>>

----------------------------------------------------------------------------
(* Lines 221-258.  A body of known length is sent as it is.                *)
PlainWire == [i \in 1..Len(Body) |-> ByteTok(Body[i])]
NoBody == ~chunked /\ Body = <<>>

Init ==
  /\ chunked \in Codings /\ raw \in Modes
  /\ unsent = IF chunked THEN ChunkedWire ELSE PlainWire
  /\ sock = <<>> /\ frag = FALSE /\ client = "open"
  /\ net = <<>> /\ recv = <<>> /\ pend = <<>> /\ wpend = 0
  /\ pc = "loop" /\ revents = {}
  /\ br_state = IF chunked THEN "header" ELSE IF Body # <<>> THEN "data" ELSE "done"
  /\ br_remaining = IF chunked THEN -1 ELSE Len(Body)
  /\ br_hdr = 0 /\ body_eof = NoBody /\ stdin_closed = NoBody
  /\ output_done = {} /\ child_exited = FALSE /\ exit_code = -1
  /\ ssl_error = FALSE /\ stdin_buf = <<>>
  /\ sse_buf = <<>> /\ sse_buf_len = 0 /\ out_buf = <<>> /\ ssl_want = {}
  /\ child = "running" /\ status = 0 /\ signalled = FALSE
  /\ fds = {"in", "out", "err"}
  /\ inpipe = <<>> /\ pipe = [s \in Streams |-> <<>>]
  /\ consumed = <<>> /\ made = [s \in Streams |-> <<>>]

----------------------------------------------------------------------------
(* The client.  It sends its body in TLS records of any size, reads what   *)
(* the server sends, and may close its side or the whole connection.       *)

ClientSend ==
  /\ client = "open" /\ unsent # <<>> /\ sock = <<>>
  /\ \E k \in 1..Min2(MaxRecord, Len(unsent)) :
       /\ sock' = SubSeq(unsent, 1, k)
       /\ unsent' = Rest(unsent, k)
  /\ frag' = FALSE
  /\ UNCHANGED <<args, client, recvVars, serverVars, childVars>>

ClientFragment ==
  /\ client = "open" /\ unsent # <<>> /\ sock = <<>> /\ ~frag
  /\ frag' = TRUE
  /\ UNCHANGED <<args, unsent, sock, client, recvVars, serverVars, childVars>>

ClientClose ==
  /\ Faults /\ client = "open"
  /\ client' \in {"shut", "gone"}
  /\ UNCHANGED <<args, unsent, sock, frag, recvVars, serverVars, childVars>>

ClientRecv ==
  /\ client # "gone" /\ net # <<>>
  /\ recv' = Append(recv, Head(net))
  /\ net' = Tail(net)
  /\ UNCHANGED <<args, sendVars, serverVars, childVars>>

----------------------------------------------------------------------------
(* The child's process tree: sh -c "<command>" and what it starts.  After  *)
(* the shell has exited, a background process may go on using its pipes.   *)

ChildRead ==
  /\ "in" \in fds /\ inpipe # <<>>
  /\ consumed' = Append(consumed, Head(inpipe))
  /\ inpipe' = Tail(inpipe)
  /\ UNCHANGED <<peerVars, serverVars, procVars, outVars>>

Output(s) == IF Child = "filter" /\ s = "out" THEN consumed ELSE Outputs[s]

ChildWrite(s) ==
  /\ pc # "done" /\ s \in fds /\ Len(pipe[s]) < PipeCap
  /\ Len(made[s]) < Len(Output(s))
  /\ LET b == Output(s)[Len(made[s]) + 1] IN
       /\ made' = [made EXCEPT ![s] = Append(@, b)]
       /\ pipe' = [pipe EXCEPT ![s] = Append(@, b)]
  /\ UNCHANGED <<peerVars, serverVars, procVars, inVars>>

ChildClose(f) ==
  /\ Child = "any" /\ f \in fds
  /\ fds' = fds \ {f}
  /\ UNCHANGED <<peerVars, serverVars, child, status, signalled, inVars, outVars>>

SawEof == stdin_closed /\ inpipe = <<>>

(* A filter exits when it has read and copied everything.                  *)
ChildExit ==
  /\ child = "running"
  /\ Child = "filter" => SawEof /\ \A s \in Streams : made[s] = Output(s)
  /\ child' = "zombie"
  /\ status' \in Codes
  /\ fds' \in IF Child = "filter" THEN {{}} ELSE SUBSET fds
  /\ UNCHANGED <<peerVars, serverVars, signalled, inVars, outVars>>

(* SIGTERM ends the shell, not what it started.                            *)
ChildKilled ==
  /\ child = "running" /\ signalled
  /\ child' = "zombie"
  /\ status' = -15
  /\ fds' \in IF Child = "filter" THEN {{}} ELSE SUBSET fds
  /\ UNCHANGED <<peerVars, serverVars, signalled, inVars, outVars>>

----------------------------------------------------------------------------
(* The poll loop.  Lines 260-318.                                          *)

(* Mutant: leaves the loop once the child has exited, like exec_run.       *)
LoopOnNoDrain == ~ssl_error /\ (~child_exited \/ ~stdin_closed \/ sse_buf_len > 0)

LoopOn == /\ ~ssl_error
          /\ \/ ~child_exited \/ ~stdin_closed
             \/ output_done # Streams \/ sse_buf_len > 0

NeedRead == ~body_eof /\ Len(stdin_buf) < StdinCap
PollIn == NeedRead \/ "read" \in ssl_want \/ pend # <<>>
PollOut == sse_buf_len > 0 \/ "write" \in ssl_want
PollStdin == ~stdin_closed /\ stdin_buf # <<>>
NoFds == ~PollIn /\ ~PollOut /\ ~PollStdin /\ output_done = Streams

SslReadable == sock # <<>> \/ frag \/ client # "open"
SslWritable == Len(net) < NetCap \/ client = "gone"

(* What poll would report.  POLLHUP comes for a descriptor whatever events *)
(* were asked for; the write end of a pipe whose reader is gone reports    *)
(* POLLERR, and POLLOUT only while the pipe is not full.                   *)
Ready ==
     {e \in {"sslin"}  : \/ PollIn /\ SslReadable
                         \/ PollOut /\ client = "gone"}
\cup {e \in {"sslout"} : PollOut /\ SslWritable}
\cup {e \in {"stdin"}  : PollStdin /\ Len(inpipe) < PipeCap}
\cup {e \in {"stdinerr"} : PollStdin /\ "in" \notin fds}
\cup {s \in Streams \ output_done : pipe[s] # <<>> \/ s \notin fds}

(* Mutant: always waits for the socket.                                    *)
PollTimesOutNever == FALSE
PollTimesOut == ~body_eof /\ pend # <<>> /\ Len(stdin_buf) < StdinCap

(* The calls of one iteration, in the order of the code.  pc stops at a    *)
(* stage only if the stage makes a call; the tests in between read nothing *)
(* but the thread's own variables.                                         *)
Stages == <<"sslread", "sslwrite", "stdin", "out", "err", "eof", "waitpid">>

(* The code clears ssl_want_read even when it then reads nothing, in state  *)
(* "data" without space.  The flag is never set there: it is set by a read *)
(* with space, and the space does not shrink before the next one.          *)
Space == StdinCap - Len(stdin_buf)
SslReadDue == /\ "sslin" \in revents \/ pend # <<>>
              /\ \/ br_state = "data" /\ Space > 0
                 \/ br_state \in {"header", "trailer", "final"}
(* Mutant: closes at the end of the body, before the buffer is drained.    *)
CloseDueEarly == body_eof /\ ~stdin_closed
CloseDue == body_eof /\ stdin_buf = <<>> /\ ~stdin_closed

Due(stage) ==
  CASE stage = "sslread"  -> SslReadDue
    [] stage = "sslwrite" -> "sslout" \in revents /\ sse_buf_len > 0
    [] stage = "stdin"    -> "stdin" \in revents /\ PollStdin
    [] stage \in Streams  -> stage \in revents
    [] stage = "eof"      -> CloseDue
    [] stage = "waitpid"  -> TRUE

(* To the first of the stages from the i-th on that is due.                *)
Proceed(i) ==
  \E j \in i..Len(Stages) :
    /\ pc' = Stages[j]
    /\ Due(Stages[j])'
    /\ \A k \in i..(j - 1) : ~Due(Stages[k])'

(* Where the code after the loop makes its first call.                     *)
LastWords == IF raw THEN "final" ELSE "exit"
Ending == IF ssl_error THEN "close" ELSE IF sse_buf_len > 0 THEN "flush" ELSE LastWords
(* Mutants: the child is left alone; the child is killed in every case.    *)
AfterLoopNoKill == Ending
AfterLoopAlwaysKill == "kill"
AfterLoop == IF child_exited THEN Ending ELSE "kill"

LoopEnds ==
  /\ pc = "loop" /\ ~LoopOn
  /\ pc' = AfterLoop
  /\ UNCHANGED <<peerVars, revents, pend, bodyVars, stdin_buf, stdin_closed,
                 output_done, sseVars, ssl_want, ssl_error, waitVars, childVars>>

Poll ==
  /\ pc = "loop" /\ LoopOn /\ ~NoFds
  /\ Ready # {} \/ PollTimesOut
  /\ revents' = Ready
  /\ UNCHANGED <<peerVars, pend, bodyVars, stdin_buf, stdin_closed, output_done,
                 sseVars, ssl_want, ssl_error, waitVars, childVars>>
  /\ Proceed(1)

PollError ==
  /\ PollFails
  /\ pc = "loop" /\ LoopOn /\ ~NoFds
  /\ pc' = AfterLoop
  /\ UNCHANGED <<peerVars, revents, pend, bodyVars, stdin_buf, stdin_closed,
                 output_done, sseVars, ssl_want, ssl_error, waitVars, childVars>>

(* Mutant: the status waitpid returns is not stored.                       *)
WaitBlockingNoStatus ==
  /\ pc = "loop" /\ LoopOn /\ NoFds /\ child = "zombie"
  /\ child' = "reaped" /\ child_exited' = TRUE
  /\ UNCHANGED <<peerVars, revents, pend, bodyVars, stdin_buf, stdin_closed,
                 output_done, sseVars, ssl_want, ssl_error, exit_code, status,
                 signalled, fds, inVars, outVars>>
  /\ pc' = AfterLoop'

(* Lines 301-312: nothing to poll, wait for the child and leave the loop.  *)
WaitBlocking ==
  /\ pc = "loop" /\ LoopOn /\ NoFds
  /\ IF child_exited
     THEN UNCHANGED <<waitVars, child>>
     ELSE /\ child = "zombie"
          /\ child' = "reaped"
          /\ child_exited' = TRUE
          /\ exit_code' = status
  /\ UNCHANGED <<peerVars, revents, pend, bodyVars, stdin_buf, stdin_closed,
                 output_done, sseVars, ssl_want, ssl_error, status, signalled,
                 fds, inVars, outVars>>
  /\ pc' = AfterLoop'

----------------------------------------------------------------------------
(* Reading the body.  Lines 320-374.                                       *)

(* SSL_read returns bytes of one record at a time.                         *)
Avail == IF pend # <<>> THEN pend ELSE sock
Take(k) ==
  /\ pend' = Rest(Avail, k)
  /\ sock' = IF pend # <<>> THEN sock ELSE <<>>
  /\ ssl_want' = ssl_want \ {"read"}
  /\ UNCHANGED <<unsent, frag, client>>

ReadHeader ==
  /\ pc = "sslread" /\ br_state = "header" /\ Avail # <<>>
  /\ Take(1)
  /\ IF Head(Avail) = ByteTok(NL)
     THEN /\ br_remaining' = br_hdr
          /\ br_hdr' = 0
          /\ br_state' = IF br_hdr = 0 THEN "final" ELSE "data"
     ELSE /\ br_hdr' = IF Head(Avail).kind = "size" THEN Head(Avail).val ELSE br_hdr
          /\ UNCHANGED <<br_remaining, br_state>>
  /\ UNCHANGED <<args, recvVars, revents, body_eof, stdin_buf, stdin_closed,
                 output_done, sseVars, ssl_error, waitVars, childVars>>
  /\ Proceed(2)

(* Mutant: reads up to the free space, past the end of the chunk.          *)
DataLenUnbounded == Min2(Space, Len(Avail))
DataLen == Min2(Min2(br_remaining, Space), Len(Avail))

ReadData ==
  /\ pc = "sslread" /\ br_state = "data" /\ Avail # <<>>
  /\ LET n == DataLen IN
       /\ Take(n)
       /\ stdin_buf' = stdin_buf \o [i \in 1..n |-> Avail[i].val]
       /\ br_remaining' = br_remaining - n
  /\ br_state' = IF br_remaining' # 0 THEN "data"
                 ELSE IF chunked THEN "trailer" ELSE "done"
  /\ body_eof' = (br_state' = "done")
  /\ UNCHANGED <<args, recvVars, revents, br_hdr, stdin_closed, output_done,
                 sseVars, ssl_error, waitVars, childVars>>
  /\ Proceed(2)

(* The newline after a chunk's data, and the empty line after chunk 0.     *)
ReadLineEnd ==
  /\ pc = "sslread" /\ br_state \in {"trailer", "final"} /\ Avail # <<>>
  /\ Take(1)
  /\ br_state' = IF Head(Avail) # ByteTok(NL) THEN br_state
                 ELSE IF br_state = "trailer" THEN "header" ELSE "done"
  /\ body_eof' = (br_state' = "done")
  /\ UNCHANGED <<args, recvVars, revents, br_remaining, br_hdr, stdin_buf,
                 stdin_closed, output_done, sseVars, ssl_error, waitVars, childVars>>
  /\ Proceed(2)

(* No complete record: WANT_READ, or the end of the connection, which ends *)
(* the body wherever it is.                                                *)
ReadNothing ==
  /\ pc = "sslread" /\ Avail = <<>>
  /\ IF client = "open"
     THEN /\ ssl_want' = ssl_want \cup {"read"}
          /\ frag' = FALSE
          /\ UNCHANGED <<body_eof, br_state>>
     ELSE /\ body_eof' = TRUE /\ br_state' = "done"
          /\ ssl_want' = ssl_want \ {"read"}
          /\ UNCHANGED frag
  /\ UNCHANGED <<args, unsent, sock, client, recvVars, revents, pend,
                 br_remaining, br_hdr, stdin_buf, stdin_closed, output_done,
                 sseVars, ssl_error, waitVars, childVars>>
  /\ Proceed(2)

----------------------------------------------------------------------------
(* Writing the response.  Lines 376-388.  Without partial writes SSL_write *)
(* succeeds when everything is in the socket; refused, it remembers how    *)
(* much it sent, and the next call continues there.                        *)

(* Mutant: a refused write starts again from the beginning.                *)
AlreadySentForgotten == 0
AlreadySent == wpend

SslWrite ==
  /\ pc = "sslwrite" /\ client # "gone"
  /\ LET todo == Len(sse_buf) - AlreadySent
         k == Min2(NetCap - Len(net), todo) IN
       /\ net' = net \o SubSeq(sse_buf, AlreadySent + 1, AlreadySent + k)
       /\ IF k = todo
          THEN /\ sse_buf' = <<>> /\ sse_buf_len' = 0 /\ wpend' = 0
               /\ ssl_want' = ssl_want \ {"write"}
          ELSE /\ wpend' = AlreadySent + k
               /\ ssl_want' = ssl_want \cup {"write"}
               /\ UNCHANGED <<sse_buf, sse_buf_len>>
  /\ UNCHANGED <<args, sendVars, recv, revents, pend, bodyVars, stdin_buf,
                 stdin_closed, output_done, out_buf, ssl_error, waitVars, childVars>>
  /\ Proceed(3)

SslWriteFails ==
  /\ pc = "sslwrite" /\ client = "gone"
  /\ ssl_error' = TRUE
  /\ ssl_want' = ssl_want \ {"write"}
  /\ UNCHANGED <<peerVars, revents, pend, bodyVars, stdin_buf, stdin_closed,
                 output_done, sseVars, waitVars, childVars>>
  /\ pc' = AfterLoop'

----------------------------------------------------------------------------
(* Feeding the child.  Lines 390-407: EPIPE closes the pipe and leaves the *)
(* rest of the body in stdin_buf.                                          *)

(* What is left of stdin_buf after a write of n bytes.  Mutant: a short    *)
(* write is taken for a complete one.                                      *)
UnwrittenNone(n) == <<>>
Unwritten(n) == Rest(stdin_buf, n)

WriteStdin ==
  /\ pc = "stdin"
  /\ IF "in" \in fds
     THEN LET n == Min2(PipeCap - Len(inpipe), Len(stdin_buf)) IN
            /\ inpipe' = inpipe \o SubSeq(stdin_buf, 1, n)
            /\ stdin_buf' = Unwritten(n)
            /\ UNCHANGED stdin_closed
     ELSE /\ stdin_closed' = TRUE
          /\ UNCHANGED <<inpipe, stdin_buf>>
  /\ UNCHANGED <<peerVars, revents, pend, bodyVars, output_done, sseVars, ssl_want,
                 ssl_error, waitVars, procVars, consumed, outVars>>
  /\ Proceed(4)

----------------------------------------------------------------------------
(* Reading the child's output.  Lines 409-461.                             *)

AfterOutput(s) == IF s = "out" THEN Proceed(5) ELSE Proceed(6)
LinesOf(s) == IF s = "out" THEN "outlines" ELSE "errlines"
OutItem(s, d) == [kind |-> s, data |-> d, code |-> 0]

(* Raw mode drops stderr, and a chunk for which sse_buf has no room; SSE   *)
(* mode drops the lines that follow once HasRoom is false.                 *)
Kept(s, d) == s = "out" /\ sse_buf_len + Frame + Len(d) <= SseCap
(* Mutant: the loop looks for a line only.                                 *)
HasRoomAlways == TRUE
HasRoom == sse_buf_len < SseCap - Slack

ReadOutput(s) ==
  /\ pc = s
  /\ LET d == pipe[s] IN
       /\ pipe' = [pipe EXCEPT ![s] = <<>>]
       /\ output_done' = IF d = <<>> THEN output_done \cup {s} ELSE output_done
       /\ IF raw /\ d # <<>> /\ Kept(s, d)
          THEN /\ sse_buf' = Append(sse_buf, OutItem(s, d))
               /\ sse_buf_len' = sse_buf_len + Frame + Len(d)
          ELSE UNCHANGED <<sse_buf, sse_buf_len>>
       /\ out_buf' = IF raw \/ ~HasRoom THEN <<>> ELSE d
  /\ UNCHANGED <<peerVars, revents, pend, bodyVars, stdin_buf, stdin_closed, wpend,
                 ssl_want, ssl_error, waitVars, procVars, inVars, made>>
  /\ IF out_buf' # <<>> THEN pc' = LinesOf(s) ELSE AfterOutput(s)

(* Lines 440-454: one event for each line that is not empty; k is the      *)
(* length of the next line.  A NUL ends the line and the search for more:  *)
(* the rest of what was read is dropped.                                   *)
EndsAt(k) == /\ \A i \in 1..k : out_buf[i] \notin {NL, NUL}
             /\ k < Len(out_buf) => out_buf[k + 1] \in {NL, NUL}
MoreLines(k) == k < Len(out_buf) /\ out_buf[k + 1] = NL

EmitLine(s) ==
  /\ pc = LinesOf(s)
  /\ \E k \in 0..Len(out_buf) :
       /\ EndsAt(k)
       /\ IF k > 0
          THEN /\ sse_buf' = Append(sse_buf, OutItem(s, SubSeq(out_buf, 1, k)))
               /\ sse_buf_len' = sse_buf_len + Frame + k
          ELSE UNCHANGED <<sse_buf, sse_buf_len>>
       /\ out_buf' = IF HasRoom' /\ MoreLines(k) THEN Rest(out_buf, k + 1) ELSE <<>>
  /\ UNCHANGED <<peerVars, revents, pend, bodyVars, stdin_buf, stdin_closed,
                 output_done, wpend, ssl_want, ssl_error, waitVars, childVars>>
  /\ IF out_buf' # <<>> THEN UNCHANGED pc ELSE AfterOutput(s)

----------------------------------------------------------------------------
(* The end of an iteration.  Lines 463-478.                                *)

CloseStdin ==
  /\ pc = "eof"
  /\ stdin_closed' = TRUE
  /\ UNCHANGED <<peerVars, revents, pend, bodyVars, stdin_buf, output_done, sseVars,
                 ssl_want, ssl_error, waitVars, childVars>>
  /\ Proceed(7)

CheckExit ==
  /\ pc = "waitpid"
  /\ IF ~child_exited /\ child = "zombie"
     THEN /\ child' = "reaped"
          /\ child_exited' = TRUE
          /\ exit_code' = status
     ELSE UNCHANGED <<waitVars, child>>
  /\ pc' = "loop" /\ revents' = {}
  /\ UNCHANGED <<peerVars, pend, bodyVars, stdin_buf, stdin_closed, output_done,
                 sseVars, ssl_want, ssl_error, status, signalled, fds, inVars, outVars>>

----------------------------------------------------------------------------
(* After the loop.  Lines 481-515.                                         *)

Kill ==
  /\ pc = "kill"
  /\ signalled' = TRUE
  /\ pc' = "reap"
  /\ UNCHANGED <<peerVars, revents, pend, bodyVars, stdin_buf, stdin_closed, output_done,
                 sseVars, ssl_want, ssl_error, waitVars, child, status, fds, inVars, outVars>>

Reap ==
  /\ pc = "reap" /\ child = "zombie"
  /\ child' = "reaped"
  /\ exit_code' = -1
  /\ pc' = Ending
  /\ UNCHANGED <<peerVars, revents, pend, bodyVars, stdin_buf, stdin_closed, output_done,
                 sseVars, ssl_want, ssl_error, child_exited, status, signalled, fds,
                 inVars, outVars>>

(* The socket is blocking again: the writes below wait for the client, and *)
(* fail, unnoticed, when it is gone.                                       *)
Flushed == client = "gone" \/ wpend = Len(sse_buf)

FlushItem ==
  /\ pc = "flush" /\ ~Flushed /\ Len(net) < NetCap
  /\ net' = Append(net, sse_buf[wpend + 1])
  /\ wpend' = wpend + 1
  /\ UNCHANGED <<args, sendVars, recv, pc, revents, pend, bodyVars, stdin_buf,
                 stdin_closed, output_done, sse_buf, sse_buf_len, out_buf, ssl_want,
                 ssl_error, waitVars, childVars>>

FlushDone ==
  /\ pc = "flush" /\ Flushed
  /\ sse_buf' = <<>> /\ sse_buf_len' = 0 /\ wpend' = 0
  /\ pc' = LastWords
  /\ UNCHANGED <<peerVars, revents, pend, bodyVars, stdin_buf, stdin_closed, output_done,
                 out_buf, ssl_want, ssl_error, waitVars, childVars>>

ExitItem == [kind |-> "exit", data |-> <<>>, code |-> exit_code]
FinalItem == [kind |-> "final", data |-> <<>>, code |-> 0]

SendLast(item) ==
  /\ \/ client = "gone" /\ UNCHANGED net
     \/ client # "gone" /\ Len(net) < NetCap /\ net' = Append(net, item)
  /\ UNCHANGED <<args, sendVars, recv, revents, pend, bodyVars, stdin_buf, stdin_closed,
                 output_done, sseVars, ssl_want, ssl_error, waitVars, childVars>>

SendExit == pc = "exit" /\ pc' = "final" /\ SendLast(ExitItem)
SendFinal == pc = "final" /\ pc' = "close" /\ SendLast(FinalItem)

Return ==
  /\ pc = "close"
  /\ stdin_closed' = TRUE
  /\ pc' = "done"
  /\ UNCHANGED <<peerVars, revents, pend, bodyVars, stdin_buf, output_done, sseVars,
                 ssl_want, ssl_error, waitVars, childVars>>

----------------------------------------------------------------------------
Client == ClientSend \/ ClientFragment \/ ClientClose \/ ClientRecv

ProcessTree ==
  \/ ChildRead \/ ChildExit \/ ChildKilled
  \/ \E s \in Streams : ChildWrite(s)
  \/ \E f \in {"in", "out", "err"} : ChildClose(f)

Server ==
  \/ LoopEnds \/ Poll \/ PollError \/ WaitBlocking
  \/ ReadHeader \/ ReadData \/ ReadLineEnd \/ ReadNothing
  \/ SslWrite \/ SslWriteFails
  \/ WriteStdin
  \/ \E s \in Streams : ReadOutput(s) \/ EmitLine(s)
  \/ CloseStdin \/ CheckExit
  \/ Kill \/ Reap \/ FlushItem \/ FlushDone \/ SendExit \/ SendFinal \/ Return

Returned == pc = "done" /\ UNCHANGED vars

Next == Client \/ ProcessTree \/ Server \/ Returned

Spec == Init /\ [][Next]_vars

(* The thread is scheduled, the client sends its body and reads what comes, *)
(* and the child, a filter in the runs that use this, does its work.        *)
Fairness ==
  /\ WF_vars(Server)
  /\ WF_vars(ClientSend) /\ WF_vars(ClientRecv)
  /\ WF_vars(ChildRead) /\ WF_vars(ChildExit) /\ WF_vars(ChildKilled)
  /\ \A s \in Streams : WF_vars(ChildWrite(s))

FairSpec == Spec /\ Fairness

----------------------------------------------------------------------------
(* Every variable has its type, and a chunk being read is not yet at its   *)
(* end.                                                                    *)
FlagsOK ==
  /\ chunked \in BOOLEAN /\ raw \in BOOLEAN /\ frag \in BOOLEAN
  /\ body_eof \in BOOLEAN /\ stdin_closed \in BOOLEAN
  /\ child_exited \in BOOLEAN /\ ssl_error \in BOOLEAN /\ signalled \in BOOLEAN

DataOK ==
  /\ unsent \in Seq(Token) /\ sock \in Seq(Token) /\ pend \in Seq(Token)
  /\ client \in {"open", "shut", "gone"}
  /\ net \in Seq(Item) /\ recv \in Seq(Item)
  /\ pc \in {"loop", "sslread", "sslwrite", "stdin", "out", "outlines", "err",
             "errlines", "eof", "waitpid", "kill", "reap", "flush", "exit",
             "final", "close", "done"}
  /\ revents \subseteq {"sslin", "sslout", "stdin", "stdinerr", "out", "err"}
  /\ br_state \in {"header", "data", "trailer", "final", "done"}
  /\ br_remaining \in Int /\ br_hdr \in Nat
  /\ br_state = "data" => br_remaining > 0
  /\ output_done \subseteq Streams /\ exit_code \in Int
  /\ stdin_buf \in Seq(Nat) /\ out_buf \in Seq(Nat)
  /\ sse_buf \in Seq(Item) /\ sse_buf_len \in Nat /\ wpend \in Nat
  /\ ssl_want \subseteq {"read", "write"}
  /\ child \in {"running", "zombie", "reaped"} /\ status \in Int
  /\ fds \subseteq {"in", "out", "err"}
  /\ inpipe \in Seq(Nat) /\ pipe \in [Streams -> Seq(Nat)]
  /\ consumed \in Seq(Nat) /\ made \in [Streams -> Seq(Nat)]

TypeOK == FlagsOK /\ DataOK

(* What the child has read or can read, and with it what the server holds  *)
(* for the child, is the beginning of the body: no byte of a chunk header  *)
(* reaches the child, none is lost, doubled or moved, however the body is  *)
(* cut into chunks, TLS records and pipe writes.                           *)
Fed == consumed \o inpipe
IsStart(s, t) == Len(s) <= Len(t) /\ s = SubSeq(t, 1, Len(s))
StdinFaithful == IsStart(Fed \o stdin_buf, Body)

(* A child that still holds its standard input sees end of file only after *)
(* the whole body, unless the client broke off.                            *)
CleanEof ==
  stdin_closed /\ pc # "done" /\ client = "open" /\ "in" \in fds => Fed = Body

(* sse_buf_len stays within sse_buf: in raw mode always, in SSE mode as    *)
(* long as no line is longer than the 512 bytes the loop keeps free.       *)
BufferBound ==
  /\ raw => sse_buf_len <= SseCap
  /\ ~raw /\ Frame + PipeCap <= Slack + 1 => sse_buf_len <= SseCap

(* The call returns only after it has reaped its child.                    *)
NoZombie == pc \in {"exit", "final", "close", "done"} => child = "reaped"

(* A process id is never signalled after waitpid has released it.          *)
NoKillAfterReap == [][signalled' # signalled => child # "reaped"]_vars

(* All the items the client has been sent or will be sent.                 *)
Sent == recv \o net \o Rest(sse_buf, wpend)

(* The items of stream s in q are pieces of t, item i the one behind the   *)
(* first at[i] bytes, one behind the other.                                *)
ItemsOf(q, s) == {i \in 1..Len(q) : q[i].kind = s}
Placements(q, s, t) == [ItemsOf(q, s) -> 0..Len(t)]
IsPiece(d, t, k) == k + Len(d) <= Len(t) /\ \A j \in 1..Len(d) : d[j] = t[k + j]
InOrder(q, s, t, at) ==
  \A i \in ItemsOf(q, s) :
    /\ IsPiece(q[i].data, t, at[i])
    /\ \A j \in ItemsOf(q, s) : j < i => at[j] + Len(q[j].data) <= at[i]
Unbroken(q) ==
  \A i \in 1..Len(q) : q[i].kind \in Streams => \A j \in 1..Len(q[i].data) : q[i].data[j] # NL

(* What the client gets of a stream are pieces of what the child wrote to  *)
(* it: in order, none sent twice and none on the other stream, however     *)
(* often the socket takes only a part of sse_buf.  In SSE mode they are    *)
(* lines, without the newlines.                                            *)
OutputInOrder ==
  /\ \A s \in Streams : \E at \in Placements(Sent, s, made[s]) : InOrder(Sent, s, made[s], at)
  /\ raw \/ Unbroken(Sent)

(* The bytes of t that are in no item, and those that lines leave out: the *)
(* newlines, and what follows a NUL up to the next item.                   *)
Missing(q, s, t, at) ==
  {m \in 1..Len(t) : \A i \in ItemsOf(q, s) : m \notin at[i] + 1..at[i] + Len(q[i].data)}
LeftOut(missing, t) ==
  {m \in missing : t[m] = NL \/ \E n \in 1..m : t[n] = NUL /\ n..m \subseteq missing}

(* A call that ran to its end has sent all the output: in raw mode         *)
(* standard output byte for byte, in SSE mode every line.                  *)
OutputComplete ==
  pc = "done" /\ child_exited /\ client # "gone" =>
    \A s \in IF raw THEN {"out"} ELSE Streams :
      \E at \in Placements(Sent, s, made[s]) :
        /\ InOrder(Sent, s, made[s], at)
        /\ LET missing == Missing(Sent, s, made[s], at)
           IN missing = IF raw THEN {} ELSE LeftOut(missing, made[s])

(* The exit event comes once, after all output, with the status waitpid    *)
(* returned, and nothing follows the final chunk.                          *)
Terminator ==
  \A i \in 1..Len(Sent) :
    /\ Sent[i].kind = "exit" =>
         /\ \A j \in i + 1..Len(Sent) : Sent[j].kind = "final"
         /\ Sent[i].code = IF child_exited THEN status ELSE -1
         /\ child = "reaped"
    /\ Sent[i].kind = "final" => i = Len(Sent)

(* Every call returns.                                                     *)
Returns == <>(pc = "done")

(* When the child has exited and nothing of its process tree holds a pipe, *)
(* the call comes to its end.                                              *)
ExitReported == child # "running" /\ fds = {} ~> pc = "done"

=============================================================================
