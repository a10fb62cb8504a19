----------------------------- MODULE Connection -----------------------------
(***************************************************************************)
(* A connection and its thread (src/src/server.c 23-225), with the file    *)
(* transfers, the dispatch and the simple handlers of src/src/handler.c.   *)
(* Several connections share a file and the memory of thread stacks.       *)
(*                                                                         *)
(* A body is a sequence of blocks <<c, k>>; what a chunked body has beside *)
(* them is the block Framing.  The client counts as having sent a block    *)
(* when it is in the socket's buffer.                                      *)
(***************************************************************************)
EXTENDS Query

CONSTANTS
  Conns,       \* connections
  Scenarios,   \* what they may ask for: a set of functions from Conns
  BodyCap,     \* blocks that fit into the buffer for a body
  MaxLosses    \* bound: times the disk is full at fclose

(* A request: the endpoint, how the length of the body is announced        *)
(* ("given", "chunked", "none"), its blocks, whether the client expects    *)
(* 100 Continue, and what build_pipe_query is given for /api/exec/pipe.    *)
Kinds == {"upload", "download", "json", "pipe", "update", "plain"}
Posts == {"upload", "json", "pipe", "update"}
None == <<>>
Framing == <<"framing">>
Old == <<"old">>                     \* of the file before

ASSUME ScenarioAssumption == \A s \in Scenarios : \A c \in Conns :
  /\ s[c].kind \in Kinds /\ s[c].length \in {"given", "chunked", "none"}
  /\ s[c].size \in Nat /\ s[c].expect \in BOOLEAN
  /\ s[c].command \in Seq(Chars) /\ s[c].env \in Seq(Seq(Chars) \X Seq(Chars)) /\ s[c].raw \in BOOLEAN
ASSUME BoundAssumption == BodyCap \in Nat /\ MaxLosses \in Nat

VARIABLES
  req,         \* the request of each connection
  client,      \* what the client does
  sent, taken, \* blocks it has sent, blocks SSL_read has returned
  out,         \* answers on their way to the client
  got,         \* answers it has
  link,        \* "open", "closed" by the server, "reset"
  pc,          \* where the thread is
  limit,       \* content_length as the loops use it, -1 for none
  written,     \* blocks an upload has passed to fwrite
  kept,        \* whether the last of them is in the buffer of stdio
  ran,         \* what a shell was started with
  file,        \* the file that is uploaded and downloaded
  losses

clientVars == <<client, sent, got>>
fileVars == <<written, kept, file, losses>>
vars == <<req, clientVars, taken, out, link, pc, limit, fileVars, ran>>

Body(c) == [k \in 1..req[c].size |-> <<c, k>>]
Stream(c) == IF req[c].length = "chunked" THEN <<Framing>> \o Body(c) \o <<Framing>> ELSE Body(c)

Away(c) == client[c] \in {"done", "gone", "failed"}
CanRead(c) == taken[c] < sent[c]
Eof(c) == taken[c] = sent[c] /\ Away(c)

Goto(c, l) == pc' = [pc EXCEPT ![c] = l]
Write(c, status) == out' = [out EXCEPT ![c] = Append(@, status)]
Reply(c, status) == Write(c, status) /\ Goto(c, "close")

----------------------------------------------------------------------------
Init ==
  /\ req \in Scenarios
  /\ client = [c \in Conns |-> "idle"]
  /\ sent = [c \in Conns |-> 0] /\ taken = [c \in Conns |-> 0]
  /\ out = [c \in Conns |-> <<>>] /\ got = [c \in Conns |-> <<>>]
  /\ link = [c \in Conns |-> "open"]
  /\ pc = [c \in Conns |-> "none"]
  /\ limit = [c \in Conns |-> -1]
  /\ written = [c \in Conns |-> 0] /\ kept = [c \in Conns |-> FALSE]
  /\ ran = [c \in Conns |-> None]
  /\ file = <<Old>> /\ losses = 0

----------------------------------------------------------------------------
(* The client.                                                             *)

Connect(c) ==
  /\ client[c] = "idle"
  /\ client' = [client EXCEPT ![c] = IF req[c].expect THEN "expect" ELSE "send"]
  /\ Goto(c, "handshake")
  /\ UNCHANGED <<req, sent, got, taken, out, link, limit, fileVars, ran>>

Send(c) ==
  /\ client[c] = "send" /\ sent[c] < Len(Stream(c))
  /\ sent' = [sent EXCEPT ![c] = @ + 1]
  /\ link' = [link EXCEPT ![c] = IF @ = "open" THEN "open" ELSE "reset"]
  /\ UNCHANGED <<req, client, got, taken, out, pc, limit, fileVars, ran>>

(* 100 Continue lets the client send; any other answer is the last.        *)
Receive(c) ==
  /\ ~Away(c) /\ out[c] # <<>>
  /\ got' = [got EXCEPT ![c] = Append(@, Head(out[c]))]
  /\ out' = [out EXCEPT ![c] = Tail(@)]
  /\ client' = [client EXCEPT ![c] =
       IF Head(out[c]) # 100 THEN "done" ELSE IF @ = "expect" THEN "send" ELSE @]
  /\ UNCHANGED <<req, sent, taken, link, pc, limit, fileVars, ran>>

(* No answer comes any more; a reset may discard what is in the buffer.    *)
Fail(c) ==
  /\ ~Away(c)
  /\ link[c] = "reset" \/ (link[c] = "closed" /\ out[c] = <<>>)
  /\ client' = [client EXCEPT ![c] = "failed"]
  /\ UNCHANGED <<req, sent, got, taken, out, link, pc, limit, fileVars, ran>>

BreakOff(c) ==
  /\ client[c] \in {"expect", "send"}
  /\ client' = [client EXCEPT ![c] = "gone"]
  /\ UNCHANGED <<req, sent, got, taken, out, link, pc, limit, fileVars, ran>>

----------------------------------------------------------------------------
(* handle_client.                                                          *)

ContentLength(c) == IF req[c].length = "given" THEN req[c].size ELSE -1
Expects(c) == req[c].kind \in Posts /\ req[c].expect

(* Lines 134-169: without a certificate, a header or a request line the    *)
(* connection is closed, with an answer (403 and 400 are alike) or without.*)
Handshake(c) ==
  /\ pc[c] = "handshake"
  /\ \/ /\ Goto(c, IF Expects(c) THEN "continue" ELSE "dispatch")
        /\ limit' = [limit EXCEPT ![c] = ContentLength(c)]
        /\ UNCHANGED out
     \/ Reply(c, 400) /\ UNCHANGED limit
     \/ Goto(c, "close") /\ UNCHANGED <<limit, out>>
  /\ UNCHANGED <<req, clientVars, taken, link, fileVars, ran>>

(* Mutant: no 100 Continue.                                                *)
ContinueSilently(c) ==
  /\ pc[c] = "continue"
  /\ Goto(c, "dispatch")
  /\ UNCHANGED <<req, clientVars, out, taken, link, limit, fileVars, ran>>

Continue(c) ==
  /\ pc[c] = "continue"
  /\ Write(c, 100)
  /\ Goto(c, "dispatch")
  /\ UNCHANGED <<req, clientVars, taken, link, limit, fileVars, ran>>

(* read_body reads at most what fits.  Mutant: only for POST.              *)
BodyLimitPost(c) == IF req[c].kind \notin Posts THEN 0 ELSE IF limit[c] > BodyCap THEN BodyCap ELSE limit[c]
BodyLimit(c) == IF limit[c] > BodyCap THEN BodyCap ELSE limit[c]

(* Lines 178-213: three endpoints read the body themselves.                *)
Dispatch(c) ==
  /\ pc[c] = "dispatch"
  /\ IF req[c].kind \in {"upload", "pipe", "update"}
     THEN Goto(c, req[c].kind) /\ UNCHANGED limit
     ELSE Goto(c, "body") /\ limit' = [limit EXCEPT ![c] = BodyLimit(c)]
  /\ UNCHANGED <<req, clientVars, taken, out, link, fileVars, ran>>

(* SSL_read.                                                               *)
Take(c) == CanRead(c) /\ taken' = [taken EXCEPT ![c] = @ + 1]

(* handle_request.                                                         *)
Route(c) == req[c].kind

(* read_body, lines 116-127.                                               *)
ReadBody(c) ==
  /\ pc[c] = "body"
  /\ \/ taken[c] < limit[c] /\ Take(c) /\ UNCHANGED pc
     \/ /\ taken[c] >= limit[c] \/ Eof(c)
        /\ Goto(c, Route(c))
        /\ UNCHANGED taken
  /\ UNCHANGED <<req, clientVars, out, link, limit, fileVars, ran>>

(* What the buffer holds.  Without a Content-Length it was not written: it *)
(* is what an earlier thread has left on the stack, or anything else.      *)
(* Mutant: after a read that fails at once no NUL is written.              *)
BuffersStale(c) ==
  IF limit[c] > 0 /\ taken[c] > 0 THEN {SubSeq(Stream(c), 1, taken[c])}
  ELSE {None} \cup {Body(d) : d \in {e \in Conns \ {c} : pc[e] = "end" /\ ran[e] = Body(e)}}
Buffers(c) ==
  IF limit[c] > 0 THEN {SubSeq(Stream(c), 1, taken[c])}
  ELSE {None} \cup {Body(d) : d \in {e \in Conns \ {c} : pc[e] = "end" /\ ran[e] = Body(e)}}

(* handle_exec, handle_exec_stream and handle_tcpforward_post: JSON that   *)
(* is cut off does not parse.                                              *)
HandleJson(c) ==
  /\ pc[c] = "json"
  /\ \E b \in Buffers(c) :
       IF b # None /\ \E d \in Conns : b = Body(d)
       THEN ran' = [ran EXCEPT ![c] = b] /\ \E status \in {200, 500} : Reply(c, status)
       ELSE UNCHANGED ran /\ Reply(c, 400)
  /\ UNCHANGED <<req, clientVars, taken, link, limit, fileVars>>

(* health, uptime and certinfo.                                            *)
HandleInfo(c) ==
  /\ pc[c] = "plain" /\ Reply(c, 200)
  /\ UNCHANGED <<req, clientVars, taken, link, limit, fileVars, ran>>

(* The list and the removal of forwards (Forward); what is not found.      *)
HandleForwards(c) ==
  /\ pc[c] = "plain"
  /\ \E status \in {200, 400, 404} : Reply(c, status)
  /\ UNCHANGED <<req, clientVars, taken, link, limit, fileVars, ran>>

(* Close with unread data in the buffer resets the connection.             *)
Close(c) ==
  /\ pc[c] = "close"
  /\ Goto(c, "end")
  /\ link' = [link EXCEPT ![c] = IF CanRead(c) THEN "reset" ELSE "closed"]
  /\ UNCHANGED <<req, clientVars, taken, out, limit, fileVars, ran>>

----------------------------------------------------------------------------
(* handle_upload.                                                          *)

OpenUpload(c) ==
  /\ pc[c] = "upload"
  /\ \/ \E status \in {400, 500} : Reply(c, status) /\ UNCHANGED file
     \/ Goto(c, "store") /\ file' = <<>> /\ UNCHANGED out
  /\ UNCHANGED <<req, clientVars, taken, link, limit, written, kept, losses, ran>>

(* The file with the k-th block of the stream of c in its place.           *)
Stored(f, c, k) ==
  [i \in 1..(IF k > Len(f) THEN k ELSE Len(f)) |->
     IF i = k THEN Stream(c)[k] ELSE IF i <= Len(f) THEN f[i] ELSE None]
Flushed(c) == IF kept[c] THEN Stored(file, c, written[c]) ELSE file

(* Lines 257-265; without a length the loop ends with the connection.      *)
More(c) == limit[c] = -1 \/ written[c] < limit[c]

(* Mutants: a block counts although fwrite failed; it counts twice.        *)
CountedTwice(c, ok) == written[c] + 2
CountedAll(c, ok) == written[c] + 1
Counted(c, ok) == IF ok THEN written[c] + 1 ELSE written[c]

Store(c) ==
  /\ pc[c] = "store" /\ More(c) /\ Take(c)
  /\ \E ok, b \in BOOLEAN :
       /\ written' = [written EXCEPT ![c] = Counted(c, ok)]
       /\ kept' = [kept EXCEPT ![c] = ok /\ b]
       /\ file' = IF ok /\ ~b THEN Stored(Flushed(c), c, written[c] + 1) ELSE Flushed(c)
       /\ IF ok THEN UNCHANGED pc ELSE Goto(c, "stored")
  /\ UNCHANGED <<req, clientVars, out, link, limit, losses, ran>>

StoreEnds(c) ==
  /\ pc[c] = "store" /\ (~More(c) \/ Eof(c))
  /\ Goto(c, "stored")
  /\ UNCHANGED <<req, clientVars, taken, out, link, limit, fileVars, ran>>

(* fclose, whose result is not looked at, and the answer.                  *)
CloseUpload(c) ==
  /\ pc[c] = "stored"
  /\ \/ file' = Flushed(c) /\ UNCHANGED losses
     \/ kept[c] /\ losses < MaxLosses /\ losses' = losses + 1 /\ UNCHANGED file
  /\ kept' = [kept EXCEPT ![c] = FALSE]
  /\ Reply(c, 200)
  /\ UNCHANGED <<req, clientVars, taken, link, limit, written, ran>>

----------------------------------------------------------------------------
(* handle_download.                                                        *)

OpenDownload(c) ==
  /\ pc[c] = "download"
  /\ \/ \E status \in {400, 404, 413, 500} : Reply(c, status)
     \/ Goto(c, "fread") /\ UNCHANGED out
  /\ UNCHANGED <<req, clientVars, taken, link, limit, fileVars, ran>>

(* fread, up to the size ftell gave; the answer announces what was read.   *)
ReadFile(c) ==
  /\ pc[c] = "fread"
  /\ Reply(c, 200)
  /\ UNCHANGED <<req, clientVars, taken, link, limit, fileVars, ran>>

----------------------------------------------------------------------------
(* handle_exec_pipe: the query, then exec_run_pipe (ExecPipe), which reads *)
(* as much of the body as the child wants.                                 *)

HandlePipe(c) ==
  /\ pc[c] = "pipe"
  /\ \E call \in {Call(Written(req[c].command, req[c].env, req[c].raw))} :
       IF call.command = <<>>
       THEN Reply(c, 400) /\ UNCHANGED ran
       ELSE Goto(c, "run") /\ ran' = [ran EXCEPT ![c] = <<call>>] /\ UNCHANGED out
  /\ UNCHANGED <<req, clientVars, taken, link, limit, fileVars>>

RunPipe(c) ==
  /\ pc[c] = "run"
  /\ \/ Take(c) /\ UNCHANGED <<pc, out>>
     \/ Reply(c, 200) /\ UNCHANGED taken
  /\ UNCHANGED <<req, clientVars, link, limit, fileVars, ran>>

(* handle_update where it returns (Update): at once, or with the body.     *)
RefuseUpdate(c) ==
  /\ pc[c] = "update"
  /\ \/ Take(c) /\ taken[c] < limit[c] /\ UNCHANGED <<pc, out>>
     \/ (taken[c] = 0 \/ taken[c] >= limit[c] \/ Eof(c)) /\ Reply(c, 400) /\ UNCHANGED taken
  /\ UNCHANGED <<req, clientVars, link, limit, fileVars, ran>>

----------------------------------------------------------------------------
Server(c) ==
  \/ Handshake(c) \/ Continue(c) \/ Dispatch(c) \/ ReadBody(c) \/ HandleJson(c)
  \/ HandleInfo(c) \/ HandleForwards(c) \/ Close(c)
  \/ OpenUpload(c) \/ Store(c) \/ StoreEnds(c) \/ CloseUpload(c)
  \/ OpenDownload(c) \/ ReadFile(c) \/ RefuseUpdate(c)
Piped(c) == HandlePipe(c) \/ RunPipe(c)

Client(c) == Send(c) \/ Receive(c) \/ Fail(c)

Next == \E c \in Conns : Connect(c) \/ Client(c) \/ BreakOff(c) \/ Server(c) \/ Piped(c)

(* Threads run, and a client that does not break off goes on.  How long a  *)
(* command runs is not said here.                                          *)
Fairness == \A c \in Conns : WF_vars(Server(c)) /\ WF_vars(Client(c))

Spec == Init /\ [][Next]_vars /\ Fairness

----------------------------------------------------------------------------
TypeOK ==
  /\ client \in [Conns -> {"idle", "expect", "send", "done", "gone", "failed"}]
  /\ \A c \in Conns : sent[c] \in 0..Len(Stream(c)) /\ taken[c] \in 0..sent[c]
  /\ out \in [Conns -> Seq(Nat)] /\ got \in [Conns -> Seq(Nat)]
  /\ link \in [Conns -> {"open", "closed", "reset"}]
  /\ pc \in [Conns -> Kinds \cup {"none", "handshake", "continue", "dispatch", "body", "store",
                                  "stored", "fread", "run", "close", "end"}]
  /\ limit \in [Conns -> Nat \cup {-1}]
  /\ \A c \in Conns : written[c] \in 0..taken[c]
  /\ kept \in [Conns -> BOOLEAN]
  /\ losses \in 0..MaxLosses

(* The JSON endpoints act on the body their client has sent, the whole of  *)
(* it, if its length is announced.                                         *)
OwnBody == \A c \in Conns :
  req[c].kind = "json" /\ req[c].length = "given" /\ req[c].size > 0 /\ ran[c] # None => ran[c] = Body(c)

(* A shell that is started is given the command and the environment that   *)
(* build_pipe_query had, if the query fits and, for the environment,       *)
(* nothing in it had to be escaped and the server has room for it.         *)
Plain(s) == Urlencode(s) = s /\ Len(s) < EnvCap
OwnCommand == \A c \in Conns :
  (req[c].kind = "pipe" /\ ran[c] # None /\ Len(Written(req[c].command, req[c].env, req[c].raw)) <= QueryCap)
    => /\ ran[c][1].command = Cut(req[c].command, CmdCap)
       /\ ran[c][1].raw = req[c].raw
       /\ (/\ Len(req[c].env) <= MaxEnv
           /\ \A i \in 1..Len(req[c].env) : Plain(req[c].env[i][1]) /\ Plain(req[c].env[i][2]))
            => ran[c][1].env = req[c].env

(* adb-termux.sh 183: names and values are encoded for the query, to be    *)
(* decoded by the server.                                                  *)
OwnEnv == \A c \in Conns :
  (req[c].kind = "pipe" /\ ran[c] # None /\ Len(Written(req[c].command, req[c].env, req[c].raw)) <= QueryCap)
    => ran[c][1].env = req[c].env

(* An upload is answered with the number of blocks that are in the file;   *)
(* if the disk was full at fclose, the last may be missing.  No other      *)
(* upload writes the file.                                                 *)
UploadTrue == \A c \in Conns :
  (pc[c] \in {"close", "end"} /\ req[c].kind = "upload" /\ written[c] > 0
     /\ \A d \in Conns \ {c} : req[d].kind # "upload")
    => file = SubSeq(Stream(c), 1, written[c] - losses)

(* A client whose header was read gets the answer, if the endpoint reads   *)
(* the body: the server does not reset the connection then.                *)
Arrives == \A c \in Conns :
  client[c] = "failed" /\ req[c].length = "given" /\ limit[c] # -1
    => \/ req[c].kind \in {"pipe", "update"} \/ req[c].size > BodyCap
       \/ req[c].kind = "upload" /\ written[c] < req[c].size

(* Every connection ends, unless it runs a command or is an upload whose   *)
(* length is not announced.                                                *)
Ends == \A c \in Conns :
  (pc[c] # "none" /\ req[c].kind # "pipe" /\ (req[c].kind = "upload" => req[c].length = "given"))
    ~> pc[c] = "end"
=============================================================================
