------------------------------ MODULE ExecRun ------------------------------
(***************************************************************************)
(* One call of exec_run or exec_run_stream (src/src/executor.c) with the   *)
(* answer its handler sends: POST /api/exec collects the output of a       *)
(* command and returns it as one JSON object, POST /api/exec/stream sends  *)
(* an event for each piece as it comes.                                    *)
(*                                                                         *)
(* The thread and the command's process tree interleave at every system    *)
(* call.  Bytes are numbers; NUL ends a C string, and both handlers print  *)
(* the output as C strings.                                                *)
(***************************************************************************)
EXTENDS Integers, Sequences

CONSTANTS
  Outputs,      \* [out, err |-> what the process tree may write]
  Statuses,     \* how the shell may end: an exit code, or minus a signal
  PipeCap,      \* capacity of a pipe, and sizeof(buf)
  MaxOutput,    \* EXEC_MAX_OUTPUT
  MaxPiece,     \* max_piece of stream_callback
  Signals       \* TRUE if a signal handler may interrupt select or poll

Streams == {"out", "err"}
NUL == 0
Min2(a, b) == IF a < b THEN a ELSE b
Rest(s, k) == SubSeq(s, k + 1, Len(s))
Item == [kind : {"out", "err", "exit"}, data : Seq(Nat), code : Int]

ASSUME OutputAssumption == Outputs \in [Streams -> Seq(Nat)]
ASSUME StatusAssumption == Statuses \subseteq Int
ASSUME SizeAssumption == {PipeCap, MaxOutput, MaxPiece} \subseteq Nat \ {0}
ASSUME SignalAssumption == Signals \in BOOLEAN

VARIABLES
  mode,         \* "run" or "stream": which function was called
  pc, ready,    \* the thread, and what select or poll reported
  piece,        \* what stream_callback has still to send
  data_read,    \* exec_run_stream: this iteration read something
  result,       \* exec_run: stdout_data and stderr_data
  exit_code,
  interrupted,  \* select or poll has failed
  sent,         \* what the client has been sent
  child, status, fds, pipe, made,  \* the process tree, as in ExecPipe
  by_exit       \* what it had written when the shell exited

threadVars == <<mode, pc, ready, piece, data_read, result, exit_code, interrupted, sent>>
treeVars == <<child, status, fds, pipe, made, by_exit>>
vars == <<threadVars, treeVars>>

----------------------------------------------------------------------------
(* Lines 24-48 and 113-135: exec_run starts from a zeroed result.          *)
Init ==
  /\ mode \in {"run", "stream"}
  /\ pc = "wait" /\ ready = {} /\ piece = <<>> /\ data_read = FALSE
  /\ result = [s \in Streams |-> <<>>]
  /\ exit_code = IF mode = "run" THEN 0 ELSE -1
  /\ interrupted = FALSE /\ sent = <<>>
  /\ child = "running" /\ status = 0 /\ fds = Streams
  /\ pipe = [s \in Streams |-> <<>>] /\ made = [s \in Streams |-> <<>>]
  /\ by_exit = [s \in Streams |-> <<>>]

----------------------------------------------------------------------------
(* The process tree of sh -c "<command>".  What the shell has started in   *)
(* the background may outlive it and hold its pipes.                       *)

ChildWrite(s) ==
  /\ pc # "done" /\ s \in fds /\ Len(pipe[s]) < PipeCap
  /\ Len(made[s]) < Len(Outputs[s])
  /\ LET b == Outputs[s][Len(made[s]) + 1] IN
       /\ made' = [made EXCEPT ![s] = Append(@, b)]
       /\ pipe' = [pipe EXCEPT ![s] = Append(@, b)]
  /\ UNCHANGED <<threadVars, child, status, fds, by_exit>>

ChildClose(s) ==
  /\ s \in fds
  /\ fds' = fds \ {s}
  /\ UNCHANGED <<threadVars, child, status, pipe, made, by_exit>>

ChildExit ==
  /\ child = "running"
  /\ child' = "zombie" /\ status' \in Statuses /\ fds' \in SUBSET fds
  /\ by_exit' = made
  /\ UNCHANGED <<threadVars, pipe, made>>

----------------------------------------------------------------------------
(* Waiting.  Lines 50-67: select reports a pipe that has data or has lost  *)
(* its writers, or gives up after a second.  Lines 137-146: of what poll   *)
(* reports, only POLLIN counts, and it gives up after half a second.       *)

HasData == {s \in Streams : pipe[s] # <<>>}
Readable == HasData \cup (Streams \ fds)

(* The next thing an iteration does.                                       *)
NextRead(todo) ==
  IF "out" \in todo THEN "out" ELSE IF "err" \in todo THEN "err"
  ELSE IF data_read' THEN "wait" ELSE "waitpid"

Begin(found) ==
  /\ pc = "wait"
  /\ ready' = found
  /\ data_read' = FALSE
  /\ pc' = NextRead(found)
  /\ UNCHANGED <<mode, piece, result, exit_code, interrupted, sent, treeVars>>

Select == mode = "run" /\ Readable # {} /\ Begin(Readable)
Poll == mode = "stream" /\ (HasData # {} \/ Streams \ fds # {}) /\ Begin(HasData)

(* Mutant: select is called without a timeout.                             *)
TimeoutNever == FALSE /\ Begin({})
Timeout == Readable = {} /\ Begin({})

(* Lines 59 and 144: any failure, EINTR too, leaves the loop.              *)
Interrupted ==
  /\ Signals /\ pc = "wait"
  /\ pc' = "reply" /\ interrupted' = TRUE
  /\ UNCHANGED <<mode, ready, piece, data_read, result, exit_code, sent, treeVars>>

----------------------------------------------------------------------------
(* Reading.  Lines 69-92: what goes beyond EXEC_MAX_OUTPUT is dropped.     *)

(* Mutant: the length so far is not taken into account.                    *)
RoomWhole(s) == MaxOutput
Room(s) == MaxOutput - Len(result[s])

(* Mutant: reading stderr empties stdout's pipe.                           *)
DrainedBoth(s) == [t \in Streams |-> <<>>]
Drained(s) == [pipe EXCEPT ![s] = <<>>]

ReadRun(s) ==
  /\ mode = "run" /\ pc = s
  /\ pipe' = Drained(s)
  /\ result' = [result EXCEPT ![s] =
                  @ \o SubSeq(pipe[s], 1, Min2(Len(pipe[s]), Room(s)))]
  /\ ready' = ready \ {s}
  /\ UNCHANGED <<mode, piece, data_read, exit_code, interrupted, sent, child, status,
                 fds, made, by_exit>>
  /\ pc' = NextRead(ready')

(* Lines 148-161: an iteration that read something skips waitpid.          *)
ReadStream(s) ==
  /\ mode = "stream" /\ pc = s /\ piece = <<>>
  /\ pipe' = Drained(s)
  /\ piece' = pipe[s]
  /\ data_read' = TRUE
  /\ UNCHANGED <<mode, pc, ready, result, exit_code, interrupted, sent, child, status,
                 fds, made, by_exit>>

(* printf with %s stops at a NUL.                                          *)
UpToNul(d) ==
  LET ends == {k \in 0..Len(d) : \A i \in 1..k : d[i] # NUL} IN
  SubSeq(d, 1, CHOOSE k \in ends : \A j \in ends : j <= k)

(* stream_callback, lines 110-139 of handler.c: one event for each piece   *)
(* of at most max_piece bytes.                                             *)
SendPiece(s) ==
  /\ mode = "stream" /\ pc = s /\ piece # <<>>
  /\ LET n == Min2(Len(piece), MaxPiece) IN
       /\ sent' = Append(sent, [kind |-> s, data |-> UpToNul(SubSeq(piece, 1, n)),
                                code |-> 0])
       /\ piece' = Rest(piece, n)
  /\ UNCHANGED <<mode, data_read, result, exit_code, interrupted, treeVars>>
  /\ IF piece' = <<>>
     THEN ready' = ready \ {s} /\ pc' = NextRead(ready')
     ELSE UNCHANGED <<ready, pc>>

----------------------------------------------------------------------------
(* Lines 94-98 and 163-170.  exec_run reports -1 for a signal,             *)
(* exec_run_stream minus the signal.                                       *)
CodeOf(st) == IF mode = "run" /\ st < 0 THEN -1 ELSE st

(* Mutant: the thread goes on to the answer while the child runs.          *)
WaitPidNoCheck ==
  /\ pc = "waitpid"
  /\ IF child = "zombie"
     THEN child' = "reaped" /\ exit_code' = CodeOf(status)
     ELSE UNCHANGED <<child, exit_code>>
  /\ pc' = "reply"
  /\ UNCHANGED <<mode, ready, piece, data_read, result, interrupted, sent, status, fds,
                 pipe, made, by_exit>>

WaitPid ==
  /\ pc = "waitpid"
  /\ IF child = "zombie"
     THEN child' = "reaped" /\ exit_code' = CodeOf(status) /\ pc' = "reply"
     ELSE pc' = "wait" /\ UNCHANGED <<child, exit_code>>
  /\ UNCHANGED <<mode, ready, piece, data_read, result, interrupted, sent, status, fds,
                 pipe, made, by_exit>>

ExitItem == [kind |-> "exit", data |-> <<>>, code |-> exit_code]
OutputItem(s) == [kind |-> s, data |-> UpToNul(result[s]), code |-> 0]

(* handle_exec, lines 193-206 of handler.c, and handle_exec_stream, lines  *)
(* 226-232.                                                                *)
Reply ==
  /\ pc = "reply"
  /\ pc' = "done"
  /\ sent' = IF mode = "run" THEN <<OutputItem("out"), OutputItem("err"), ExitItem>>
             ELSE Append(sent, ExitItem)
  /\ UNCHANGED <<mode, ready, piece, data_read, result, exit_code, interrupted, treeVars>>

----------------------------------------------------------------------------
Thread ==
  \/ Select \/ Poll \/ Timeout
  \/ \E s \in Streams : ReadRun(s) \/ ReadStream(s) \/ SendPiece(s)
  \/ WaitPid \/ Reply

Tree == ChildExit \/ \E s \in Streams : ChildWrite(s) \/ ChildClose(s)

Returned == pc = "done" /\ UNCHANGED vars

Next == Thread \/ Interrupted \/ Tree \/ Returned

Spec == Init /\ [][Next]_vars

(* The thread is scheduled; nothing is asked of the child.                 *)
FairSpec == Spec /\ WF_vars(Thread)

----------------------------------------------------------------------------
(* Every variable has its type, and a result is at most EXEC_MAX_OUTPUT.   *)
TypeOK ==
  /\ mode \in {"run", "stream"}
  /\ pc \in {"wait", "out", "err", "waitpid", "reply", "done"}
  /\ ready \subseteq Streams /\ piece \in Seq(Nat) /\ data_read \in BOOLEAN
  /\ result \in [Streams -> Seq(Nat)]
  /\ \A s \in Streams : Len(result[s]) <= MaxOutput
  /\ exit_code \in Int /\ interrupted \in BOOLEAN /\ sent \in Seq(Item)
  /\ child \in {"running", "zombie", "reaped"} /\ status \in Int
  /\ fds \subseteq Streams
  /\ pipe \in [Streams -> Seq(Nat)] /\ made \in [Streams -> Seq(Nat)]
  /\ by_exit \in [Streams -> Seq(Nat)]

(* exec_run: up to the limit, what was collected and what is still in the  *)
(* pipe is exactly what was written; so all that a call can lose is what   *)
(* it leaves in the pipes when it returns.                                 *)
Conserved ==
  mode = "run" =>
    \A s \in Streams : result[s] =
      SubSeq(made[s], 1, Min2(MaxOutput, Len(made[s]) - Len(pipe[s])))

(* What the client is sent of a stream are pieces of what the command      *)
(* wrote to it, item i the one behind the first at[i] bytes: in order,     *)
(* nothing twice, nothing on the wrong stream, and what is left out before *)
(* a piece begins with a NUL.                                              *)
ItemsOf(s) == {i \in 1..Len(sent) : sent[i].kind = s}
IsPiece(d, t, k) == k + Len(d) <= Len(t) /\ \A j \in 1..Len(d) : d[j] = t[k + j]
LastBefore(s, j, i) == j < i /\ \A k \in ItemsOf(s) : k < i => k <= j
SentInOrder ==
  \A s \in Streams : \E at \in [ItemsOf(s) -> 0..Len(made[s])] :
    LET end(j) == at[j] + Len(sent[j].data) IN
    \A i \in ItemsOf(s) :
      /\ IsPiece(sent[i].data, made[s], at[i])
      /\ \A j \in ItemsOf(s) : j < i => end(j) <= at[i]
      /\ at[i] = 0 \/ \E j \in ItemsOf(s) :
           LastBefore(s, j, i) /\ (end(j) = at[i] \/ made[s][end(j) + 1] = NUL)

(* A call that was not interrupted answers after it has reaped the child,  *)
(* with the status waitpid gave, and says nothing after that.              *)
ExitLast ==
  \A i \in 1..Len(sent) : sent[i].kind = "exit" =>
    /\ i = Len(sent)
    /\ ~interrupted => child = "reaped" /\ sent[i].code = CodeOf(status)

(* The call returns once the shell has exited, even while a background     *)
(* process keeps its pipes open.                                           *)
Returns == child # "running" ~> pc = "done"

(* "Execute command, return full output" (README.md:297): what the command *)
(* had written when it exited is in the answer, if the limit allows.       *)
FullOutput ==
  pc = "done" /\ mode = "run" /\ child = "reaped" =>
    \A s \in Streams :
      Len(result[s]) < MaxOutput => Len(result[s]) >= Len(by_exit[s])

=============================================================================
