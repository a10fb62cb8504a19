------------------------------- MODULE Update -------------------------------
(***************************************************************************)
(* Self-update (src/src/handler.c 276-396): threads that each receive a    *)
(* binary, write it to <exe>.tmp, rename it over the binary and execv it,  *)
(* with the file system under them.                                        *)
(*                                                                         *)
(* A file is an inode, named by the upload that created it, and an array   *)
(* of Blocks blocks, the last of which may still be in the buffer of stdio *)
(* when the code calls fsync.  A path is a number: 0 is the path of the    *)
(* binary and p + 1 is path p with " (deleted)" after it, which is what    *)
(* readlink("/proc/self/exe") returns once the file at p was replaced.     *)
(***************************************************************************)
EXTENDS Integers, FiniteSets

CONSTANTS
  Uploads,      \* the calls of handle_update
  Original,     \* the file the server was started from
  Mismatched,   \* uploads whose hash is not the one announced
  Broken,       \* uploads the kernel cannot execute
  Blocks,       \* blocks of a binary
  MaxOpen,      \* calls at the same time
  Commands,     \* processes started by other requests
  MaxPath,      \* bound: paths
  MaxKills,     \* bound: kills of the server
  MaxLosses,    \* bound: power losses and times the disk is full
  MaxStarts     \* bound: starts of the server

None == "none"
Inodes == Uploads \cup {Original}
Contents == Inodes \cup {None}        \* of a block
Paths == 0..MaxPath
Good == Uploads \ Mismatched          \* sent with their own hash

ASSUME SetAssumption == IsFiniteSet(Uploads)
ASSUME NameAssumption == Original \notin Uploads /\ None \notin Inodes
ASSUME KindAssumption == Mismatched \subseteq Uploads /\ Broken \subseteq Uploads
ASSUME BlockAssumption == Blocks \in Nat /\ Blocks >= 2
ASSUME BoundAssumption ==
  /\ MaxOpen \in Nat /\ MaxPath \in Nat
  /\ MaxKills \in Nat /\ MaxLosses \in Nat /\ MaxStarts \in Nat

VARIABLES
  bin, tmp,    \* the inode at each path, and at that path with ".tmp" added
  data, disk,  \* the blocks of each inode: what is read, what is on the disk
  past,        \* inodes the path of the binary may fall back to
  server,      \* "up", "killed" or "exited"
  exe,         \* the inode and the path the server was started from
  pc,          \* where each call is
  path, ino,   \* binary_path; the inode f writes to
  written,     \* blocks passed to fwrite
  buffered,    \* whether the last of them is in the buffer of stdio
  held,        \* files each command has inherited a descriptor of
  kills, losses, starts

fileVars == <<bin, tmp, data, disk, past>>
callVars == <<pc, path, ino, written, buffered>>
boundVars == <<kills, losses, starts>>
vars == <<fileVars, server, exe, callVars, held, boundVars>>

(* While f is open the inode has a writer.                                 *)
OpenAt == {"read", "check", "refuse", "fsync", "close"}
Writes(u, i) == pc[u] \in OpenAt /\ ino[u] = i
Busy(i) == (\E u \in Uploads : Writes(u, i)) \/ (\E c \in Commands : i \in held[c])

Full(v) == [k \in 1..Blocks |-> v]
Empty == [k \in 1..Blocks |-> None]
Whole(i) == \E v \in Good \cup {Original} : data[i] = Full(v)
(* The blocks of v, but the last may be missing.                           *)
Near(i, v) == \A k \in 1..Blocks : data[i][k] = v \/ (k = Blocks /\ data[i][k] = None)
Version(i) == data[i][1]

Runnable(i) == Whole(i) /\ Version(i) \notin Broken /\ ~Busy(i)

Alive(u) == server = "up" /\ pc[u] # "done"

----------------------------------------------------------------------------
Init ==
  /\ bin = [p \in Paths |-> IF p = 0 THEN Original ELSE None]
  /\ tmp = [p \in Paths |-> None]
  /\ data = [i \in Inodes |-> IF i = Original THEN Full(Original) ELSE Empty]
  /\ disk = data
  /\ past = {Original}
  /\ server = "up" /\ exe = [ino |-> Original, path |-> 0]
  /\ pc = [u \in Uploads |-> "none"]
  /\ path = [u \in Uploads |-> 0] /\ ino = [u \in Uploads |-> Original]
  /\ written = [u \in Uploads |-> 0] /\ buffered = [u \in Uploads |-> FALSE]
  /\ held = [c \in Commands |-> {}]
  /\ kills = 0 /\ losses = 0 /\ starts = 0

----------------------------------------------------------------------------
(* The call.                                                               *)

Goto(u, l) == pc' = [pc EXCEPT ![u] = l]

(* Lines 296-303.                                                          *)
BinaryPath == IF bin[exe.path] = exe.ino THEN exe.path ELSE exe.path + 1

(* Lines 276-307, with the tests of the query and of the length.           *)
Receive(u) ==
  /\ server = "up" /\ pc[u] = "none"
  /\ Cardinality({v \in Uploads : pc[v] \notin {"none", "done"}}) < MaxOpen
  /\ \/ Goto(u, "done") /\ UNCHANGED path
     \/ /\ BinaryPath \in Paths
        /\ Goto(u, "open")
        /\ path' = [path EXCEPT ![u] = BinaryPath]
  /\ UNCHANGED <<fileVars, server, exe, ino, written, buffered, held, boundVars>>

(* fopen(tmp_path, "wb") truncates the file that is there.                 *)
Open(u) ==
  /\ Alive(u) /\ pc[u] = "open"
  /\ \/ /\ Goto(u, "done")
        /\ UNCHANGED <<tmp, data, ino>>
     \/ \E i \in {IF tmp[path[u]] = None THEN u ELSE tmp[path[u]]} :
          /\ Goto(u, "read")
          /\ ino' = [ino EXCEPT ![u] = i]
          /\ tmp' = [tmp EXCEPT ![path[u]] = i]
          /\ data' = [data EXCEPT ![i] = Empty]
  /\ UNCHANGED <<bin, disk, past, server, exe, path, written, buffered, held, boundVars>>

(* Blocks of u that fwrite and fclose hand to the kernel.                  *)
Put(u, ks) == data' = [data EXCEPT ![ino[u]] = [k \in 1..Blocks |-> IF k \in ks THEN u ELSE @[k]]]
Buffer(u) == IF buffered[u] THEN {written[u]} ELSE {}

(* Mutant: one block too many.                                             *)
MoreOrEqual(u) == written[u] <= Blocks
More(u) == written[u] < Blocks

(* An iteration of the loop in lines 323-332: fwrite writes what was       *)
(* buffered, and writes or buffers the new block.                          *)
Read(u) ==
  /\ Alive(u) /\ pc[u] = "read"
  /\ \/ /\ More(u)
        /\ \E b \in BOOLEAN :
             /\ buffered' = [buffered EXCEPT ![u] = b]
             /\ Put(u, Buffer(u) \cup (IF b THEN {} ELSE {written[u] + 1}))
        /\ written' = [written EXCEPT ![u] = @ + 1]
        /\ UNCHANGED pc
     \/ \* no more to read, or SSL_read or fwrite fails
        /\ Goto(u, "check")
        /\ UNCHANGED <<data, written, buffered>>
  /\ UNCHANGED <<bin, tmp, disk, past, server, exe, path, ino, held, boundVars>>

(* Mutant: the hash is not compared.                                       *)
AcceptedForged(u) == written[u] = Blocks
Accepted(u) == written[u] = Blocks /\ u \notin Mismatched

(* Lines 334-362.  The hash is that of the bytes received.                 *)
Check(u) ==
  /\ Alive(u) /\ pc[u] = "check"
  /\ Goto(u, IF Accepted(u) THEN "fsync" ELSE "refuse")
  /\ UNCHANGED <<fileVars, server, exe, path, ino, written, buffered, held, boundVars>>

(* fclose and unlink of lines 340-341 and 356-357.                         *)
Refuse(u) ==
  /\ Alive(u) /\ pc[u] = "refuse"
  /\ Put(u, Buffer(u))
  /\ tmp' = [tmp EXCEPT ![path[u]] = None]
  /\ Goto(u, "done")
  /\ UNCHANGED <<bin, disk, past, server, exe, path, ino, written, buffered, held, boundVars>>

(* Mutant: fsync is dropped.                                               *)
NoFsync(u) ==
  /\ Alive(u) /\ pc[u] = "fsync"
  /\ Goto(u, "close")
  /\ UNCHANGED <<fileVars, server, exe, path, ino, written, buffered, held, boundVars>>

Fsync(u) ==
  /\ Alive(u) /\ pc[u] = "fsync"
  /\ disk' = [disk EXCEPT ![ino[u]] = data[ino[u]]]
  /\ Goto(u, "close")
  /\ UNCHANGED <<bin, tmp, data, past, server, exe, path, ino, written, buffered, held, boundVars>>

(* fclose writes what fsync did not see.  Its result is not looked at.     *)
Close(u) ==
  /\ Alive(u) /\ pc[u] = "close"
  /\ \/ Put(u, Buffer(u)) /\ UNCHANGED losses
     \/ losses < MaxLosses /\ losses' = losses + 1 /\ UNCHANGED data
  /\ Goto(u, "rename")
  /\ UNCHANGED <<bin, tmp, disk, past, server, exe, path, ino, written, buffered, held, kills, starts>>

(* chmod and rename.                                                       *)
Rename(u) ==
  /\ Alive(u) /\ pc[u] = "rename"
  /\ \/ /\ tmp[path[u]] # None
        /\ bin' = [bin EXCEPT ![path[u]] = tmp[path[u]]]
        /\ tmp' = [tmp EXCEPT ![path[u]] = None]
        /\ past' = past \cup {bin'[0]}
        /\ Goto(u, "answer")
     \/ /\ Goto(u, "done")
        /\ UNCHANGED <<bin, tmp, past>>
  /\ UNCHANGED <<data, disk, server, exe, path, ino, written, buffered, held, boundVars>>

(* Lines 376-389.                                                          *)
Answer(u) ==
  /\ Alive(u) /\ pc[u] = "answer"
  /\ Goto(u, "exec")
  /\ UNCHANGED <<fileVars, server, exe, path, ino, written, buffered, held, boundVars>>

(* What execv is given.  Mutant: the file the server runs from.            *)
ImageOfProcess(u) == exe.ino
Image(u) == bin[path[u]]

(* execv ends the other threads.  It fails with ETXTBSY while the file is  *)
(* open for writing anywhere, and the server exits.                        *)
Exec(u) ==
  /\ Alive(u) /\ pc[u] = "exec"
  /\ pc' = [v \in Uploads |-> IF pc[v] = "none" THEN "none" ELSE "done"]
  /\ IF Runnable(Image(u))
     THEN exe' = [ino |-> Image(u), path |-> path[u]] /\ UNCHANGED server
     ELSE server' = "exited" /\ UNCHANGED exe
  /\ UNCHANGED <<fileVars, path, ino, written, buffered, held, boundVars>>

----------------------------------------------------------------------------
(* Other processes.                                                        *)

(* The FILE is not close-on-exec: a command has the files open that are    *)
(* open when it is forked (executor.c 29, 116 and 186).                    *)
Fork(c) ==
  /\ server = "up" /\ held[c] = {}
  /\ \E u \in Uploads : pc[u] \in OpenAt
  /\ held' = [held EXCEPT ![c] = {ino[u] : u \in {v \in Uploads : pc[v] \in OpenAt}}]
  /\ UNCHANGED <<fileVars, server, exe, callVars, boundVars>>

CommandEnds(c) ==
  /\ held[c] # {}
  /\ held' = [held EXCEPT ![c] = {}]
  /\ UNCHANGED <<fileVars, server, exe, callVars, boundVars>>

ThreadsEnd == pc' = [u \in Uploads |-> IF pc[u] = "none" THEN "none" ELSE "done"]

Kill ==
  /\ server = "up" /\ kills < MaxKills
  /\ server' = "killed" /\ kills' = kills + 1
  /\ ThreadsEnd
  /\ UNCHANGED <<fileVars, exe, path, ino, written, buffered, held, losses, starts>>

(* Each block is the one last written or the one on the disk.  A rename    *)
(* may be forgotten, and what was renamed is then the .tmp file again.     *)
PowerLoss ==
  /\ losses < MaxLosses /\ losses' = losses + 1
  /\ server' = "killed"
  /\ ThreadsEnd
  /\ held' = [c \in Commands |-> {}]
  /\ \E gone \in SUBSET {b \in Inodes \X (1..Blocks) : data[b[1]][b[2]] # disk[b[1]][b[2]]} :
       data' = [i \in Inodes |-> [k \in 1..Blocks |-> IF <<i, k>> \in gone THEN disk[i][k] ELSE data[i][k]]]
  /\ disk' = data'
  /\ \E i \in past : \E t \in ({None, tmp[0]} \cup past) \ {i} :
       /\ bin' = [bin EXCEPT ![0] = i]
       /\ tmp' = [tmp EXCEPT ![0] = t]
       /\ past' = {i}
  /\ UNCHANGED <<exe, path, ino, written, buffered, kills, starts>>

(* start.sh 118-120: the binary is started from its path.                  *)
Start ==
  /\ server # "up" /\ starts < MaxStarts
  /\ Runnable(bin[0])
  /\ server' = "up" /\ exe' = [ino |-> bin[0], path |-> 0]
  /\ starts' = starts + 1
  /\ UNCHANGED <<fileVars, callVars, held, kills, losses>>

----------------------------------------------------------------------------
Finishes(u) == Check(u) \/ Refuse(u) \/ Fsync(u) \/ Close(u) \/ Rename(u) \/ Answer(u) \/ Exec(u)

Call(u) == Receive(u) \/ Open(u) \/ Read(u) \/ Finishes(u)

Next ==
  \/ \E u \in Uploads : Call(u)
  \/ \E c \in Commands : Fork(c) \/ CommandEnds(c)
  \/ Kill \/ PowerLoss \/ Start

(* A thread that has the body runs on.                                     *)
Fairness == \A u \in Uploads : WF_vars(Finishes(u))

Spec == Init /\ [][Next]_vars /\ Fairness

----------------------------------------------------------------------------
TypeOK ==
  /\ bin \in [Paths -> Contents] /\ tmp \in [Paths -> Contents]
  /\ data \in [Inodes -> [1..Blocks -> Contents]]
  /\ disk \in [Inodes -> [1..Blocks -> Contents]]
  /\ past \subseteq Inodes
  /\ server \in {"up", "killed", "exited"}
  /\ exe \in [ino : Inodes, path : Paths]
  /\ pc \in [Uploads -> OpenAt \cup {"none", "open", "rename", "answer", "exec", "done"}]
  /\ path \in [Uploads -> Paths] /\ ino \in [Uploads -> Inodes]
  /\ written \in [Uploads -> 0..Blocks] /\ buffered \in [Uploads -> BOOLEAN]
  /\ held \in [Commands -> SUBSET Inodes]
  /\ kills \in 0..MaxKills /\ losses \in 0..MaxLosses /\ starts \in 0..MaxStarts

(* The file at the path of the binary is the original or a complete upload *)
(* with its own hash.  If the disk was full or the power failed, the last  *)
(* block may be missing, since fsync is called before fclose.  One upload  *)
(* at a time.                                                              *)
BinaryWhole ==
  \E v \in Good \cup {Original} :
    IF losses = 0 THEN data[bin[0]] = Full(v) ELSE Near(bin[0], v)

(* handler.c 364, "Checksum matches - atomically replace the binary".      *)
BinaryVerified == Whole(bin[0])

(* README.md 353: the server replaces its own binary and execs the new     *)
(* version; it does not stop for an update the kernel can execute.         *)
UpdateKeepsServing == server = "exited" => ~Whole(bin[0]) \/ Version(bin[0]) \in Broken

(* After the client was told "restarting" the server runs the upload, if   *)
(* nobody stops it.                                                        *)
Replaced == \A u \in Uploads :
              pc[u] = "exec" ~> (server # "up" \/ Version(exe.ino) = u)

(* The update as it is promised.                                           *)
Promise == INSTANCE Hotswap WITH
  Versions <- Uploads, Verified <- Good, Down <- None,
  installed <- [version |-> Version(bin[0]), complete |-> Whole(bin[0])],
  running <- IF server = "up" THEN Version(exe.ino) ELSE None,
  ever <- {Version(i) : i \in past}

Implements == Promise!Spec
=============================================================================
