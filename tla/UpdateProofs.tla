---------------------------- MODULE UpdateProofs ----------------------------
(***************************************************************************)
(* Theorems about Update, for any number of uploads, blocks, commands,     *)
(* kills, losses and starts.  That the binary is whole, and that Update    *)
(* implements Hotswap, needs one upload at a time.                         *)
(***************************************************************************)
EXTENDS Update, FiniteSetTheorems, TLAPS

PcDomain == OpenAt \cup {"none", "open", "rename", "answer", "exec", "done"}
Servers == {"up", "killed", "exited"}
FileType == [Inodes -> [1..Blocks -> Contents]]

----------------------------------------------------------------------------
(* Types.                                                                  *)

LEMMA GotoType ==
  ASSUME TypeOK, NEW u \in Uploads, NEW l \in PcDomain, Goto(u, l)
  PROVE  pc' \in [Uploads -> PcDomain]
BY DEF TypeOK, Goto, PcDomain

LEMMA PcConstants == \A l \in OpenAt \cup {"none", "open", "rename", "answer", "exec", "done"} : l \in PcDomain
BY DEF PcDomain

(* A step of a call that goes to another line and changes nothing else.    *)
LEMMA GotoOnly ==
  ASSUME TypeOK, NEW u \in Uploads, NEW l \in PcDomain, Goto(u, l),
         UNCHANGED <<fileVars, server, exe, path, ino, written, buffered, held, boundVars>>
  PROVE  TypeOK'
<1>1. pc' \in [Uploads -> PcDomain]
  BY GotoType
<1> QED
  BY <1>1 DEF TypeOK, PcDomain, fileVars, boundVars

LEMMA PutType ==
  ASSUME TypeOK, NEW u \in Uploads, NEW ks, Put(u, ks)
  PROVE  data' \in FileType
<1>1. ino[u] \in Inodes /\ data[ino[u]] \in [1..Blocks -> Contents] /\ u \in Contents
  BY DEF TypeOK, Contents, Inodes
<1>2. [k \in 1..Blocks |-> IF k \in ks THEN u ELSE data[ino[u]][k]] \in [1..Blocks -> Contents]
  BY <1>1
<1> QED
  BY <1>2 DEF TypeOK, Put, FileType

LEMMA EndsType ==
  ASSUME TypeOK, ThreadsEnd
  PROVE  pc' \in [Uploads -> PcDomain]
BY DEF TypeOK, ThreadsEnd, PcDomain

LEMMA InitType == Init => TypeOK
<1> SUFFICES ASSUME Init PROVE TypeOK
  OBVIOUS
<1>1. 0 \in Paths /\ 0 \in 0..Blocks /\ 0 \in 0..MaxKills /\ 0 \in 0..MaxLosses /\ 0 \in 0..MaxStarts
  BY BoundAssumption, BlockAssumption DEF Paths
<1>2. Original \in Inodes /\ None \in Contents /\ Inodes \subseteq Contents
  BY DEF Inodes, Contents
<1>3. bin \in [Paths -> Contents] /\ tmp \in [Paths -> Contents]
  BY <1>2 DEF Init
<1>4. data \in FileType /\ disk \in FileType
  BY <1>2 DEF Init, Full, Empty, FileType
<1>5. past \subseteq Inodes /\ server \in Servers /\ exe \in [ino : Inodes, path : Paths]
  BY <1>1, <1>2 DEF Init, Servers
<1>6. pc \in [Uploads -> PcDomain]
  BY DEF Init, PcDomain
<1>7. /\ path \in [Uploads -> Paths] /\ ino \in [Uploads -> Inodes]
      /\ written \in [Uploads -> 0..Blocks] /\ buffered \in [Uploads -> BOOLEAN]
      /\ held \in [Commands -> SUBSET Inodes]
  BY <1>1, <1>2 DEF Init
<1> QED
  BY <1>1, <1>3, <1>4, <1>5, <1>6, <1>7 DEF TypeOK, Init, FileType, Servers, PcDomain

(* There is always a file at the path of the binary, and where a call has  *)
(* put one it is there until execv.                                        *)
Present ==
  /\ 0 \in Paths /\ bin[0] \in past
  /\ \A u \in Uploads : pc[u] \in {"answer", "exec"} => bin[path[u]] # None

LEMMA CallType ==
  ASSUME TypeOK, Present, NEW u \in Uploads, Call(u)
  PROVE  TypeOK'
<1>1. CASE Receive(u)
  <2>1. CASE Goto(u, "done") /\ UNCHANGED path
    BY <1>1, <2>1, PcConstants, GotoOnly DEF Receive
  <2>2. CASE Goto(u, "open") /\ BinaryPath \in Paths /\ path' = [path EXCEPT ![u] = BinaryPath]
    <3>1. pc' \in [Uploads -> PcDomain]
      BY <2>2, PcConstants, GotoType
    <3>2. path' \in [Uploads -> Paths]
      BY <2>2 DEF TypeOK
    <3> QED
      BY <1>1, <3>1, <3>2 DEF Receive, TypeOK, PcDomain, fileVars, boundVars
  <2> QED
    BY <1>1, <2>1, <2>2 DEF Receive
<1>2. CASE Open(u)
  <2>1. CASE Goto(u, "done") /\ UNCHANGED <<tmp, data, ino>>
    BY <1>2, <2>1, PcConstants, GotoOnly DEF Open, fileVars
  <2>2. ASSUME NEW i \in Inodes, Goto(u, "read"), ino' = [ino EXCEPT ![u] = i],
               tmp' = [tmp EXCEPT ![path[u]] = i], data' = [data EXCEPT ![i] = Empty]
        PROVE  TypeOK'
    <3>1. pc' \in [Uploads -> PcDomain]
      BY <2>2, PcConstants, GotoType DEF OpenAt
    <3>2. ino' \in [Uploads -> Inodes] /\ tmp' \in [Paths -> Contents]
      BY <2>2 DEF TypeOK, Contents
    <3>3. data' \in FileType
      <4>1. Empty \in [1..Blocks -> Contents]
        BY DEF Empty, Contents
      <4> QED
        BY <2>2, <4>1 DEF TypeOK, FileType
    <3> QED
      BY <1>2, <3>1, <3>2, <3>3 DEF Open, TypeOK, PcDomain, FileType, boundVars
  <2>3. (IF tmp[path[u]] = None THEN u ELSE tmp[path[u]]) \in Inodes
    BY DEF TypeOK, Contents, Inodes
  <2> QED
    BY <1>2, <2>1, <2>2, <2>3 DEF Open
<1>3. CASE Read(u)
  <2>1. ASSUME More(u), NEW b \in BOOLEAN, buffered' = [buffered EXCEPT ![u] = b],
               NEW ks, Put(u, ks), written' = [written EXCEPT ![u] = @ + 1], UNCHANGED pc
        PROVE  TypeOK'
    <3>1. buffered' \in [Uploads -> BOOLEAN]
      BY <2>1 DEF TypeOK
    <3>2. data' \in FileType
      BY <2>1, PutType
    <3>3. written' \in [Uploads -> 0..Blocks]
      <4>1. written[u] \in 0..Blocks /\ written[u] < Blocks
        BY <2>1 DEF TypeOK, More
      <4>2. written[u] + 1 \in 0..Blocks
        BY <4>1, BlockAssumption
      <4> QED
        BY <2>1, <4>2 DEF TypeOK
    <3> QED
      BY <1>3, <2>1, <3>1, <3>2, <3>3 DEF Read, TypeOK, FileType, boundVars
  <2>2. CASE Goto(u, "check") /\ UNCHANGED <<data, written, buffered>>
    BY <1>3, <2>2, PcConstants, GotoOnly DEF Read, OpenAt, fileVars
  <2> QED
    BY <1>3, <2>1, <2>2 DEF Read
<1>4. CASE Check(u)
  <2>1. PICK l \in {"fsync", "refuse"} : Goto(u, l)
    BY <1>4 DEF Check
  <2> QED
    BY <1>4, <2>1, PcConstants, GotoOnly DEF Check, OpenAt
<1>5. CASE Refuse(u)
  <2>1. pc' \in [Uploads -> PcDomain]
    BY <1>5, PcConstants, GotoType DEF Refuse
  <2>2. data' \in FileType
    BY <1>5, PutType DEF Refuse
  <2>3. tmp' \in [Paths -> Contents]
    BY <1>5 DEF Refuse, TypeOK, Contents
  <2> QED
    BY <1>5, <2>1, <2>2, <2>3 DEF Refuse, TypeOK, PcDomain, FileType, boundVars
<1>6. CASE Fsync(u)
  <2>1. pc' \in [Uploads -> PcDomain]
    BY <1>6, PcConstants, GotoType DEF Fsync, OpenAt
  <2>2. disk' \in FileType
    BY <1>6 DEF Fsync, TypeOK, FileType
  <2> QED
    BY <1>6, <2>1, <2>2 DEF Fsync, TypeOK, PcDomain, FileType, boundVars
<1>7. CASE Close(u)
  <2>1. pc' \in [Uploads -> PcDomain]
    BY <1>7, PcConstants, GotoType DEF Close
  <2>2. data' \in FileType /\ losses' \in 0..MaxLosses
    <3>1. CASE Put(u, Buffer(u)) /\ UNCHANGED losses
      BY <3>1, PutType DEF TypeOK
    <3>2. CASE losses < MaxLosses /\ losses' = losses + 1 /\ UNCHANGED data
      BY <3>2, BoundAssumption DEF TypeOK, FileType
    <3> QED
      BY <1>7, <3>1, <3>2 DEF Close
  <2> QED
    BY <1>7, <2>1, <2>2 DEF Close, TypeOK, PcDomain, FileType
<1>8. CASE Rename(u)
  <2>1. CASE /\ tmp[path[u]] # None
             /\ bin' = [bin EXCEPT ![path[u]] = tmp[path[u]]]
             /\ tmp' = [tmp EXCEPT ![path[u]] = None]
             /\ past' = past \cup {bin'[0]} /\ Goto(u, "answer")
    <3>1. pc' \in [Uploads -> PcDomain]
      BY <2>1, PcConstants, GotoType
    <3>2. bin' \in [Paths -> Contents] /\ tmp' \in [Paths -> Contents]
      BY <2>1 DEF TypeOK, Contents
    <3>3. bin'[0] \in Inodes
      <4>1. tmp[path[u]] \in Inodes /\ bin[0] \in Inodes /\ path[u] \in Paths
        BY <2>1 DEF TypeOK, Contents, Present
      <4> QED
        BY <2>1, <4>1 DEF TypeOK, Present
    <3>4. past' \subseteq Inodes
      BY <2>1, <3>3 DEF TypeOK
    <3> QED
      BY <1>8, <2>1, <3>1, <3>2, <3>4 DEF Rename, TypeOK, PcDomain, boundVars
  <2>2. CASE Goto(u, "done") /\ UNCHANGED <<bin, tmp, past>>
    BY <1>8, <2>2, PcConstants, GotoOnly DEF Rename, fileVars
  <2> QED
    BY <1>8, <2>1, <2>2 DEF Rename
<1>9. CASE Answer(u)
  BY <1>9, PcConstants, GotoOnly DEF Answer
<1>10. CASE Exec(u)
  <2>1. pc' \in [Uploads -> PcDomain]
    BY <1>10 DEF Exec, PcDomain, TypeOK
  <2>2. CASE Runnable(Image(u))
    <3>1. Image(u) \in Inodes /\ path[u] \in Paths
      BY <1>10 DEF Exec, Image, TypeOK, Present, Contents
    <3>2. exe' \in [ino : Inodes, path : Paths] /\ server' = server
      BY <1>10, <2>2, <3>1 DEF Exec
    <3> QED
      BY <1>10, <2>1, <3>2 DEF Exec, TypeOK, PcDomain, fileVars, boundVars
  <2>3. CASE ~Runnable(Image(u))
    BY <1>10, <2>1, <2>3 DEF Exec, TypeOK, PcDomain, fileVars, boundVars
  <2> QED
    BY <2>2, <2>3
<1> QED
  BY <1>1, <1>2, <1>3, <1>4, <1>5, <1>6, <1>7, <1>8, <1>9, <1>10 DEF Call, Finishes

LEMMA OtherType ==
  ASSUME TypeOK, Present,
         (\E c \in Commands : Fork(c) \/ CommandEnds(c)) \/ Kill \/ PowerLoss \/ Start
  PROVE  TypeOK'
<1>1. ASSUME NEW c \in Commands, Fork(c) PROVE TypeOK'
  <2>1. {ino[u] : u \in {v \in Uploads : pc[v] \in OpenAt}} \in SUBSET Inodes
    BY DEF TypeOK
  <2> HIDE DEF Inodes, OpenAt
  <2>2. held' \in [Commands -> SUBSET Inodes]
    BY <1>1, <2>1 DEF Fork, TypeOK
  <2> QED
    BY <1>1, <2>2 DEF Fork, TypeOK, fileVars, callVars, boundVars
<1>2. ASSUME NEW c \in Commands, CommandEnds(c) PROVE TypeOK'
  BY <1>2 DEF CommandEnds, TypeOK, fileVars, callVars, boundVars
<1>3. CASE Kill
  <2>1. pc' \in [Uploads -> PcDomain]
    BY <1>3, EndsType DEF Kill
  <2>2. kills' \in 0..MaxKills
    BY <1>3, BoundAssumption DEF Kill, TypeOK
  <2> QED
    BY <1>3, <2>1, <2>2 DEF Kill, TypeOK, PcDomain, fileVars
<1>4. CASE PowerLoss
  <2>1. pc' \in [Uploads -> PcDomain]
    BY <1>4, EndsType DEF PowerLoss
  <2>2. losses' \in 0..MaxLosses
    BY <1>4, BoundAssumption DEF PowerLoss, TypeOK
  <2>3. data' \in FileType /\ disk' \in FileType
    <3>1. PICK gone : data' = [i \in Inodes |-> [k \in 1..Blocks |->
                                 IF <<i, k>> \in gone THEN disk[i][k] ELSE data[i][k]]]
      BY <1>4 DEF PowerLoss
    <3>2. ASSUME NEW i \in Inodes, NEW k \in 1..Blocks
          PROVE  (IF <<i, k>> \in gone THEN disk[i][k] ELSE data[i][k]) \in Contents
      <4>1. data[i] \in [1..Blocks -> Contents] /\ disk[i] \in [1..Blocks -> Contents]
        BY DEF TypeOK
      <4>2. data[i][k] \in Contents /\ disk[i][k] \in Contents
        BY <4>1
      <4> QED
        BY <4>2
    <3>3. data' \in FileType
      BY <3>1, <3>2 DEF FileType
    <3> QED
      BY <1>4, <3>3 DEF PowerLoss
  <2>4. bin' \in [Paths -> Contents] /\ tmp' \in [Paths -> Contents] /\ past' \subseteq Inodes
    <3>1. PICK i \in past : \E t \in ({None, tmp[0]} \cup past) \ {i} :
            /\ bin' = [bin EXCEPT ![0] = i] /\ tmp' = [tmp EXCEPT ![0] = t] /\ past' = {i}
      BY <1>4 DEF PowerLoss
    <3>2. PICK t \in ({None, tmp[0]} \cup past) \ {i} :
            bin' = [bin EXCEPT ![0] = i] /\ tmp' = [tmp EXCEPT ![0] = t] /\ past' = {i}
      BY <3>1
    <3>3. i \in Inodes /\ i \in Contents /\ t \in Contents
      BY <3>2 DEF TypeOK, Contents, Present
    <3> QED
      BY <3>2, <3>3 DEF TypeOK
  <2>5. held' \in [Commands -> SUBSET Inodes]
    BY <1>4 DEF PowerLoss
  <2> QED
    BY <1>4, <2>1, <2>2, <2>3, <2>4, <2>5 DEF PowerLoss, TypeOK, PcDomain, FileType
<1>5. CASE Start
  <2>1. exe' \in [ino : Inodes, path : Paths]
    BY <1>5 DEF Start, TypeOK, Present
  <2>2. starts' \in 0..MaxStarts
    BY <1>5, BoundAssumption DEF Start, TypeOK
  <2> QED
    BY <1>5, <2>1, <2>2 DEF Start, TypeOK, fileVars, callVars
<1> QED
  BY <1>1, <1>2, <1>3, <1>4, <1>5

(* Only rename and a power loss change bin; the first sets what it sets to *)
(* a file, and the second ends the calls.                                  *)
LEMMA PresentStep ==
  ASSUME TypeOK, Present, [Next]_vars
  PROVE  Present'
<1> USE DEF Present
<1>1. ASSUME UNCHANGED <<bin, past>>,
             \A u \in Uploads : pc'[u] \in {"answer", "exec"} => pc[u] \in {"answer", "exec"} /\ path'[u] = path[u]
      PROVE  Present'
  BY <1>1
<1>2. ASSUME NEW u \in Uploads, NEW l \in PcDomain \ {"answer", "exec"}, Goto(u, l), UNCHANGED <<bin, past>>,
             \A v \in Uploads \ {u} : path'[v] = path[v]
      PROVE  Present'
  BY <1>1, <1>2 DEF Goto, TypeOK
<1>3. ASSUME NEW u \in Uploads, Call(u) PROVE Present'
  <2>1. CASE Receive(u)
    BY <1>2, <2>1, PcConstants DEF Receive, TypeOK, fileVars
  <2>2. CASE Open(u)
    BY <1>2, <2>2, PcConstants DEF Open, OpenAt
  <2>3. CASE Read(u)
    BY <1>1, <1>2, <2>3, PcConstants DEF Read, OpenAt
  <2>4. CASE Check(u)
    BY <1>2, <2>4, PcConstants DEF Check, OpenAt, fileVars
  <2>5. CASE Refuse(u) \/ Fsync(u) \/ Close(u)
    BY <1>2, <2>5, PcConstants DEF Refuse, Fsync, Close, OpenAt
  <2>6. CASE Rename(u)
    <3>1. CASE Goto(u, "done") /\ UNCHANGED <<bin, tmp, past>>
      BY <1>2, <2>6, <3>1, PcConstants DEF Rename
    <3>2. CASE /\ tmp[path[u]] # None /\ bin' = [bin EXCEPT ![path[u]] = tmp[path[u]]]
               /\ past' = past \cup {bin'[0]} /\ Goto(u, "answer")
      <4>1. bin'[0] \in past'
        BY <3>2
      <4>2. ASSUME NEW v \in Uploads, pc'[v] \in {"answer", "exec"} PROVE bin'[path'[v]] # None
        <5>1. path'[v] = path[v] /\ path[v] \in Paths /\ path[u] \in Paths
          BY <2>6 DEF Rename, TypeOK
        <5>2. v = u \/ pc[v] \in {"answer", "exec"}
          BY <3>2, <4>2 DEF Goto, TypeOK
        <5> QED
          BY <3>2, <5>1, <5>2 DEF TypeOK
      <4> QED
        BY <4>1, <4>2
    <3> QED
      BY <2>6, <3>1, <3>2 DEF Rename
  <2>7. CASE Answer(u)
    <3>1. UNCHANGED <<bin, past, path>> /\ pc[u] = "answer"
      BY <2>7 DEF Answer, fileVars
    <3> QED
      BY <1>1, <2>7, <3>1 DEF Answer, Goto, TypeOK
  <2>8. CASE Exec(u)
    BY <1>1, <2>8 DEF Exec, fileVars
  <2> QED
    BY <1>3, <2>1, <2>2, <2>3, <2>4, <2>5, <2>6, <2>7, <2>8 DEF Call, Finishes
<1>4. CASE \E c \in Commands : Fork(c) \/ CommandEnds(c)
  BY <1>1, <1>4 DEF Fork, CommandEnds, fileVars, callVars
<1>5. CASE Kill
  BY <1>1, <1>5 DEF Kill, ThreadsEnd, fileVars
<1>6. CASE PowerLoss
  <2>1. PICK i \in past : \E t \in ({None, tmp[0]} \cup past) \ {i} : bin' = [bin EXCEPT ![0] = i] /\ past' = {i}
    BY <1>6 DEF PowerLoss
  <2>2. \A u \in Uploads : pc'[u] \notin {"answer", "exec"}
    BY <1>6 DEF PowerLoss, ThreadsEnd
  <2> QED
    BY <2>1, <2>2 DEF TypeOK
<1>7. CASE Start
  BY <1>1, <1>7 DEF Start, fileVars, callVars
<1>8. CASE UNCHANGED vars
  BY <1>1, <1>8 DEF vars, fileVars, callVars
<1> QED
  BY <1>3, <1>4, <1>5, <1>6, <1>7, <1>8 DEF Next

LEMMA InitPresent == Init => Present
BY BoundAssumption DEF Init, Present, Paths

LEMMA TypeStep ==
  ASSUME TypeOK, Present, [Next]_vars
  PROVE  TypeOK'
<1>1. CASE UNCHANGED vars
  BY <1>1 DEF vars, fileVars, callVars, boundVars, TypeOK
<1> QED
  BY <1>1, CallType, OtherType DEF Next

(* Types, for any number of uploads at the same time.                      *)
LEMMA PresentAndTyped == Spec => [](TypeOK /\ Present)
<1>1. Init => TypeOK /\ Present
  BY InitType, InitPresent
<1>2. TypeOK /\ Present /\ [Next]_vars => TypeOK' /\ Present'
  BY TypeStep, PresentStep
<1> QED
  BY <1>1, <1>2, PTL DEF Spec

(* Every variable of a call and of the file system keeps its type          *)
(* (handle_update, handler.c 276-396), for any number of calls at the same *)
(* time: in particular no call writes more blocks than its length says.    *)
THEOREM UpdateTypeCorrect == Spec => []TypeOK
BY PresentAndTyped, PTL

----------------------------------------------------------------------------
(* One upload at a time: the inductive invariant.                          *)

Active(u) == pc[u] \notin {"none", "done"}

(* The blocks f are those of v, but the last may be missing.               *)
NearOn(f, v) == \A k \in 1..Blocks : f[k] = v \/ (k = Blocks /\ f[k] = None)

(* What u has written so far; the rest is to come, or is in the buffer.    *)
Filled(u) == \A k \in 1..Blocks :
  \/ data[ino[u]][k] = u
  \/ data[ino[u]][k] = None /\ (k > written[u] \/ k \in Buffer(u))

Alone == \A u, v \in Uploads : Active(u) /\ Active(v) => u = v
AtZero == \A u \in Uploads : Active(u) => path[u] = 0
Fresh == \A u \in Uploads : pc[u] \in {"none", "open"} =>
           u \notin past /\ tmp[0] # u /\ written[u] = 0 /\ buffered[u] = FALSE

(* What an upload has reached when it comes to a line.                     *)
Stage(u) ==
  /\ pc[u] \in OpenAt \cup {"rename"} => tmp[0] = ino[u]
  /\ pc[u] \in OpenAt => Filled(u)
  /\ pc[u] \in {"fsync", "close", "rename"} => u \in Good /\ written[u] = Blocks
  /\ pc[u] \in {"close", "rename"} => NearOn(disk[ino[u]], u)
  /\ pc[u] = "rename" => NearOn(data[ino[u]], u) /\ (losses = 0 => data[ino[u]] = Full(u))
Stages == \A u \in Uploads : Stage(u)

(* What was the binary is never written to, and was whole.                 *)
Apart == bin[0] \in past /\ tmp[0] \notin past
KeptAs(i, v) == NearOn(data[i], v) /\ NearOn(disk[i], v) /\ (losses = 0 => data[i] = Full(v))
Kept == \A i \in past : \E v \in Good \cup {Original} : KeptAs(i, v)

(* The server runs the binary, or is about to.                             *)
Current == server = "up" =>
  /\ exe.path = 0 /\ exe.ino \in past
  /\ bin[0] = exe.ino \/ \E u \in Uploads : pc[u] \in {"answer", "exec"}

IInv == Alone /\ AtZero /\ Fresh /\ Stages /\ Apart /\ Kept /\ Current

(* The state of Hotswap.                                                   *)
Installed == [version |-> Version(bin[0]), complete |-> Whole(bin[0])]
Runs == IF server = "up" THEN Version(exe.ino) ELSE None
Ever == {Version(i) : i \in past}
Map == <<Installed, Runs, Ever>>

LEMMA OthersRest ==
  ASSUME TypeOK, Alone, NEW u \in Uploads, Active(u), NEW l, Goto(u, l)
  PROVE  /\ pc'[u] = l
         /\ \A v \in Uploads \ {u} : pc'[v] = pc[v] /\ pc[v] \in {"none", "done"}
BY DEF Alone, Active, TypeOK, Goto

(* What is seen from outside depends on what was the binary only.          *)
LEMMA Unseen ==
  ASSUME Apart, Current, UNCHANGED <<bin, past, server, exe>>, \A i \in past : data'[i] = data[i]
  PROVE  UNCHANGED Map
<1>1. Version(bin[0])' = Version(bin[0]) /\ Whole(bin[0])' = Whole(bin[0])
  BY DEF Apart, Version, Whole
<1>2. UNCHANGED Installed
  BY <1>1 DEF Installed
<1>3. UNCHANGED Runs
  BY DEF Current, Version, Runs
<1>4. UNCHANGED Ever
  BY DEF Ever, Version
<1> QED
  BY <1>2, <1>3, <1>4 DEF Map

(* A step of the upload that is under way, up to rename.                   *)
LEMMA Works ==
  ASSUME TypeOK, IInv, NEW u \in Uploads, Active(u), pc[u] \notin {"answer", "exec"},
         NEW l, l \notin {"none", "open"}, Goto(u, l),
         UNCHANGED <<bin, past, server, exe, path>>,
         \A v \in Uploads \ {u} : written'[v] = written[v] /\ buffered'[v] = buffered[v],
         \A i \in past : data'[i] = data[i] /\ disk'[i] = disk[i],
         losses' = 0 => losses = 0,
         tmp'[0] \notin past, \A v \in Uploads : pc[v] = "none" => tmp'[0] # v,
         Stage(u)'
  PROVE  IInv' /\ UNCHANGED Map
<1>1. /\ pc'[u] = l
      /\ \A v \in Uploads \ {u} : pc'[v] = pc[v] /\ pc[v] \in {"none", "done"}
  BY OthersRest DEF IInv
<1>2. Alone'
  BY <1>1 DEF Alone, Active
<1>3. AtZero'
  BY <1>1 DEF AtZero, Active, IInv
<1>4. Fresh'
  BY <1>1 DEF Fresh, IInv, Active
<1>5. Stages'
  <2>1. ASSUME NEW v \in Uploads, v # u PROVE Stage(v)'
    BY <1>1, <2>1 DEF Stage, OpenAt
  <2> QED
    BY <2>1 DEF Stages
<1>6. Apart'
  BY DEF Apart, IInv
<1>7. Kept'
  BY DEF Kept, KeptAs, NearOn, IInv
<1>8. Current'
  BY <1>1 DEF Current, IInv
<1>9. UNCHANGED Map
  BY Unseen DEF IInv
<1> QED
  BY <1>2, <1>3, <1>4, <1>5, <1>6, <1>7, <1>8, <1>9 DEF IInv

LEMMA NoneIsNoFile ==
  ASSUME TypeOK
  PROVE  None \notin past /\ \A v \in Uploads : None # v
BY NameAssumption DEF TypeOK, Inodes

(* Fresh and Apart for a step that leaves tmp.                             *)
LEMMA TmpRest ==
  ASSUME IInv, UNCHANGED tmp
  PROVE  tmp'[0] \notin past /\ \A v \in Uploads : pc[v] = "none" => tmp'[0] # v
BY DEF IInv, Apart, Fresh

LEMMA PutData ==
  ASSUME TypeOK, NEW u \in Uploads, NEW ks, Put(u, ks)
  PROVE  /\ \A k \in 1..Blocks : data'[ino[u]][k] = IF k \in ks THEN u ELSE data[ino[u]][k]
         /\ \A i \in Inodes \ {ino[u]} : data'[i] = data[i]
<1>1. ino[u] \in Inodes
  BY DEF TypeOK
<1> QED
  BY <1>1 DEF TypeOK, Put

LEMMA OpenStep ==
  ASSUME TypeOK, Present, IInv, NEW u \in Uploads, Open(u)
  PROVE  IInv' /\ UNCHANGED Map
<1>1. Active(u) /\ pc[u] = "open" /\ path[u] = 0
  BY DEF Open, Active, IInv, AtZero
<1>2. CASE Goto(u, "done") /\ UNCHANGED <<tmp, data, ino>>
  <2>1. Stage(u)'
    BY <1>1, <1>2, OthersRest DEF Stage, OpenAt, IInv
  <2> QED
    BY <1>1, <1>2, <2>1, TmpRest, Works DEF Open, boundVars
<1>3. CASE \E i \in {IF tmp[path[u]] = None THEN u ELSE tmp[path[u]]} :
             /\ Goto(u, "read") /\ ino' = [ino EXCEPT ![u] = i]
             /\ tmp' = [tmp EXCEPT ![path[u]] = i] /\ data' = [data EXCEPT ![i] = Empty]
  <2>1. PICK i \in {IF tmp[0] = None THEN u ELSE tmp[0]} :
             /\ Goto(u, "read") /\ ino' = [ino EXCEPT ![u] = i]
             /\ tmp' = [tmp EXCEPT ![0] = i] /\ data' = [data EXCEPT ![i] = Empty]
    BY <1>1, <1>3
  <2>2. i \in Inodes /\ i \notin past /\ \A v \in Uploads : pc[v] = "none" => i # v
    BY <1>1, <2>1 DEF IInv, Fresh, Apart, TypeOK, Present, Contents, Inodes
  <2>3. tmp'[0] = i /\ ino'[u] = i /\ data'[i] = Empty
    BY <2>1, <2>2 DEF TypeOK, Present
  <2>4. \A j \in past : data'[j] = data[j]
    BY <2>1, <2>2 DEF TypeOK
  <2>5. Stage(u)'
    <3>1. pc'[u] = "read"
      BY <1>1, <2>1, OthersRest DEF IInv
    <3>2. written'[u] = 0
      BY <1>1 DEF Open, IInv, Fresh
    <3>3. Filled(u)'
      BY <2>3, <3>2, BlockAssumption DEF Filled, Empty
    <3> QED
      BY <2>3, <3>1, <3>3 DEF Stage
  <2> QED
    BY <1>1, <2>1, <2>2, <2>3, <2>4, <2>5, Works DEF Open, boundVars
<1> QED
  BY <1>2, <1>3 DEF Open

(* The file of an upload under way was never the binary.                   *)
LEMMA OwnFile ==
  ASSUME TypeOK, IInv, NEW u \in Uploads, pc[u] \in OpenAt \cup {"rename"}
  PROVE  /\ Active(u) /\ path[u] = 0 /\ tmp[0] = ino[u]
         /\ ino[u] \in Inodes /\ ino[u] \notin past /\ past \subseteq Inodes
<1>1. Active(u) /\ pc[u] \notin {"none", "done"}
  BY DEF Active, OpenAt
<1>2. tmp[0] = ino[u]
  BY DEF IInv, Stages, Stage
<1> QED
  BY <1>1, <1>2 DEF IInv, AtZero, Apart, TypeOK

LEMMA ReadStep ==
  ASSUME TypeOK, Present, IInv, NEW u \in Uploads, Read(u)
  PROVE  IInv' /\ UNCHANGED Map
<1>1. pc[u] = "read" /\ Active(u) /\ ino[u] \in Inodes /\ ino[u] \notin past /\ past \subseteq Inodes
  BY OwnFile DEF Read, OpenAt
<1>2. Stage(u) /\ Filled(u) /\ tmp[0] = ino[u]
  BY <1>1 DEF IInv, Stages, Stage, OpenAt
<1>3. CASE Goto(u, "check") /\ UNCHANGED <<data, written, buffered>>
  <2>1. pc'[u] = "check"
    BY <1>1, <1>3, OthersRest DEF IInv
  <2>2. Filled(u)'
    BY <1>2, <1>3 DEF Read, Filled, Buffer
  <2>3. Stage(u)'
    BY <1>2, <2>1, <2>2 DEF Read, Stage
  <2> QED
    BY <1>1, <1>3, <2>3, TmpRest, Works DEF Read, boundVars
<1>4. ASSUME NEW b \in BOOLEAN, buffered' = [buffered EXCEPT ![u] = b],
             Put(u, Buffer(u) \cup (IF b THEN {} ELSE {written[u] + 1})),
             written' = [written EXCEPT ![u] = @ + 1], UNCHANGED pc
      PROVE  IInv' /\ UNCHANGED Map
  <2>1. Goto(u, "read")
    BY <1>1, <1>4 DEF Goto, TypeOK
  <2>2. /\ written'[u] = written[u] + 1 /\ buffered'[u] = b /\ ino'[u] = ino[u] /\ written[u] \in Nat
        /\ \A v \in Uploads \ {u} : written'[v] = written[v] /\ buffered'[v] = buffered[v]
    BY <1>4 DEF Read, TypeOK
  <2>3. Filled(u)'
    <3>1. SUFFICES ASSUME NEW k \in 1..Blocks, data'[ino[u]][k] # u
                   PROVE  data'[ino[u]][k] = None /\ (k > written'[u] \/ k \in Buffer(u)')
      BY <2>2 DEF Filled
    <3>2. k \notin Buffer(u) \cup (IF b THEN {} ELSE {written[u] + 1}) /\ data'[ino[u]][k] = data[ino[u]][k]
      BY <1>4, <3>1, PutData
    <3>3. data[ino[u]][k] = None /\ k > written[u]
      BY <1>2, <3>1, <3>2 DEF Filled
    <3>4. CASE b
      BY <2>2, <3>2, <3>3, <3>4 DEF Buffer
    <3>5. CASE ~b
      BY <2>2, <3>2, <3>3, <3>5
    <3> QED
      BY <3>4, <3>5
  <2>4. Stage(u)'
    BY <1>1, <1>2, <1>4, <2>2, <2>3 DEF Read, Stage
  <2>5. \A i \in past : data'[i] = data[i]
    BY <1>1, <1>4, PutData
  <2> QED
    BY <1>1, <2>1, <2>2, <2>4, <2>5, TmpRest, Works DEF Read, boundVars
<1> QED
  BY <1>3, <1>4 DEF Read

LEMMA CheckStep ==
  ASSUME TypeOK, IInv, NEW u \in Uploads, Check(u)
  PROVE  IInv' /\ UNCHANGED Map
<1>1. pc[u] = "check" /\ Active(u)
  BY OwnFile DEF Check, OpenAt
<1>2. Stage(u) /\ Filled(u) /\ tmp[0] = ino[u]
  BY <1>1 DEF IInv, Stages, Stage, OpenAt
<1>3. PICK l \in {"fsync", "refuse"} : Goto(u, l) /\ (l = "fsync" => Accepted(u))
  BY DEF Check
<1>4. pc'[u] = l
  BY <1>1, <1>3, OthersRest DEF IInv
<1>5. Stage(u)'
  BY <1>2, <1>3, <1>4 DEF Check, Stage, Filled, Buffer, Accepted, Good, fileVars, OpenAt
<1> QED
  BY <1>1, <1>3, <1>5, TmpRest, Works DEF Check, fileVars, boundVars

LEMMA RefuseStep ==
  ASSUME TypeOK, Present, IInv, NEW u \in Uploads, Refuse(u)
  PROVE  IInv' /\ UNCHANGED Map
<1>1. pc[u] = "refuse" /\ Active(u) /\ path[u] = 0 /\ ino[u] \notin past /\ past \subseteq Inodes
  BY OwnFile DEF Refuse, OpenAt
<1>2. pc'[u] = "done"
  BY <1>1, OthersRest DEF Refuse, IInv
<1>3. Stage(u)'
  BY <1>2 DEF Stage, OpenAt
<1>4. tmp'[0] = None
  BY <1>1 DEF Refuse, TypeOK, Present
<1>5. \A i \in past : data'[i] = data[i]
  BY <1>1, PutData DEF Refuse
<1> QED
  BY <1>1, <1>3, <1>4, <1>5, NoneIsNoFile, Works DEF Refuse, boundVars

LEMMA FsyncStep ==
  ASSUME TypeOK, IInv, NEW u \in Uploads, Fsync(u)
  PROVE  IInv' /\ UNCHANGED Map
<1>1. pc[u] = "fsync" /\ Active(u) /\ ino[u] \in Inodes /\ ino[u] \notin past /\ past \subseteq Inodes
  BY OwnFile DEF Fsync, OpenAt
<1>2. Stage(u) /\ Filled(u) /\ tmp[0] = ino[u] /\ u \in Good /\ written[u] = Blocks
  BY <1>1 DEF IInv, Stages, Stage, OpenAt
<1>3. pc'[u] = "close"
  BY <1>1, OthersRest DEF Fsync, IInv
<1>4. NearOn(data[ino[u]], u)
  BY <1>2, BlockAssumption DEF Filled, NearOn, Buffer
<1>5. disk'[ino[u]] = data[ino[u]] /\ \A i \in past : disk'[i] = disk[i]
  BY <1>1 DEF Fsync, TypeOK
<1>6. Stage(u)'
  <2>1. NearOn(disk[ino[u]], u)'
    BY <1>4, <1>5 DEF Fsync, NearOn
  <2>2. Filled(u)'
    BY <1>2 DEF Fsync, Filled, Buffer
  <2> QED
    BY <1>2, <1>3, <2>1, <2>2 DEF Fsync, Stage
<1> QED
  BY <1>1, <1>5, <1>6, TmpRest, Works DEF Fsync, boundVars

LEMMA CloseStep ==
  ASSUME TypeOK, Present, IInv, NEW u \in Uploads, Close(u)
  PROVE  IInv' /\ UNCHANGED Map
<1>1. pc[u] = "close" /\ Active(u) /\ ino[u] \in Inodes /\ ino[u] \notin past /\ past \subseteq Inodes
  BY OwnFile DEF Close, OpenAt
<1>2. /\ Filled(u) /\ tmp[0] = ino[u] /\ u \in Good /\ written[u] = Blocks
      /\ NearOn(disk[ino[u]], u)
  BY <1>1 DEF IInv, Stages, Stage, OpenAt
<1>3. pc'[u] = "rename"
  BY <1>1, OthersRest DEF Close, IInv
<1>4. CASE Put(u, Buffer(u)) /\ UNCHANGED losses
  <2>1. \A k \in 1..Blocks : data'[ino[u]][k] = u
    BY <1>2, <1>4, PutData, BlockAssumption DEF Filled
  <2>2. data'[ino[u]] = Full(u)
    <3>1. data'[ino[u]] = [k \in 1..Blocks |-> IF k \in Buffer(u) THEN u ELSE data[ino[u]][k]]
      BY <1>1, <1>4 DEF Put, TypeOK
    <3> QED
      BY <2>1, <3>1 DEF Full
  <2>3. Stage(u)'
    BY <1>2, <1>3, <2>1, <2>2 DEF Close, Stage, NearOn, OpenAt, Full
  <2>4. \A i \in past : data'[i] = data[i]
    BY <1>1, <1>4, PutData
  <2> QED
    BY <1>1, <1>4, <2>3, <2>4, TmpRest, Works DEF Close
<1>5. CASE losses < MaxLosses /\ losses' = losses + 1 /\ UNCHANGED data
  <2>1. losses' # 0
    BY <1>5 DEF TypeOK
  <2>2. NearOn(data[ino[u]], u)
    BY <1>2, BlockAssumption DEF Filled, NearOn, Buffer
  <2>3. Stage(u)'
    BY <1>2, <1>3, <1>5, <2>1, <2>2 DEF Close, Stage, NearOn, OpenAt
  <2> QED
    BY <1>1, <1>5, <2>1, <2>3, TmpRest, Works DEF Close
<1> QED
  BY <1>4, <1>5 DEF Close

(* With MaxOpen = 1 a call begins only when the others have returned, and  *)
(* then the server runs the binary at its path.                            *)
LEMMA ReceiveStep ==
  ASSUME MaxOpen = 1, TypeOK, Present, IInv, NEW u \in Uploads, Receive(u)
  PROVE  IInv' /\ UNCHANGED Map
<1>1. \A v \in Uploads : ~Active(v)
  <2> DEFINE open == {v \in Uploads : pc[v] \notin {"none", "done"}}
  <2>1. IsFiniteSet(open)
    BY SetAssumption, FS_Subset
  <2>2. Cardinality(open) \in Nat /\ Cardinality(open) < 1
    BY <2>1, FS_CardinalityType DEF Receive
  <2>3. open = {}
    BY <2>1, <2>2, FS_EmptySet
  <2> QED
    BY <2>3 DEF Active
<1>2. BinaryPath = 0
  BY <1>1 DEF Receive, IInv, Current, BinaryPath, Active
<1>3. pc[u] = "none" /\ path \in [Uploads -> Paths] /\ pc \in [Uploads -> PcDomain]
  BY DEF Receive, TypeOK, PcDomain
<1>4. PICK l \in {"done", "open"} : Goto(u, l) /\ (l = "open" => path'[u] = 0)
  BY <1>2, <1>3 DEF Receive
<1>5. pc'[u] = l /\ \A v \in Uploads \ {u} : pc'[v] = pc[v]
  BY <1>3, <1>4 DEF Goto
<1>6. Alone' /\ AtZero'
  BY <1>1, <1>4, <1>5 DEF Alone, AtZero, Active
<1>7. Fresh'
  BY <1>3, <1>5 DEF Receive, IInv, Fresh, fileVars
<1>8. Stages'
  BY <1>1, <1>5 DEF Stages, Stage, Active, OpenAt
<1>9. Apart' /\ Kept'
  BY DEF Receive, IInv, Apart, Kept, KeptAs, NearOn, fileVars, boundVars
<1>10. Current'
  BY <1>1 DEF Receive, IInv, Current, fileVars, Active
<1>11. UNCHANGED Map
  BY Unseen DEF Receive, IInv, fileVars
<1> QED
  BY <1>6, <1>7, <1>8, <1>9, <1>10, <1>11 DEF IInv

(* A block of the version is the first one: there are two at least.        *)
LEMMA NearVersion ==
  ASSUME NEW i, NEW v, NearOn(data[i], v)
  PROVE  Version(i) = v
BY BlockAssumption DEF NearOn, Version

LEMMA RenameStep ==
  ASSUME TypeOK, Present, IInv, NEW u \in Uploads, Rename(u)
  PROVE  IInv' /\ (Promise!Install \/ UNCHANGED Map)
<1>1. /\ pc[u] = "rename" /\ Active(u) /\ path[u] = 0 /\ tmp[0] = ino[u]
      /\ ino[u] \in Inodes /\ ino[u] \notin past /\ past \subseteq Inodes
  BY OwnFile DEF Rename
<1>2. u \in Good /\ KeptAs(ino[u], u)
  BY <1>1 DEF IInv, Stages, Stage, KeptAs
<1>3. CASE Goto(u, "done") /\ UNCHANGED <<bin, tmp, past>>
  <2>1. Stage(u)'
    BY <1>1, <1>3, OthersRest DEF Stage, OpenAt, IInv
  <2> QED
    BY <1>1, <1>3, <2>1, TmpRest, Works DEF Rename, boundVars
<1>4. CASE /\ bin' = [bin EXCEPT ![path[u]] = tmp[path[u]]]
           /\ tmp' = [tmp EXCEPT ![path[u]] = None]
           /\ past' = past \cup {bin'[0]} /\ Goto(u, "answer")
  <2>1. bin'[0] = ino[u] /\ tmp'[0] = None /\ past' = past \cup {ino[u]}
    BY <1>1, <1>4 DEF TypeOK, Present
  <2>2. /\ pc'[u] = "answer"
        /\ \A v \in Uploads \ {u} : pc'[v] = pc[v] /\ pc[v] \in {"none", "done"}
    BY <1>1, <1>4, OthersRest DEF IInv
  <2>3. UNCHANGED <<data, disk, server, exe, path, ino, written, buffered, losses>>
    BY DEF Rename, boundVars
  <2>4. Alone' /\ AtZero'
    BY <1>1, <2>2, <2>3 DEF Alone, AtZero, Active
  <2>5. Fresh'
    BY <1>1, <2>1, <2>2, <2>3, NoneIsNoFile DEF IInv, Fresh
  <2>6. Stages'
    BY <2>2 DEF Stages, Stage, OpenAt
  <2>7. Apart'
    BY <1>1, <2>1, NameAssumption DEF Apart
  <2>8. Kept'
    BY <1>2, <2>1, <2>3 DEF IInv, Kept, KeptAs, NearOn
  <2>9. Current'
    BY <2>1, <2>2, <2>3 DEF IInv, Current
  <2>10. Promise!Install
    <3>1. Version(ino[u]) = u /\ Version(bin[0])' = u
      BY <1>2, <2>1, <2>3, NearVersion DEF KeptAs, Version
    <3>2. Whole(bin[0])' \in BOOLEAN
      BY DEF Whole
    <3>3. Installed' = [version |-> u, complete |-> Whole(bin[0])']
      BY <3>1 DEF Installed
    <3>4. Ever' = Ever \cup {u}
      BY <2>1, <2>3, <3>1 DEF Ever, Version
    <3>5. Runs' = Runs
      BY <2>3 DEF Runs, Version
    <3> QED
      BY <1>2, <3>2, <3>3, <3>4, <3>5 DEF Promise!Install, Installed, Ever, Runs
  <2> QED
    BY <2>4, <2>5, <2>6, <2>7, <2>8, <2>9, <2>10 DEF IInv
<1> QED
  BY <1>3, <1>4 DEF Rename

LEMMA AnswerStep ==
  ASSUME TypeOK, IInv, NEW u \in Uploads, Answer(u)
  PROVE  IInv' /\ UNCHANGED Map
<1>1. pc[u] = "answer" /\ Active(u) /\ Goto(u, "exec")
  BY DEF Answer, Active
<1>2. /\ pc'[u] = "exec"
      /\ \A v \in Uploads \ {u} : pc'[v] = pc[v] /\ pc[v] \in {"none", "done"}
  BY <1>1, OthersRest DEF IInv
<1>3. Alone' /\ AtZero' /\ Fresh'
  BY <1>1, <1>2 DEF Answer, IInv, Alone, AtZero, Fresh, Active, fileVars
<1>4. Stages'
  BY <1>2 DEF Stages, Stage, OpenAt
<1>5. Apart' /\ Kept'
  BY DEF Answer, IInv, Apart, Kept, KeptAs, NearOn, fileVars, boundVars
<1>6. Current'
  BY <1>2 DEF Answer, IInv, Current, fileVars
<1>7. UNCHANGED Map
  BY Unseen DEF Answer, IInv, fileVars
<1> QED
  BY <1>3, <1>4, <1>5, <1>6, <1>7 DEF IInv

(* What is left of the invariant when the calls have ended.                *)
LEMMA EndsInv ==
  ASSUME TypeOK, IInv, ThreadsEnd, UNCHANGED <<path, written, buffered>>,
         past' \subseteq past, \A v \in Uploads : v \notin past /\ tmp[0] # v => tmp'[0] # v
  PROVE  Alone' /\ AtZero' /\ Fresh' /\ Stages'
<1>1. \A v \in Uploads : (pc'[v] = "none" /\ pc[v] = "none") \/ pc'[v] = "done"
  BY DEF ThreadsEnd
<1> QED
  BY <1>1 DEF IInv, Alone, AtZero, Fresh, Stages, Stage, OpenAt, Active

(* The binary that runs is the original or one somebody sent.              *)
LEMMA Something ==
  ASSUME IInv, NEW i \in past
  PROVE  Version(i) # None /\ Version(i) \in Good \cup {Original}
<1>1. PICK v \in Good \cup {Original} : KeptAs(i, v)
  BY DEF IInv, Kept
<1>2. Version(i) = v
  BY <1>1, NearVersion DEF KeptAs
<1> QED
  BY <1>2, NameAssumption DEF Good, Inodes

LEMMA ExecStep ==
  ASSUME TypeOK, Present, IInv, NEW u \in Uploads, Exec(u)
  PROVE  IInv' /\ (Promise!Swap \/ Promise!Stop)
<1>1. pc[u] = "exec" /\ server = "up" /\ path[u] = 0 /\ Image(u) = bin[0]
  BY DEF Exec, Alive, IInv, AtZero, Active, Image
<1>2. UNCHANGED <<bin, tmp, data, disk, past, path, ino, written, buffered, losses>> /\ ThreadsEnd
  BY DEF Exec, fileVars, boundVars, ThreadsEnd
<1>3. Alone' /\ AtZero' /\ Fresh' /\ Stages'
  BY <1>2, EndsInv
<1>4. Apart' /\ Kept'
  BY <1>2 DEF IInv, Apart, Kept, KeptAs, NearOn
<1>5. UNCHANGED <<Installed, Ever>>
  BY <1>2 DEF Installed, Ever, Version, Whole
<1>6. CASE Runnable(bin[0])
  <2>1. exe' = [ino |-> bin[0], path |-> 0] /\ server' = "up"
    BY <1>1, <1>6 DEF Exec
  <2>2. Current'
    BY <1>2, <2>1 DEF IInv, Current, Apart
  <2>3. Promise!Swap
    <3>1. Runs # None
      BY <1>1, Something DEF Runs, IInv, Current
    <3>2. Runs' = Installed.version
      BY <1>2, <2>1 DEF Runs, Installed, Version
    <3>3. Installed.complete
      BY <1>6 DEF Installed, Runnable
    <3> QED
      BY <1>5, <3>1, <3>2, <3>3 DEF Promise!Swap, Installed, Runs, Ever
  <2> QED
    BY <1>3, <1>4, <2>2, <2>3 DEF IInv
<1>7. CASE ~Runnable(bin[0])
  <2>1. server' = "exited"
    BY <1>1, <1>7 DEF Exec
  <2>2. Current'
    BY <2>1 DEF Current
  <2>3. Promise!Stop
    BY <1>5, <2>1 DEF Promise!Stop, Installed, Runs, Ever
  <2> QED
    BY <1>3, <1>4, <2>2, <2>3 DEF IInv
<1> QED
  BY <1>6, <1>7

(* Steps of other processes.  The file of a version is on the disk as it   *)
(* is in memory, but for its last block.                                   *)
LEMMA PowerLossStep ==
  ASSUME TypeOK, Present, IInv, PowerLoss
  PROVE  IInv' /\ Promise!PowerLoss
<1>1. PICK i \in past : \E t \in ({None, tmp[0]} \cup past) \ {i} :
        bin' = [bin EXCEPT ![0] = i] /\ tmp' = [tmp EXCEPT ![0] = t] /\ past' = {i}
  BY DEF PowerLoss
<1>2. PICK t \in ({None, tmp[0]} \cup past) \ {i} :
        bin' = [bin EXCEPT ![0] = i] /\ tmp' = [tmp EXCEPT ![0] = t] /\ past' = {i}
  BY <1>1
<1>3. bin'[0] = i /\ tmp'[0] = t /\ past' = {i} /\ i \in Inodes
  BY <1>2 DEF TypeOK, Present
<1>4. server' = "killed" /\ ThreadsEnd /\ UNCHANGED <<path, written, buffered>> /\ losses' # 0
  BY DEF PowerLoss, TypeOK
<1>5. Alone' /\ AtZero' /\ Fresh' /\ Stages'
  <2>1. \A v \in Uploads : v \notin past /\ tmp[0] # v => tmp'[0] # v
    BY <1>2, <1>3, NoneIsNoFile
  <2> QED
    BY <1>3, <1>4, <2>1, EndsInv
<1>6. Apart' /\ Current'
  BY <1>2, <1>3, <1>4 DEF Apart, Current
<1>7. PICK v \in Good \cup {Original} : KeptAs(i, v)
  BY DEF IInv, Kept
<1>8. NearOn(data'[i], v) /\ disk' = data'
  <2>1. PICK gone : data' = [j \in Inodes |-> [k \in 1..Blocks |->
                               IF <<j, k>> \in gone THEN disk[j][k] ELSE data[j][k]]]
    BY DEF PowerLoss
  <2>2. \A k \in 1..Blocks : data'[i][k] \in {disk[i][k], data[i][k]}
    BY <1>3, <2>1
  <2> QED
    BY <1>7, <2>2 DEF PowerLoss, KeptAs, NearOn
<1>9. Kept'
  BY <1>3, <1>4, <1>7, <1>8 DEF Kept, KeptAs, NearOn
<1>10. Promise!PowerLoss
  <2>1. Version(i) = v /\ Version(bin[0])' = v /\ Version(i)' = v
    BY <1>3, <1>7, <1>8, NearVersion, BlockAssumption DEF KeptAs, NearOn, Version
  <2>2. v \in Ever /\ Ever' = {v}
    BY <1>3, <2>1 DEF Ever
  <2>3. Installed' = [version |-> v, complete |-> Whole(bin[0])'] /\ Whole(bin[0])' \in BOOLEAN
    BY <2>1 DEF Installed, Whole
  <2>4. Runs' = None
    BY <1>4 DEF Runs
  <2> QED
    BY <2>2, <2>3, <2>4 DEF Promise!PowerLoss, Installed, Ever, Runs
<1> QED
  BY <1>5, <1>6, <1>9, <1>10 DEF IInv

LEMMA KillStep ==
  ASSUME TypeOK, IInv, Kill
  PROVE  IInv' /\ Promise!Stop
<1>1. UNCHANGED <<bin, tmp, data, disk, past, path, written, buffered, losses>> /\ ThreadsEnd /\ server' = "killed"
  BY DEF Kill, fileVars
<1>2. Alone' /\ AtZero' /\ Fresh' /\ Stages'
  BY <1>1, EndsInv
<1>3. Apart' /\ Kept' /\ Current'
  BY <1>1 DEF IInv, Apart, Kept, KeptAs, NearOn, Current
<1>4. Promise!Stop
  BY <1>1 DEF Promise!Stop, Installed, Runs, Ever, Version, Whole
<1> QED
  BY <1>2, <1>3, <1>4 DEF IInv

(* A step that leaves files and calls alone.                               *)
LEMMA Elsewhere ==
  ASSUME IInv, UNCHANGED <<fileVars, callVars, losses>>
  PROVE  Alone' /\ AtZero' /\ Fresh' /\ Stages' /\ Apart' /\ Kept' /\ UNCHANGED <<Installed, Ever>>
<1>1. Alone' /\ AtZero' /\ Fresh'
  BY DEF IInv, Alone, AtZero, Fresh, Active, fileVars, callVars
<1>2. Stages'
  BY DEF IInv, Stages, Stage, Filled, NearOn, Buffer, fileVars, callVars
<1>3. Apart' /\ Kept'
  BY DEF IInv, Apart, Kept, KeptAs, NearOn, fileVars
<1>4. UNCHANGED <<Installed, Ever>>
  BY DEF Installed, Ever, Version, Whole, fileVars
<1> QED
  BY <1>1, <1>2, <1>3, <1>4

LEMMA StartStep ==
  ASSUME TypeOK, IInv, Start
  PROVE  IInv' /\ Promise!Start
<1>1. Alone' /\ AtZero' /\ Fresh' /\ Stages' /\ Apart' /\ Kept' /\ UNCHANGED <<Installed, Ever>>
  BY Elsewhere DEF Start
<1>2. Current'
  BY DEF Start, IInv, Apart, Current, fileVars
<1>3. Promise!Start
  <2>1. Runs = None /\ Runs' = Installed.version
    BY DEF Start, Runs, Installed, Version, fileVars
  <2>2. Installed.complete
    BY DEF Start, Installed, Runnable
  <2> QED
    BY <1>1, <2>1, <2>2 DEF Promise!Start, Installed, Runs, Ever
<1> QED
  BY <1>1, <1>2, <1>3 DEF IInv

LEMMA RestStep ==
  ASSUME IInv, UNCHANGED vars \/ \E c \in Commands : Fork(c) \/ CommandEnds(c)
  PROVE  IInv' /\ UNCHANGED Map
<1>1. UNCHANGED <<fileVars, callVars, losses, server, exe>>
  BY DEF vars, boundVars, Fork, CommandEnds
<1>2. Current'
  BY <1>1 DEF IInv, Current, fileVars, callVars
<1>3. UNCHANGED Map
  BY <1>1, Unseen DEF IInv, fileVars
<1> QED
  BY <1>1, <1>2, <1>3, Elsewhere DEF IInv

LEMMA Step ==
  ASSUME MaxOpen = 1, TypeOK, Present, IInv, [Next]_vars
  PROVE  IInv' /\ [Promise!Next]_Map
<1> USE DEF Promise!Next
<1>1. ASSUME NEW u \in Uploads, Call(u) PROVE IInv' /\ [Promise!Next]_Map
  <2>1. CASE Receive(u)
    BY <2>1, ReceiveStep
  <2>2. CASE Open(u)
    BY <2>2, OpenStep
  <2>3. CASE Read(u)
    BY <2>3, ReadStep
  <2>4. CASE Check(u)
    BY <2>4, CheckStep
  <2>5. CASE Refuse(u)
    BY <2>5, RefuseStep
  <2>6. CASE Fsync(u)
    BY <2>6, FsyncStep
  <2>7. CASE Close(u)
    BY <2>7, CloseStep
  <2>8. CASE Rename(u)
    BY <2>8, RenameStep
  <2>9. CASE Answer(u)
    BY <2>9, AnswerStep
  <2>10. CASE Exec(u)
    BY <2>10, ExecStep
  <2> QED
    BY <1>1, <2>1, <2>2, <2>3, <2>4, <2>5, <2>6, <2>7, <2>8, <2>9, <2>10 DEF Call, Finishes
<1>2. CASE PowerLoss
  BY <1>2, PowerLossStep
<1>3. CASE Kill
  BY <1>3, KillStep
<1>4. CASE Start
  BY <1>4, StartStep
<1>5. CASE UNCHANGED vars \/ \E c \in Commands : Fork(c) \/ CommandEnds(c)
  BY <1>5, RestStep
<1> QED
  BY <1>1, <1>2, <1>3, <1>4, <1>5 DEF Next

LEMMA InitInv == Init => IInv /\ Promise!Init
<1> SUFFICES ASSUME Init PROVE IInv /\ Promise!Init
  OBVIOUS
<1>1. bin[0] = Original /\ tmp[0] = None /\ past = {Original} /\ Original # None
  BY BoundAssumption, NameAssumption DEF Init, Paths, Inodes
<1>2. data[Original] = Full(Original) /\ disk[Original] = Full(Original)
  BY DEF Init, Inodes
<1>3. Version(Original) = Original
  BY <1>2, BlockAssumption DEF Version, Full
<1>4. Alone /\ AtZero /\ Stages /\ Current
  BY <1>1 DEF Init, Alone, AtZero, Stages, Stage, Active, OpenAt, Current
<1>5. Fresh
  BY <1>1, NameAssumption DEF Init, Fresh, Inodes
<1>6. Apart
  BY <1>1 DEF Apart
<1>6a. Kept
  <2>1. \A k \in 1..Blocks : data[Original][k] = Original /\ disk[Original][k] = Original
    BY <1>2 DEF Full
  <2>2. KeptAs(Original, Original)
    BY <1>2, <2>1 DEF KeptAs, NearOn
  <2> QED
    BY <1>1, <2>2 DEF Kept
<1>7. Promise!Init
  <2>1. Whole(bin[0]) = TRUE
    BY <1>1, <1>2 DEF Whole
  <2> QED
    BY <1>1, <1>3, <2>1 DEF Init, Promise!Init
<1> QED
  BY <1>4, <1>5, <1>6, <1>6a, <1>7 DEF IInv

(* handler.c 364: the file at the path of the binary is the original or a  *)
(* complete upload that was sent with its own hash, for any number of      *)
(* uploads one after the other, blocks, kills and power losses; after a    *)
(* full disk or a power loss the last block may be missing.                *)
THEOREM BinaryWholeHolds ==
  ASSUME MaxOpen = 1
  PROVE  Spec => []BinaryWhole
<1>1. Init => IInv
  BY InitInv
<1>2. TypeOK /\ Present /\ IInv /\ [Next]_vars => IInv'
  BY Step
<1>3. IInv => BinaryWhole
  BY DEF IInv, Apart, Kept, KeptAs, NearOn, Near, BinaryWhole
<1> QED
  BY <1>1, <1>2, <1>3, PresentAndTyped, PTL DEF Spec

(* handle_update with the file system under it does what Hotswap promises: *)
(* whatever the calls, other processes, kills and power losses do, a       *)
(* server changes to a binary only after it was verified and installed.    *)
THEOREM ImplementsHolds ==
  ASSUME MaxOpen = 1
  PROVE  Spec => Implements
<1>1. Init => IInv /\ Promise!Init
  BY InitInv
<1>2. TypeOK /\ Present /\ IInv /\ [Next]_vars => IInv' /\ [Promise!Next]_Map
  BY Step
<1> QED
  BY <1>1, <1>2, PresentAndTyped, PTL DEF Spec, Implements, Promise!Spec, Map, Installed, Runs, Ever
=============================================================================
