---------------------------- MODULE CertsProofs ----------------------------
(***************************************************************************)
(* Theorems about Certs, for any number of generations, killed commands    *)
(* and calls that fail.                                                    *)
(***************************************************************************)
EXTENDS Certs, TLAPS
LOCAL INSTANCE SequencesExt

(* The files by name, and in the order of each command.                    *)
LEMMA NamesAre ==
  /\ Names = {"ca.crt", "ca.key", "server.crt", "server.key", "client.crt", "client.key"}
  /\ Built = {"ca.crt", "ca.key", "server.crt", "server.key"}
  /\ ToSet(Loaded) = {"server.crt", "server.key", "ca.crt"}
BY DEF Names, Built, Copied, Embedded, Loaded, ToSet

LEMMA Orders ==
  /\ \A i \in 1..6 : Generated[i] \in Names /\ Copied[i] \in Names
  /\ \A n \in Names : \E i \in 1..6 : n = Generated[i]
  /\ \A i, j \in 1..6 : Generated[i] = Generated[j] => i = j
  /\ Generated[4] = "server.crt" /\ Generated[5] = "client.key" /\ Generated[6] = "client.crt"
  /\ \A i \in 1..4 : Own[i] \in Built
  /\ \A i \in 1..3 : Loaded[i] \in ToSet(Loaded)
  /\ \A n \in ToSet(Loaded) : \E i \in 1..3 : n = Loaded[i]
  /\ \A i, j \in 1..3 : Loaded[i] = Loaded[j] => i = j
  /\ Loaded[1] = "server.crt"
<1>1. \A i \in 1..6 : i = 1 \/ i = 2 \/ i = 3 \/ i = 4 \/ i = 5 \/ i = 6
  OBVIOUS
<1>2. \A i \in 1..4 : i = 1 \/ i = 2 \/ i = 3 \/ i = 4
  OBVIOUS
<1>3. \A i \in 1..3 : i = 1 \/ i = 2 \/ i = 3
  OBVIOUS
<1>4. \A i \in 1..6 : Generated[i] \in Names /\ Copied[i] \in Names
  BY <1>1, NamesAre DEF Generated, Copied
<1>5. \A n \in Names : \E i \in 1..6 : n = Generated[i]
  BY NamesAre DEF Generated
<1>6. Generated[4] = "server.crt" /\ Generated[5] = "client.key" /\ Generated[6] = "client.crt"
  BY DEF Generated
<1>7. \A i \in 1..4 : Own[i] \in Built
  BY <1>2, NamesAre DEF Own
<1>8. \A i \in 1..3 : Loaded[i] \in ToSet(Loaded)
  BY <1>3, NamesAre DEF Loaded
<1>9. \A n \in ToSet(Loaded) : \E i \in 1..3 : n = Loaded[i]
  BY NamesAre DEF Loaded
<1>10. \A i, j \in 1..6 : Generated[i] = Generated[j] => i = j
  BY <1>1 DEF Generated
<1>11. (\A i, j \in 1..3 : Loaded[i] = Loaded[j] => i = j) /\ Loaded[1] = "server.crt"
  BY <1>3 DEF Loaded
<1> QED
  BY <1>4, <1>5, <1>6, <1>7, <1>8, <1>9, <1>10, <1>11

----------------------------------------------------------------------------
(* Types, and what is left to do.                                          *)

Commands == {"init", "save", "embed", "link"}

(* A generation can only be the first command, and there is room for it.   *)
Program(s, g) ==
  /\ s \in Seq(Commands)
  /\ \A i \in 2..Len(s) : s[i] # "init"
  /\ s # <<>> /\ Head(s) = "init" => g < MaxGen

Making == At("init") /\ at > 1

(* What a command relies on at the point it has come to.                   *)
Queue ==
  /\ \A i \in 2..Len(work) : work[i] # "init"
  /\ At("init") /\ at = 1 => gen < MaxGen
  /\ At("init") /\ opened => at \in 2..7
  /\ Making => gen \in Gens
  /\ At("save") /\ at > 1 => dir = files["server.crt"] /\ Whole(dir)
  /\ At("embed") /\ opened => \A n \in Built : Whole(files[n])

DiskType ==
  /\ files \in [Names -> Contents] /\ saved \in [Gens -> [Names -> Contents]]
  /\ header \in [Built -> Contents] /\ binary \in [Built -> Gens \cup {Missing}]
ShellType ==
  /\ work \in Seq(Commands) /\ at \in 1..8 /\ opened \in BOOLEAN /\ ok \in BOOLEAN
  /\ gen \in 0..MaxGen /\ dir \in 0..MaxGen /\ over \in BOOLEAN /\ damaged \in BOOLEAN
DaemonType ==
  /\ server \in [state : {"down", "load", "up"}, at : 1..4, has : [ToSet(Loaded) -> Gens \cup {Missing}]]
  /\ calm \in BOOLEAN
FaultType == kills \in Nat /\ fails \in Nat /\ kills + fails <= MaxFaults

LEMMA TypeParts == TypeOK <=> DiskType /\ ShellType /\ DaemonType /\ FaultType
BY DEF TypeOK, DiskType, ShellType, DaemonType, FaultType, Commands

LEMMA TypePartsNext == TypeOK' <=> DiskType' /\ ShellType' /\ DaemonType' /\ FaultType'
BY DEF TypeOK, DiskType, ShellType, DaemonType, FaultType, Commands

LEMMA InitType == Init => TypeOK /\ Queue
<1> SUFFICES ASSUME Init PROVE TypeOK /\ Queue
  OBVIOUS
<1>1. DiskType
  BY NamesAre DEF Init, DiskType, None, Contents
<1>2. ShellType
  <2>1. 0 \in 0..MaxGen /\ 1 \in 1..8 /\ <<>> \in Seq(Commands)
    BY BoundAssumption
  <2> QED
    BY <2>1 DEF Init, ShellType
<1>3. DaemonType
  BY DEF Init, DaemonType, NoServer, None
<1>4. FaultType
  BY BoundAssumption DEF Init, FaultType
<1>5. Queue
  BY DEF Init, Queue, At, Making
<1> QED
  BY <1>1, <1>2, <1>3, <1>4, <1>5, TypeParts

(* A list of commands is begun.                                            *)
LEMMA RunType ==
  ASSUME NEW s, Program(s, gen'), Run(s), gen' \in 0..MaxGen, damaged' \in BOOLEAN
  PROVE  ShellType' /\ Queue' /\ ~Making'
<1>1. work' = s /\ at' = 1 /\ opened' = FALSE /\ ok' = TRUE /\ dir' = 0 /\ over' = FALSE
  BY DEF Run
<1>2. ShellType'
  <2>1. 0 \in 0..MaxGen /\ 1 \in 1..8
    BY BoundAssumption
  <2> QED
    BY <1>1, <2>1 DEF ShellType, Program
<1>3. ~Making'
  BY <1>1 DEF Making
<1>4. Queue'
  BY <1>1 DEF Queue, Program, Making, At
<1> QED
  BY <1>2, <1>3, <1>4

LEMMA TailProgram ==
  ASSUME ShellType, Queue, work # <<>>, NEW g
  PROVE  Program(Tail(work), g)
<1>1. work \in Seq(Commands)
  BY DEF ShellType
<1>2. /\ Tail(work) \in Seq(Commands) /\ Len(Tail(work)) = Len(work) - 1
      /\ \A i \in 1..Len(Tail(work)) : Tail(work)[i] = work[i + 1]
  BY <1>1
<1>3. \A i \in 1..Len(Tail(work)) : Tail(work)[i] # "init"
  BY <1>1, <1>2 DEF Queue
<1>4. ASSUME Tail(work) # <<>> PROVE Head(Tail(work)) # "init"
  <2>1. Head(Tail(work)) = Tail(work)[1] /\ 1 \in 1..Len(Tail(work))
    BY <1>2, <1>4
  <2> QED
    BY <1>3, <2>1
<1> QED
  BY <1>2, <1>3, <1>4 DEF Program

LEMMA GoalsProgram ==
  ASSUME "init" \in ToSet(Goals) => gen < MaxGen
  PROVE  Program(Goals, gen)
<1>1. Goals \in {<<>>, <<"link">>, <<"init", "save", "embed", "link">>, <<"save", "embed", "link">>}
  BY DEF Goals
<1>2. CASE Goals = <<"init", "save", "embed", "link">>
  <2>1. "init" \in ToSet(Goals)
    BY <1>2 DEF ToSet
  <2>2. Goals[2] = "save" /\ Goals[3] = "embed" /\ Goals[4] = "link" /\ Len(Goals) = 4
    BY <1>2
  <2>3. \A i \in 2..4 : i = 2 \/ i = 3 \/ i = 4
    OBVIOUS
  <2>4. Goals \in Seq(Commands)
    BY <1>2 DEF Commands
  <2> QED
    BY <2>1, <2>2, <2>3, <2>4 DEF Program
<1>3. CASE Goals = <<"save", "embed", "link">>
  <2>1. Goals[1] = "save" /\ Goals[2] = "embed" /\ Goals[3] = "link" /\ Len(Goals) = 3 /\ Head(Goals) = "save"
    BY <1>3
  <2>2. \A i \in 2..3 : i = 2 \/ i = 3
    OBVIOUS
  <2>3. Goals \in Seq(Commands)
    BY <1>3 DEF Commands
  <2> QED
    BY <2>1, <2>2, <2>3 DEF Program
<1>4. CASE Goals = <<>> \/ Goals = <<"link">>
  <2>1. Goals \in Seq(Commands) /\ Len(Goals) \in {0, 1} /\ (Goals # <<>> => Head(Goals) = "link")
    <3>1. CASE Goals = <<>>
      BY <3>1
    <3>2. CASE Goals = <<"link">>
      BY <3>2 DEF Commands
    <3> QED
      BY <1>4, <3>1, <3>2
  <2> QED
    BY <2>1 DEF Program
<1> QED
  BY <1>1, <1>2, <1>3, <1>4

(* The commands that end, and the end of one of several.                   *)
LEMMA DoneType ==
  ASSUME TypeOK, Queue, work # <<>>, Done \/ Abort, gen' = gen, damaged' = damaged
  PROVE  ShellType' /\ Queue' /\ ~Making'
<1>1. gen' \in 0..MaxGen /\ damaged' \in BOOLEAN /\ ShellType
  BY TypeParts DEF ShellType
<1>2. CASE Done
  <2>1. Program(Tail(work), gen')
    BY <1>1, TailProgram
  <2> QED
    BY <1>1, <1>2, <2>1, RunType DEF Done
<1>3. CASE Abort
  <2>1. Program(<<>>, gen')
    BY DEF Program
  <2> QED
    BY <1>1, <1>3, <2>1, RunType DEF Abort
<1> QED
  BY <1>2, <1>3

LEMMA FaultStep ==
  ASSUME FaultType,
         \/ Fail /\ kills' = kills
         \/ UNCHANGED <<kills, fails>>
         \/ kills + fails < MaxFaults /\ kills' = kills + 1 /\ fails' = fails
  PROVE  FaultType'
BY BoundAssumption DEF FaultType, Fail

(* No command goes on, and the files stay.                                 *)
LEMMA QueueStays ==
  ASSUME TypeOK, Queue, UNCHANGED <<files, shell>>
  PROVE  ShellType' /\ Queue'
BY TypeParts DEF ShellType, Queue, Making, At, Whole, shell

(* What the operator types.                                                *)
LEMMA AskType ==
  ASSUME TypeOK, Queue, Make \/ (\E mode \in {"init", "save", "embed"} : Type(mode))
  PROVE  ShellType' /\ Queue' /\ ~Making'
<1>1. gen' = gen /\ gen \in 0..MaxGen /\ damaged' \in BOOLEAN
  BY TypeParts DEF Make, Type, ShellType
<1>2. CASE Make
  <2>1. Program(Goals, gen') /\ Run(Goals)
    BY <1>1, <1>2, GoalsProgram DEF Make, Ask
  <2> QED
    BY <1>1, <2>1, RunType
<1>3. ASSUME NEW mode \in {"init", "save", "embed"}, Type(mode) PROVE ShellType' /\ Queue' /\ ~Making'
  <2>1. mode = "init" => gen < MaxGen
    <3>1. mode = "init" => "init" \in ToSet(<<mode>>)
      BY DEF ToSet
    <3> QED
      BY <1>3, <3>1 DEF Type, Ask
  <2>2. Program(<<mode>>, gen')
    <3>1. <<mode>> \in Seq(Commands) /\ Len(<<mode>>) = 1 /\ Head(<<mode>>) = mode
      BY DEF Commands
    <3> QED
      BY <1>1, <2>1, <3>1 DEF Program
  <2> QED
    BY <1>1, <1>3, <2>2, RunType DEF Type, Ask
<1> QED
  BY <1>2, <1>3

LEMMA KillType ==
  ASSUME TypeOK, Queue, Kill
  PROVE  TypeOK' /\ Queue' /\ ~Making'
<1>1. /\ gen' = gen /\ gen \in 0..MaxGen /\ damaged' \in BOOLEAN
  BY TypeParts DEF Kill, ShellType, At
<1>2. ShellType' /\ Queue' /\ ~Making'
  <2>1. Program(<<>>, gen')
    BY DEF Program
  <2> QED
    BY <1>1, <2>1, RunType DEF Kill, Abort
<1>3. DiskType'
  <2>1. header' \in [Built -> Contents] /\ saved' \in [Gens -> [Names -> Contents]]
    BY TypeParts, Orders DEF Kill, DiskType, None, Contents, Copy
  <2> QED
    BY <2>1, TypeParts DEF Kill, DiskType
<1>4. DaemonType' /\ FaultType'
  BY TypeParts, FaultStep DEF Kill, DaemonType, daemon
<1> QED
  BY <1>2, <1>3, <1>4, TypePartsNext

(* --init-certs.                                                           *)
LEMMA GenerateType ==
  ASSUME TypeOK, Queue, Generate \/ OpenPem \/ WritePem \/ GenerateEnds
  PROVE  TypeOK' /\ Queue'
<1> USE TypeParts
<1>1. CASE Generate
  <2>1. gen \in 0..MaxGen /\ gen < MaxGen /\ MaxGen \in Nat /\ ~opened /\ gen' = gen + 1
    BY <1>1, BoundAssumption DEF Generate, Queue, ShellType
  <2>2. gen' \in Gens /\ gen' \in 0..MaxGen
    BY <2>1 DEF Gens
  <2>3. ShellType'
    BY <1>1, <2>2 DEF Generate, ShellType
  <2>4. Queue'
    BY <1>1, <2>1, <2>2 DEF Generate, Queue, Making, At
  <2> QED
    BY <1>1, <2>3, <2>4, TypePartsNext DEF Generate, DiskType, disk, DaemonType, daemon, FaultType
<1>2. CASE OpenPem
  <2>1. at \in 2..7 /\ At("init")
    BY <1>2 DEF OpenPem
  <2>2. files' \in [Names -> Contents]
    BY <1>2 DEF OpenPem, DiskType, Contents
  <2>3. ShellType' /\ FaultType'
    <3>1. ok' \in BOOLEAN /\ opened' \in BOOLEAN /\ at' \in {at, at + 1}
      BY <1>2, <2>1 DEF OpenPem, ShellType
    <3>2. FaultType'
      BY <1>2, FaultStep DEF OpenPem
    <3> QED
      BY <1>2, <2>1, <3>1, <3>2 DEF OpenPem, ShellType
  <2>4. Queue'
    BY <1>2, <2>1 DEF OpenPem, Queue, Making, At
  <2>5. DaemonType'
    BY <1>2 DEF OpenPem, DaemonType
  <2> QED
    BY <1>2, <2>2, <2>3, <2>4, <2>5, TypePartsNext DEF OpenPem, DiskType
<1>3. CASE WritePem
  <2>1. at \in 2..7 /\ At("init")
    BY <1>3 DEF WritePem, Queue
  <2>2. files' \in [Names -> Contents]
    <3>1. gen \in Contents
      BY <2>1 DEF Queue, Making, Contents
    <3> QED
      BY <1>3, <3>1 DEF WritePem, DiskType
  <2>3. ShellType' /\ FaultType'
    <3>1. ok' \in BOOLEAN /\ opened' \in BOOLEAN /\ FaultType'
      BY <1>3, FaultStep DEF WritePem, ShellType
    <3>2. at' = at + 1 /\ UNCHANGED <<work, gen, dir, over, damaged>>
      BY <1>3 DEF WritePem
    <3> QED
      BY <2>1, <3>1, <3>2 DEF ShellType
  <2>4. Queue'
    BY <1>3, <2>1 DEF WritePem, Queue, Making, At
  <2> QED
    BY <1>3, <2>2, <2>3, <2>4, TypePartsNext DEF WritePem, DiskType, DaemonType, daemon
<1>4. CASE GenerateEnds
  <2>1. ShellType' /\ Queue'
    BY <1>4, DoneType DEF GenerateEnds, At
  <2> QED
    BY <1>4, <2>1, TypePartsNext DEF GenerateEnds, DiskType, disk, DaemonType, daemon, FaultType
<1> QED
  BY <1>1, <1>2, <1>3, <1>4

(* --save-certs, --embed-c-header and the compiler.                        *)
LEMMA CopyType ==
  ASSUME TypeOK, Queue, SaveBegin \/ CopyFile \/ SaveEnds \/ OpenHeader \/ WriteHeader \/ Link
  PROVE  TypeOK' /\ Queue'
<1> USE TypeParts
<1>1. CASE SaveBegin
  <2>1. ShellType' /\ Queue'
    <3>1. CASE Whole(files["server.crt"])
      <4>1. /\ dir' = files["server.crt"] /\ dir' \in Gens /\ at' = 2 /\ at = 1 /\ At("save")
            /\ UNCHANGED <<work, opened, ok, over, gen, damaged, files>>
        BY <1>1, <3>1 DEF SaveBegin, Fingerprint, Whole, disk
      <4>2. ShellType'
        BY <4>1, BoundAssumption DEF ShellType, Gens
      <4>3. Queue'
        BY <4>1 DEF Queue, Making, At, Whole
      <4> QED
        BY <4>2, <4>3
    <3>2. CASE ~Whole(files["server.crt"])
      BY <1>1, <3>2, DoneType DEF SaveBegin, At
    <3> QED
      BY <3>1, <3>2
  <2> QED
    BY <1>1, <2>1, TypePartsNext DEF SaveBegin, DiskType, disk, DaemonType, daemon, FaultType
<1>2. CASE CopyFile
  <2>1. at \in 2..7 /\ At("save") /\ at' = at + 1 /\ UNCHANGED <<files, work, opened, gen, ok, dir, over, damaged>>
    BY <1>2 DEF CopyFile
  <2>2. saved' \in [Gens -> [Names -> Contents]]
    BY <1>2, <2>1, Orders DEF CopyFile, Copy, CanCopy, DiskType, Contents
  <2>3. ShellType' /\ FaultType'
    <3>1. FaultType'
      BY <1>2, FaultStep DEF CopyFile
    <3> QED
      BY <2>1, <3>1 DEF ShellType
  <2>4. Queue'
    BY <2>1 DEF Queue, Making, At, Whole
  <2> QED
    BY <1>2, <2>2, <2>3, <2>4, TypePartsNext DEF CopyFile, DiskType, DaemonType, daemon
<1>3. CASE SaveEnds
  <2>1. ShellType' /\ Queue'
    BY <1>3, DoneType DEF SaveEnds, At
  <2> QED
    BY <1>3, <2>1, TypePartsNext DEF SaveEnds, DiskType, disk, DaemonType, daemon, FaultType
<1>4. CASE OpenHeader
  <2>1. header' \in [Built -> Contents] /\ FaultType'
    <3>1. FaultType'
      BY <1>4, FaultStep DEF OpenHeader
    <3> QED
      BY <1>4, <3>1 DEF OpenHeader, DiskType, Contents
  <2>2. ShellType' /\ Queue'
    <3>1. CASE Abort
      BY <1>4, <3>1, DoneType DEF OpenHeader, At
    <3>2. CASE /\ \A n \in Built : Whole(files[n])
               /\ opened' = TRUE /\ UNCHANGED <<work, at, ok, dir, over>>
      BY <1>4, <3>2 DEF OpenHeader, ShellType, Queue, Making, At, Whole
    <3> QED
      BY <1>4, <3>1, <3>2 DEF OpenHeader
  <2> QED
    BY <1>4, <2>1, <2>2, TypePartsNext DEF OpenHeader, DiskType, DaemonType, daemon
<1>5. CASE WriteHeader
  <2>1. header' \in [Built -> Contents] /\ FaultType'
    <3>1. FaultType'
      BY <1>5, FaultStep DEF WriteHeader
    <3> QED
      BY <1>5, <3>1, NamesAre DEF WriteHeader, DiskType
  <2>2. ShellType' /\ Queue'
    BY <1>5, DoneType DEF WriteHeader, At
  <2> QED
    BY <1>5, <2>1, <2>2, TypePartsNext DEF WriteHeader, DiskType, DaemonType, daemon
<1>6. CASE Link
  <2>1. binary' \in [Built -> Gens \cup {Missing}]
    BY <1>6 DEF Link, DiskType, Whole
  <2>2. ShellType' /\ Queue'
    BY <1>6, DoneType DEF Link, At
  <2> QED
    BY <1>6, <2>1, <2>2, TypePartsNext DEF Link, DiskType, DaemonType, daemon, FaultType
<1> QED
  BY <1>1, <1>2, <1>3, <1>4, <1>5, <1>6

(* The servers, and make clean: no command goes on.                        *)
LEMMA SaveOwnType ==
  ASSUME DiskType, NEW to \in 0..4, NEW k \in 1..4, NEW c,
         binary["server.crt"] \in Gens => c \in Contents, SaveOwn(1, to, k, c)
  PROVE  saved' \in [Gens -> [Names -> Contents]]
<1>1. \A i \in 1..4 : Own[i] \in Built /\ binary[Own[i]] \in Contents
  BY Orders DEF DiskType, Contents
<1>2. \A i \in 1..to : Own[i] \in Built /\ binary[Own[i]] \in Contents
  BY <1>1
<1> DEFINE g == binary["server.crt"]
           row == [n \in Names |-> IF n = Own[k] THEN c
                                  ELSE IF \E i \in 1..to : n = Own[i] THEN binary[n]
                                  ELSE saved[g][n]]
<1>3. saved' = [saved EXCEPT ![g] = row]
  BY DEF SaveOwn, DiskType
<1>4. ASSUME g \in Gens PROVE row \in [Names -> Contents]
  BY <1>2, <1>4 DEF DiskType
<1> HIDE DEF row, g
<1> QED
  BY <1>3, <1>4 DEF DiskType

(* Whichever file fails or is cut off.                                     *)
Saves == \E to \in 0..4, k \in 1..4 : \E c \in {binary[Own[k]], Torn, Before(k)} : SaveOwn(1, to, k, c)

LEMMA SecureSaves == Secure \/ SecureKilled => Saves /\ UNCHANGED <<files, header, binary>>
<1>1. CASE Secure
  <2>1. CASE SaveOwn(1, 4, 1, binary[Own[1]])
    BY <1>1, <2>1 DEF Secure, Saves
  <2>2. CASE \E k \in 1..4 : \E c \in {Torn, Before(k)} : SaveOwn(1, 4, k, c)
    BY <1>1, <2>2 DEF Secure, Saves
  <2> QED
    BY <1>1, <2>1, <2>2 DEF Secure
<1>2. CASE SecureKilled
  <2>1. PICK k \in 1..4 : \E c \in {Torn, Before(k)} : SaveOwn(1, k - 1, k, c)
    BY <1>2 DEF SecureKilled
  <2>2. k - 1 \in 0..4
    OBVIOUS
  <2> QED
    BY <1>2, <2>1, <2>2 DEF SecureKilled, Saves
<1> QED
  BY <1>1, <1>2

LEMMA SavesType ==
  ASSUME DiskType, Saves, UNCHANGED <<files, header, binary>>
  PROVE  DiskType'
<1>1. PICK to \in 0..4, k \in 1..4 : \E c \in {binary[Own[k]], Torn, Before(k)} : SaveOwn(1, to, k, c)
  BY DEF Saves
<1>2. PICK c \in {binary[Own[k]], Torn, Before(k)} : SaveOwn(1, to, k, c)
  BY <1>1
<1>3. Own[k] \in Built /\ Own[k] \in Names
  BY Orders, NamesAre
<1>4. binary["server.crt"] \in Gens => c \in Contents
  BY <1>3 DEF DiskType, Contents, Before
<1>5. saved' \in [Gens -> [Names -> Contents]]
  BY <1>2, <1>4, SaveOwnType
<1> QED
  BY <1>5 DEF DiskType

LEMMA DaemonTypes ==
  ASSUME TypeOK, Queue,
         Start \/ Load \/ UseKey \/ Stop \/ SecurePrint \/ SecureStart \/ SecureKilled \/ MakeClean
  PROVE  TypeOK' /\ Queue'
<1> USE TypeParts
<1>0. NoServer \in [state : {"down", "load", "up"}, at : 1..4, has : [ToSet(Loaded) -> Gens \cup {Missing}]]
  BY DEF NoServer, None
<1>1. CASE Start \/ UseKey \/ Stop
  <2>1. DaemonType'
    BY <1>0, <1>1 DEF Start, UseKey, Stop, Down, DaemonType, NoServer
  <2> QED
    BY <1>1, <2>1, QueueStays, TypePartsNext DEF Start, UseKey, Stop, disk, DiskType, FaultType
<1>2. CASE Load
  <2>1. DaemonType'
    <3>1. CASE Down
      BY <1>0, <1>2, <3>1 DEF Down, DaemonType
    <3>2. CASE /\ Whole(files[Loaded[server.at]]) /\ UNCHANGED calm
               /\ server' = [server EXCEPT !.has[Loaded[server.at]] = files[Loaded[server.at]], !.at = @ + 1]
      <4>1. server.at \in 1..3 /\ server.at + 1 \in 1..4
        BY <1>2 DEF Load, DaemonType
      <4> QED
        BY <3>2, <4>1 DEF DaemonType, Whole
    <3> QED
      BY <1>2, <3>1, <3>2 DEF Load
  <2> QED
    BY <1>2, <2>1, QueueStays, TypePartsNext DEF Load, disk, DiskType, FaultType
<1>3. CASE SecurePrint \/ SecureStart \/ SecureKilled
  <2>1. DiskType' /\ UNCHANGED <<files, shell>>
    BY <1>3, SecureSaves, SavesType DEF SecurePrint, SecureStart, SecureKilled, Secure
  <2>2. FaultType'
    BY <1>3, FaultStep DEF SecurePrint, SecureStart, SecureKilled, Secure
  <2>3. DaemonType'
    <3>1. CASE SecureStart
      <4>1. \A n \in ToSet(Loaded) : binary[n] \in Gens \cup {Missing}
        BY NamesAre DEF DiskType
      <4> QED
        BY <3>1, <4>1 DEF SecureStart, DaemonType
    <3>2. CASE SecurePrint \/ SecureKilled
      BY <3>2 DEF SecurePrint, SecureKilled, daemon, DaemonType
    <3> QED
      BY <1>3, <3>1, <3>2
  <2> QED
    BY <2>1, <2>2, <2>3, QueueStays, TypePartsNext
<1>4. CASE MakeClean
  <2>1. DiskType'
    BY <1>4 DEF MakeClean, DiskType, None, Contents
  <2> QED
    BY <1>4, <2>1, QueueStays, TypePartsNext DEF MakeClean, DaemonType, daemon, FaultType
<1> QED
  BY <1>1, <1>2, <1>3, <1>4

LEMMA StepType == TypeOK /\ Queue /\ [Next]_vars => TypeOK' /\ Queue'
<1> SUFFICES ASSUME TypeOK, Queue, [Next]_vars PROVE TypeOK' /\ Queue'
  OBVIOUS
<1>1. CASE UNCHANGED vars
  BY <1>1, QueueStays, TypeParts, TypePartsNext DEF vars, disk, daemon, DiskType, DaemonType, FaultType
<1>2. CASE Make \/ (\E mode \in {"init", "save", "embed"} : Type(mode))
  BY <1>2, AskType, TypeParts, TypePartsNext DEF Make, Type, disk, daemon, DiskType, DaemonType, FaultType
<1> QED
  BY <1>1, <1>2, KillType, GenerateType, CopyType, DaemonTypes DEF Next, Step

(* main.c 48-168, tls.c 118-453: every variable keeps its type, whatever   *)
(* commands are typed, killed or fail; a binary is never linked with a     *)
(* file that has no content, and a server never loads one.                 *)
THEOREM CertsTypeCorrect == Spec => []TypeOK
<1>1. Spec => [](TypeOK /\ Queue)
  BY InitType, StepType, PTL DEF Spec
<1> QED
  BY <1>1, PTL

----------------------------------------------------------------------------
(* One generation.                                                         *)

Clean == fails = 0 /\ ~damaged
Present == files["server.crt"] # Missing

(* No file of a new generation was begun.                                  *)
Quiet == ~Making \/ (at = 2 /\ ~opened)

(* The files of one generation, or the beginning of one.                   *)
Settled ==
  IF Present THEN Together(files, Names)
  ELSE files["client.key"] = Missing /\ files["client.crt"] = Missing

(* Those that were written are new; over nothing, the certificate of the   *)
(* server and what comes behind it are missing until their turn.           *)
Growing == \A i \in 1..6 :
  /\ i < at - 1 => files[Generated[i]] = gen
  /\ ~over /\ i >= 4 /\ i >= at - 1 =>
       files[Generated[i]] = Missing \/ (opened /\ i = at - 1 /\ files[Generated[i]] = Torn)

FInv == Clean => (Quiet => Settled) /\ (Making => Growing)

CInv == Clean =>
  /\ Together(header, Built) /\ Together(binary, Built)
  /\ \A g \in Gens : \A n \in Names : saved[g][n] \in {g, Missing, Torn}

Loading == \A i \in 1..3 : i < server.at =>
  /\ Whole(server.has[Loaded[i]])
  /\ calm => server.has[Loaded[i]] = files[Loaded[i]]

SInv ==
  /\ server.state = "load" => Loading /\ (calm => Quiet)
  /\ server.state = "up" => server.has["server.crt"] = server.has["server.key"]
  /\ Clean /\ server.state = "up" /\ calm => Together(server.has, ToSet(Loaded))

(* What was reliable stays so unless a call fails or a kill does harm.     *)
LEMMA CleanBefore == TypeOK /\ [Next]_vars /\ Clean' => Clean
<1> SUFFICES ASSUME TypeOK, [Next]_vars, Clean' PROVE Clean
  OBVIOUS
<1>1. fails \in Nat /\ damaged \in BOOLEAN
  BY DEF TypeOK
<1>2. CASE UNCHANGED vars
  BY <1>2 DEF vars, shell, Clean
<1>3. CASE Make \/ MakeClean \/ (\E mode \in {"init", "save", "embed"} : Type(mode))
  BY <1>3 DEF Make, MakeClean, Type, shell, Clean
<1>4. CASE Generate \/ OpenPem \/ WritePem \/ GenerateEnds
  <2>1. damaged' = damaged
    BY <1>4 DEF Generate, OpenPem, WritePem, GenerateEnds
  <2>2. fails' = fails \/ fails' = fails + 1
    BY <1>4 DEF Generate, OpenPem, WritePem, GenerateEnds, Fail
  <2> QED
    BY <1>1, <2>1, <2>2 DEF Clean
<1>8. CASE SaveBegin \/ CopyFile \/ SaveEnds
  BY <1>1, <1>8 DEF SaveBegin, CopyFile, SaveEnds, Fail, Clean
<1>9. CASE OpenHeader \/ WriteHeader \/ Link
  BY <1>1, <1>9 DEF OpenHeader, WriteHeader, Link, Fail, Clean
<1>5. CASE Kill
  BY <1>1, <1>5 DEF Kill, Clean
<1>6. CASE Start \/ Load \/ UseKey \/ Stop
  BY <1>6 DEF Start, Load, UseKey, Stop, shell, Clean
<1>7. CASE SecurePrint \/ SecureStart \/ SecureKilled
  BY <1>1, <1>7 DEF SecurePrint, SecureStart, SecureKilled, Secure, Fail, shell, Clean
<1> QED
  BY <1>2, <1>3, <1>4, <1>5, <1>6, <1>7, <1>8, <1>9 DEF Next, Step

LEMMA NothingTogether == ASSUME NEW S PROVE Together(None(S), S)
<1>1. 1 \in Gens
  BY BoundAssumption DEF Gens
<1> QED
  BY <1>1 DEF Together, None

LEMMA InitInv == Init => FInv /\ CInv /\ SInv
<1> SUFFICES ASSUME Init PROVE FInv /\ CInv /\ SInv
  OBVIOUS
<1>1. FInv
  BY NamesAre DEF Init, FInv, Settled, Present, Making, At, None
<1>2. CInv
  BY NothingTogether DEF Init, CInv, None
<1>3. SInv
  BY DEF Init, SInv, NoServer
<1> QED
  BY <1>1, <1>2, <1>3

(* A kill leaves the beginning of a generation, not a mixture of two.      *)
LEMMA Broken ==
  ASSUME TypeOK, Queue, Making, ~over, Growing
  PROVE  Settled
<1>1. at \in 2..8 /\ gen \in Gens /\ gen # Missing /\ Torn # Missing
  BY DEF Queue, Making, TypeOK, Gens, Missing, Torn
<1>2. CASE Present
  <2>1. 4 <= at - 1
    BY <1>1, <1>2, Orders DEF Growing, Present
  <2>2. \A i \in 1..6 : files[Generated[i]] \in {gen, Missing, Torn}
    <3> SUFFICES ASSUME NEW i \in 1..6 PROVE files[Generated[i]] \in {gen, Missing, Torn}
      OBVIOUS
    <3>1. CASE i < at - 1
      BY <3>1 DEF Growing
    <3>2. CASE i >= at - 1
      BY <1>1, <2>1, <3>2 DEF Growing
    <3> QED
      BY <1>1, <3>1, <3>2
  <2>3. Together(files, Names)
    BY <1>1, <2>2, Orders DEF Together
  <2> QED
    BY <1>2, <2>3 DEF Settled
<1>3. CASE ~Present
  <2>1. ~(4 < at - 1)
    BY <1>1, <1>3, Orders DEF Growing, Present
  <2>2. \A i \in {5, 6} : files[Generated[i]] = Missing
    BY <1>1, <2>1 DEF Growing
  <2> QED
    BY <1>3, <2>2, Orders DEF Settled
<1> QED
  BY <1>2, <1>3

(* The last file was written.                                              *)
LEMMA Complete ==
  ASSUME TypeOK, Queue, At("init"), at = 8, Growing
  PROVE  Settled
<1>1. gen \in Gens /\ gen # Missing
  BY DEF Queue, Making, Gens, Missing
<1>2. \A i \in 1..6 : files[Generated[i]] = gen
  BY DEF Growing
<1>3. Together(files, Names)
  BY <1>1, <1>2, Orders DEF Together
<1> QED
  BY <1>1, <1>2, <1>3, Orders DEF Settled, Present

(* The files stay, and no generation is begun or goes on.                  *)
LEMMA FilesStay ==
  ASSUME FInv, files' = files, Clean' => Clean, Clean => Settled, ~Making'
  PROVE  FInv'
BY DEF FInv, Settled, Present, Together

LEMMA StepFiles ==
  ASSUME TypeOK, TypeOK', Queue, FInv, [Next]_vars
  PROVE  FInv'
<1>0. Clean' => Clean
  BY CleanBefore
<1>1. CASE UNCHANGED <<files, shell, fails>>
  BY <1>1 DEF FInv, Clean, Quiet, Settled, Present, Making, At, Growing, Together, shell
<1>2. CASE Make \/ (\E mode \in {"init", "save", "embed"} : Type(mode))
  <2>1. ~Making
    BY <1>2 DEF Make, Type, Ask, Making, At
  <2>2. Clean => Settled
    BY <2>1 DEF FInv, Quiet
  <2> QED
    BY <1>0, <1>2, <2>2, AskType, FilesStay DEF Make, Type, disk
<1>3. CASE Kill
  <2>1. files' = files /\ ~Making'
    BY <1>3, KillType DEF Kill
  <2>2. Clean' => Settled
    <3>1. Clean' => ~(Making /\ over)
      BY <1>3 DEF Kill, Clean, Making
    <3>2. Making \/ Quiet
      BY DEF Quiet
    <3> QED
      BY <1>0, <3>1, <3>2, Broken DEF FInv
  <2> QED
    BY <2>1, <2>2 DEF FInv, Settled, Present, Together
<1>4. CASE Generate
  <2>1. /\ At("init") /\ at = 1 /\ at' = 2 /\ files' = files /\ work' = work /\ opened' = opened
        /\ over' = (files["server.crt"] # Missing) /\ ~opened
    BY <1>4 DEF Generate, disk, Queue
  <2>2. Clean' => Settled
    BY <1>0, <2>1 DEF FInv, Quiet, Making
  <2>3. Clean' => Settled'
    BY <2>1, <2>2 DEF Settled, Present, Together
  <2>4. Clean' => Growing'
    <3> SUFFICES ASSUME Clean', NEW i \in 1..6 PROVE (i >= 4 /\ ~over') => files'[Generated[i]] = Missing
      BY <2>1 DEF Growing
    <3>1. i >= 4 => i = 4 \/ i = 5 \/ i = 6
      OBVIOUS
    <3> QED
      BY <2>1, <2>2, <3>1, Orders DEF Settled, Present
  <2> QED
    BY <2>3, <2>4 DEF FInv
<1>5. CASE GenerateEnds
  <2>1. files' = files /\ ~Making' /\ at = 8 /\ At("init")
    BY <1>5, DoneType DEF GenerateEnds, disk, At
  <2>2. Clean => Settled
    BY <2>1, Complete DEF FInv, Making
  <2> QED
    BY <1>0, <2>1, <2>2, FilesStay
<1>6. CASE SaveBegin \/ CopyFile \/ SaveEnds \/ OpenHeader \/ WriteHeader \/ Link
  <2>1. files' = files /\ ~Making /\ ~At("init")
    BY <1>6 DEF SaveBegin, CopyFile, SaveEnds, OpenHeader, WriteHeader, Link, Making, At, disk
  <2>2. ~Making'
    <3>1. CASE work' = work
      BY <2>1, <3>1 DEF Making, At
    <3>2. CASE Done \/ Abort
      BY <3>2 DEF Done, Abort, Run, Making
    <3> QED
      BY <1>6, <3>1, <3>2 DEF SaveBegin, CopyFile, SaveEnds, OpenHeader, WriteHeader, Link
  <2>3. Clean => Settled
    BY <2>1 DEF FInv, Quiet
  <2> QED
    BY <1>0, <2>1, <2>2, <2>3, FilesStay
<1>7. CASE MakeClean \/ Start \/ Load \/ UseKey \/ Stop \/ SecurePrint \/ SecureStart \/ SecureKilled
  <2>1. UNCHANGED <<files, shell>>
    BY <1>7 DEF MakeClean, Start, Load, UseKey, Stop, SecurePrint, SecureStart, SecureKilled, Secure, disk
  <2> QED
    BY <1>0, <2>1 DEF FInv, Quiet, Settled, Present, Making, At, Growing, Together, shell
<1>8. CASE OpenPem
  <2>1. /\ At("init") /\ at \in 2..7 /\ Making /\ ~opened /\ work' = work /\ gen' = gen /\ over' = over
    BY <1>8 DEF OpenPem, Making
  <2>2. CASE fails' = fails + 1
    BY <2>2 DEF FInv, Clean, TypeOK
  <2>3. CASE files' = [files EXCEPT ![Generated[at - 1]] = Torn] /\ opened' = TRUE /\ at' = at
    <3>1. /\ files'[Generated[at - 1]] = Torn
          /\ \A i \in 1..6 : i # at - 1 => files'[Generated[i]] = files[Generated[i]]
      BY <2>1, <2>3, Orders DEF TypeOK
    <3>2. Clean' => Growing
      BY <1>0, <2>1 DEF FInv
    <3>3. Clean' => Growing'
      BY <2>1, <2>3, <3>1, <3>2 DEF Growing
    <3>4. ~Quiet'
      BY <2>1, <2>3 DEF Quiet, Making, At
    <3> QED
      BY <3>3, <3>4 DEF FInv
  <2> QED
    BY <1>8, <2>2, <2>3 DEF OpenPem, Fail
<1>9. CASE WritePem
  <2>1. /\ At("init") /\ opened /\ at \in 2..7 /\ Making /\ opened' = FALSE /\ at' = at + 1
        /\ work' = work /\ gen' = gen /\ over' = over
    BY <1>9 DEF WritePem, Making, Queue
  <2>2. CASE fails' = fails + 1
    BY <2>2 DEF FInv, Clean, TypeOK
  <2>3. CASE files' = [files EXCEPT ![Generated[at - 1]] = gen]
    <3>1. /\ files'[Generated[at - 1]] = gen
          /\ \A i \in 1..6 : i # at - 1 => files'[Generated[i]] = files[Generated[i]]
      BY <2>1, <2>3, Orders DEF TypeOK
    <3>2. Clean' => Growing
      BY <1>0, <2>1 DEF FInv
    <3>3. Clean' => Growing'
      BY <2>1, <3>1, <3>2 DEF Growing
    <3>4. ~Quiet'
      BY <2>1 DEF Quiet, Making, At
    <3> QED
      BY <3>3, <3>4 DEF FInv
  <2> QED
    BY <1>9, <2>2, <2>3 DEF WritePem, Fail
<1>10. CASE UNCHANGED vars
  BY <1>1, <1>10 DEF vars, disk
<1> QED
  BY <1>2, <1>3, <1>4, <1>5, <1>6, <1>7, <1>8, <1>9, <1>10 DEF Next, Step

----------------------------------------------------------------------------
(* What is copied, compiled in and loaded.                                 *)

LEMMA TogetherPart ==
  ASSUME NEW f, NEW S, NEW T \in SUBSET S, NEW h, Together(f, S), \A n \in T : h[n] = f[n]
  PROVE  Together(h, T)
BY DEF Together

(* A whole certificate tells the generation of what is beside it.          *)
LEMMA Named ==
  ASSUME NEW f, NEW S, NEW n \in S, Together(f, S), Whole(f[n])
  PROVE  \A m \in S : f[m] \in {f[n], Missing, Torn}
BY DEF Together, Whole, Gens, Missing, Torn

LEMMA SavesCopies ==
  ASSUME TypeOK, Saves, Together(binary, Built), NEW g \in Gens, NEW n \in Names,
         saved[g][n] \in {g, Missing, Torn}
  PROVE  saved'[g][n] \in {g, Missing, Torn}
<1>1. PICK to \in 0..4, k \in 1..4 : \E c \in {binary[Own[k]], Torn, Before(k)} : SaveOwn(1, to, k, c)
  BY DEF Saves
<1>2. PICK c \in {binary[Own[k]], Torn, Before(k)} : SaveOwn(1, to, k, c)
  BY <1>1
<1>3. /\ \A i \in 1..4 : Own[i] \in Built
      /\ "server.crt" \in Built /\ Built \subseteq Names
  BY Orders, NamesAre
<1>4. CASE g # binary["server.crt"]
  BY <1>2, <1>4 DEF SaveOwn, TypeOK
<1>5. CASE g = binary["server.crt"]
  <2>1. \A m \in Built : binary[m] \in {g, Missing, Torn}
    BY <1>3, <1>5, Named DEF Whole
  <2>2. saved'[g][n] = IF n = Own[k] THEN c
                       ELSE IF \E i \in 1..to : n = Own[i] THEN binary[n] ELSE saved[g][n]
    BY <1>2, <1>5 DEF SaveOwn, TypeOK
  <2>3. CASE n = Own[k]
    BY <1>2, <1>3, <1>5, <2>1, <2>2, <2>3 DEF Before
  <2>4. CASE n # Own[k] /\ \E i \in 1..to : n = Own[i]
    BY <1>3, <2>1, <2>2, <2>4
  <2> QED
    BY <2>2, <2>3, <2>4
<1> QED
  BY <1>4, <1>5

LEMMA StepCopies ==
  ASSUME TypeOK, TypeOK', Queue, FInv, CInv, [Next]_vars
  PROVE  CInv'
<1>0. Clean' => Clean
  BY CleanBefore
<1> SUFFICES ASSUME Clean' PROVE /\ Together(header, Built)' /\ Together(binary, Built)'
                                /\ \A g \in Gens : \A n \in Names : saved'[g][n] \in {g, Missing, Torn}
  BY DEF CInv
<1>1. /\ Together(header, Built) /\ Together(binary, Built)
      /\ \A g \in Gens : \A n \in Names : saved[g][n] \in {g, Missing, Torn}
  BY <1>0 DEF CInv
<1>2. CASE UNCHANGED <<saved, header, binary>>
  BY <1>1, <1>2 DEF Together
<1>3. CASE MakeClean
  BY <1>1, <1>3, NothingTogether DEF MakeClean, Together
<1>4. CASE Kill
  <2>1. Together(header, Built)'
    BY <1>1, <1>4, NothingTogether DEF Kill, Together
  <2>2. \A g \in Gens : \A n \in Names : saved'[g][n] \in {g, Missing, Torn}
    <3>1. CASE saved' = saved
      BY <1>1, <3>1
    <3>2. CASE Copy(Torn)
      BY <1>1, <3>2 DEF Copy, TypeOK
    <3> QED
      BY <1>4, <3>1, <3>2 DEF Kill
  <2> QED
    BY <1>1, <1>4, <2>1, <2>2 DEF Kill, Together
<1>5. CASE CopyFile
  <2>1. At("save") /\ at \in 2..7 /\ dir = files["server.crt"] /\ Whole(dir) /\ dir \in Gens
    BY <1>5 DEF CopyFile, Queue, Whole
  <2>2. Together(files, Names)
    <3>1. Present /\ Quiet
      BY <2>1 DEF Present, Whole, Gens, Missing, Quiet, Making, At
    <3> QED
      BY <1>0, <3>1 DEF FInv, Settled
  <2>3. "server.crt" \in Names
    BY NamesAre
  <2>4. \A n \in Names : files[n] \in {dir, Missing, Torn}
    BY <2>1, <2>2, <2>3, Named
  <2>5. Copied[at - 1] \in Names
    BY <2>1, Orders
  <2>6. \A g \in Gens : \A n \in Names : saved'[g][n] \in {g, Missing, Torn}
    <3>1. CASE saved' = saved
      BY <1>1, <3>1
    <3>2. CASE \E c \in {files[Copied[at - 1]], Torn} : Copy(c)
      BY <1>1, <2>1, <2>4, <2>5, <3>2 DEF Copy, TypeOK
    <3> QED
      BY <1>5, <3>1, <3>2 DEF CopyFile
  <2> QED
    BY <1>1, <1>5, <2>6 DEF CopyFile, Together
<1>6. CASE OpenHeader
  <2>1. 1 \in Gens
    BY BoundAssumption DEF Gens
  <2>2. Together(header, Built)'
    BY <1>1, <1>6, <2>1 DEF OpenHeader, Together
  <2> QED
    BY <1>1, <1>6, <2>2 DEF OpenHeader, Together
<1>7. CASE WriteHeader
  <2>1. Together(header, Built)'
    <3>1. CASE header' = header
      BY <1>1, <3>1 DEF Together
    <3>2. CASE header' = [n \in Built |-> files[n]]
      <4>1. "server.crt" \in Built /\ Built \subseteq Names
        BY NamesAre
      <4>2. Whole(files["server.crt"]) /\ Quiet
        BY <1>7, <4>1 DEF WriteHeader, Queue, Quiet, Making, At
      <4>3. Present
        BY <4>2 DEF Present, Whole, Gens, Missing
      <4>4. Together(files, Names)
        BY <1>0, <4>2, <4>3 DEF FInv, Settled
      <4> QED
        BY <3>2, <4>1, <4>4 DEF Together
    <3> QED
      BY <1>7, <3>1, <3>2 DEF WriteHeader
  <2> QED
    BY <1>1, <1>7, <2>1 DEF WriteHeader, Together
<1>8. CASE Link
  BY <1>1, <1>8 DEF Link, Together
<1>9. CASE SecurePrint \/ SecureStart \/ SecureKilled
  <2>1. Saves /\ UNCHANGED <<files, header, binary>>
    BY <1>9, SecureSaves DEF SecurePrint, SecureStart
  <2> QED
    BY <1>1, <2>1, SavesCopies DEF Together
<1>10. CASE Make \/ (\E mode \in {"init", "save", "embed"} : Type(mode)) \/ Generate \/ OpenPem \/ WritePem
              \/ GenerateEnds \/ SaveBegin \/ SaveEnds \/ Start \/ Load \/ UseKey \/ Stop \/ UNCHANGED vars
  BY <1>2, <1>10 DEF Make, Type, Generate, OpenPem, WritePem, GenerateEnds, SaveBegin, SaveEnds, Start, Load,
     UseKey, Stop, vars, disk
<1> QED
  BY <1>3, <1>4, <1>5, <1>6, <1>7, <1>8, <1>9, <1>10 DEF Next, Step

----------------------------------------------------------------------------
(* The server.                                                             *)

(* A step of a command that leaves the server as it is.                    *)
LEMMA Beside ==
  ASSUME TypeOK, SInv, UNCHANGED daemon, Clean' => Clean,
         files' = files \/ ~Quiet, calm /\ server.state = "load" /\ Quiet => Quiet'
  PROVE  SInv'
<1>1. server' = server /\ calm' = calm
  BY DEF daemon
<1>2. server.state = "load" => Loading' /\ (calm' => Quiet')
  BY <1>1 DEF SInv, Loading
<1> QED
  BY <1>1, <1>2 DEF SInv, Together

LEMMA StepServer ==
  ASSUME TypeOK, TypeOK', Queue, FInv, CInv, SInv, [Next]_vars
  PROVE  SInv'
<1>0. Clean' => Clean
  BY CleanBefore
<1>1. CASE Start
  <2>1. /\ server' = [state |-> "load", at |-> 1, has |-> None(ToSet(Loaded))] /\ calm' = ~At("init")
        /\ UNCHANGED <<files, shell>>
    BY <1>1 DEF Start, NoServer, disk
  <2>2. calm' => Quiet'
    BY <2>1 DEF Quiet, Making, At, shell
  <2>3. Loading'
    BY <2>1 DEF Loading
  <2> QED
    BY <2>1, <2>2, <2>3 DEF SInv
<1>2. CASE Load
  <2>0. files' = files /\ (Quiet' <=> Quiet) /\ server.state = "load" /\ server.at \in 1..3
    BY <1>2 DEF Load, disk, shell, Quiet, Making, At, TypeOK
  <2>1. CASE Down
    BY <2>1 DEF Down, NoServer, SInv
  <2>2. CASE /\ Whole(files[Loaded[server.at]]) /\ calm' = calm
             /\ server' = [server EXCEPT !.has[Loaded[server.at]] = files[Loaded[server.at]], !.at = @ + 1]
    <3>1. server'.state = "load" /\ server'.at = server.at + 1
      BY <2>0, <2>2 DEF TypeOK
    <3>2. \A i \in 1..3 : server'.has[Loaded[i]] =
                            IF i = server.at THEN files[Loaded[i]] ELSE server.has[Loaded[i]]
      BY <2>0, <2>2, Orders DEF TypeOK
    <3>3. Loading /\ (calm => Quiet)
      BY <2>0 DEF SInv
    <3>4. Loading'
      BY <2>0, <2>2, <3>1, <3>2, <3>3 DEF Loading
    <3> QED
      BY <2>0, <2>2, <3>1, <3>3, <3>4 DEF SInv
  <2> QED
    BY <1>2, <2>1, <2>2 DEF Load
<1>3. CASE UseKey
  <2>0. server.state = "load" /\ server.at = 4
    BY <1>3 DEF UseKey
  <2>1. CASE Down
    BY <2>1 DEF Down, NoServer, SInv
  <2>2. CASE KeyFits(server.has) /\ server' = [server EXCEPT !.state = "up"] /\ calm' = calm
    <3>1. server'.state = "up" /\ server'.has = server.has
      BY <2>2 DEF TypeOK
    <3>2. Loading /\ (calm => Quiet)
      BY <2>0 DEF SInv
    <3>3. ASSUME Clean, calm PROVE Together(server.has, ToSet(Loaded))
      <4>1. \A n \in ToSet(Loaded) : Whole(server.has[n]) /\ server.has[n] = files[n]
        BY <2>0, <3>2, <3>3, Orders DEF Loading
      <4>2. "server.crt" \in ToSet(Loaded) /\ ToSet(Loaded) \subseteq Names
        BY NamesAre
      <4>3. Present
        BY <4>1, <4>2 DEF Present, Whole, Gens, Missing
      <4>4. Together(files, Names)
        BY <3>2, <3>3, <4>3 DEF FInv, Settled
      <4> QED
        BY <4>1, <4>2, <4>4, TogetherPart
    <3> QED
      BY <1>0, <2>2, <3>1, <3>3 DEF SInv, KeyFits
  <2> QED
    BY <1>3, <2>1, <2>2 DEF UseKey
<1>4. CASE Stop
  BY <1>4 DEF Stop, Down, NoServer, SInv
<1>5. CASE SecureStart
  <2>1. server' = [state |-> "up", at |-> 4, has |-> [n \in ToSet(Loaded) |-> binary[n]]] /\ KeyFits(binary)
    BY <1>5 DEF SecureStart
  <2>2. {"server.crt", "server.key"} \subseteq ToSet(Loaded) /\ ToSet(Loaded) \subseteq Built
    BY NamesAre
  <2>3. Clean => Together(server'.has, ToSet(Loaded))
    BY <2>1, <2>2, TogetherPart DEF CInv
  <2> QED
    BY <1>0, <2>1, <2>2, <2>3 DEF SInv, KeyFits
<1>6. CASE OpenPem
  <2>1. server' = server /\ calm' = (server.state # "load" /\ calm)
    BY <1>6 DEF OpenPem
  <2> QED
    BY <1>0, <2>1 DEF SInv, Loading, Together
<1>7. CASE WritePem
  <2>1. ~Quiet
    BY <1>7 DEF WritePem, Queue, Quiet, Making
  <2> QED
    BY <1>0, <1>7, <2>1, Beside DEF WritePem
<1>8. CASE Generate
  <2>1. files' = files /\ Quiet'
    BY <1>8 DEF Generate, disk, Queue, Quiet, Making, At
  <2> QED
    BY <1>0, <1>8, <2>1, Beside DEF Generate
<1>9. CASE Make \/ (\E mode \in {"init", "save", "embed"} : Type(mode)) \/ Kill
           \/ GenerateEnds \/ SaveBegin \/ CopyFile \/ SaveEnds \/ OpenHeader \/ WriteHeader \/ Link
  <2>1. files' = files /\ UNCHANGED daemon
    BY <1>9 DEF Make, Type, Kill, GenerateEnds, SaveBegin, CopyFile, SaveEnds, OpenHeader, WriteHeader, Link, disk
  <2>2. ~Making'
    <3>1. CASE Make \/ (\E mode \in {"init", "save", "embed"} : Type(mode)) \/ Kill
      BY <3>1, AskType, KillType
    <3>2. CASE Done \/ Abort
      BY <3>2 DEF Done, Abort, Run, Making
    <3>3. CASE work' = work /\ ~At("init")
      BY <3>3 DEF Making, At
    <3> QED
      BY <1>9, <3>1, <3>2, <3>3 DEF GenerateEnds, SaveBegin, CopyFile, SaveEnds, OpenHeader, WriteHeader, Link, At
  <2> QED
    BY <1>0, <2>1, <2>2, Beside DEF Quiet
<1>10. CASE MakeClean \/ SecurePrint \/ SecureKilled \/ UNCHANGED vars
  <2>1. UNCHANGED <<files, shell, daemon>>
    <3>1. CASE MakeClean \/ UNCHANGED vars
      BY <3>1 DEF MakeClean, vars, disk
    <3>2. CASE SecurePrint
      BY <3>2 DEF SecurePrint, Secure, daemon
    <3>3. CASE SecureKilled
      BY <3>3 DEF SecureKilled
    <3> QED
      BY <1>10, <3>1, <3>2, <3>3
  <2>2. Quiet' <=> Quiet
    BY <2>1 DEF Quiet, Making, At, shell
  <2> QED
    BY <1>0, <2>1, <2>2, Beside
<1> QED
  BY <1>1, <1>2, <1>3, <1>4, <1>5, <1>6, <1>7, <1>8, <1>9, <1>10 DEF Next, Step

(* README.md 456, tls.c 118-316, Makefile 26-32: for any number of         *)
(* generations and whichever commands are killed, what is compiled in, what*)
(* a fingerprint directory holds and what a server has loaded are of one   *)
(* generation, unless a call failed or a kill hit --init-certs over an     *)
(* earlier generation; a server that is up always has the key of its       *)
(* certificate.                                                            *)
THEOREM OneGenerationHolds == Spec => []OneGeneration
<1>1. TypeOK /\ Queue /\ FInv /\ CInv /\ SInv /\ [Next]_vars
        => TypeOK' /\ Queue' /\ FInv' /\ CInv' /\ SInv'
  BY StepType, StepFiles, StepCopies, StepServer
<1>2. CInv /\ SInv => OneGeneration
  BY DEF CInv, SInv, OneGeneration, Clean
<1> QED
  BY <1>1, <1>2, InitType, InitInv, PTL DEF Spec
=============================================================================
