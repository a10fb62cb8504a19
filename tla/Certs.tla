-------------------------------- MODULE Certs --------------------------------
(***************************************************************************)
(* The certificates (src/src/tls.c 118-453, src/src/main.c 48-168,         *)
(* Makefile 26-32): the commands an operator types one after the other in  *)
(* a certificate directory, and the server that is started there, by       *)
(* itself or from the binary that has the certificates in it.              *)
(*                                                                         *)
(* --init-certs makes a generation: three keys and the certificates for    *)
(* them, all signed by the key of the CA.  The content of a file is the    *)
(* number of its generation.  fopen truncates, and the short PEM text goes *)
(* to the disk with fclose: a command that is killed in between, or a full *)
(* disk, leaves a file that exists and cannot be read.                     *)
(***************************************************************************)
EXTENDS Integers, Sequences
LOCAL INSTANCE SequencesExt

CONSTANTS
  MaxGen,     \* bound: generations
  MaxFaults   \* bound: commands that are killed and calls that fail

ASSUME BoundAssumption == MaxGen \in Nat \ {0} /\ MaxFaults \in Nat

Missing == 0
Torn == -1
Gens == 1..MaxGen
Contents == Gens \cup {Missing, Torn}

(* Mutant: the certificate of the server is written first.                 *)
ServerFirst == <<"server.key", "server.crt", "ca.key", "ca.crt", "client.key", "client.crt">>
Generated == <<"ca.key", "ca.crt", "server.key", "server.crt", "client.key", "client.crt">>
Copied == <<"ca.crt", "ca.key", "server.crt", "server.key", "client.crt", "client.key">>
Embedded == SubSeq(Copied, 1, 4)
Names == ToSet(Copied)
Built == ToSet(Embedded)

VARIABLES
  files,       \* the files in the directory
  saved,       \* those in <fingerprint>/, named after the server.crt in it
  header,      \* what certs_data.h has of each file
  binary,      \* what the secure binary was built with
  work,        \* what the command still has to do
  at, opened,  \* the file it has come to; whether fopen was called
  gen,         \* the generation it made last
  ok,          \* ok of tls_generate_certs
  dir,         \* the generation that names the directory it saves to
  server,      \* "down", "load" or "up", and the files main() has loaded
  calm,        \* nothing was generated while main() loaded the files
  over,        \* there was a server.crt when this generation began
  damaged,     \* such a generation was killed
  kills, fails

shell == <<work, at, opened, gen, ok, dir, over, damaged>>
disk == <<files, saved, header, binary>>
daemon == <<server, calm>>
vars == <<disk, shell, daemon, kills, fails>>

Loaded == <<"server.crt", "server.key", "ca.crt">>
None(S) == [n \in S |-> Missing]

(* PEM_read finds something.  Mutant: what cannot be read is taken.        *)
Anything(c) == c # Missing
Whole(c) == c \in Gens

NoServer == [state |-> "down", at |-> 1, has |-> None(ToSet(Loaded))]

Init ==
  /\ files = None(Names) /\ saved = [g \in Gens |-> None(Names)]
  /\ header = None(Built) /\ binary = None(Built)
  /\ work = <<>> /\ at = 1 /\ opened = FALSE /\ gen = 0 /\ ok = TRUE /\ dir = 0
  /\ over = FALSE /\ damaged = FALSE
  /\ server = NoServer
  /\ calm = TRUE
  /\ kills = 0 /\ fails = 0

----------------------------------------------------------------------------
(* What the operator types.                                                *)

(* Makefile 27.                                                            *)
NoCerts == files["server.crt"] = Missing

Goals ==
  IF header # None(Built) THEN (IF binary = header THEN <<>> ELSE <<"link">>)
  ELSE IF NoCerts THEN <<"init", "save", "embed", "link">> ELSE <<"save", "embed", "link">>

Run(commands) ==
  /\ work' = commands /\ at' = 1 /\ opened' = FALSE
  /\ ok' = TRUE /\ dir' = 0 /\ over' = FALSE
Ask(commands) ==
  /\ work = <<>> /\ Run(commands)
  /\ "init" \in ToSet(commands) => gen < MaxGen

Make ==
  /\ Ask(Goals)
  /\ UNCHANGED <<disk, gen, damaged, daemon, kills, fails>>

(* --init-certs by hand or in install.sh, --save-certs, --embed-c-header;  *)
(* main refuses two of them at once.                                       *)
Type(mode) ==
  /\ Ask(<<mode>>)
  /\ UNCHANGED <<disk, gen, damaged, daemon, kills, fails>>

MakeClean ==
  /\ work = <<>>
  /\ header' = None(Built) /\ binary' = None(Built)
  /\ UNCHANGED <<files, saved, shell, daemon, kills, fails>>

At(command) == work # <<>> /\ Head(work) = command
CanCopy == At("save") /\ at \in 2..7 /\ files[Copied[at - 1]] # Missing
Copy(c) == saved' = [saved EXCEPT ![dir][Copied[at - 1]] = c]
Done == Run(Tail(work))
Abort == Run(<<>>)    \* make stops at the first command that fails
Fail == kills + fails < MaxFaults /\ fails' = fails + 1

(* make deletes the target when it is interrupted, not when it is killed.  *)
(* A copy may be left empty.                                               *)
Kill ==
  /\ work # <<>> /\ kills + fails < MaxFaults /\ kills' = kills + 1
  /\ Abort
  /\ \/ UNCHANGED <<header, saved>>
     \/ Last(work) = "link" /\ header' = None(Built) /\ UNCHANGED saved
     \/ CanCopy /\ Copy(Torn) /\ UNCHANGED header
  /\ damaged' = (damaged \/ (At("init") /\ at > 1 /\ over))
  /\ UNCHANGED <<files, binary, gen, daemon, fails>>

----------------------------------------------------------------------------
(* tls_generate_certs.                                                     *)

Generate ==
  /\ At("init") /\ at = 1
  /\ gen' = gen + 1 /\ ok' = TRUE /\ at' = 2
  /\ over' = (files["server.crt"] # Missing)
  /\ UNCHANGED <<disk, work, opened, dir, damaged, daemon, kills, fails>>

(* write_pem for the file at - 1: fopen, then the rest.                    *)
OpenPem ==
  /\ At("init") /\ at \in 2..7 /\ ~opened
  /\ \/ /\ files' = [files EXCEPT ![Generated[at - 1]] = Torn]
        /\ opened' = TRUE /\ UNCHANGED <<at, ok, fails>>
     \/ Fail /\ ok' = FALSE /\ at' = at + 1 /\ UNCHANGED <<files, opened>>
  /\ calm' = (server.state # "load" /\ calm)
  /\ UNCHANGED <<saved, header, binary, work, gen, dir, over, damaged, server, kills>>

(* A full disk shows in fclose, whose result is not looked at.             *)
WritePem ==
  /\ At("init") /\ opened
  /\ \/ files' = [files EXCEPT ![Generated[at - 1]] = gen] /\ UNCHANGED <<ok, fails>>
     \/ Fail /\ ok' \in {ok, FALSE} /\ UNCHANGED files
  /\ opened' = FALSE /\ at' = at + 1
  /\ UNCHANGED <<saved, header, binary, work, gen, dir, over, damaged, daemon, kills>>

GenerateEnds ==
  /\ At("init") /\ at = 8
  /\ IF ok THEN Done ELSE Abort
  /\ UNCHANGED <<disk, gen, damaged, daemon, kills, fails>>

----------------------------------------------------------------------------
(* tls_save_to_fingerprint_dir, the build that is not secure.              *)

(* Mutant: one directory for all.                                          *)
OneDirectory == 1
Fingerprint == files["server.crt"]

SaveBegin ==
  /\ At("save") /\ at = 1
  /\ IF Whole(files["server.crt"])
     THEN dir' = Fingerprint /\ at' = 2 /\ UNCHANGED <<work, opened, ok, over>>
     ELSE Abort
  /\ UNCHANGED <<disk, gen, damaged, daemon, kills, fails>>

(* A file that cannot be opened is passed over; fclose may fail.           *)
CopyFile ==
  /\ At("save") /\ at \in 2..7 /\ at' = at + 1
  /\ \/ CanCopy /\ Copy(files[Copied[at - 1]]) /\ UNCHANGED fails
     \/ ~CanCopy /\ UNCHANGED <<saved, fails>>
     \/ Fail /\ UNCHANGED saved
     \/ Fail /\ CanCopy /\ Copy(Torn)
  /\ UNCHANGED <<files, header, binary, work, opened, gen, ok, dir, over, damaged, daemon, kills>>

SaveEnds ==
  /\ At("save") /\ at = 8 /\ Done
  /\ UNCHANGED <<disk, gen, damaged, daemon, kills, fails>>

----------------------------------------------------------------------------
(* tls_embed_c_header, and the compiler.                                   *)

OpenHeader ==
  /\ At("embed") /\ ~opened
  /\ \/ /\ \A n \in Built : Whole(files[n])
        /\ header' = [n \in Built |-> Torn]
        /\ opened' = TRUE /\ UNCHANGED <<work, at, ok, dir, over, fails>>
     \/ /\ \E n \in Built : ~Whole(files[n])
        /\ Abort /\ UNCHANGED <<header, fails>>
     \/ Fail /\ Abort /\ UNCHANGED header
  /\ UNCHANGED <<files, saved, binary, gen, damaged, daemon, kills>>

WriteHeader ==
  /\ At("embed") /\ opened
  /\ \/ header' = [n \in Built |-> files[n]] /\ UNCHANGED fails
     \/ Fail /\ UNCHANGED header
  /\ Done
  /\ UNCHANGED <<files, saved, binary, gen, damaged, daemon, kills>>

Link ==
  /\ At("link")
  /\ IF \A n \in Built : Whole(header[n]) THEN binary' = header /\ Done ELSE Abort /\ UNCHANGED binary
  /\ UNCHANGED <<files, saved, header, gen, damaged, daemon, kills, fails>>

----------------------------------------------------------------------------
(* The server: tls_create_server_ctx.                                      *)

Down == server' = NoServer /\ calm' = TRUE

Start ==
  /\ server.state = "down"
  /\ server' = [NoServer EXCEPT !.state = "load"]
  /\ calm' = ~At("init")
  /\ UNCHANGED <<disk, shell, kills, fails>>

Load ==
  /\ server.state = "load" /\ server.at <= 3
  /\ \E n \in {Loaded[server.at]} :
       IF Whole(files[n])
       THEN server' = [server EXCEPT !.has[n] = files[n], !.at = @ + 1] /\ UNCHANGED calm
       ELSE Down
  /\ UNCHANGED <<disk, shell, kills, fails>>

(* SSL_CTX_use_PrivateKey takes the key of the certificate only.           *)
KeyFits(has) == has["server.key"] = has["server.crt"]

UseKey ==
  /\ server.state = "load" /\ server.at = 4
  /\ IF KeyFits(server.has)
     THEN server' = [server EXCEPT !.state = "up"] /\ UNCHANGED calm
     ELSE Down
  /\ UNCHANGED <<disk, shell, kills, fails>>

Stop ==
  /\ server.state = "up" /\ Down
  /\ UNCHANGED <<disk, shell, kills, fails>>

(* The secure binary, with --daemon, or with --cert, --ca or --save-certs: *)
(* it saves what it was built with.  Nobody reads the directory meanwhile. *)
Own == <<"server.crt", "ca.crt", "server.key", "ca.key">>

(* The files from..to of Own are written, and the k-th is c.               *)
SaveOwn(from, to, k, c) ==
  saved' = [saved EXCEPT ![binary["server.crt"]] =
    [n \in Names |-> IF n = Own[k] THEN c
                     ELSE IF \E i \in from..to : n = Own[i] THEN binary[n]
                     ELSE @[n]]]
Before(k) == saved[binary["server.crt"]][Own[k]]

Secure ==
  /\ binary # None(Built)
  /\ \/ SaveOwn(1, 4, 1, binary[Own[1]]) /\ UNCHANGED fails
     \/ Fail /\ \E k \in 1..4 : \E c \in {Torn, Before(k)} : SaveOwn(1, 4, k, c)
  /\ UNCHANGED <<files, header, binary, shell, kills>>

SecurePrint == Secure /\ UNCHANGED <<server, calm>>

SecureStart ==
  /\ server.state = "down" /\ KeyFits(binary)
  /\ Secure
  /\ server' = [state |-> "up", at |-> 4, has |-> [n \in ToSet(Loaded) |-> binary[n]]]
  /\ calm' = TRUE

SecureKilled ==
  /\ binary # None(Built)
  /\ kills + fails < MaxFaults /\ kills' = kills + 1
  /\ \E k \in 1..4 : \E c \in {Torn, Before(k)} : SaveOwn(1, k - 1, k, c)
  /\ UNCHANGED <<files, header, binary, shell, daemon, fails>>

----------------------------------------------------------------------------
Step ==
  \/ Generate \/ OpenPem \/ WritePem \/ GenerateEnds
  \/ SaveBegin \/ CopyFile \/ SaveEnds
  \/ OpenHeader \/ WriteHeader \/ Link

Next ==
  \/ Make \/ MakeClean \/ (\E mode \in {"init", "save", "embed"} : Type(mode))
  \/ Step \/ Kill
  \/ Start \/ Load \/ UseKey \/ Stop
  \/ SecurePrint \/ SecureStart \/ SecureKilled

(* A command runs to its end.                                              *)
Spec == Init /\ [][Next]_vars /\ WF_vars(Step)

----------------------------------------------------------------------------
TypeOK ==
  /\ files \in [Names -> Contents] /\ saved \in [Gens -> [Names -> Contents]]
  /\ header \in [Built -> Contents] /\ binary \in [Built -> Gens \cup {Missing}]
  /\ work \in Seq({"init", "save", "embed", "link"})
  /\ at \in 1..8 /\ opened \in BOOLEAN /\ ok \in BOOLEAN
  /\ gen \in 0..MaxGen /\ dir \in 0..MaxGen
  /\ server \in [state : {"down", "load", "up"}, at : 1..4, has : [ToSet(Loaded) -> Gens \cup {Missing}]]
  /\ calm \in BOOLEAN /\ over \in BOOLEAN /\ damaged \in BOOLEAN
  /\ kills \in Nat /\ fails \in Nat /\ kills + fails <= MaxFaults

(* README.md 456: rebuilds do not collide.  What was compiled in, what a   *)
(* fingerprint directory holds and what a server that is up has loaded are *)
(* each of one generation, although commands are killed half way; unless a *)
(* call failed, or the kill hit --init-certs over an earlier generation.   *)
(* A server that loaded the files while they were made has at least the    *)
(* key that belongs to its certificate.                                    *)
Together(f, S) == \E g \in Gens : \A n \in S : f[n] \in {g, Missing, Torn}
OneGeneration ==
  /\ server.state = "up" => server.has["server.crt"] = server.has["server.key"]
  /\ (fails = 0 /\ ~damaged) =>
       /\ Together(header, Built) /\ Together(binary, Built)
       /\ \A g \in Gens : \A n \in Names : saved[g][n] \in {g, Missing, Torn}
       /\ server.state = "up" /\ calm => Together(server.has, ToSet(Loaded))

(* A build that was killed is made good by the next one, if no call fails  *)
(* and the kill left no file it will use, nor the header, without content. *)
Heals ==
  (/\ work # <<>> /\ Last(work) = "link" /\ fails = 0 /\ kills = MaxFaults
   /\ Head(work) = "init" \/ \A n \in Built : files[n] # Torn
   /\ \A n \in Built : header[n] # Torn)
    ~> (binary # None(Built) \/ fails > 0)
=============================================================================
