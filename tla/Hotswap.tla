------------------------------- MODULE Hotswap -------------------------------
(***************************************************************************)
(* What /api/update promises, seen from outside: a binary is installed on  *)
(* the device and a server runs one.  Update.tla is shown to implement it. *)
(*                                                                         *)
(* A binary that is installed was sent by somebody with its own hash.  The *)
(* server changes to a binary only after that binary was installed.  If    *)
(* the disk is full or the power fails, the end of the file may be gone    *)
(* (complete = FALSE); such a file never runs.                             *)
(***************************************************************************)
CONSTANTS
  Versions,    \* binaries that may be sent
  Original,    \* the binary the device starts with
  Verified,    \* those whose hash is the one announced
  Down         \* no server

VARIABLES
  installed,   \* the file at the path of the binary
  running,     \* what the server executes
  ever         \* what was installed since the last power loss

Binary == [version : Versions \cup {Original}, complete : BOOLEAN]

Init == /\ installed = [version |-> Original, complete |-> TRUE]
        /\ running = Original
        /\ ever = {Original}

Install == \E v \in Verified, c \in BOOLEAN :
             /\ installed' = [version |-> v, complete |-> c]
             /\ ever' = ever \cup {v}
             /\ UNCHANGED running

Swap == /\ running # Down /\ installed.complete
        /\ running' = installed.version
        /\ UNCHANGED <<installed, ever>>

Stop == /\ running' = Down
        /\ UNCHANGED <<installed, ever>>

Start == /\ running = Down /\ installed.complete
         /\ running' = installed.version
         /\ UNCHANGED <<installed, ever>>

PowerLoss == /\ running' = Down
             /\ \E v \in ever, c \in BOOLEAN :
                  /\ installed' = [version |-> v, complete |-> c]
                  /\ ever' = {v}

Next == Install \/ Swap \/ Stop \/ Start \/ PowerLoss

Spec == Init /\ [][Next]_<<installed, running, ever>>
=============================================================================
