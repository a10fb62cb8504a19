----------------------------- MODULE MCForward -----------------------------
(* Instances of Forward for TLC.                                           *)
EXTENDS Forward, TLC

Req(p, h, n) == [path |-> p, host |-> h, port |-> n]

(* In conflict by their path and port, not by their address.               *)
MCRequests == {Req("p", "h", 1), Req("p", "g", 1)}
MCTwoRequests == {Req("p", "h", 1), Req("p", "h", 2)}

SlotSymmetry == Permutations(Slots)
=============================================================================
