------------------------------ MODULE MCExecRun ------------------------------
(* Instances of ExecRun for TLC.                                           *)
EXTENDS ExecRun

(* The third byte of standard output is a NUL.                             *)
MCOutputs == [out |-> <<1, 2, NUL, 3>>, err |-> <<7, 8>>]
MCPlain == [out |-> <<1, 2>>, err |-> <<7>>]
MCStatuses == {3, -9}
=============================================================================
