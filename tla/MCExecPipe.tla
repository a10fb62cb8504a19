----------------------------- MODULE MCExecPipe -----------------------------
(* Instances of ExecPipe for TLC: bodies cut into chunks, and outputs.     *)
EXTENDS ExecPipe, SequencesExt

Chunked(data) == <<SizeTok(Len(data)), ByteTok(NL)>>
               \o [i \in 1..Len(data) |-> ByteTok(data[i])] \o <<ByteTok(NL)>>
LastChunk == <<SizeTok(0), ByteTok(NL), ByteTok(NL)>>
Encode(chunks) == FlattenSeq([i \in 1..Len(chunks) |-> Chunked(chunks[i])]) \o LastChunk

(* Two chunks; the second byte of the payload is itself a newline.         *)
MCChunks == <<<<1, NL>>, <<2>>>>
MCBody == FlattenSeq(MCChunks)
MCWire == Encode(MCChunks)
MCOutputs == [out |-> <<1, NL, 2, 3>>, err |-> <<NUL, 4>>]

(* An empty body, for the run about the output.                            *)
MCShortBody == <<>>
MCShortWire == LastChunk

MCLongChunks == <<<<1, 2>>>>
MCLongBody == FlattenSeq(MCLongChunks)
MCLongWire == Encode(MCLongChunks)
MCNote == [out |-> <<>>, err |-> <<9>>]
MCQuiet == [out |-> <<>>, err |-> <<>>]
=============================================================================
