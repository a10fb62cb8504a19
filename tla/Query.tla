-------------------------------- MODULE Query --------------------------------
(***************************************************************************)
(* The query of /api/exec/pipe: how the client writes it (adb-termux.sh    *)
(* 126-186) and how the server reads it (src/src/server.c 36-70,           *)
(* src/src/handler.c 398-470).                                             *)
(*                                                                         *)
(* A string is a sequence of characters; "command=", "env_" and "raw=1"    *)
(* count as one.                                                           *)
(***************************************************************************)
EXTENDS Integers, Sequences, FiniteSetsExt

CONSTANTS
  Chars,      \* characters of the command and the environment, ASCII
  Hex,        \* for each character to be escaped the two digits of its code
  QueryCap,   \* characters the buffer for the query holds
  CmdCap,     \* characters the buffer for the decoded command holds
  EnvCap,     \* characters a name or a value in the environment may have
  MaxEnv      \* MAX_ENV

Digits == UNION {{Hex[c][1], Hex[c][2]} : c \in DOMAIN Hex}

ASSUME CharAssumption == "NUL" \notin Chars
ASSUME HexAssumption == /\ \A c \in DOMAIN Hex : Hex[c] \in Digits \X Digits
                        /\ \A c, d \in DOMAIN Hex : Hex[c] = Hex[d] => c = d
                        /\ {"%", "+", "&", "="} \subseteq DOMAIN Hex
                        /\ Digits \cap {"&", "="} = {}
ASSUME CapAssumption == {QueryCap, CmdCap, EnvCap, MaxEnv} \subseteq Nat

Cut(s, n) == SubSeq(s, 1, IF n < Len(s) THEN n ELSE Len(s))

----------------------------------------------------------------------------
(* The client: the loop of urlencode.                                      *)
Escape(c) == IF c = " " THEN <<"+">>
             ELSE IF c \in DOMAIN Hex THEN <<"%">> \o Hex[c]
             ELSE <<c>>

Encode(s) ==
  LET from[i \in 1..Len(s) + 1] == IF i > Len(s) THEN <<>> ELSE Escape(s[i]) \o from[i + 1]
  IN from[1]

(* What ends urlencode: echo takes some strings for options of its own and *)
(* writes nothing.                                                         *)
IsOption(s) == Len(s) > 1 /\ s[1] = "-" /\ \A i \in 2..Len(s) : s[i] \in {"n", "e", "E"}
Urlencode(s) == IF IsOption(Encode(s)) THEN <<>> ELSE Encode(s)

(* build_pipe_query, and line 280 for raw.                                 *)
Written(command, env, raw) ==
  LET envs[n \in 0..Len(env)] ==
        IF n = 0 THEN <<>>
        ELSE envs[n - 1] \o <<"&", "env_">> \o Urlencode(env[n][1]) \o <<"=">> \o Urlencode(env[n][2])
  IN <<"command=">> \o Urlencode(command) \o envs[Len(env)] \o (IF raw THEN <<"&", "raw=1">> ELSE <<>>)

----------------------------------------------------------------------------
(* The server, lines 441-455.  strtol reads as many digits as there are.   *)
Chr(a, b) ==
  IF \E c \in DOMAIN Hex : Hex[c] = <<a, b>> THEN CHOOSE c \in DOMAIN Hex : Hex[c] = <<a, b>>
  ELSE IF a \in Digits THEN "control" ELSE "NUL"

(* Whether the characters at i are an escape.  Mutant: one at the end of   *)
(* the command is not.                                                     *)
EscapedShort(s, i) == s[i] = "%" /\ i + 3 <= Len(s)
Escaped(s, i) == s[i] = "%" /\ i + 2 <= Len(s)

Decode(s) ==
  LET from[i \in 1..Len(s) + 1] ==
        IF i > Len(s) THEN <<>>
        ELSE IF Escaped(s, i) THEN <<Chr(s[i + 1], s[i + 2])>> \o from[i + 3]
        ELSE <<IF s[i] = "+" THEN " " ELSE s[i]>> \o from[i + 1]
  IN from[1]

(* A C string ends at its first NUL.                                       *)
CString(s) ==
  LET upto[i \in 1..Len(s) + 1] == IF i > Len(s) \/ s[i] = "NUL" THEN i - 1 ELSE upto[i + 1]
  IN SubSeq(s, 1, upto[1])

(* A segment is what lies between two "&", lines 408-434; it is named by   *)
(* the place before its first character.                                   *)
Breaks(q) == {0, Len(q) + 1} \cup {i \in 1..Len(q) : q[i] = "&"}
Starts(q) == Breaks(q) \ {Len(q) + 1}
Segment(q, i) == SubSeq(q, i + 1, Min({j \in Breaks(q) : j > i}) - 1)
Named(q, i, name) == Len(Segment(q, i)) > 1 /\ Head(Segment(q, i)) = name

(* The last command counts.                                                *)
CommandOf(q) ==
  LET is == {i \in Starts(q) : Named(q, i, "command=")}
  IN IF is = {} THEN <<>> ELSE Tail(Segment(q, Max(is)))

RawOf(q) == \E i \in Starts(q) : Segment(q, i) = <<"raw=1">>

(* The n-th number of a set.                                               *)
Nth(S, n) == CHOOSE i \in S : Cardinality({j \in S : j <= i}) = n

(* Names and values in the environment are taken as they are, not decoded; *)
(* those that are too long, and those after MAX_ENV, are left out.         *)
EnvSegment(g) ==
  LET eq == Min({i \in 2..Len(g) : g[i] = "="})
  IN <<SubSeq(g, 2, eq - 1), SubSeq(g, eq + 1, Len(g))>>
IsEnv(g) ==
  /\ \E i \in 2..Len(g) : g[i] = "="
  /\ Len(EnvSegment(g)[1]) < EnvCap /\ Len(EnvSegment(g)[2]) < EnvCap

EnvOf(q) ==
  LET is == {i \in Starts(q) : Named(q, i, "env_") /\ IsEnv(Segment(q, i))}
  IN Cut([n \in 1..Cardinality(is) |-> EnvSegment(Segment(q, Nth(is, n)))], MaxEnv)

(* What exec_run_pipe is called with.                                      *)
CallOf(q) ==
  [command |-> CString(Cut(Decode(CommandOf(q)), CmdCap)), env |-> EnvOf(q), raw |-> RawOf(q)]
Call(q) == CallOf(Cut(q, QueryCap))
=============================================================================
