---------------------------- MODULE MCConnection ----------------------------
(* Instances of Connection for TLC.                                        *)
EXTENDS Connection

Req(k, l, n, e) ==
  [kind |-> k, length |-> l, size |-> n, expect |-> e, command |-> <<>>, env |-> <<>>, raw |-> FALSE]
Pipe(s, e, r) ==
  [kind |-> "pipe", length |-> "none", size |-> 0, expect |-> FALSE, command |-> s, env |-> e, raw |-> r]

(* "%", "+", "&" and "=" have to be escaped.                               *)
MCHex == [c \in {"%", "+", "&", "="} |-> CASE c = "%" -> <<"2", "5">> [] c = "+" -> <<"2", "B">>
                                          [] c = "&" -> <<"2", "6">> [] c = "=" -> <<"3", "D">>]
MCChars == {"x", "2", " ", "A", "-", "n"} \cup DOMAIN MCHex
Commands == UNION {[1..n -> {"x", "2", " ", "%", "+", "&"}] : n \in 1..2}
            \cup UNION {[1..n -> {"2", "%", "&"}] : n \in 3..4}
            \cup {<<"-", c>> : c \in {"n", "x"}}
Env(k, v) == <<<<k>>, v>>
Envs == {<<>>, <<Env("A", <<"x">>)>>, <<Env("A", <<>>), Env("A", <<"x">>)>>, <<Env("A", <<"+">>)>>, <<Env("A", <<"=">>)>>,
         <<Env("A", <<"-", "n">>)>>}

One == {Req("json", "given", n, e) : n \in {1, 3}, e \in BOOLEAN}
       \cup {Req("json", l, 1, FALSE) : l \in {"chunked", "none"}}
       \cup {Req("plain", "given", 2, FALSE), Req("update", "given", 2, FALSE)}
       \cup {Req("upload", l, 2, TRUE) : l \in {"given", "chunked"}}

MCScenarios ==
  {<<Pipe(s, e, r), Req("plain", "given", 0, FALSE)>> : s \in Commands, e \in {<<>>}, r \in {FALSE}}
    \cup {<<Pipe(<<"x">>, e, r), Req("plain", "given", 0, FALSE)>> : e \in Envs, r \in BOOLEAN}
    \cup {<<r, Req("json", l, 1, FALSE)>> : r \in One, l \in {"given", "none"}}
    \cup {<<Req("upload", "given", 3, FALSE), r>> :
            r \in {Req("download", "given", 0, FALSE), Req("upload", "given", 2, TRUE)}}
=============================================================================
