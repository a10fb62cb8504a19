--------------------------- MODULE ExecRunProofs ---------------------------
(***************************************************************************)
(* Proofs about ExecRun for every value of its constants.                  *)
(***************************************************************************)
EXTENDS ExecRun, SequenceTheorems, WellFoundedInduction, TLAPS

LEMMA Constants ==
  /\ PipeCap \in Nat \ {0} /\ MaxOutput \in Nat \ {0} /\ MaxPiece \in Nat \ {0}
  /\ Outputs \in [Streams -> Seq(Nat)] /\ Statuses \subseteq Int
BY OutputAssumption, StatusAssumption, SizeAssumption

----------------------------------------------------------------------------
(* The end of a call: the child is reaped just before the answer, and the  *)
(* answer is the only place that sends an exit item.                       *)
Closing ==
  /\ child = "reaped" => pc \in {"reply", "done"}
  /\ pc \in {"reply", "done"} /\ ~interrupted => child = "reaped" /\ exit_code = CodeOf(status)
  /\ pc # "done" => \A i \in 1..Len(sent) : sent[i].kind # "exit"
  /\ pc # "done" /\ mode = "run" => sent = <<>>
  /\ pc = "done" => Len(sent) > 0 /\ sent[Len(sent)] = ExitItem
  /\ \A i \in 1..Len(sent) : sent[i].kind = "exit" => i = Len(sent)

(* A pipe holds the end of what was written to it.                         *)
Queued(s) ==
  /\ Len(pipe[s]) <= Len(made[s])
  /\ \A i \in 1..Len(pipe[s]) : pipe[s][i] = made[s][Len(made[s]) - Len(pipe[s]) + i]

(* exec_run has collected the beginning, as far as the limit allows.       *)
Collected(s) ==
  /\ Len(result[s]) = Min2(MaxOutput, Len(made[s]) - Len(pipe[s]))
  /\ \A i \in 1..Len(result[s]) : result[s][i] = made[s][i]

Flow == \A s \in Streams : Queued(s) /\ (mode = "run" => Collected(s))

----------------------------------------------------------------------------
(* Types.                                                                  *)

LEMMA TypeInit == Init => TypeOK
<1> SUFFICES ASSUME Init PROVE TypeOK
  OBVIOUS
<1>1. <<>> \in Seq(Nat) /\ <<>> \in Seq(Item) /\ Len(<<>>) = 0
  OBVIOUS
<1>2. exit_code \in Int
  BY DEF Init
<1>3. result \in [Streams -> Seq(Nat)] /\ \A s \in Streams : Len(result[s]) <= MaxOutput
  BY <1>1, Constants DEF Init
<1>4. /\ pipe \in [Streams -> Seq(Nat)] /\ made \in [Streams -> Seq(Nat)]
      /\ by_exit \in [Streams -> Seq(Nat)]
  BY <1>1 DEF Init
<1>5. piece \in Seq(Nat) /\ sent \in Seq(Item)
  BY <1>1 DEF Init
<1>6. data_read \in BOOLEAN /\ interrupted \in BOOLEAN
  BY DEF Init
<1>7. /\ mode \in {"run", "stream"}
      /\ pc \in {"wait", "out", "err", "waitpid", "reply", "done"}
      /\ ready \subseteq Streams /\ status \in Int /\ fds \subseteq Streams
      /\ child \in {"running", "zombie", "reaped"}
  BY DEF Init
<1> QED
  BY <1>2, <1>3, <1>4, <1>5, <1>6, <1>7, Zenon DEF TypeOK

(* A set of natural numbers that is not empty has a least one.             *)
Less == {ss \in Nat \X Nat : ss[1] < ss[2]}

LEMMA LeastOf == ASSUME NEW T \in SUBSET Nat, T # {} PROVE \E m \in T : \A j \in T : m <= j
<1>1. IsWellFoundedOn(Less, Nat)
  BY NatLessThanWellFounded DEF OpToRel, Less
<1>2. PICK m \in T : \A j \in T : ~(<<j, m>> \in Less)
  BY <1>1, WFMin
<1>3. ASSUME NEW j \in T PROVE m <= j
  <2>1. m \in Nat /\ j \in Nat
    OBVIOUS
  <2>2. j < m => <<j, m>> \in Less
    BY <2>1 DEF Less
  <2> QED
    BY <1>2, <2>1, <2>2
<1> QED
  BY <1>3

(* printf prints the bytes before the first NUL, or all of them.           *)
LEMMA UpToNulIs ==
  ASSUME NEW d \in Seq(Nat)
  PROVE  \E k \in 0..Len(d) :
           /\ UpToNul(d) \in Seq(Nat) /\ Len(UpToNul(d)) = k
           /\ \A i \in 1..k : UpToNul(d)[i] = d[i]
           /\ k < Len(d) => d[k + 1] = NUL
<1> DEFINE ends == {k \in 0..Len(d) : \A i \in 1..k : d[i] # NUL}
           k == CHOOSE k \in ends : \A j \in ends : j <= k
<1>1. \E k1 \in ends : \A j \in ends : j <= k1
  <2> DEFINE n == Len(d)
             Free(i) == d[i] # NUL
  <2>1. n \in Nat
    OBVIOUS
  <2>2. CASE \A i \in 1..n : Free(i)
    BY <2>1, <2>2
  <2>3. CASE \E i \in 1..n : ~Free(i)
    <3>1. PICK m \in 1..n : ~Free(m) /\ \A i \in 1..(m - 1) : Free(i)
      <4> DEFINE Bad == {i \in 1..n : ~Free(i)}
      <4>1. Bad # {} /\ Bad \subseteq Nat
        BY <2>1, <2>3
      <4>2. PICK m \in Bad : \A i \in Bad : m <= i
        BY <4>1, LeastOf
      <4>3. m \in 1..n /\ ~Free(m)
        BY <4>2
      <4>4. ASSUME NEW i \in 1..(m - 1) PROVE Free(i)
        BY <2>1, <4>2, <4>3
      <4> QED
        BY <4>3, <4>4
    <3>2. m - 1 \in 0..n /\ \A i \in 1..(m - 1) : Free(i)
      BY <2>1, <3>1
    <3>3. ASSUME NEW j \in 0..n, \A i \in 1..j : Free(i) PROVE j <= m - 1
      BY <2>1, <3>1, <3>3
    <3> QED
      BY <3>2, <3>3
  <2> QED
    BY <2>2, <2>3
<1>2. k \in ends /\ \A j \in ends : j <= k
  <2> HIDE DEF ends
  <2> QED
    BY <1>1
<1>3. k \in 0..Len(d) /\ \A i \in 1..k : d[i] # NUL
  BY <1>2
<1>4. k < Len(d) => d[k + 1] = NUL
  <2> SUFFICES ASSUME k < Len(d), d[k + 1] # NUL PROVE FALSE
    OBVIOUS
  <2> HIDE DEF k
  <2>1. k + 1 \in 0..Len(d) /\ \A i \in 1..k + 1 : d[i] # NUL
    BY <1>3
  <2>2. k + 1 <= k
    BY <1>2, <2>1
  <2> QED
    BY <1>3, <2>2
<1>5. UpToNul(d) = SubSeq(d, 1, k)
  BY DEF UpToNul
<1> HIDE DEF k, ends
<1>6. /\ SubSeq(d, 1, k) \in Seq(Nat) /\ Len(SubSeq(d, 1, k)) = k
      /\ \A i \in 1..k : SubSeq(d, 1, k)[i] = d[i]
  BY <1>3, SubSeqProperties, k \in Int, 1 \in Int, \A i \in 1..k : d[i] \in Nat
<1> QED
  BY <1>3, <1>4, <1>5, <1>6

LEMMA UpToNulType == ASSUME NEW d \in Seq(Nat) PROVE UpToNul(d) \in Seq(Nat)
BY UpToNulIs

LEMMA MinType ==
  ASSUME NEW a \in Nat, NEW b \in Nat
  PROVE  Min2(a, b) \in Nat /\ Min2(a, b) <= a /\ Min2(a, b) <= b
BY DEF Min2

LEMMA PrefixType ==
  ASSUME NEW d \in Seq(Nat), NEW n \in 0..Len(d)
  PROVE  /\ SubSeq(d, 1, n) \in Seq(Nat) /\ Len(SubSeq(d, 1, n)) = n
         /\ \A i \in 1..n : SubSeq(d, 1, n)[i] = d[i]
BY SubSeqProperties, n \in Int, 1 \in Int, \A i \in 1..n : d[i] \in Nat

LEMMA RestType ==
  ASSUME NEW d \in Seq(Nat), NEW n \in Nat
  PROVE  Rest(d, n) \in Seq(Nat)
<1>1. n + 1 \in Int /\ Len(d) \in Int /\ \A i \in n + 1..Len(d) : d[i] \in Nat
  OBVIOUS
<1> QED
  BY <1>1, SubSeqProperties DEF Rest

LEMMA ItemType ==
  ASSUME TypeOK
  PROVE  /\ ExitItem \in Item
         /\ \A s \in Streams : OutputItem(s) \in Item
         /\ \A s \in Streams, d \in Seq(Nat) : [kind |-> s, data |-> UpToNul(d), code |-> 0] \in Item
<1>1. <<>> \in Seq(Nat)
  OBVIOUS
<1>2. ExitItem \in Item
  BY <1>1 DEF TypeOK, ExitItem, Item
<1>3. \A s \in Streams, d \in Seq(Nat) : [kind |-> s, data |-> UpToNul(d), code |-> 0] \in Item
  BY UpToNulType DEF Item, Streams
<1>4. \A s \in Streams : result[s] \in Seq(Nat)
  BY DEF TypeOK
<1> QED
  BY <1>2, <1>3, <1>4 DEF OutputItem

(* What a read returns fits into the room that is left.                    *)
LEMMA ResultType ==
  ASSUME TypeOK, NEW s \in Streams, ReadRun(s)
  PROVE  /\ result' \in [Streams -> Seq(Nat)]
         /\ \A t \in Streams : Len(result'[t]) <= MaxOutput
<1> DEFINE m == Len(pipe[s])
           r == Len(result[s])
           k == Min2(m, Room(s))
           new == result[s] \o SubSeq(pipe[s], 1, k)
<1>1. result[s] \in Seq(Nat) /\ pipe[s] \in Seq(Nat) /\ r <= MaxOutput
  BY DEF TypeOK
<1>2. m \in Nat /\ r \in Nat
  BY <1>1
<1>3. k \in 0..m /\ r + k <= MaxOutput
  <2>1. k = Min2(m, MaxOutput - r)
    BY DEF Room
  <2> HIDE DEF m, r, k
  <2>2. MaxOutput - r \in Nat
    BY <1>1, <1>2, Constants
  <2> QED
    BY <1>1, <1>2, <2>1, <2>2, MinType, Constants
<1>4. SubSeq(pipe[s], 1, k) \in Seq(Nat) /\ Len(SubSeq(pipe[s], 1, k)) = k
  <2> HIDE DEF k
  <2> QED
    BY <1>1, <1>3, PrefixType
<1>5. new \in Seq(Nat) /\ Len(new) = r + k
  <2> HIDE DEF k
  <2> QED
    BY <1>1, <1>4, ConcatProperties
<1>6. result' = [result EXCEPT ![s] = new]
  BY DEF ReadRun
<1> HIDE DEF k, r, new
<1> QED
  BY <1>3, <1>5, <1>6 DEF TypeOK

LEMMA TypeNext == TypeOK /\ [Next]_vars => TypeOK'
<1> SUFFICES ASSUME TypeOK, [Next]_vars PROVE TypeOK'
  OBVIOUS
<1> USE DEF threadVars, treeVars
<1>1. ASSUME NEW s \in Streams, ChildWrite(s) PROVE TypeOK'
  <2> DEFINE b == Outputs[s][Len(made[s]) + 1]
  <2>1. b \in Nat
    <3>1. Len(made[s]) \in Nat /\ Len(Outputs[s]) \in Nat /\ Outputs[s] \in Seq(Nat)
      BY Constants DEF TypeOK
    <3>2. Len(made[s]) < Len(Outputs[s])
      BY <1>1 DEF ChildWrite
    <3> DEFINE n == Len(made[s])
    <3>3. n + 1 \in 1..Len(Outputs[s])
      <4>1. n \in Nat /\ n < Len(Outputs[s])
        BY <3>1, <3>2
      <4> HIDE DEF n
      <4> QED
        BY <3>1, <4>1
    <3> QED
      BY <3>1, <3>3, ElementOfSeq
  <2>2. made' = [made EXCEPT ![s] = Append(@, b)] /\ pipe' = [pipe EXCEPT ![s] = Append(@, b)]
    BY <1>1 DEF ChildWrite
  <2> HIDE DEF b
  <2>3. made' \in [Streams -> Seq(Nat)] /\ pipe' \in [Streams -> Seq(Nat)]
    BY <2>1, <2>2 DEF TypeOK
  <2> QED
    BY <1>1, <2>3 DEF TypeOK, ChildWrite
<1>2. ASSUME NEW s \in Streams, ChildClose(s) PROVE TypeOK'
  BY <1>2 DEF TypeOK, ChildClose
<1>3. ASSUME ChildExit PROVE TypeOK'
  BY <1>3, Constants DEF TypeOK, ChildExit
<1>4. ASSUME NEW found \in SUBSET Streams, Begin(found) PROVE TypeOK'
  <2>1. data_read' = FALSE /\ ready' \subseteq Streams
    BY <1>4 DEF Begin
  <2>2. pc' \in {"wait", "out", "err", "waitpid", "reply", "done"}
    BY <1>4 DEF Begin, NextRead
  <2> QED
    BY <1>4, <2>1, <2>2 DEF TypeOK, Begin
<1>5. ASSUME Interrupted PROVE TypeOK'
  BY <1>5 DEF TypeOK, Interrupted
<1>6. ASSUME NEW s \in Streams, ReadRun(s) PROVE TypeOK'
  <2>1. pipe' \in [Streams -> Seq(Nat)]
    BY <1>6 DEF ReadRun, Drained, TypeOK
  <2>2. ready' \subseteq Streams
    BY <1>6 DEF ReadRun, TypeOK
  <2>3. pc' \in {"wait", "out", "err", "waitpid", "reply", "done"}
    BY <1>6 DEF ReadRun, NextRead
  <2>4. UNCHANGED <<mode, piece, data_read, exit_code, interrupted, sent, child, status,
                    fds, made, by_exit>>
    BY <1>6 DEF ReadRun
  <2> QED
    BY <1>6, <2>1, <2>2, <2>3, <2>4, ResultType DEF TypeOK
<1>7. ASSUME NEW s \in Streams, ReadStream(s) PROVE TypeOK'
  <2>1. pipe' \in [Streams -> Seq(Nat)] /\ piece' \in Seq(Nat)
    BY <1>7 DEF ReadStream, Drained, TypeOK
  <2> QED
    BY <1>7, <2>1 DEF TypeOK, ReadStream
<1>8. ASSUME NEW s \in Streams, SendPiece(s) PROVE TypeOK'
  <2> DEFINE n == Min2(Len(piece), MaxPiece)
  <2>1. n \in 0..Len(piece) /\ piece \in Seq(Nat)
    <3>1. piece \in Seq(Nat) /\ Len(piece) \in Nat /\ MaxPiece \in Nat
      BY Constants DEF TypeOK
    <3>2. n \in Nat /\ n <= Len(piece)
      BY <3>1, MinType
    <3> HIDE DEF n
    <3> QED
      BY <3>1, <3>2
  <2>2. SubSeq(piece, 1, n) \in Seq(Nat) /\ Rest(piece, n) \in Seq(Nat)
    BY <2>1, PrefixType, RestType
  <2>3. sent' \in Seq(Item) /\ piece' \in Seq(Nat)
    <3> DEFINE it == [kind |-> s, data |-> UpToNul(SubSeq(piece, 1, n)), code |-> 0]
    <3>1. it \in Item
      BY <2>2, ItemType
    <3>2. sent' = Append(sent, it) /\ piece' = Rest(piece, n)
      BY <1>8 DEF SendPiece
    <3> HIDE DEF it, n
    <3> QED
      BY <2>2, <3>1, <3>2 DEF TypeOK
  <2>4. ready' \subseteq Streams /\ pc' \in {"wait", "out", "err", "waitpid", "reply", "done"}
    <3>1. CASE piece' = <<>>
      BY <1>8, <3>1 DEF SendPiece, NextRead, TypeOK
    <3>2. CASE piece' # <<>>
      BY <1>8, <3>2 DEF SendPiece, TypeOK
    <3> QED
      BY <3>1, <3>2
  <2>5. UNCHANGED <<mode, data_read, result, exit_code, interrupted, treeVars>>
    BY <1>8 DEF SendPiece
  <2> QED
    BY <2>3, <2>4, <2>5 DEF TypeOK
<1>9. ASSUME WaitPid PROVE TypeOK'
  <2>1. CodeOf(status) \in Int
    BY DEF TypeOK, CodeOf
  <2> QED
    BY <1>9, <2>1 DEF TypeOK, WaitPid
<1>10. ASSUME Reply PROVE TypeOK'
  <2>1. sent' \in Seq(Item)
    BY <1>10, ItemType DEF Reply, TypeOK, Streams
  <2> QED
    BY <1>10, <2>1 DEF TypeOK, Reply
<1>11. CASE UNCHANGED vars
  BY <1>11 DEF TypeOK, vars
<1>12. Select \/ Poll \/ Timeout => \E found \in SUBSET Streams : Begin(found)
  BY DEF Select, Poll, Timeout, Readable, HasData
<1> QED
  BY <1>1, <1>2, <1>3, <1>4, <1>5, <1>6, <1>7, <1>8, <1>9, <1>10, <1>11, <1>12
     DEF Next, Thread, Tree, Returned

(* Every variable keeps its type, and no result grows beyond               *)
(* EXEC_MAX_OUTPUT.                                                        *)
THEOREM RunTypeCorrect == Spec => []TypeOK
BY TypeInit, TypeNext, PTL DEF Spec

----------------------------------------------------------------------------
(* The flow of the bytes.                                                  *)

LEMMA FlowInit == Init => Flow
<1> SUFFICES ASSUME Init, NEW s \in Streams PROVE Queued(s) /\ Collected(s)
  BY DEF Flow
<1>1. pipe[s] = <<>> /\ made[s] = <<>> /\ result[s] = <<>>
  BY DEF Init
<1>2. Min2(MaxOutput, 0) = 0
  BY Constants DEF Min2
<1> QED
  BY <1>1, <1>2 DEF Queued, Collected

(* Writing extends both ends alike.                                        *)
LEMMA QueuedWrite ==
  ASSUME TypeOK, NEW s \in Streams, Queued(s), NEW b \in Nat,
         made'[s] = Append(made[s], b), pipe'[s] = Append(pipe[s], b)
  PROVE  Queued(s)' /\ Len(made'[s]) - Len(pipe'[s]) = Len(made[s]) - Len(pipe[s])
<1> DEFINE m == Len(made[s])
           p == Len(pipe[s])
<1>1. made[s] \in Seq(Nat) /\ pipe[s] \in Seq(Nat) /\ m \in Nat /\ p \in Nat
  BY DEF TypeOK
<1>2. /\ Len(made'[s]) = m + 1 /\ Len(pipe'[s]) = p + 1
      /\ made'[s][m + 1] = b /\ pipe'[s][p + 1] = b
      /\ \A i \in 1..m : made'[s][i] = made[s][i]
      /\ \A i \in 1..p : pipe'[s][i] = pipe[s][i]
  BY <1>1
<1>3. p <= m /\ \A i \in 1..p : pipe[s][i] = made[s][m - p + i]
  BY DEF Queued
<1> DEFINE m2 == Len(made'[s])
           p2 == Len(pipe'[s])
<1>4. m2 = m + 1 /\ p2 = p + 1
  BY <1>2
<1> HIDE DEF m, p, m2, p2
<1>5. p2 <= m2 /\ m2 - p2 = m - p
  BY <1>1, <1>3, <1>4
<1>6. ASSUME NEW i \in 1..p2 PROVE pipe'[s][i] = made'[s][m2 - p2 + i]
  <2>1. i = p + 1 \/ i \in 1..p
    BY <1>1, <1>4, <1>6
  <2>2. CASE i = p + 1
    <3>1. m2 - p2 + i = m + 1
      BY <1>1, <1>5, <2>2
    <3> QED
      BY <1>2, <2>2, <3>1
  <2>3. CASE i \in 1..p
    <3>1. m2 - p2 + i = m - p + i /\ m - p + i \in 1..m
      BY <1>1, <1>3, <1>5, <2>3
    <3> QED
      BY <1>2, <1>3, <2>3, <3>1
  <2> QED
    BY <2>1, <2>2, <2>3
<1> QED
  BY <1>5, <1>6 DEF Queued, m, p, m2, p2

LEMMA CollectedKept ==
  ASSUME TypeOK, NEW s \in Streams, Queued(s), Collected(s), NEW b \in Nat,
         made'[s] = Append(made[s], b), result'[s] = result[s],
         Len(made'[s]) - Len(pipe'[s]) = Len(made[s]) - Len(pipe[s])
  PROVE  Collected(s)'
<1> DEFINE m == Len(made[s])
           r == Len(result[s])
           p == Len(pipe[s])
           d == m - p
<1>1. made[s] \in Seq(Nat) /\ m \in Nat /\ r \in Nat /\ p \in Nat
  BY DEF TypeOK
<1>2. d \in Nat /\ d <= m
  <2>1. p <= m
    BY DEF Queued
  <2> HIDE DEF m, p
  <2> QED
    BY <1>1, <2>1
<1>3. r = Min2(MaxOutput, d)
  BY DEF Collected
<1>4. \A i \in 1..m : made'[s][i] = made[s][i]
  BY <1>1
<1>5. r <= m
  <2> HIDE DEF d, m, r
  <2> QED
    BY <1>1, <1>2, <1>3, MinType, Constants
<1>6. ASSUME NEW i \in 1..r PROVE result'[s][i] = made'[s][i]
  <2>1. result[s][i] = made[s][i]
    BY DEF Collected
  <2> HIDE DEF m, r
  <2>2. i \in 1..m
    BY <1>1, <1>5, <1>6
  <2> QED
    BY <1>4, <2>1, <2>2
<1> QED
  BY <1>3, <1>6 DEF Collected

(* A read moves the queue to the end of the result.                        *)
LEMMA CollectedRead ==
  ASSUME TypeOK, NEW s \in Streams, Queued(s), Collected(s), ReadRun(s)
  PROVE  Collected(s)'
<1> DEFINE m == Len(made[s])
           p == Len(pipe[s])
           r == Len(result[s])
           k == Min2(p, Room(s))
           new == SubSeq(pipe[s], 1, k)
<1>1. /\ made[s] \in Seq(Nat) /\ pipe[s] \in Seq(Nat) /\ result[s] \in Seq(Nat)
      /\ m \in Nat /\ p \in Nat /\ r \in Nat /\ r <= MaxOutput
  BY DEF TypeOK
<1>2. p <= m /\ \A i \in 1..p : pipe[s][i] = made[s][m - p + i]
  BY DEF Queued
<1>3. r = Min2(MaxOutput, m - p) /\ \A i \in 1..r : result[s][i] = made[s][i]
  BY DEF Collected
<1>4. k = Min2(p, MaxOutput - r)
  BY DEF Room
<1>5. /\ k \in 0..p /\ r + k = Min2(MaxOutput, m)
      /\ k > 0 => r = m - p
  <2>1. p <= m /\ r = Min2(MaxOutput, m - p) /\ MaxOutput \in Nat
    BY <1>2, <1>3, Constants
  <2> HIDE DEF m, p, r, k
  <2>2. CASE MaxOutput <= m - p
    <3>1. r = MaxOutput /\ MaxOutput <= m
      BY <1>1, <2>1, <2>2 DEF Min2
    <3>2. k = 0 /\ Min2(MaxOutput, m) = MaxOutput
      BY <1>1, <1>4, <2>1, <3>1 DEF Min2
    <3> QED
      BY <1>1, <2>1, <3>1, <3>2
  <2>3. CASE m - p < MaxOutput
    <3>1. r = m - p
      BY <1>1, <2>1, <2>3 DEF Min2
    <3>2. CASE p <= MaxOutput - r
      <4>1. k = p /\ Min2(MaxOutput, m) = m
        BY <1>1, <1>4, <2>1, <3>1, <3>2 DEF Min2
      <4> QED
        BY <1>1, <2>1, <3>1, <4>1
    <3>3. CASE MaxOutput - r < p
      <4>1. k = MaxOutput - r
        BY <1>1, <1>4, <2>1, <3>3 DEF Min2
      <4>2. Min2(MaxOutput, m) = MaxOutput
        BY <1>1, <2>1, <3>1, <3>3 DEF Min2
      <4>3. k \in 0..p
        BY <1>1, <2>1, <3>3, <4>1
      <4>4. r + k = MaxOutput
        BY <1>1, <2>1, <4>1
      <4> QED
        BY <3>1, <4>2, <4>3, <4>4
    <3> QED
      BY <1>1, <2>1, <3>1, <3>2, <3>3
  <2> QED
    BY <1>1, <2>1, <2>2, <2>3
<1>6. new \in Seq(Nat) /\ Len(new) = k /\ \A i \in 1..k : new[i] = pipe[s][i]
  <2> HIDE DEF k
  <2> QED
    BY <1>1, <1>5, PrefixType
<1>7. /\ pipe'[s] = <<>> /\ made'[s] = made[s]
      /\ result'[s] = result[s] \o new
  BY DEF ReadRun, Drained, TypeOK
<1>8. /\ Len(result'[s]) = r + k
      /\ \A i \in 1..r + k : result'[s][i] = IF i <= r THEN result[s][i] ELSE new[i - r]
  <2> HIDE DEF k, new
  <2>1. /\ Len(result[s] \o new) = Len(result[s]) + Len(new)
        /\ \A i \in 1..Len(result[s]) + Len(new) :
             (result[s] \o new)[i] = IF i <= Len(result[s]) THEN result[s][i]
                                     ELSE new[i - Len(result[s])]
    BY <1>1, <1>6, ConcatProperties
  <2> QED
    BY <1>6, <1>7, <2>1
<1> HIDE DEF m, p, r, k, new
<1>9. ASSUME NEW i \in 1..r + k PROVE result'[s][i] = made[s][i]
  <2>1. CASE i <= r
    BY <1>1, <1>3, <1>8, <2>1
  <2>2. CASE i > r
    <3>1. i - r \in 1..k /\ i - r \in 1..p /\ m - p + (i - r) = i
      BY <1>1, <1>5, <2>2
    <3>2. new[i - r] = pipe[s][i - r] /\ pipe[s][i - r] = made[s][i]
      BY <1>2, <1>6, <3>1
    <3> QED
      BY <1>1, <1>8, <2>2, <3>2
  <2> QED
    BY <1>1, <1>5, <2>1, <2>2
<1>10. Len(made'[s]) - Len(pipe'[s]) = m
  BY <1>1, <1>7 DEF m
<1> QED
  BY <1>5, <1>7, <1>8, <1>9, <1>10 DEF Collected

LEMMA FlowNext == TypeOK /\ Flow /\ [Next]_vars => Flow'
<1> SUFFICES ASSUME TypeOK, Flow, [Next]_vars, NEW s \in Streams
             PROVE  Queued(s)' /\ (mode' = "run" => Collected(s)')
  BY DEF Flow
<1> USE DEF threadVars, treeVars
<1>1. Queued(s) /\ (mode = "run" => Collected(s)) /\ pipe[s] \in Seq(Nat) /\ made[s] \in Seq(Nat)
  BY DEF Flow, TypeOK
<1>2. ASSUME NEW t \in Streams, ChildWrite(t) PROVE Queued(s)' /\ (mode' = "run" => Collected(s)')
  <2> DEFINE b == Outputs[t][Len(made[t]) + 1]
  <2>1. /\ made' = [made EXCEPT ![t] = Append(@, b)] /\ pipe' = [pipe EXCEPT ![t] = Append(@, b)]
        /\ mode' = mode /\ result' = result
    BY <1>2 DEF ChildWrite
  <2>2. CASE t = s
    <3>1. b \in Nat
      <4>1. Len(made[t]) \in Nat /\ Outputs[t] \in Seq(Nat) /\ Len(made[t]) < Len(Outputs[t])
        <5>1. Len(made[t]) < Len(Outputs[t])
          BY <1>2 DEF ChildWrite
        <5>2. Len(made[t]) \in Nat
          BY DEF TypeOK
        <5>3. Outputs[t] \in Seq(Nat)
          BY Constants
        <5> QED
          BY <5>1, <5>2, <5>3
      <4>2. Len(made[t]) + 1 \in 1..Len(Outputs[t])
        <5> DEFINE n == Len(made[t])
        <5>1. n \in Nat /\ n < Len(Outputs[t]) /\ Len(Outputs[t]) \in Nat
          BY <4>1
        <5> HIDE DEF n
        <5>2. n + 1 \in 1..Len(Outputs[t])
          BY <5>1
        <5> QED
          BY <5>2 DEF n
      <4> QED
        BY <4>1, <4>2, ElementOfSeq
    <3> HIDE DEF b
    <3>2. made'[s] = Append(made[s], b) /\ pipe'[s] = Append(pipe[s], b)
      BY <2>1, <2>2 DEF TypeOK
    <3>3. Queued(s)' /\ Len(made'[s]) - Len(pipe'[s]) = Len(made[s]) - Len(pipe[s])
      BY <1>1, <3>1, <3>2, QueuedWrite
    <3> QED
      BY <1>1, <2>1, <3>1, <3>2, <3>3, CollectedKept
  <2>3. CASE t # s
    <3>1. made'[s] = made[s] /\ pipe'[s] = pipe[s]
      BY <2>1, <2>3 DEF TypeOK
    <3> QED
      BY <1>1, <2>1, <3>1 DEF Queued, Collected
  <2> QED
    BY <2>2, <2>3
<1>3. ASSUME NEW t \in Streams, ReadRun(t) PROVE Queued(s)' /\ (mode' = "run" => Collected(s)')
  <2>1. mode = "run" /\ made' = made
    BY <1>3 DEF ReadRun
  <2>2. CASE t = s
    <3>1. pipe'[s] = <<>>
      BY <1>3, <2>2 DEF ReadRun, Drained, TypeOK
    <3>2. Queued(s)'
      BY <1>1, <2>1, <3>1 DEF Queued
    <3> QED
      BY <1>1, <1>3, <2>1, <2>2, <3>2, CollectedRead
  <2>3. CASE t # s
    <3>1. pipe'[s] = pipe[s] /\ result'[s] = result[s]
      BY <1>3, <2>3 DEF ReadRun, Drained, TypeOK
    <3> QED
      BY <1>1, <2>1, <3>1 DEF Queued, Collected
  <2> QED
    BY <2>2, <2>3
<1>4. ASSUME NEW t \in Streams, ReadStream(t) PROVE Queued(s)' /\ (mode' = "run" => Collected(s)')
  <2>1. mode' = "stream" /\ made' = made /\ (pipe'[s] = pipe[s] \/ pipe'[s] = <<>>)
    BY <1>4 DEF ReadStream, Drained, TypeOK
  <2>2. CASE pipe'[s] = pipe[s]
    BY <1>1, <2>1, <2>2 DEF Queued
  <2>3. CASE pipe'[s] = <<>>
    BY <1>1, <2>1, <2>3 DEF Queued
  <2> QED
    BY <2>1, <2>2, <2>3
<1>5. CASE UNCHANGED <<mode, made, pipe, result>>
  BY <1>1, <1>5 DEF Queued, Collected
<1> QED
  BY <1>2, <1>3, <1>4, <1>5
     DEF Next, Thread, Tree, Returned, vars, ChildClose, ChildExit, Select, Poll, Timeout,
         Begin, Interrupted, SendPiece, WaitPid, Reply

(* exec_run loses, doubles and moves nothing between the command and the   *)
(* result: together they are what the command wrote.                       *)
THEOREM ConservedHolds == Spec => []Conserved
<1>1. TypeOK /\ Flow => Conserved
  <2> SUFFICES ASSUME TypeOK, Flow, mode = "run", NEW s \in Streams
               PROVE  result[s] = SubSeq(made[s], 1, Min2(MaxOutput, Len(made[s]) - Len(pipe[s])))
    BY DEF Conserved
  <2> DEFINE m == Len(made[s])
             p == Len(pipe[s])
             d == m - p
             k == Min2(MaxOutput, d)
  <2>1. /\ result[s] \in Seq(Nat) /\ made[s] \in Seq(Nat) /\ m \in Nat
        /\ p \in Nat /\ p <= m
    BY DEF TypeOK, Flow, Queued
  <2>2. d \in Nat /\ d <= m
    <3> HIDE DEF m, p
    <3> QED
      BY <2>1
  <2>3. Len(result[s]) = k /\ \A i \in 1..Len(result[s]) : result[s][i] = made[s][i]
    BY DEF Flow, Collected
  <2>4. k \in 0..m
    <3> HIDE DEF d, m
    <3>1. k \in Nat /\ k <= d
      BY <2>2, MinType, Constants
    <3> HIDE DEF k
    <3> QED
      BY <2>1, <2>2, <3>1
  <2> HIDE DEF k
  <2>5. /\ SubSeq(made[s], 1, k) \in Seq(Nat) /\ Len(SubSeq(made[s], 1, k)) = k
        /\ \A i \in 1..k : SubSeq(made[s], 1, k)[i] = made[s][i]
    BY <2>1, <2>4, PrefixType
  <2>6. result[s] = SubSeq(made[s], 1, k)
    BY <2>1, <2>3, <2>5, SeqEqual
  <2> QED
    BY <2>6 DEF k
<1> QED
  BY <1>1, TypeInit, TypeNext, FlowInit, FlowNext, PTL DEF Spec

----------------------------------------------------------------------------
(* The answer.                                                             *)

LEMMA ClosingInit == Init => Closing
BY DEF Init, Closing

(* Steps that neither send nor touch the child.                            *)
LEMMA ClosingRead ==
  ASSUME Closing, pc \notin {"reply", "done"}, pc' \notin {"reply", "done"}, child' = child,
         UNCHANGED <<mode, sent, exit_code, interrupted>>
  PROVE  Closing'
BY Zenon DEF Closing

LEMMA ClosingNext == TypeOK /\ Closing /\ [Next]_vars => Closing'
<1> SUFFICES ASSUME TypeOK, Closing, [Next]_vars PROVE Closing'
  OBVIOUS
<1> USE DEF threadVars, treeVars
<1>1. CASE UNCHANGED <<threadVars, child, status>>
  BY <1>1 DEF Closing, ExitItem, CodeOf
<1>2. CASE ChildExit
  BY <1>2 DEF ChildExit, Closing, ExitItem, CodeOf
<1>3. ASSUME NEW found, Begin(found) PROVE Closing'
  <2>1. pc' \notin {"reply", "done"}
    BY <1>3 DEF Begin, NextRead
  <2> QED
    BY <1>3, <2>1, ClosingRead DEF Begin
<1>4. ASSUME NEW s \in Streams, ReadRun(s) PROVE Closing'
  <2>1. pc' \notin {"reply", "done"} /\ pc \notin {"reply", "done"}
    BY <1>4 DEF ReadRun, NextRead, Streams
  <2> QED
    BY <1>4, <2>1, ClosingRead DEF ReadRun
<1>5. ASSUME NEW s \in Streams, ReadStream(s) PROVE Closing'
  <2>1. pc' \notin {"reply", "done"} /\ pc \notin {"reply", "done"}
    BY <1>5 DEF ReadStream, Streams
  <2> QED
    BY <1>5, <2>1, ClosingRead DEF ReadStream
<1>6. ASSUME NEW s \in Streams, SendPiece(s) PROVE Closing'
  <2>1. pc = s /\ mode = "stream" /\ mode' = mode /\ s \notin {"exit", "reply", "done"}
    BY <1>6 DEF SendPiece, Streams
  <2>2. pc' \notin {"reply", "done"}
    BY <1>6, <2>1 DEF SendPiece, NextRead
  <2>3. PICK it : sent' = Append(sent, it) /\ it.kind = s
    BY <1>6 DEF SendPiece
  <2>4. \A i \in 1..Len(sent') : sent'[i].kind # "exit"
    <3>1. sent \in Seq(Item) /\ \A i \in 1..Len(sent) : sent[i].kind # "exit"
      BY <2>1 DEF TypeOK, Closing
    <3> QED
      BY <2>1, <2>3, <3>1
  <2>5. child' = child /\ child # "reaped"
    BY <1>6, <2>1 DEF SendPiece, Closing
  <2> QED
    BY <2>1, <2>2, <2>4, <2>5 DEF Closing
<1>7. CASE Interrupted
  BY <1>7, Zenon DEF Interrupted, Closing
<1>8. CASE WaitPid
  <2>1. pc = "waitpid" /\ child # "reaped" /\ UNCHANGED <<mode, sent, interrupted, status>>
    BY <1>8 DEF WaitPid, Closing
  <2>2. CASE child = "zombie"
    <3>1. child' = "reaped" /\ exit_code' = CodeOf(status)' /\ pc' = "reply"
      BY <1>8, <2>1, <2>2 DEF WaitPid, CodeOf
    <3> QED
      BY <2>1, <3>1 DEF Closing
  <2>3. CASE child # "zombie"
    <3>1. child' = child /\ pc' = "wait" /\ exit_code' = exit_code
      BY <1>8, <2>3 DEF WaitPid
    <3> QED
      BY <2>1, <3>1, ClosingRead
  <2> QED
    BY <2>2, <2>3
<1>9. CASE Reply
  <2>1. pc = "reply" /\ pc' = "done" /\ UNCHANGED <<mode, exit_code, interrupted, child, status>>
    BY <1>9 DEF Reply
  <2>2. /\ sent \in Seq(Item) /\ \A i \in 1..Len(sent) : sent[i].kind # "exit"
        /\ ~interrupted => child = "reaped" /\ exit_code = CodeOf(status)
    BY <2>1 DEF Closing, TypeOK
  <2>3. /\ Len(sent') \in Nat /\ Len(sent') > 0 /\ sent'[Len(sent')] = ExitItem'
        /\ \A i \in 1..Len(sent') : i < Len(sent') => sent'[i].kind # "exit"
    <3>1. CASE mode = "run"
      <4>1. sent' = <<OutputItem("out"), OutputItem("err"), ExitItem>> /\ ExitItem' = ExitItem
        BY <1>9, <2>1, <3>1 DEF Reply, ExitItem
      <4>2. OutputItem("out").kind = "out" /\ OutputItem("err").kind = "err"
        BY DEF OutputItem
      <4> HIDE DEF OutputItem, ExitItem
      <4> QED
        BY <4>1, <4>2
    <3>2. CASE mode # "run"
      <4>1. sent' = Append(sent, ExitItem) /\ ExitItem' = ExitItem
        BY <1>9, <2>1, <3>2 DEF Reply, ExitItem
      <4> QED
        BY <2>2, <4>1
    <3> QED
      BY <3>1, <3>2
  <2>4. \A i \in 1..Len(sent') : sent'[i].kind = "exit" => i = Len(sent')
    BY <2>3
  <2>5. ~interrupted' => child' = "reaped" /\ exit_code' = CodeOf(status)'
    BY <2>1, <2>2 DEF CodeOf
  <2> QED
    BY <2>1, <2>3, <2>4, <2>5 DEF Closing
<1> QED
  BY <1>1, <1>2, <1>3, <1>4, <1>5, <1>6, <1>7, <1>8, <1>9
     DEF Next, Thread, Tree, Returned, vars, ChildWrite, ChildClose, Select, Poll, Timeout

(* Nothing follows the exit item, and in a call no signal has interrupted  *)
(* it comes after the reaping of the child, with the status waitpid gave.  *)
THEOREM ExitLastHolds == Spec => []ExitLast
<1>1. TypeOK /\ Closing => ExitLast
  <2> SUFFICES ASSUME TypeOK, Closing, NEW i \in 1..Len(sent), sent[i].kind = "exit"
               PROVE  /\ i = Len(sent)
                      /\ ~interrupted => child = "reaped" /\ sent[i].code = CodeOf(status)
    BY DEF ExitLast
  <2>1. i = Len(sent) /\ pc = "done"
    BY DEF Closing
  <2>2. sent[i] = ExitItem /\ ExitItem.code = exit_code
    BY <2>1 DEF Closing, ExitItem
  <2> QED
    BY <2>1, <2>2 DEF Closing
<1> QED
  BY <1>1, TypeInit, TypeNext, ClosingInit, ClosingNext, PTL DEF Spec

----------------------------------------------------------------------------
(* The order of what is sent.                                              *)

(* How much of stream s exec_run_stream has passed on.                     *)
Read(s) == Len(made[s]) - Len(pipe[s]) - IF pc = s THEN Len(piece) ELSE 0

(* What is still to be sent of a read is what was written behind that.     *)
Pieces ==
  /\ pc \notin Streams => piece = <<>>
  /\ \A s \in Streams : pc = s =>
       Read(s) >= 0 /\ \A m \in 1..Len(piece) : piece[m] = made[s][Read(s) + m]

(* The items of stream s in q are pieces of t, one behind the other up to  *)
(* top, and what is left out behind one of them begins with a NUL.         *)
Items(q, s) == {i \in 1..Len(q) : q[i].kind = s}
End(q, at, j) == at[j] + Len(q[j].data)
Gap(t, from, to) == from = to \/ t[from + 1] = NUL
Fits(q, s, t, at) == \A i \in Items(q, s) :
  /\ IsPiece(q[i].data, t, at[i])
  /\ \A j \in Items(q, s) : j < i => End(q, at, j) <= at[i]
  /\ at[i] = 0 \/ \E j \in Items(q, s) :
       /\ j < i /\ \A k \in Items(q, s) : k < i => k <= j
       /\ Gap(t, End(q, at, j), at[i])
Reaches(q, s, t, at, top) ==
  /\ \A i \in Items(q, s) : End(q, at, i) <= top
  /\ top = 0 \/ \E j \in Items(q, s) :
       /\ \A k \in Items(q, s) : k <= j
       /\ Gap(t, End(q, at, j), top)
Placed(q, s, t, top) ==
  \E at \in [Items(q, s) -> 0..Len(t)] : Fits(q, s, t, at) /\ Reaches(q, s, t, at, top)

Streamed == Pieces /\ \A s \in Streams : Placed(sent, s, made[s], Read(s))

(* exec_run sends its answer at once.                                      *)
Sending == IF mode = "stream" THEN Streamed ELSE SentInOrder

LEMMA ItemsType ==
  ASSUME NEW q \in Seq(Item), NEW s
  PROVE  \A i \in Items(q, s) : /\ i \in 1..Len(q) /\ i \in Nat /\ q[i] \in Item
                                /\ q[i].data \in Seq(Nat) /\ Len(q[i].data) \in Nat
<1> TAKE i \in Items(q, s)
<1>1. i \in 1..Len(q) /\ i \in Nat
  BY DEF Items
<1>2. q[i] \in Item
  BY <1>1
<1>3. q[i].data \in Seq(Nat)
  BY <1>2 DEF Item
<1> QED
  BY <1>1, <1>2, <1>3

(* The command writes more.                                                *)
LEMMA PlacedLonger ==
  ASSUME NEW q \in Seq(Item), NEW s, NEW t \in Seq(Nat), NEW b \in Nat,
         NEW top \in Int, top <= Len(t), Placed(q, s, t, top)
  PROVE  Placed(q, s, Append(t, b), top)
<1> DEFINE u == Append(t, b)
<1>1. PICK at \in [Items(q, s) -> 0..Len(t)] : Fits(q, s, t, at) /\ Reaches(q, s, t, at, top)
  BY DEF Placed
<1>2. Len(t) \in Nat /\ Len(u) = Len(t) + 1 /\ \A m \in 1..Len(t) : u[m] = t[m]
  OBVIOUS
<1> HIDE DEF u
<1>3. at \in [Items(q, s) -> 0..Len(u)]
  BY <1>2
<1>4. \A i \in Items(q, s) : at[i] \in Nat /\ at[i] <= Len(t) /\ End(q, at, i) \in Nat
  <2> TAKE i \in Items(q, s)
  <2>1. at[i] \in 0..Len(t) /\ Len(q[i].data) \in Nat
    BY <1>1, ItemsType
  <2> QED
    BY <2>1 DEF End
<1>5. ASSUME NEW from \in Nat, NEW to \in Int, from <= to, to <= Len(t), Gap(t, from, to)
      PROVE  Gap(u, from, to)
  <2>1. CASE from = to
    BY <2>1 DEF Gap
  <2>2. CASE from # to
    <3>1. from + 1 \in 1..Len(t)
      BY <1>2, <1>5, <2>2
    <3> QED
      BY <1>2, <1>5, <2>2, <3>1 DEF Gap
  <2> QED
    BY <2>1, <2>2
<1>6. ASSUME NEW i \in Items(q, s) PROVE IsPiece(q[i].data, u, at[i])
  <2> DEFINE k == at[i]
             d == q[i].data
  <2>1. k \in Nat /\ Len(d) \in Nat
    BY <1>4, ItemsType
  <2>2. k + Len(d) <= Len(t) /\ \A j \in 1..Len(d) : d[j] = t[k + j]
    BY <1>1 DEF IsPiece, Fits
  <2> HIDE DEF k, d
  <2>3. k + Len(d) <= Len(u) /\ \A j \in 1..Len(d) : k + j \in 1..Len(t)
    BY <1>2, <2>1, <2>2
  <2> QED
    BY <1>2, <2>2, <2>3 DEF IsPiece, k, d
<1>7. ASSUME NEW i \in Items(q, s)
      PROVE  at[i] = 0 \/ \E j \in Items(q, s) :
               /\ j < i /\ \A k \in Items(q, s) : k < i => k <= j
               /\ Gap(u, End(q, at, j), at[i])
  <2> SUFFICES ASSUME at[i] # 0
               PROVE  \E j \in Items(q, s) :
                        /\ j < i /\ \A k \in Items(q, s) : k < i => k <= j
                        /\ Gap(u, End(q, at, j), at[i])
    OBVIOUS
  <2>1. PICK j \in Items(q, s) : /\ j < i /\ \A k \in Items(q, s) : k < i => k <= j
                                 /\ Gap(t, End(q, at, j), at[i])
    BY <1>1 DEF Fits
  <2>2. End(q, at, j) <= at[i]
    BY <1>1, <2>1 DEF Fits
  <2>3. Gap(u, End(q, at, j), at[i])
    BY <1>4, <1>5, <2>1, <2>2
  <2> QED
    BY <2>1, <2>3
<1>8. Fits(q, s, u, at)
  BY <1>1, <1>6, <1>7 DEF Fits
<1>9. Reaches(q, s, u, at, top)
  <2> SUFFICES ASSUME top # 0
               PROVE  \E j \in Items(q, s) : /\ \A k \in Items(q, s) : k <= j
                                            /\ Gap(u, End(q, at, j), top)
    BY <1>1 DEF Reaches
  <2>1. PICK j \in Items(q, s) : /\ \A k \in Items(q, s) : k <= j
                                 /\ Gap(t, End(q, at, j), top)
    BY <1>1 DEF Reaches
  <2>2. End(q, at, j) <= top
    BY <1>1, <2>1 DEF Reaches
  <2>3. Gap(u, End(q, at, j), top)
    BY <1>4, <1>5, <2>1, <2>2
  <2> QED
    BY <2>1, <2>3
<1> QED
  BY <1>3, <1>8, <1>9 DEF Placed, u

(* An item of another kind changes nothing.                                *)
LEMMA PlacedOther ==
  ASSUME NEW q \in Seq(Item), NEW x \in Item, NEW s, x.kind # s, NEW t \in Seq(Nat),
         NEW top \in Int, Placed(q, s, t, top)
  PROVE  Placed(Append(q, x), s, t, top)
<1> DEFINE r == Append(q, x)
<1>1. Items(r, s) = Items(q, s) /\ \A i \in Items(q, s) : r[i] = q[i]
  BY DEF Items
<1> HIDE DEF r
<1>2. PICK at \in [Items(q, s) -> 0..Len(t)] : Fits(q, s, t, at) /\ Reaches(q, s, t, at, top)
  BY DEF Placed
<1>3. \A i \in Items(q, s) : End(r, at, i) = End(q, at, i)
  BY <1>1 DEF End
<1>4. at \in [Items(r, s) -> 0..Len(t)] /\ Fits(r, s, t, at)
  BY <1>1, <1>2, <1>3 DEF Fits
<1>5. Reaches(r, s, t, at, top)
  BY <1>1, <1>2, <1>3 DEF Reaches
<1> QED
  BY <1>4, <1>5 DEF Placed, r

(* The next piece begins at top.  The new top is behind it, at its end or  *)
(* with a NUL at its end.                                                  *)
LEMMA PlacedNext ==
  ASSUME NEW q \in Seq(Item), NEW x \in Item, NEW s, x.kind = s, NEW t \in Seq(Nat),
         NEW top \in Nat, Placed(q, s, t, top), IsPiece(x.data, t, top),
         NEW new \in Int, top + Len(x.data) <= new, Gap(t, top + Len(x.data), new)
  PROVE  Placed(Append(q, x), s, t, new)
<1> DEFINE r == Append(q, x)
           n == Len(q) + 1
<1>1. /\ Items(r, s) = Items(q, s) \cup {n} /\ n \notin Items(q, s)
      /\ r[n] = x /\ n \in Nat /\ \A i \in Items(q, s) : r[i] = q[i] /\ i < n
  BY DEF Items
<1>2. Len(x.data) \in Nat /\ Len(t) \in Nat /\ top \in 0..Len(t)
  <2>1. x.data \in Seq(Nat)
    BY DEF Item
  <2>2. Len(x.data) \in Nat /\ Len(t) \in Nat /\ top + Len(x.data) <= Len(t)
    BY <2>1 DEF IsPiece
  <2> QED
    BY <2>2
<1>3. PICK old \in [Items(q, s) -> 0..Len(t)] : Fits(q, s, t, old) /\ Reaches(q, s, t, old, top)
  BY DEF Placed
<1>4. \A i \in Items(q, s) : i \in Nat /\ End(q, old, i) \in Int
  <2> TAKE i \in Items(q, s)
  <2>1. old[i] \in 0..Len(t) /\ Len(q[i].data) \in Nat /\ i \in Nat
    BY <1>3, ItemsType
  <2> QED
    BY <2>1 DEF End
<1> HIDE DEF r, n
<1> DEFINE at == [i \in Items(r, s) |-> IF i = n THEN top ELSE old[i]]
<1>5. at \in [Items(r, s) -> 0..Len(t)] /\ at[n] = top /\ \A i \in Items(q, s) : at[i] = old[i]
  BY <1>1, <1>2, <1>3
<1> HIDE DEF at
<1>6. /\ \A i \in Items(q, s) : End(r, at, i) = End(q, old, i)
      /\ End(r, at, n) = top + Len(x.data)
  BY <1>1, <1>5 DEF End
<1>7. ASSUME NEW i \in Items(r, s)
      PROVE  /\ IsPiece(r[i].data, t, at[i])
             /\ \A j \in Items(r, s) : j < i => End(r, at, j) <= at[i]
             /\ at[i] = 0 \/ \E j \in Items(r, s) :
                  /\ j < i /\ \A k \in Items(r, s) : k < i => k <= j
                  /\ Gap(t, End(r, at, j), at[i])
  <2>1. CASE i \in Items(q, s)
    <3>1. IsPiece(r[i].data, t, at[i])
      BY <1>1, <1>3, <1>5, <2>1 DEF Fits
    <3>2. \A j \in Items(r, s) : j < i => j \in Items(q, s)
      BY <1>1, <1>4, <2>1
    <3>3. ASSUME NEW j \in Items(r, s), j < i PROVE End(r, at, j) <= at[i]
      BY <1>3, <1>5, <1>6, <2>1, <3>2, <3>3 DEF Fits
    <3>4. ASSUME at[i] # 0
          PROVE  \E j \in Items(r, s) : /\ j < i /\ \A k \in Items(r, s) : k < i => k <= j
                                       /\ Gap(t, End(r, at, j), at[i])
      <4>1. PICK j \in Items(q, s) : /\ j < i /\ \A k \in Items(q, s) : k < i => k <= j
                                     /\ Gap(t, End(q, old, j), old[i])
        BY <1>3, <1>5, <2>1, <3>4 DEF Fits
      <4>2. j \in Items(r, s) /\ Gap(t, End(r, at, j), at[i])
        BY <1>1, <1>5, <1>6, <2>1, <4>1
      <4> QED
        BY <3>2, <4>1, <4>2
    <3> QED
      BY <3>1, <3>3, <3>4
  <2>2. CASE i = n
    <3>1. IsPiece(r[i].data, t, at[i])
      BY <1>1, <1>5, <2>2
    <3>2. \A j \in Items(r, s) : j < i <=> j \in Items(q, s)
      BY <1>1, <2>2
    <3>3. ASSUME NEW j \in Items(r, s), j < i PROVE End(r, at, j) <= at[i]
      BY <1>3, <1>5, <1>6, <2>2, <3>2, <3>3 DEF Reaches
    <3>4. ASSUME at[i] # 0
          PROVE  \E j \in Items(r, s) : /\ j < i /\ \A k \in Items(r, s) : k < i => k <= j
                                       /\ Gap(t, End(r, at, j), at[i])
      <4>1. PICK j \in Items(q, s) : /\ \A k \in Items(q, s) : k <= j
                                     /\ Gap(t, End(q, old, j), top)
        BY <1>3, <1>5, <2>2, <3>4 DEF Reaches
      <4>2. j \in Items(r, s) /\ j < i /\ Gap(t, End(r, at, j), at[i])
        BY <1>1, <1>5, <1>6, <2>2, <4>1
      <4> QED
        BY <3>2, <4>1, <4>2
    <3> QED
      BY <3>1, <3>3, <3>4
  <2> QED
    BY <1>1, <2>1, <2>2
<1>8. Fits(r, s, t, at)
  BY <1>7 DEF Fits
<1>9. \A i \in Items(r, s) : End(r, at, i) <= new
  <2>1. \A i \in Items(q, s) : End(q, old, i) <= top
    BY <1>3 DEF Reaches
  <2>2. \A i \in Items(q, s) : End(r, at, i) <= new
    BY <1>2, <1>4, <1>6, <2>1
  <2> QED
    BY <1>1, <1>6, <2>2
<1>10. Reaches(r, s, t, at, new)
  <2>1. n \in Items(r, s) /\ \A k \in Items(r, s) : k <= n
    BY <1>1, <1>4
  <2>2. Gap(t, End(r, at, n), new)
    BY <1>6
  <2> QED
    BY <1>9, <2>1, <2>2 DEF Reaches
<1> QED
  BY <1>5, <1>8, <1>10 DEF Placed, r

----------------------------------------------------------------------------
(* The steps of exec_run_stream.                                           *)
LEMMA Lengths ==
  ASSUME TypeOK
  PROVE  /\ piece \in Seq(Nat) /\ Len(piece) \in Nat /\ sent \in Seq(Item)
         /\ \A s \in Streams : /\ made[s] \in Seq(Nat) /\ pipe[s] \in Seq(Nat)
                               /\ Len(made[s]) \in Nat /\ Len(pipe[s]) \in Nat
<1>1. piece \in Seq(Nat) /\ sent \in Seq(Item)
  BY DEF TypeOK
<1>2. \A s \in Streams : made[s] \in Seq(Nat) /\ pipe[s] \in Seq(Nat)
  BY DEF TypeOK
<1> QED
  BY <1>1, <1>2

LEMMA ReadType ==
  ASSUME TypeOK, Flow, Pieces, NEW s \in Streams
  PROVE  Read(s) \in Nat /\ Read(s) <= Len(made[s])
<1> DEFINE a == Len(made[s])
           p == Len(pipe[s])
           l == Len(piece)
<1>1. a \in Nat /\ p \in Nat /\ l \in Nat /\ p <= a
  BY Lengths DEF Flow, Queued
<1>2. CASE pc = s
  <2>1. Read(s) = a - p - l /\ Read(s) >= 0
    BY <1>2 DEF Read, Pieces
  <2> HIDE DEF a, p, l
  <2>2. Read(s) \in Nat /\ Read(s) <= a
    BY <1>1, <2>1
  <2> QED
    BY <2>2 DEF a
<1>3. CASE pc # s
  <2>1. Read(s) = a - p - 0
    BY <1>3 DEF Read
  <2> HIDE DEF a, p
  <2>2. Read(s) \in Nat /\ Read(s) <= a
    BY <1>1, <2>1
  <2> QED
    BY <2>2 DEF a
<1> QED
  BY <1>2, <1>3

(* Without a piece to send, it does not matter where the thread is.        *)
LEMMA ReadIdle ==
  ASSUME TypeOK, piece = <<>>
  PROVE  \A s \in Streams : Read(s) = Len(made[s]) - Len(pipe[s])
<1> TAKE s \in Streams
<1>1. Len(made[s]) \in Nat /\ Len(pipe[s]) \in Nat /\ Len(piece) = 0
  BY Lengths
<1>2. Read(s) = Len(made[s]) - Len(pipe[s]) - 0
  BY <1>1 DEF Read
<1> QED
  BY <1>1, <1>2

LEMMA StreamWrite ==
  ASSUME TypeOK, TypeOK', Flow, Streamed, NEW w \in Streams, ChildWrite(w)
  PROVE  Streamed'
<1> DEFINE b == Outputs[w][Len(made[w]) + 1]
<1>1. /\ made' = [made EXCEPT ![w] = Append(@, b)]
      /\ pipe' = [pipe EXCEPT ![w] = Append(@, b)]
      /\ UNCHANGED <<pc, piece, sent>>
  BY DEF ChildWrite, threadVars
<1> HIDE DEF b
<1>2. /\ made'[w] = Append(made[w], b) /\ pipe'[w] = Append(pipe[w], b)
      /\ \A s \in Streams \ {w} : made'[s] = made[s] /\ pipe'[s] = pipe[s]
  BY <1>1 DEF TypeOK
<1>3. b \in Nat
  <2>1. Append(made[w], b) \in Seq(Nat) /\ made[w] \in Seq(Nat)
    <3>1. made'[w] \in Seq(Nat)
      BY DEF TypeOK
    <3> QED
      BY <1>2, <3>1, Lengths
  <2>2. /\ Append(made[w], b)[Len(made[w]) + 1] = b
        /\ Len(made[w]) + 1 \in 1..Len(Append(made[w], b))
    BY <2>1
  <2>3. Append(made[w], b)[Len(made[w]) + 1] \in Nat
    BY <2>1, <2>2, ElementOfSeq
  <2> QED
    BY <2>2, <2>3
<1>4. Len(made'[w]) - Len(pipe'[w]) = Len(made[w]) - Len(pipe[w])
  BY <1>2, <1>3, QueuedWrite DEF Flow
<1>5. \A s \in Streams : Read(s)' = Read(s)
  <2> TAKE s \in Streams
  <2> DEFINE u == IF pc = s THEN Len(piece) ELSE 0
  <2>1. u' = u
    BY <1>1
  <2> HIDE DEF u
  <2>2. Read(s) = Len(made[s]) - Len(pipe[s]) - u
    BY DEF Read, u
  <2>3. Read(s)' = Len(made'[s]) - Len(pipe'[s]) - u'
    BY DEF Read, u
  <2>4. Len(made'[s]) - Len(pipe'[s]) = Len(made[s]) - Len(pipe[s])
    BY <1>2, <1>4
  <2> QED
    BY <2>1, <2>2, <2>3, <2>4
<1>6. \A m \in 1..Len(made[w]) : made'[w][m] = made[w][m]
  BY <1>2, <1>3, Lengths
<1>7. Pieces'
  <2>1. pc' \notin Streams => piece' = <<>>
    BY <1>1 DEF Streamed, Pieces
  <2>2. ASSUME NEW s \in Streams, pc' = s
        PROVE  Read(s)' >= 0 /\ \A m \in 1..Len(piece') : piece'[m] = made'[s][Read(s)' + m]
    <3>1. Read(s) >= 0 /\ \A m \in 1..Len(piece) : piece[m] = made[s][Read(s) + m]
      BY <1>1, <2>2 DEF Streamed, Pieces
    <3>2. CASE s # w
      BY <1>1, <1>2, <1>5, <3>1, <3>2
    <3>3. CASE s = w
      <4>1. \A m \in 1..Len(piece) : Read(w) + m \in 1..Len(made[w])
        <5>1. Read(w) = Len(made[w]) - Len(pipe[w]) - Len(piece)
          BY <1>1, <2>2, <3>3 DEF Read
        <5> DEFINE a == Len(made[w])
                   p == Len(pipe[w])
                   l == Len(piece)
                   r == Read(w)
        <5>2. a \in Nat /\ p \in Nat /\ l \in Nat /\ r = a - p - l /\ r >= 0
          BY <3>1, <3>3, <5>1, Lengths
        <5> HIDE DEF a, p, l, r
        <5>3. \A m \in 1..l : r + m \in 1..a
          BY <5>2
        <5> QED
          BY <5>3 DEF a, l, r
      <4> QED
        BY <1>1, <1>5, <1>6, <3>1, <3>3, <4>1
    <3> QED
      BY <3>2, <3>3
  <2> QED
    BY <2>1, <2>2 DEF Pieces
<1>8. ASSUME NEW s \in Streams PROVE Placed(sent', s, made'[s], Read(s)')
  <2>1. /\ Placed(sent, s, made[s], Read(s)) /\ Read(s) \in Int /\ Read(s) <= Len(made[s])
        /\ sent \in Seq(Item) /\ made[s] \in Seq(Nat)
    BY ReadType, Lengths DEF Streamed
  <2>2. CASE s # w
    BY <1>1, <1>2, <1>5, <2>1, <2>2
  <2>3. CASE s = w
    <3>1. Placed(sent, w, Append(made[w], b), Read(w))
      BY <1>3, <2>1, <2>3, PlacedLonger
    <3> QED
      BY <1>1, <1>2, <1>5, <2>3, <3>1
  <2> QED
    BY <2>2, <2>3
<1> QED
  BY <1>7, <1>8 DEF Streamed, Placed, Items, Fits, Reaches, End, Gap, IsPiece

LEMMA StreamRead ==
  ASSUME TypeOK, TypeOK', Flow, Streamed, NEW w \in Streams, ReadStream(w)
  PROVE  Streamed'
<1>1. /\ pc = w /\ piece = <<>> /\ pipe' = [pipe EXCEPT ![w] = <<>>] /\ piece' = pipe[w]
      /\ UNCHANGED <<pc, sent, made>>
  BY DEF ReadStream, Drained
<1>2. pipe'[w] = <<>> /\ \A s \in Streams \ {w} : pipe'[s] = pipe[s]
  BY <1>1 DEF TypeOK
<1>3. \A s \in Streams : Read(s) = Len(made[s]) - Len(pipe[s])
  BY <1>1, ReadIdle
<1>4. ASSUME NEW s \in Streams PROVE Read(s)' = Read(s)
  <2>1. CASE s # w
    <3>1. Read(s)' = Len(made[s]) - Len(pipe[s]) - 0
      BY <1>1, <1>2, <2>1 DEF Read
    <3>2. Read(s) = Len(made[s]) - Len(pipe[s])
      BY <1>3
    <3> DEFINE a == Len(made[s])
               p == Len(pipe[s])
    <3>3. a \in Nat /\ p \in Nat /\ Read(s) = a - p /\ Read(s)' = a - p - 0
      BY <3>1, <3>2, Lengths
    <3> HIDE DEF a, p
    <3> QED
      BY <3>3
  <2>2. CASE s = w
    <3>1. Read(w)' = Len(made[w]) - Len(pipe'[w]) - Len(pipe[w])
      BY <1>1 DEF Read
    <3>2. Len(pipe'[w]) = 0
      BY <1>2
    <3>3. Len(made[w]) \in Nat /\ Len(pipe[w]) \in Nat
      BY Lengths
    <3>4. Read(w) = Len(made[w]) - Len(pipe[w])
      BY <1>3
    <3> QED
      BY <2>2, <3>1, <3>2, <3>3, <3>4
  <2> QED
    BY <2>1, <2>2
<1>5. Pieces'
  <2>1. /\ Len(pipe[w]) <= Len(made[w])
        /\ \A m \in 1..Len(pipe[w]) : pipe[w][m] = made[w][Len(made[w]) - Len(pipe[w]) + m]
    BY DEF Flow, Queued
  <2>2. Read(w)' = Len(made[w]) - Len(pipe[w]) /\ Read(w)' >= 0
    <3>1. Read(w)' = Len(made[w]) - Len(pipe[w])
      BY <1>3, <1>4
    <3>2. Len(made[w]) \in Nat /\ Len(pipe[w]) \in Nat
      BY Lengths
    <3> QED
      BY <2>1, <3>1, <3>2
  <2>3. \A m \in 1..Len(piece') : piece'[m] = made'[w][Read(w)' + m]
    BY <1>1, <2>1, <2>2
  <2> QED
    BY <1>1, <2>2, <2>3 DEF Pieces
<1>6. ASSUME NEW s \in Streams PROVE Placed(sent', s, made'[s], Read(s)')
  BY <1>1, <1>4 DEF Streamed
<1> QED
  BY <1>5, <1>6 DEF Streamed, Placed, Items, Fits, Reaches, End, Gap, IsPiece

LEMMA StreamSend ==
  ASSUME TypeOK, TypeOK', Flow, Streamed, NEW w \in Streams, SendPiece(w)
  PROVE  Streamed'
<1> DEFINE n == Min2(Len(piece), MaxPiece)
           d == SubSeq(piece, 1, n)
           x == [kind |-> w, data |-> UpToNul(d), code |-> 0]
           t == made[w]
           top == Read(w)
<1>1. /\ pc = w /\ piece # <<>> /\ UNCHANGED <<made, pipe>>
      /\ sent' = Append(sent, x) /\ piece' = Rest(piece, n)
      /\ piece' # <<>> => pc' = w
  BY DEF SendPiece, treeVars
<1>2. n \in Nat /\ n <= Len(piece)
  BY Lengths, Constants, MinType
<1>3. piece \in Seq(Nat) /\ Len(piece) \in Nat /\ sent \in Seq(Item)
  BY Lengths
<1> HIDE DEF n
<1>4. d \in Seq(Nat) /\ Len(d) = n /\ \A i \in 1..n : d[i] = piece[i]
  BY <1>2, <1>3, PrefixType
<1>5. /\ piece' \in Seq(Nat) /\ Len(piece') = Len(piece) - n
      /\ \A m \in 1..Len(piece) - n : piece'[m] = piece[n + m]
  <2>1. n + 1 \in Int /\ Len(piece) \in Int /\ \A i \in n + 1..Len(piece) : piece[i] \in Nat
    BY <1>2, <1>3
  <2> QED
    BY <1>1, <1>2, <1>3, <2>1, SubSeqProperties DEF Rest
<1>6. PICK k \in 0..n : /\ UpToNul(d) \in Seq(Nat) /\ Len(UpToNul(d)) = k
                        /\ \A i \in 1..k : UpToNul(d)[i] = d[i]
                        /\ k < n => d[k + 1] = NUL
  BY <1>4, UpToNulIs
<1>7. x \in Item /\ x.kind = w /\ x.data = UpToNul(d)
  BY <1>6 DEF Item, Streams
<1> HIDE DEF d, x
<1>8. /\ top \in Nat /\ top = Len(t) - Len(pipe[w]) - Len(piece)
      /\ \A m \in 1..Len(piece) : piece[m] = t[top + m]
      /\ t \in Seq(Nat) /\ Len(t) \in Nat /\ Len(pipe[w]) \in Nat
  <2>1. top \in Nat
    BY ReadType DEF Streamed
  <2>2. top = Len(t) - Len(pipe[w]) - Len(piece)
    BY <1>1 DEF Read
  <2>3. \A m \in 1..Len(piece) : piece[m] = t[top + m]
    BY <1>1 DEF Streamed, Pieces
  <2> QED
    BY <2>1, <2>2, <2>3, Lengths
<1>9. Read(w)' = top + n
  <2>1. piece' = <<>> => Len(piece') = 0
    OBVIOUS
  <2>2. IF pc' = w THEN TRUE ELSE Len(piece') = 0
    BY <1>1, <2>1
  <2>3. Read(w)' = Len(t) - Len(pipe[w]) - Len(piece')
    <3>1. CASE pc' = w
      BY <1>1, <3>1 DEF Read
    <3>2. CASE pc' # w
      <4>1. Read(w)' = Len(t) - Len(pipe[w]) - 0
        BY <1>1, <3>2 DEF Read
      <4> QED
        BY <2>2, <3>2, <4>1
    <3> QED
      BY <3>1, <3>2
  <2> HIDE DEF top, t
  <2>4. Len(t) - Len(pipe[w]) - (Len(piece) - n) = Len(t) - Len(pipe[w]) - Len(piece) + n
    <3> DEFINE a == Len(t)
               p == Len(pipe[w])
               l == Len(piece)
    <3>1. a \in Int /\ p \in Int /\ l \in Int /\ n \in Int
      BY <1>2, <1>3, <1>8
    <3> HIDE DEF a, p, l
    <3>2. a - p - (l - n) = a - p - l + n
      BY <3>1
    <3> QED
      BY <3>2 DEF a, p, l
  <2> QED
    BY <1>5, <1>8, <2>3, <2>4
<1>10. ASSUME NEW s \in Streams, s # w PROVE Read(s)' = Read(s)
  <2>1. Read(s) = Len(made[s]) - Len(pipe[s]) - 0
    BY <1>1, <1>10 DEF Read
  <2>2. Read(s)' = Len(made[s]) - Len(pipe[s]) - 0
    <3>1. CASE pc' = s
      <4>1. piece' = <<>>
        BY <1>1, <1>10, <3>1
      <4>2. Len(piece') = 0
        BY <4>1
      <4> QED
        BY <1>1, <3>1, <4>2 DEF Read
    <3>2. CASE pc' # s
      BY <1>1, <3>2 DEF Read
    <3> QED
      BY <3>1, <3>2
  <2> QED
    BY <2>1, <2>2
<1> HIDE DEF top, t
<1>11. \A s \in Streams : Read(s)' \in Nat
  <2> TAKE s \in Streams
  <2>1. CASE s = w
    BY <1>2, <1>8, <1>9, <2>1
  <2>2. CASE s # w
    BY <1>10, <2>2, ReadType DEF Streamed
  <2> QED
    BY <2>1, <2>2
<1>12. Pieces'
  <2>1. pc' \notin Streams => piece' = <<>>
    BY <1>1
  <2>2. ASSUME NEW s \in Streams, pc' = s
        PROVE  Read(s)' >= 0 /\ \A m \in 1..Len(piece') : piece'[m] = made'[s][Read(s)' + m]
    <3>1. Read(s)' >= 0
      BY <1>11
    <3>2. CASE piece' = <<>>
      <4>1. Len(piece') = 0
        BY <3>2
      <4>2. 1..Len(piece') = {}
        BY <4>1
      <4> QED
        BY <3>1, <4>2
    <3>3. CASE piece' # <<>>
      <4>1. s = w /\ made'[w] = t
        BY <1>1, <2>2, <3>3 DEF t
      <4>2. ASSUME NEW m \in 1..Len(piece') PROVE piece'[m] = t[Read(w)' + m]
        <5>1. m \in 1..Len(piece) - n /\ n + m \in 1..Len(piece)
          BY <1>2, <1>3, <1>5
        <5>2. piece'[m] = t[top + (n + m)]
          BY <1>5, <1>8, <5>1
        <5>3. top + (n + m) = Read(w)' + m
          BY <1>2, <1>8, <1>9, <5>1
        <5> QED
          BY <5>2, <5>3
      <4> QED
        BY <3>1, <4>1, <4>2
    <3> QED
      BY <3>2, <3>3
  <2> QED
    BY <2>1, <2>2 DEF Pieces
<1>13. ASSUME NEW s \in Streams PROVE Placed(sent', s, made'[s], Read(s)')
  <2>1. Placed(sent, s, made[s], Read(s)) /\ Read(s) \in Int /\ made[s] \in Seq(Nat)
    BY ReadType, Lengths DEF Streamed
  <2>2. CASE s # w
    <3>1. Placed(Append(sent, x), s, made[s], Read(s))
      BY <1>3, <1>7, <2>1, <2>2, PlacedOther
    <3> QED
      BY <1>1, <1>10, <2>2, <3>1
  <2>3. CASE s = w
    <3>1. Placed(sent, w, t, top)
      BY <2>1, <2>3 DEF t, top
    <3>2. Len(x.data) = k /\ k \in Nat /\ k <= n
      BY <1>2, <1>6, <1>7
    <3>3. IsPiece(x.data, t, top)
      <4>1. top + k <= Len(t)
        <5> DEFINE a == Len(t)
                   p == Len(pipe[w])
                   l == Len(piece)
        <5>1. /\ a \in Nat /\ p \in Nat /\ l \in Nat /\ top = a - p - l
              /\ n <= l
          BY <1>2, <1>3, <1>8
        <5> HIDE DEF a, p, l
        <5>2. top + k <= a
          BY <1>2, <3>2, <5>1
        <5> QED
          BY <5>2 DEF a
      <4>2. ASSUME NEW j \in 1..k PROVE x.data[j] = t[top + j]
        <5>1. j \in 1..n /\ j \in 1..Len(piece)
          BY <1>2, <1>3, <3>2
        <5>2. x.data[j] = d[j]
          BY <1>6, <1>7
        <5> QED
          BY <1>4, <1>8, <5>1, <5>2
      <4> QED
        BY <3>2, <4>1, <4>2 DEF IsPiece
    <3>4. Gap(t, top + k, top + n)
      <4>1. CASE k = n
        BY <4>1 DEF Gap
      <4>2. CASE k < n
        <5>1. k + 1 \in 1..n /\ k + 1 \in 1..Len(piece)
          BY <1>2, <1>3, <3>2, <4>2
        <5>2. t[top + (k + 1)] = NUL
          BY <1>4, <1>6, <1>8, <4>2, <5>1
        <5>3. top + (k + 1) = top + k + 1
          BY <1>8, <3>2
        <5> QED
          BY <5>2, <5>3 DEF Gap
      <4> QED
        BY <1>2, <3>2, <4>1, <4>2
    <3>5. Placed(Append(sent, x), w, t, top + n)
      <4>1. top + n \in Int /\ top + Len(x.data) <= top + n /\ Gap(t, top + Len(x.data), top + n)
        <5>1. top + n \in Int /\ top + k <= top + n
          BY <1>2, <1>8, <3>2
        <5> QED
          BY <3>2, <3>4, <5>1
      <4> QED
        BY <1>3, <1>7, <1>8, <3>1, <3>3, <4>1, PlacedNext
    <3> QED
      BY <1>1, <1>9, <2>3, <3>5 DEF t
  <2> QED
    BY <2>2, <2>3
<1> QED
  BY <1>12, <1>13 DEF Streamed, Placed, Items, Fits, Reaches, End, Gap, IsPiece

(* The other steps leave the data alone, up to the exit item.              *)
LEMMA StreamRest ==
  ASSUME TypeOK, TypeOK', Flow, Streamed, UNCHANGED <<made, pipe, piece>>,
         pc' = pc \/ piece = <<>>, sent' = sent \/ sent' = Append(sent, ExitItem)
  PROVE  Streamed'
<1>1. \A s \in Streams : Read(s)' = Read(s)
  <2>1. CASE pc' = pc
    BY <2>1 DEF Read
  <2>2. CASE piece = <<>>
    <3>1. Len(piece) = 0
      BY <2>2
    <3>2. \A s \in Streams : /\ Read(s) = Len(made[s]) - Len(pipe[s]) - 0
                             /\ Read(s)' = Len(made[s]) - Len(pipe[s]) - 0
      BY <3>1 DEF Read
    <3> QED
      BY <3>2
  <2> QED
    BY <2>1, <2>2
<1>2. Pieces'
  <2>1. CASE pc' = pc
    BY <1>1, <2>1 DEF Streamed, Pieces
  <2>2. CASE piece = <<>>
    <3>1. 1..Len(piece) = {}
      BY <2>2
    <3>2. \A s \in Streams : Read(s)' >= 0
      BY <1>1, ReadType DEF Streamed
    <3> QED
      BY <2>2, <3>1, <3>2 DEF Pieces
  <2> QED
    BY <2>1, <2>2
<1>3. ASSUME NEW s \in Streams PROVE Placed(sent', s, made'[s], Read(s)')
  <2>1. /\ Placed(sent, s, made[s], Read(s)) /\ Read(s) \in Int
        /\ made[s] \in Seq(Nat) /\ sent \in Seq(Item)
    BY ReadType, Lengths DEF Streamed
  <2>2. CASE sent' = sent
    BY <1>1, <2>1, <2>2
  <2>3. CASE sent' = Append(sent, ExitItem)
    <3>1. ExitItem \in Item /\ ExitItem.kind # s
      BY ItemType DEF ExitItem, Streams
    <3>2. Placed(Append(sent, ExitItem), s, made[s], Read(s))
      BY <2>1, <3>1, PlacedOther
    <3> QED
      BY <1>1, <2>3, <3>2
  <2> QED
    BY <2>2, <2>3
<1> QED
  BY <1>2, <1>3 DEF Streamed, Placed, Items, Fits, Reaches, End, Gap, IsPiece

----------------------------------------------------------------------------
LEMMA NoItems == \A S : \E at \in [{} -> S] : \A i \in {} : FALSE
<1> TAKE S
<1>1. [i \in {} |-> 0] \in [{} -> S]
  OBVIOUS
<1> QED
  BY <1>1

LEMMA SendingInit == Init => Sending
<1> SUFFICES ASSUME Init PROVE Sending
  OBVIOUS
<1>1. /\ sent = <<>> /\ piece = <<>> /\ pc = "wait"
      /\ \A s \in Streams : made[s] = <<>> /\ pipe[s] = <<>>
  BY DEF Init
<1>2. \A s \in Streams : ItemsOf(s) = {} /\ Items(sent, s) = {}
  BY <1>1 DEF ItemsOf, Items
<1>3. \A s \in Streams : Read(s) = 0
  <2>1. \A s \in Streams : pc # s
    BY <1>1 DEF Streams
  <2>2. \A s \in Streams : Len(made[s]) = 0 /\ Len(pipe[s]) = 0
    BY <1>1
  <2> TAKE s \in Streams
  <2>3. Read(s) = 0 - 0 - 0
    BY <2>1, <2>2 DEF Read
  <2> QED
    BY <2>3
<1>4. SentInOrder
  <2>1. \A s \in Streams : \E at \in [ItemsOf(s) -> 0..Len(made[s])] : \A i \in ItemsOf(s) : FALSE
    BY <1>2, NoItems
  <2> QED
    BY <2>1 DEF SentInOrder
<1>5. Pieces
  BY <1>1 DEF Pieces, Streams
<1>6. ASSUME NEW s \in Streams PROVE Placed(sent, s, made[s], Read(s))
  <2> DEFINE none == [i \in Items(sent, s) |-> 0]
  <2>1. none \in [Items(sent, s) -> 0..Len(made[s])]
    BY <1>2
  <2> HIDE DEF none
  <2>2. Fits(sent, s, made[s], none) /\ Reaches(sent, s, made[s], none, Read(s))
    BY <1>2, <1>3 DEF Fits, Reaches
  <2> QED
    BY <2>1, <2>2 DEF Placed
<1> QED
  BY <1>4, <1>5, <1>6 DEF Sending, Streamed

(* What a step does to the data of a stream.                               *)
LEMMA StreamKinds ==
  ASSUME mode = "stream", Pieces, [Next]_vars
  PROVE  \/ \E s \in Streams : ChildWrite(s) \/ ReadStream(s) \/ SendPiece(s)
         \/ /\ UNCHANGED <<made, pipe, piece>> /\ (pc' = pc \/ piece = <<>>)
            /\ sent' = sent \/ sent' = Append(sent, ExitItem)
<1> USE DEF threadVars, treeVars
<1>1. CASE UNCHANGED vars
  BY <1>1 DEF vars
<1>2. CASE ChildExit \/ \E s \in Streams : ChildClose(s)
  BY <1>2 DEF ChildExit, ChildClose
<1>3. ASSUME NEW found, Begin(found)
      PROVE  UNCHANGED <<made, pipe, piece, sent>> /\ piece = <<>>
  BY <1>3 DEF Begin, Pieces, Streams
<1>4. CASE Interrupted \/ WaitPid \/ Reply
  BY <1>4 DEF Interrupted, WaitPid, Reply, Pieces, Streams
<1>5. ASSUME NEW s \in Streams, ReadRun(s) PROVE FALSE
  BY <1>5 DEF ReadRun
<1> QED
  BY <1>1, <1>2, <1>3, <1>4, <1>5 DEF Next, Thread, Tree, Returned, Select, Poll, Timeout

(* exec_run answers with two items that begin at the first byte.           *)
LEMMA RunReply ==
  ASSUME TypeOK, TypeOK', Flow, Closing, mode = "run", Reply
  PROVE  SentInOrder'
<1>1. /\ sent' = <<OutputItem("out"), OutputItem("err"), ExitItem>>
      /\ UNCHANGED <<made, pipe>>
  BY DEF Reply, treeVars
<1>2. /\ OutputItem("out").kind = "out" /\ OutputItem("err").kind = "err"
      /\ ExitItem.kind = "exit"
  BY DEF OutputItem, ExitItem
<1>3. ASSUME NEW s \in Streams
      PROVE  IsPiece(OutputItem(s).data, made[s], 0) /\ Len(made[s]) \in Nat
  <2> DEFINE d == result[s]
             t == made[s]
             p == Len(pipe[s])
             a == Len(t)
  <2>1. d \in Seq(Nat) /\ Len(d) \in Nat /\ a \in Nat /\ p \in Nat
    <3>1. d \in Seq(Nat)
      BY DEF TypeOK
    <3> QED
      BY <3>1, Lengths
  <2>2. Len(d) = Min2(MaxOutput, a - p) /\ p <= a /\ \A i \in 1..Len(d) : d[i] = t[i]
    BY DEF Flow, Queued, Collected
  <2> HIDE DEF a, p
  <2>3. a - p \in Nat
    BY <2>1, <2>2
  <2>4. Len(d) <= a - p
    BY <2>2, <2>3, MinType, Constants
  <2>5. Len(d) <= a
    BY <2>1, <2>4
  <2>6. PICK k \in 0..Len(d) : /\ Len(UpToNul(d)) = k
                               /\ \A i \in 1..k : UpToNul(d)[i] = d[i]
    BY <2>1, UpToNulIs
  <2>7. \A i \in 1..k : UpToNul(d)[i] = t[0 + i]
    <3> HIDE DEF d, t
    <3>1. \A i \in 1..k : i \in 1..Len(d) /\ 0 + i = i
      BY <2>1
    <3> QED
      BY <2>2, <2>6, <3>1
  <2>8. 0 + k <= a
    BY <2>1, <2>5
  <2> QED
    BY <2>1, <2>6, <2>7, <2>8 DEF IsPiece, OutputItem, a
<1> HIDE DEF OutputItem, ExitItem
<1>4. ASSUME NEW s \in Streams
      PROVE  \E i \in 1..3 : ItemsOf(s)' = {i} /\ sent'[i] = OutputItem(s)
  <2>1. /\ Len(sent') = 3 /\ sent'[1] = OutputItem("out") /\ sent'[2] = OutputItem("err")
        /\ sent'[3] = ExitItem
    BY <1>1
  <2>2. CASE s = "out"
    <3>1. ItemsOf(s)' = {1}
      BY <1>2, <2>1, <2>2 DEF ItemsOf
    <3> QED
      BY <2>1, <2>2, <3>1
  <2>3. CASE s = "err"
    <3>1. ItemsOf(s)' = {2}
      BY <1>2, <2>1, <2>3 DEF ItemsOf
    <3> QED
      BY <2>1, <2>3, <3>1
  <2> QED
    BY <2>2, <2>3 DEF Streams
<1>5. ASSUME NEW s \in Streams
      PROVE  \E at \in [ItemsOf(s)' -> 0..Len(made'[s])] :
               \A i \in ItemsOf(s)' :
                 /\ IsPiece(sent'[i].data, made'[s], at[i])
                 /\ \A j \in ItemsOf(s)' : j < i => at[j] + Len(sent'[j].data) <= at[i]
                 /\ at[i] = 0
  <2>1. PICK n \in 1..3 : ItemsOf(s)' = {n} /\ sent'[n] = OutputItem(s)
    BY <1>4
  <2> DEFINE at == [i \in {n} |-> 0]
  <2>2. at \in [ItemsOf(s)' -> 0..Len(made'[s])] /\ at[n] = 0
    BY <1>1, <1>3, <2>1
  <2> HIDE DEF at
  <2>3. \A i, j \in ItemsOf(s)' : ~(j < i) /\ i = n
    BY <2>1
  <2>4. IsPiece(sent'[n].data, made'[s], at[n])
    BY <1>1, <1>3, <2>1, <2>2
  <2> QED
    BY <2>2, <2>3, <2>4
<1> QED
  BY <1>5 DEF SentInOrder, IsPiece

LEMMA SendingNext ==
  TypeOK /\ TypeOK' /\ Flow /\ Closing /\ Closing' /\ Sending /\ [Next]_vars => Sending'
<1> SUFFICES ASSUME TypeOK, TypeOK', Flow, Closing, Closing', Sending, [Next]_vars
             PROVE  Sending'
  OBVIOUS
<1> USE DEF threadVars, treeVars
<1>1. mode' = mode
  BY DEF Next, Thread, Tree, Returned, vars, ChildWrite, ChildClose, ChildExit, Select, Poll,
         Timeout, Begin, Interrupted, ReadRun, ReadStream, SendPiece, WaitPid, Reply
<1>2. CASE mode = "stream"
  <2>1. Streamed
    BY <1>2 DEF Sending
  <2>2. Streamed'
    BY <1>2, <2>1, StreamKinds, StreamWrite, StreamRead, StreamSend, StreamRest DEF Streamed
  <2> QED
    BY <1>1, <1>2, <2>2 DEF Sending
<1>3. CASE mode # "stream"
  <2>1. mode = "run"
    BY <1>3 DEF TypeOK
  <2>2. CASE Reply
    BY <1>1, <1>3, <2>1, <2>2, RunReply DEF Sending
  <2>3. CASE pc = "done" /\ ~Reply
    <3>1. UNCHANGED <<sent, made>>
      BY <2>3 DEF Next, Thread, Tree, Returned, vars, ChildWrite, ChildClose, ChildExit, Select,
         Poll, Timeout, Begin, Interrupted, ReadRun, ReadStream, SendPiece, WaitPid, Streams
    <3>2. SentInOrder
      BY <1>3 DEF Sending
    <3>3. \A s \in Streams : ItemsOf(s)' = ItemsOf(s)
      BY <3>1 DEF ItemsOf
    <3>4. SentInOrder'
      BY <3>1, <3>2, <3>3 DEF SentInOrder, IsPiece, LastBefore
    <3> QED
      BY <1>1, <1>3, <3>4 DEF Sending
  <2>4. CASE pc # "done" /\ ~Reply
    <3>1. pc' # "done"
      BY <2>4 DEF Next, Thread, Tree, Returned, vars, ChildWrite, ChildClose, ChildExit, Select,
         Poll, Timeout, Begin, NextRead, Interrupted, ReadRun, ReadStream, SendPiece, WaitPid
    <3>2. sent' = <<>>
      BY <1>1, <2>1, <3>1 DEF Closing
    <3>3. \A s \in Streams : ItemsOf(s)' = {}
      BY <3>2 DEF ItemsOf
    <3>4. SentInOrder'
      <4>1. \A s \in Streams : \E at \in [ItemsOf(s)' -> 0..Len(made'[s])] :
              \A i \in ItemsOf(s)' : FALSE
        BY <3>3, NoItems
      <4> QED
        BY <4>1 DEF SentInOrder
    <3> QED
      BY <1>1, <1>3, <3>4 DEF Sending
  <2> QED
    BY <2>2, <2>3, <2>4
<1> QED
  BY <1>2, <1>3

(* executor.c 148-161 and handler.c 110-139, 193-206: what the client is   *)
(* sent of a stream are pieces of what the command wrote to it, in order   *)
(* and nothing twice, and nothing is left out but what follows a NUL.      *)
THEOREM SentInOrderHolds == Spec => []SentInOrder
<1>1. TypeOK /\ Sending => SentInOrder
  <2> SUFFICES ASSUME TypeOK, Streamed PROVE SentInOrder
    BY DEF Sending
  <2> SUFFICES ASSUME NEW s \in Streams
               PROVE  \E at \in [ItemsOf(s) -> 0..Len(made[s])] :
                        \A i \in ItemsOf(s) :
                          /\ IsPiece(sent[i].data, made[s], at[i])
                          /\ \A j \in ItemsOf(s) : j < i => at[j] + Len(sent[j].data) <= at[i]
                          /\ at[i] = 0 \/ \E j \in ItemsOf(s) :
                               /\ LastBefore(s, j, i)
                               /\ \/ at[j] + Len(sent[j].data) = at[i]
                                  \/ made[s][at[j] + Len(sent[j].data) + 1] = NUL
    BY DEF SentInOrder
  <2>1. Items(sent, s) = ItemsOf(s)
    BY DEF Items, ItemsOf
  <2>2. PICK at \in [ItemsOf(s) -> 0..Len(made[s])] : Fits(sent, s, made[s], at)
    BY <2>1 DEF Streamed, Placed
  <2> QED
    BY <2>1, <2>2 DEF Fits, End, Gap, LastBefore
<1> QED
  BY <1>1, TypeInit, TypeNext, FlowInit, FlowNext, ClosingInit, ClosingNext, SendingInit,
     SendingNext, PTL DEF Spec

=============================================================================
