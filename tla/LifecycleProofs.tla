--------------------------- MODULE LifecycleProofs ---------------------------
(***************************************************************************)
(* Theorems about Lifecycle, for any number of instances, signals and      *)
(* updates: the types, and that the address is free when it is bound.      *)
(***************************************************************************)
EXTENDS Lifecycle, TLAPS

PcDomain == Unborn \cup Gone \cup Starting \cup Loop \cup {"close", "shutdown"}

USE DEF Pids, Others

----------------------------------------------------------------------------
(* Types.                                                                  *)

LEMMA GotoType ==
  ASSUME TypeOK, NEW p \in Pids, NEW l \in PcDomain, Goto(p, l)
  PROVE  pc' \in [Pids -> PcDomain]
BY DEF TypeOK, Goto, PcDomain

LEMMA ForgetType ==
  ASSUME TypeOK, NEW p, Forget(p)
  PROVE  /\ running' \in [Pids -> BOOLEAN]
         /\ handler' \in [Pids -> Signals \cup {"none", "stuck"}]
         /\ pending' \in [Pids -> SUBSET Signals]
         /\ cursor' \in [Pids -> 0..MaxPid]
         /\ told' \in [Pids -> BOOLEAN]
<1>1. running' \in [Pids -> BOOLEAN] /\ told' \in [Pids -> BOOLEAN]
  BY Zenon DEF TypeOK, Forget
<1>2. handler' \in [Pids -> Signals \cup {"none", "stuck"}]
  BY DEF TypeOK, Forget
<1>3. pending' \in [Pids -> SUBSET Signals]
  BY DEF TypeOK, Forget
<1>4. cursor' \in [Pids -> 0..MaxPid]
  <2>1. 0 \in 0..MaxPid
    BY BoundAssumption
  <2> QED
    BY <2>1, Zenon DEF TypeOK, Forget
<1> QED
  BY <1>1, <1>2, <1>3, <1>4

(* The types of what an action that only moves main() leaves alone.        *)
LEMMA GotoOnly ==
  ASSUME TypeOK, NEW p \in Pids, NEW l \in PcDomain, Goto(p, l),
         UNCHANGED <<running, handler, pending, cursor, told, loaded, counters>>
  PROVE  TypeOK'
BY GotoType DEF TypeOK, PcDomain, counters

LEMMA ExitType ==
  ASSUME TypeOK, NEW p \in Pids, Exit(p), UNCHANGED <<loaded, counters>>
  PROVE  TypeOK'
<1>1. "dead" \in PcDomain
  BY DEF PcDomain, Gone
<1> QED
  BY <1>1, GotoType, ForgetType DEF TypeOK, Exit, PcDomain, counters

LEMMA InitType == Init => TypeOK
<1> SUFFICES ASSUME Init PROVE TypeOK
  OBVIOUS
<1>1. 0 \in 0..MaxPid /\ 0 \in 0..MaxSignals /\ 0 \in 0..MaxExecs
  BY BoundAssumption
<1>2. pc \in [Pids -> PcDomain] /\ handler \in [Pids -> Signals \cup {"none", "stuck"}]
  BY DEF Init, PcDomain, Unborn
<1>3. running \in [Pids -> BOOLEAN] /\ told \in [Pids -> BOOLEAN] /\ loaded \in BOOLEAN
  BY DEF Init
<1>4. pending \in [Pids -> SUBSET Signals] /\ cursor \in [Pids -> 0..MaxPid]
  BY <1>1 DEF Init
<1> QED
  BY <1>1, <1>2, <1>3, <1>4 DEF Init, TypeOK, PcDomain

LEMMA StepType ==
  ASSUME TypeOK, [Next]_vars
  PROVE  TypeOK'
<1> USE BoundAssumption
<1>0. CASE UNCHANGED vars
  BY <1>0 DEF TypeOK, vars, counters
<1>d. \A l \in Starting \cup Loop \cup {"close", "shutdown"} : l \in PcDomain
  BY DEF PcDomain
<1> SUFFICES ASSUME NEW p \in Pids,
                    \/ Launch(p) \/ Main(p) \/ Client(p) \/ Reexec(p) \/ Signal(p)
                    \/ \E s \in Signals : Send(p, s)
             PROVE  TypeOK'
  BY <1>0 DEF Next
<1>1. CASE Launch(p)
  BY <1>1, <1>d, GotoOnly DEF Launch, Starting
<1>2. CASE Sigaction(p)
  BY <1>2, <1>d, GotoOnly DEF Sigaction, Starting
<1>3. CASE Load(p)
  <2>1. CASE Goto(p, "scan") /\ UNCHANGED <<handler, pending, cursor, told>> /\ loaded' = TRUE
             /\ running' = [running EXCEPT ![p] = FALSE] /\ UNCHANGED counters
    <3>1. pc' \in [Pids -> PcDomain]
      BY <2>1, <1>d, GotoType DEF Starting
    <3>2. running' \in [Pids -> BOOLEAN]
      BY <2>1 DEF TypeOK
    <3> QED
      BY <2>1, <3>1, <3>2 DEF TypeOK, PcDomain, counters
  <2>2. CASE Exit(p) /\ UNCHANGED loaded /\ UNCHANGED counters
    BY <2>2, ExitType
  <2> QED
    BY <1>3, <2>1, <2>2 DEF Load
<1>4. CASE Scan(p)
  <2>1. cursor' \in [Pids -> 0..MaxPid]
    BY <1>4 DEF Scan, NextEntry, TypeOK
  <2>2. /\ pc' \in [Pids -> PcDomain]
        /\ pending' \in [Pids -> SUBSET Signals]
    <3>1. CASE Seen(p, NextEntry(p))
      <4>1. Goto(p, "grace") /\ pending' = [pending EXCEPT ![NextEntry(p)] = @ \cup {"TERM"}]
        BY <1>4, <3>1 DEF Scan
      <4> QED
        BY <4>1, <1>d, GotoType DEF Starting, TypeOK, Signals
    <3>2. CASE ~Seen(p, NextEntry(p))
      BY <1>4, <3>2 DEF Scan, TypeOK, PcDomain
    <3> QED
      BY <3>1, <3>2
  <2> QED
    BY <1>4, <2>1, <2>2 DEF Scan, TypeOK, PcDomain, counters
<1>5. CASE ScanEnds(p)
  BY <1>5, <1>d, GotoOnly DEF ScanEnds, Starting
<1>6. CASE GraceEnds(p)
  <2>1. pc' \in [Pids -> PcDomain]
    BY <1>6 DEF GraceEnds, TypeOK, PcDomain, Starting, Gone
  <2>2. /\ running' \in [Pids -> BOOLEAN]
        /\ handler' \in [Pids -> Signals \cup {"none", "stuck"}]
        /\ pending' \in [Pids -> SUBSET Signals]
        /\ cursor' \in [Pids -> 0..MaxPid]
        /\ told' \in [Pids -> BOOLEAN]
    BY <1>6, ForgetType DEF GraceEnds
  <2> QED
    BY <1>6, <2>1, <2>2 DEF GraceEnds, TypeOK, PcDomain, counters
<1>7. CASE Bind(p)
  <2>1. PICK l \in {"shutdown", "listen"} : Goto(p, l)
    BY <1>7 DEF Bind
  <2> QED
    BY <1>7, <2>1, <1>d, GotoOnly DEF Bind, Starting
<1>8. CASE Listen(p)
  <2>1. PICK l \in {"shutdown", "setrun"} : Goto(p, l)
    BY <1>8 DEF Listen
  <2> QED
    BY <1>8, <2>1, <1>d, GotoOnly DEF Listen, Starting
<1>9. CASE SetRunning(p)
  <2>1. pc' \in [Pids -> PcDomain]
    BY <1>9, <1>d, GotoType DEF SetRunning, Loop
  <2>2. running' \in [Pids -> BOOLEAN]
    BY <1>9 DEF SetRunning, TypeOK
  <2> QED
    BY <1>9, <2>1, <2>2 DEF SetRunning, TypeOK, PcDomain, counters
<1>10. CASE Test(p)
  <2>1. PICK l \in {"enter", "close"} : Goto(p, l)
    BY <1>10 DEF Test
  <2> QED
    BY <1>10, <2>1, <1>d, GotoOnly DEF Test, Loop
<1>11. CASE Enter(p) \/ Client(p) \/ Close(p)
  BY <1>11, <1>d, GotoOnly DEF Enter, Client, Close, Loop
<1>12. CASE Shutdown(p)
  BY <1>12, ExitType DEF Shutdown
<1>13. CASE Reexec(p)
  <2>1. pc' \in [Pids -> PcDomain]
    BY <1>13, <1>d, GotoType DEF Reexec, Starting
  <2>2. running' \in [Pids -> BOOLEAN] /\ told' \in [Pids -> BOOLEAN] /\ loaded' \in BOOLEAN
    BY <1>13 DEF Reexec, TypeOK
  <2>3. cursor' \in [Pids -> 0..MaxPid] /\ execs' \in 0..MaxExecs
    BY <1>13 DEF Reexec, TypeOK
  <2> QED
    BY <1>13, <2>1, <2>2, <2>3 DEF Reexec, TypeOK, PcDomain
<1>14. CASE Handled(p)
  <2>1. pc' \in [Pids -> PcDomain]
    <3>1. CASE pc[p] = "accept"
      BY <1>14, <3>1, <1>d, GotoType DEF Handled, Loop
    <3>2. CASE pc[p] # "accept"
      BY <1>14, <3>2 DEF Handled, TypeOK, PcDomain
    <3> QED
      BY <3>1, <3>2
  <2>2. running' \in [Pids -> BOOLEAN] /\ told' \in [Pids -> BOOLEAN]
    BY <1>14 DEF Handled, TypeOK
  <2>3. handler' \in [Pids -> Signals \cup {"none", "stuck"}]
    BY <1>14 DEF Handled, TypeOK
  <2> QED
    BY <1>14, <2>1, <2>2, <2>3 DEF Handled, TypeOK, PcDomain, counters
<1>15. ASSUME NEW s \in Signals, Deliver(p, s) PROVE TypeOK'
  <2>1. CASE pc[p] = "main"
    BY <1>15, <2>1, ExitType DEF Deliver
  <2>2. CASE pc[p] # "main"
    <3>1. handler' \in [Pids -> Signals \cup {"none", "stuck"}]
      BY <1>15, <2>2 DEF Deliver, TypeOK
    <3>2. pending' \in [Pids -> SUBSET Signals]
      BY <1>15, <2>2 DEF Deliver, TypeOK
    <3> QED
      BY <1>15, <2>2, <3>1, <3>2 DEF Deliver, TypeOK, counters
  <2> QED
    BY <2>1, <2>2
<1>16. ASSUME NEW s \in Signals, Send(p, s) PROVE TypeOK'
  <2>1. pending' \in [Pids -> SUBSET Signals]
    BY <1>16 DEF Send, TypeOK
  <2>2. signals' \in 0..MaxSignals
    BY <1>16 DEF Send, TypeOK
  <2> QED
    BY <1>16, <2>1, <2>2 DEF Send, TypeOK
<1> QED
  BY <1>1, <1>2, <1>3, <1>4, <1>5, <1>6, <1>7, <1>8, <1>9, <1>10, <1>11, <1>12, <1>13,
     <1>14, <1>15, <1>16 DEF Main, Signal

(* Every variable of the instances keeps its type, however many instances  *)
(* start, end each other, are updated or are sent signals.                 *)
THEOREM LifecycleTypeCorrect == Spec => []TypeOK
<1> QED
  BY InitType, StepType, PTL DEF Spec
----------------------------------------------------------------------------
(* The scan.  An instance has passed the entry of q when it looked at it   *)
(* and q was not there, or is not there any more.  Of two instances that   *)
(* exist one at most has passed the other: an instance begins without      *)
(* having passed anybody, and passes only what does not exist.             *)

Beyond == {"bind", "listen", "setrun", "close", "shutdown"} \cup Loop

Passed(p, q) ==
  \/ pc[p] \in Beyond
  \/ pc[p] = "scan" /\ cursor[p] >= q
  \/ pc[p] = "grace" /\ cursor[p] > q

OneWay == \A p, q \in Pids : p # q /\ Exists(p) /\ Exists(q) => ~(Passed(p, q) /\ Passed(q, p))

(* Where the scan begins, and whom it ends.                                *)
Cursors == \A p \in Pids :
  /\ pc[p] \in {"unborn", "main", "load"} => cursor[p] = 0
  /\ pc[p] = "grace" => cursor[p] \in Pids /\ cursor[p] # p

IInv == TypeOK /\ Cursors /\ OneWay

LEMMA InitScan == Init => Cursors /\ OneWay
BY DEF Init, Cursors, OneWay, Exists, Unborn

(* A step of p alone that lets p pass nobody who exists.                   *)
OnlyMoves(p) == \A q \in Pids \ {p} : pc'[q] = pc[q] /\ cursor'[q] = cursor[q]
PassesNobody(p) == \A q \in Pids \ {p} :
  Exists(p)' /\ Exists(q) /\ Passed(p, q)' => Exists(p) /\ Passed(p, q)

LEMMA MoveKeepsOneWay ==
  ASSUME OneWay, NEW p \in Pids, OnlyMoves(p), PassesNobody(p)
  PROVE  OneWay'
<1> SUFFICES ASSUME NEW a \in Pids, NEW b \in Pids, a # b, Exists(a)', Exists(b)',
                    Passed(a, b)', Passed(b, a)'
             PROVE  FALSE
  BY DEF OneWay
<1>1. \A q \in Pids \ {p} : (Exists(q)' <=> Exists(q)) /\ \A r \in Pids : Passed(q, r)' <=> Passed(q, r)
  BY DEF OnlyMoves, Exists, Passed
<1>2. CASE a # p /\ b # p
  BY <1>1, <1>2 DEF OneWay
<1>3. CASE a = p
  BY <1>1, <1>3 DEF OneWay, PassesNobody
<1>4. CASE b = p
  BY <1>1, <1>4 DEF OneWay, PassesNobody
<1> QED
  BY <1>2, <1>3, <1>4

LEMMA MoveKeepsCursors ==
  ASSUME Cursors, NEW p \in Pids, OnlyMoves(p),
         pc'[p] \in {"unborn", "main", "load"} => cursor'[p] = 0,
         pc'[p] = "grace" => cursor'[p] \in Pids /\ cursor'[p] # p
  PROVE  Cursors'
BY DEF OnlyMoves, Cursors

(* Most steps of p only take it to another line.                           *)
LEMMA GotoKeeps ==
  ASSUME IInv, NEW p \in Pids, NEW l, Goto(p, l), cursor' = cursor,
         Exists(p),
         \/ l = "load" /\ pc[p] = "main"
         \/ l \in Beyond /\ pc[p] \in Beyond
         \/ l = "bind" /\ pc[p] = "scan" /\ cursor[p] = MaxPid
  PROVE  Cursors' /\ OneWay'
<1>1. OnlyMoves(p) /\ pc'[p] = l
  BY DEF Goto, OnlyMoves, IInv, TypeOK
<1>2. PassesNobody(p)
  <2> SUFFICES ASSUME NEW q \in Pids \ {p}, Passed(p, q)'
               PROVE  Passed(p, q)
    BY DEF PassesNobody
  <2>1. cursor[p] \in 0..MaxPid /\ q <= MaxPid
    BY DEF IInv, TypeOK
  <2> QED
    BY <1>1, <2>1, BoundAssumption DEF Passed, Beyond, Loop
<1>3. pc'[p] \in {"unborn", "main", "load"} => cursor'[p] = 0
  BY <1>1 DEF IInv, Cursors, Beyond, Loop
<1>4. pc'[p] # "grace"
  BY <1>1 DEF Beyond, Loop
<1> QED
  BY <1>1, <1>2, <1>3, <1>4, MoveKeepsOneWay, MoveKeepsCursors DEF IInv

LEMMA ExitKeeps ==
  ASSUME IInv, NEW p \in Pids, Exit(p)
  PROVE  Cursors' /\ OneWay'
<1>1. OnlyMoves(p) /\ pc'[p] = "dead"
  BY DEF Exit, Forget, Goto, OnlyMoves, IInv, TypeOK
<1>2. PassesNobody(p)
  BY <1>1 DEF PassesNobody, Exists, Gone
<1> QED
  BY <1>1, <1>2, MoveKeepsOneWay, MoveKeepsCursors DEF IInv

LEMMA SameKeeps ==
  ASSUME IInv, pc' = pc, cursor' = cursor
  PROVE  Cursors' /\ OneWay'
BY DEF IInv, Cursors, OneWay, Exists, Passed

(* The scan looks at the next entry.                                       *)
LEMMA ScanKeeps ==
  ASSUME IInv, NEW p \in Pids, Scan(p)
  PROVE  Cursors' /\ OneWay'
<1> DEFINE q == NextEntry(p)
<1>1. /\ pc[p] = "scan" /\ cursor[p] \in 0..MaxPid /\ cursor[p] < MaxPid /\ q = cursor[p] + 1
      /\ cursor' = [cursor EXCEPT ![p] = q]
  BY DEF Scan, At, NextEntry, IInv, TypeOK
<1>2. q \in Pids /\ cursor'[p] = q
  BY <1>1, BoundAssumption DEF IInv, TypeOK
<1>3. CASE Seen(p, q)
  <2>1. Goto(p, "grace") /\ q # p
    BY <1>3 DEF Scan, Seen
  <2>2. OnlyMoves(p) /\ pc'[p] = "grace"
    BY <1>1, <2>1 DEF Goto, OnlyMoves, IInv, TypeOK
  <2>3. PassesNobody(p)
    <3> SUFFICES ASSUME NEW r \in Pids \ {p}, Passed(p, r)'
                 PROVE  Exists(p) /\ Passed(p, r)
      BY DEF PassesNobody
    <3>1. q > r
      BY <1>2, <2>2 DEF Passed, Beyond, Loop
    <3> QED
      BY <1>1, <3>1 DEF Passed, Exists, Unborn, Gone
  <2> QED
    BY <1>2, <2>1, <2>2, <2>3, MoveKeepsOneWay, MoveKeepsCursors DEF IInv
<1>4. CASE ~Seen(p, q)
  <2>1. pc' = pc
    BY <1>4 DEF Scan
  <2>2. OnlyMoves(p) /\ pc'[p] = "scan"
    BY <1>1, <2>1 DEF OnlyMoves, IInv, TypeOK
  <2>3. PassesNobody(p)
    <3> SUFFICES ASSUME NEW r \in Pids \ {p}, Exists(r), Passed(p, r)'
                 PROVE  Exists(p) /\ Passed(p, r)
      BY DEF PassesNobody
    <3>1. q >= r /\ r # q
      BY <1>2, <1>4, <2>2 DEF Passed, Beyond, Loop, Seen
    <3> QED
      BY <1>1, <3>1 DEF Passed, Exists, Unborn, Gone
  <2> QED
    BY <2>2, <2>3, MoveKeepsOneWay, MoveKeepsCursors DEF IInv
<1> QED
  BY <1>3, <1>4

(* The instance that was found is gone, and is the only one passed.        *)
LEMMA GraceKeeps ==
  ASSUME IInv, NEW p \in Pids, GraceEnds(p)
  PROVE  Cursors' /\ OneWay'
<1> DEFINE q == cursor[p]
<1>1. pc[p] = "grace" /\ q \in Pids /\ q # p
  BY DEF GraceEnds, At, IInv, Cursors
<1>2. /\ pc'[p] = "scan" /\ pc'[q] = "dead"
      /\ \A r \in Pids \ {p, q} : pc'[r] = pc[r]
  BY <1>1 DEF GraceEnds, IInv, TypeOK
<1>3. cursor'[q] = 0 /\ \A r \in Pids \ {q} : cursor'[r] = cursor[r]
  BY <1>1 DEF GraceEnds, Forget, IInv, TypeOK
<1>4. Cursors'
  BY <1>1, <1>2, <1>3 DEF IInv, Cursors
<1>5. \A r \in Pids : Exists(r)' => r # q /\ Exists(r)
  BY <1>1, <1>2 DEF Exists, Unborn, Gone
<1>6. \A r, t \in Pids : r # q /\ t # q /\ Passed(r, t)' => Passed(r, t)
  <2> SUFFICES ASSUME NEW r \in Pids, NEW t \in Pids, r # q, t # q, Passed(r, t)'
               PROVE  Passed(r, t)
    OBVIOUS
  <2>1. CASE r = p
    BY <1>1, <1>2, <1>3, <2>1 DEF Passed, Beyond, Loop
  <2>2. CASE r # p
    BY <1>2, <1>3, <2>2 DEF Passed
  <2> QED
    BY <2>1, <2>2
<1> QED
  BY <1>4, <1>5, <1>6 DEF IInv, OneWay

LEMMA StepScan ==
  ASSUME IInv, [Next]_vars
  PROVE  Cursors' /\ OneWay'
<1>0. CASE UNCHANGED vars
  BY <1>0, SameKeeps DEF vars
<1> SUFFICES ASSUME NEW p \in Pids,
                    \/ Launch(p) \/ Main(p) \/ Client(p) \/ Reexec(p) \/ Signal(p)
                    \/ \E s \in Signals : Send(p, s)
             PROVE  Cursors' /\ OneWay'
  BY <1>0 DEF Next
<1> USE DEF Exists, Unborn, Gone, Beyond, Loop, At
<1>1. CASE Launch(p)
  <2>1. OnlyMoves(p) /\ pc'[p] = "main" /\ cursor'[p] = 0
    BY <1>1 DEF Launch, Goto, OnlyMoves, IInv, TypeOK, Cursors
  <2>2. PassesNobody(p)
    BY <2>1 DEF PassesNobody, Passed
  <2> QED
    BY <2>1, <2>2, MoveKeepsOneWay, MoveKeepsCursors DEF IInv
<1>2. CASE Sigaction(p)
  BY <1>2, GotoKeeps DEF Sigaction
<1>3. CASE Load(p)
  <2>1. CASE Goto(p, "scan") /\ cursor' = cursor
    <3>1. pc[p] = "load" /\ cursor[p] = 0
      BY <1>3 DEF Load, IInv, Cursors
    <3>2. OnlyMoves(p) /\ pc'[p] = "scan" /\ cursor'[p] = 0
      BY <2>1, <3>1 DEF Goto, OnlyMoves, IInv, TypeOK
    <3>3. PassesNobody(p)
      BY <3>2 DEF PassesNobody, Passed
    <3> QED
      BY <3>2, <3>3, MoveKeepsOneWay, MoveKeepsCursors DEF IInv
  <2>2. CASE Exit(p)
    BY <2>2, ExitKeeps
  <2> QED
    BY <1>3, <2>1, <2>2 DEF Load
<1>4. CASE Scan(p)
  BY <1>4, ScanKeeps
<1>5. CASE ScanEnds(p)
  BY <1>5, GotoKeeps DEF ScanEnds
<1>6. CASE GraceEnds(p)
  BY <1>6, GraceKeeps
<1>7. CASE Bind(p)
  <2>1. PICK l \in {"shutdown", "listen"} : Goto(p, l)
    BY <1>7 DEF Bind
  <2> QED
    BY <1>7, <2>1, GotoKeeps DEF Bind
<1>8. CASE Listen(p)
  <2>1. PICK l \in {"shutdown", "setrun"} : Goto(p, l)
    BY <1>8 DEF Listen
  <2> QED
    BY <1>8, <2>1, GotoKeeps DEF Listen
<1>9. CASE Test(p)
  <2>1. PICK l \in {"enter", "close"} : Goto(p, l)
    BY <1>9 DEF Test
  <2> QED
    BY <1>9, <2>1, GotoKeeps DEF Test
<1>10. CASE SetRunning(p)
  BY <1>10, GotoKeeps DEF SetRunning
<1>11. CASE Enter(p) \/ Client(p) \/ Close(p)
  BY <1>11, GotoKeeps DEF Enter, Client, Close
<1>12. CASE Shutdown(p)
  BY <1>12, ExitKeeps DEF Shutdown
<1>13. CASE Reexec(p)
  <2>1. OnlyMoves(p) /\ pc'[p] = "main" /\ cursor'[p] = 0
    BY <1>13 DEF Reexec, Goto, OnlyMoves, IInv, TypeOK
  <2>2. PassesNobody(p)
    BY <2>1 DEF PassesNobody, Passed
  <2> QED
    BY <2>1, <2>2, MoveKeepsOneWay, MoveKeepsCursors DEF IInv
<1>14. CASE Handled(p)
  <2>1. CASE pc[p] = "accept"
    BY <1>14, <2>1, GotoKeeps DEF Handled
  <2>2. CASE pc[p] # "accept"
    BY <1>14, <2>2, SameKeeps DEF Handled
  <2> QED
    BY <2>1, <2>2
<1>15. ASSUME NEW s \in Signals, Deliver(p, s) PROVE Cursors' /\ OneWay'
  <2>1. CASE pc[p] = "main"
    BY <1>15, <2>1, ExitKeeps DEF Deliver
  <2>2. CASE pc[p] # "main"
    BY <1>15, <2>2, SameKeeps DEF Deliver
  <2> QED
    BY <2>1, <2>2
<1>16. ASSUME NEW s \in Signals, Send(p, s) PROVE Cursors' /\ OneWay'
  BY <1>16, SameKeeps DEF Send
<1> QED
  BY <1>1, <1>2, <1>3, <1>4, <1>5, <1>6, <1>7, <1>8, <1>9, <1>10, <1>11, <1>12, <1>13,
     <1>14, <1>15, <1>16 DEF Main, Signal

LEMMA NobodyListens == IInv => AddressFree
<1> SUFFICES ASSUME IInv, NEW p \in Pids, NEW q \in Pids \ {p},
                    pc[p] \in {"bind", "listen"}, Listening(q)
             PROVE  FALSE
  BY DEF AddressFree, Taken
<1>1. Exists(p) /\ Passed(p, q)
  BY DEF Exists, Passed, Beyond, Unborn, Gone
<1>2. Exists(q) /\ Passed(q, p)
  BY DEF Exists, Passed, Beyond, Unborn, Gone, Listening, Loop
<1> QED
  BY <1>1, <1>2 DEF IInv, OneWay

(* README.md 497, server.c 227-267: an instance that comes to bind or      *)
(* listen has passed all others, and one that listens has too; so of two   *)
(* that start at any time, in any order, neither finds the address taken.  *)
THEOREM AddressFreeHolds == Spec => []AddressFree
<1>1. Init => IInv
  BY InitType, InitScan DEF IInv
<1>2. IInv /\ [Next]_vars => IInv'
  BY StepType, StepScan DEF IInv
<1> QED
  BY <1>1, <1>2, NobodyListens, PTL DEF Spec

----------------------------------------------------------------------------
(* One instance is left.  One that stays stays, until another sends it a   *)
(* signal or finds it gone; that one is in the scan and stays itself.      *)

Steady == {"scan", "grace", "bind", "listen", "setrun"}

LEMMA StaysMeans ==
  ASSUME IInv, NEW p \in Pids
  PROVE  Stays(p) <=> pc[p] \in Steady \/ (pc[p] \in Loop /\ running[p] /\ Free(p))
BY DEF Stays, Exists, Unborn, Gone, Steady, Loop, Starting, IInv, TypeOK

LEMMA StaysOn ==
  ASSUME IInv, IInv', NEW p \in Pids, Stays(p),
         UNCHANGED <<pc[p], running[p], handler[p], pending[p]>>
  PROVE  Stays(p)'
BY StaysMeans DEF Stays, Exists, Free

(* What an instance does itself.                                           *)
LEMMA OwnStep ==
  ASSUME IInv, IInv', NEW p \in Pids, Stays(p), Main(p) \/ Client(p)
  PROVE  \E q \in Pids : Stays(q)'
<1> USE DEF At, Goto
<1>0. /\ pc \in [Pids -> PcDomain] /\ running \in [Pids -> BOOLEAN]
      /\ pc[p] \in Steady \/ (pc[p] \in Loop /\ running[p] /\ Free(p))
  BY StaysMeans DEF IInv, TypeOK, PcDomain
<1>1. CASE Sigaction(p) \/ Load(p) \/ Close(p) \/ Shutdown(p)
  BY <1>0, <1>1 DEF Sigaction, Load, Close, Shutdown, Steady, Loop
<1>2. CASE Scan(p) \/ ScanEnds(p)
  <2>1. pc'[p] \in Steady
    BY <1>0, <1>2 DEF Scan, ScanEnds, Steady
  <2> QED
    BY <2>1 DEF Stays, Exists, Unborn, Gone, Steady, Loop
<1>3. CASE GraceEnds(p)
  <2>1. cursor[p] # p
    BY <1>3 DEF GraceEnds, IInv, Cursors
  <2>2. pc'[p] = "scan"
    BY <1>0, <1>3, <2>1 DEF GraceEnds
  <2> QED
    BY <2>2 DEF Stays, Exists, Unborn, Gone, Loop
<1>4. CASE Bind(p) \/ Listen(p)
  <2>1. ~Taken(p)
    BY <1>4, NobodyListens DEF Bind, Listen, AddressFree
  <2>2. pc'[p] \in Steady
    BY <1>0, <1>4, <2>1 DEF Bind, Listen, Steady
  <2> QED
    BY <2>2 DEF Stays, Exists, Unborn, Gone, Steady, Loop
<1>5. CASE SetRunning(p) \/ Test(p) \/ Enter(p) \/ Client(p)
  <2>1. pc'[p] \in Loop /\ running'[p] /\ handler' = handler /\ pending' = pending /\ Free(p)
    BY <1>0, <1>5 DEF SetRunning, Test, Enter, Client, Loop, Steady
  <2> QED
    BY <2>1 DEF Stays, Exists, Unborn, Gone, Loop, Free
<1> QED
  BY <1>1, <1>2, <1>3, <1>4, <1>5 DEF Main

(* What others do to it.                                                   *)
LEMMA OtherStep ==
  ASSUME IInv, IInv', NEW p \in Pids, Stays(p), NEW q \in Pids \ {p}, Main(q) \/ Client(q)
  PROVE  \E r \in Pids : Stays(r)'
<1>0. /\ pc \in [Pids -> PcDomain] /\ running \in [Pids -> BOOLEAN] /\ cursor[q] \in 0..MaxPid
      /\ handler \in [Pids -> Signals \cup {"none", "stuck"}] /\ pending \in [Pids -> SUBSET Signals]
  BY DEF IInv, TypeOK, PcDomain
<1>1. CASE Scan(q) /\ pc' # pc
  <2>1. pc'[q] = "grace"
    BY <1>0, <1>1 DEF Scan, Goto
  <2> QED
    BY <2>1 DEF Stays, Exists, Unborn, Gone, Loop
<1>2. CASE GraceEnds(q)
  <2>1. cursor[q] # q
    BY <1>2 DEF GraceEnds, At, IInv, Cursors
  <2>2. pc'[q] = "scan"
    BY <1>0, <1>2, <2>1 DEF GraceEnds
  <2> QED
    BY <2>2 DEF Stays, Exists, Unborn, Gone, Loop
<1>3. CASE ~GraceEnds(q) /\ (Scan(q) => pc' = pc)
  <2>1. CASE Scan(q)
    <3>1. running' = running /\ handler' = handler /\ pc' = pc /\ pending' = pending
      <4>1. At(q, "scan") /\ pc'[q] # "grace"
        BY <1>3, <2>1 DEF Scan, At
      <4>2. ~Goto(q, "grace")
        BY <1>0, <4>1 DEF Goto
      <4> QED
        BY <1>3, <2>1, <4>2 DEF Scan
    <3> QED
      BY <3>1, StaysOn
  <2>2. CASE ~Scan(q)
    <3>1. UNCHANGED <<pc[p], running[p], handler[p], pending[p]>>
      BY <1>0, <1>3, <2>2 DEF Main, Sigaction, Load, ScanEnds, Bind, Listen, SetRunning, Test, Enter, Client,
         Close, Shutdown, Exit, Forget, Goto
    <3> QED
      BY <3>1, StaysOn
  <2> QED
    BY <2>1, <2>2
<1> QED
  BY <1>1, <1>2, <1>3

(* Signals: none is pending in a loop that stays, and before the loop they *)
(* do no harm.                                                             *)
LEMMA SignalStep ==
  ASSUME IInv, IInv', NEW p \in Pids, Stays(p), NEW q \in Pids, Signal(q)
  PROVE  Stays(p)'
<1>0. /\ pc \in [Pids -> PcDomain] /\ running \in [Pids -> BOOLEAN]
      /\ handler \in [Pids -> Signals \cup {"none", "stuck"}] /\ pending \in [Pids -> SUBSET Signals]
      /\ pc[p] \in Steady \/ (pc[p] \in Loop /\ running[p] /\ Free(p))
  BY StaysMeans DEF IInv, TypeOK, PcDomain
<1>1. CASE q # p
  <2>1. UNCHANGED <<pc[p], running[p], handler[p], pending[p]>>
    BY <1>0, <1>1 DEF Signal, Handled, Deliver, Exit, Forget, Goto
  <2> QED
    BY <2>1, StaysOn
<1>2. CASE q = p
  <2>1. pc[p] \in Steady
    BY <1>0, <1>2 DEF Signal, Handled, Deliver, Free, Signals
  <2>2. pc'[p] = pc[p]
    BY <1>2, <2>1 DEF Signal, Handled, Deliver, Steady
  <2> QED
    BY <2>1, <2>2 DEF Stays, Exists, Unborn, Gone, Steady, Loop
<1> QED
  BY <1>1, <1>2

LEMMA StepSurvivor ==
  ASSUME IInv, IInv', Survivor, [Next]_vars
  PROVE  Survivor'
<1> SUFFICES ASSUME loaded', signals' = 0 PROVE \E p \in Pids : Stays(p)'
  BY DEF Survivor
<1>0. /\ pc \in [Pids -> PcDomain] /\ running \in [Pids -> BOOLEAN] /\ signals \in Nat
      /\ handler \in [Pids -> Signals \cup {"none", "stuck"}] /\ pending \in [Pids -> SUBSET Signals]
  BY BoundAssumption DEF IInv, TypeOK, PcDomain
<1>1. CASE UNCHANGED vars
  <2>1. PICK p \in Pids : Stays(p)
    BY <1>1 DEF vars, counters, Survivor
  <2> QED
    BY <1>1, <2>1, StaysOn DEF vars
<1>2. ASSUME NEW q \in Pids, Main(q) \/ Client(q) PROVE \E p \in Pids : Stays(p)'
  <2>1. CASE Load(q) /\ ~loaded
    <3>1. pc'[q] = "scan"
      BY <1>0, <2>1 DEF Load, Goto
    <3> QED
      BY <3>1 DEF Stays, Exists, Unborn, Gone, Loop
  <2>2. CASE loaded
    <3>1. signals = 0
      BY <1>2 DEF Main, Sigaction, Load, Scan, ScanEnds, GraceEnds, Bind, Listen, SetRunning, Test, Enter,
         Client, Close, Shutdown, counters
    <3>2. PICK p \in Pids : Stays(p)
      BY <2>2, <3>1 DEF Survivor
    <3> QED
      BY <1>2, <3>2, OwnStep, OtherStep
  <2>3. Load(q) \/ loaded
    BY <1>2 DEF Main, Sigaction, Scan, ScanEnds, GraceEnds, Bind, Listen, SetRunning, Test, Enter,
       Client, Close, Shutdown
  <2> QED
    BY <2>1, <2>2, <2>3
<1>3. ASSUME NEW q \in Pids, Launch(q) PROVE \E p \in Pids : Stays(p)'
  <2>1. loaded /\ signals = 0
    BY <1>3 DEF Launch, counters
  <2>2. PICK p \in Pids : Stays(p)
    BY <2>1 DEF Survivor
  <2>3. UNCHANGED <<pc[p], running[p], handler[p], pending[p]>>
    BY <1>0, <1>3, <2>2 DEF Launch, Goto, Stays, Exists, Unborn
  <2> QED
    BY <2>2, <2>3, StaysOn
<1>4. ASSUME NEW q \in Pids, Reexec(q) PROVE \E p \in Pids : Stays(p)'
  <2>1. PICK p \in Pids \ {q} : Stays(p)
    BY <1>4 DEF Reexec
  <2>2. UNCHANGED <<pc[p], running[p], handler[p], pending[p]>>
    BY <1>0, <1>4, <2>1 DEF Reexec, Goto
  <2> QED
    BY <2>1, <2>2, StaysOn
<1>5. ASSUME NEW q \in Pids, Signal(q) PROVE \E p \in Pids : Stays(p)'
  <2>1. loaded /\ signals = 0
    BY <1>5 DEF Signal, Handled, Deliver, counters
  <2> QED
    BY <1>5, <2>1, SignalStep DEF Survivor
<1>6. ASSUME NEW q \in Pids, NEW s \in Signals, Send(q, s) PROVE FALSE
  BY <1>0, <1>6 DEF Send
<1> QED
  BY <1>1, <1>2, <1>3, <1>4, <1>5, <1>6 DEF Next

(* server.c 227-320: for any number of instances that start in any order   *)
(* and end each other, one is left as long as nobody else sends signals.   *)
THEOREM SurvivorHolds == Spec => []Survivor
<1>1. Init => IInv /\ Survivor
  BY InitType, InitScan DEF IInv, Init, Survivor
<1>2. IInv /\ Survivor /\ [Next]_vars => IInv' /\ Survivor'
  BY StepType, StepScan, StepSurvivor DEF IInv
<1> QED
  BY <1>1, <1>2, PTL DEF Spec
=============================================================================
