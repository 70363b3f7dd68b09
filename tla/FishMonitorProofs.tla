------------------------- MODULE FishMonitorProofs -------------------------
(***************************************************************************)
(* Proofs about module FishMonitor, for any number of process ids and of   *)
(* signals: type correctness, that a monitor which handles a signal takes  *)
(* its fish down with it, and that the sweep spares a supervised fish.     *)
(***************************************************************************)
EXTENDS FishMonitor, TLAPS

USE DEF States, Steps

\* main has a fish it has not yet seen the end of.
Supervising == child # None /\ rc = "unset"

\* Every process has someone to account for it.
Owned ==
  \A p \in Pids : fish[p] # "none" =>
    p \in strays \/ p = born \/ (p = child /\ rc = "unset")

\* What main owns is not one of the strays, and main knows of it only in the
\* steps from "child =" to the end of wait.
OwnIsNoStray ==
  /\ born # None => born \notin strays
  /\ Supervising => child \notin strays /\ pc \in {"running", "wait"}

\* The handler waits for a fish only if there is one, and writes its last
\* status only when that fish has ended.
HandlerKnows ==
  /\ handler \in {"wait", "kill"} => Supervising
  /\ handler = "write" /\ Supervising => fish[child] # "alive"

Inv == TypeOK /\ Owned /\ OwnIsNoStray /\ HandlerKnows

----------------------------------------------------------------------------
LEMMA InvInit == Init => Inv
<1> SUFFICES ASSUME Init PROVE Inv
  OBVIOUS
<1>1. signals \in 0 .. MaxSignals
  BY MaxSignalsAssumption DEF Init
<1>2. TypeOK
  BY <1>1 DEF Init, TypeOK
<1>3. Owned /\ OwnIsNoStray /\ HandlerKnows
  BY DEF Init, Owned, OwnIsNoStray, HandlerKnows, Supervising
<1> QED BY <1>2, <1>3 DEF Inv

\* The end of the monitor keeps the invariant, whatever ends it.
LEMMA InvGone ==
  ASSUME Inv, Gone, status' \in States \cup {"none", "empty"} PROVE Inv'
<1> USE NoneAssumption, OsErrorsAssumption, MaxSignalsAssumption
<1>1. TypeOK'
  <2>1. fish' \in [Pids -> {"none", "alive", "zero", "nonzero"}] /\ strays' \subseteq Alive'
    BY DEF Gone, Alive
  <2>2. signals' \in 0 .. MaxSignals
    BY DEF Gone
  <2> QED BY <2>1, <2>2 DEF Inv, TypeOK, Gone
<1>2. Owned' /\ OwnIsNoStray' /\ HandlerKnows'
  BY <1>1 DEF Inv, TypeOK, Gone, Alive, Owned, OwnIsNoStray, HandlerKnows, Supervising
<1> QED BY <1>1, <1>2 DEF Inv

LEMMA InvStep == Inv /\ [Next]_vars => Inv'
<1> SUFFICES ASSUME Inv, [Next]_vars PROVE Inv'
  OBVIOUS
<1> USE NoneAssumption, OsErrorsAssumption, MaxSignalsAssumption
<1> USE DEF Inv, TypeOK, Owned, OwnIsNoStray, HandlerKnows, Supervising, Alive, Loop,
            main, shutdown, world
<1>1. CASE CleanupSockets
  <2>1. sockets' \subseteq Pids
    BY <1>1 DEF CleanupSockets
  <2> QED BY <1>1, <2>1 DEF CleanupSockets
<1>2. CASE WriteStatus
  <2>1. CASE ~half
    BY <1>2, <2>1 DEF WriteStatus
  <2>2. CASE half
    <3>1. /\ pc = "running" => pc' = "wait"
          /\ pc # "running" => pc' \in {"popen", "prompt", "notify"} /\ ~Supervising
          /\ status' = pc /\ half' = FALSE
          /\ UNCHANGED <<child, rc, born, shutdown, world, installed>>
      BY <1>2, <2>2 DEF WriteStatus, After
    <3>2. pc = "running" => child # None
      OBVIOUS
    <3> QED BY <1>2, <2>2, <3>1, <3>2
  <2> QED BY <2>1, <2>2
<1>3. CASE Popen
  BY <1>3 DEF Popen
<1>4. CASE Assign
  BY <1>4 DEF Assign
<1>5. CASE Wait
  BY <1>5 DEF Wait, Reap
<1>6. CASE NotifyAndSleep
  BY <1>6 DEF NotifyAndSleep
<1>7. CASE Prompt
  <2>1. CASE Gone
    BY <1>7, <2>1, InvGone DEF Prompt
  <2>2. CASE pc' = "cleanup" /\ UNCHANGED <<half, child, rc, born, shutdown, world, installed>>
    BY <1>7, <2>2 DEF Prompt
  <2> QED BY <1>7, <2>1, <2>2 DEF Prompt
<1>8. CASE Raise
  BY <1>8, InvGone DEF Raise
<1>9. CASE Signal
  <2>1. signals' \in 0 .. MaxSignals
    BY <1>9 DEF Signal
  <2>2. locked' \in BOOLEAN
    BY <1>9 DEF Signal
  <2> QED BY <1>9, <2>1, <2>2 DEF Signal
<1>10. CASE HandlerPoll
  BY <1>10 DEF HandlerPoll, HandlerReaps, Reap
<1>11. CASE HandlerWait
  BY <1>11 DEF HandlerWait, HandlerReaps, Reap
<1>12. CASE HandlerKill
  BY <1>12 DEF HandlerKill
<1>13. CASE HandlerExit
  <2>1. status' \in States \cup {"none", "empty"}
    BY <1>13 DEF HandlerExit
  <2> QED BY <1>13, <2>1, InvGone DEF HandlerExit
<1>19. CASE HandlerSwallowed
  BY <1>19 DEF HandlerSwallowed
<1>14. CASE FishBinds
  BY <1>14 DEF FishBinds
<1>15. CASE FishEnds
  BY <1>15 DEF FishEnds
<1>16. CASE Hangup
  BY <1>16, InvGone DEF Hangup
<1>17. CASE NewSession
  BY <1>17 DEF NewSession
<1>18. CASE UNCHANGED vars
  BY <1>18 DEF vars
<1> QED
  BY <1>1, <1>2, <1>3, <1>4, <1>5, <1>6, <1>7, <1>8, <1>9, <1>10, <1>11, <1>12,
     <1>13, <1>14, <1>15, <1>16, <1>17, <1>18, <1>19
  DEF Next, LoopStep, HandlerStep

LEMMA Invariance == Spec => []Inv
<1> QED BY InvInit, InvStep, PTL DEF Spec

----------------------------------------------------------------------------
(* Every reachable state of the monitor is of its type, for any number of
   process ids and of signals.                                             *)
THEOREM TypeCorrect == Spec => []TypeOK
<1>1. Inv => TypeOK
  BY DEF Inv
<1> QED BY Invariance, <1>1, PTL

(* A monitor that ends by its handler leaves none of its own fish alive, but
   for one it had forked and not yet bound when the signal came.           *)
THEOREM ShutdownTakesFish == Spec => EndsWithItsFish
<1> DEFINE Ends == handler = "write" /\ pc' = "gone" =>
                     \A p \in Pids : fish'[p] = "alive" =>
                       p \in strays \/ (pc = "assign" /\ p = born)
<1>1. Inv /\ [Next]_vars => [Ends]_vars
  <2> SUFFICES ASSUME Inv, [Next]_vars, handler = "write", pc' = "gone",
                      NEW p \in Pids, fish'[p] = "alive"
               PROVE  p \in strays \/ (pc = "assign" /\ p = born)
    OBVIOUS
  <2>1. fish[p] = "alive"
    <3>1. CASE HandlerExit \/ Hangup
      BY <3>1 DEF HandlerExit, Hangup, Gone
    <3>2. ~LoopStep /\ ~Prompt /\ ~Raise
      BY DEF LoopStep, CleanupSockets, WriteStatus, Popen, Assign, Wait, NotifyAndSleep,
             Prompt, Raise, Loop
    <3>3. ~HandlerPoll /\ ~HandlerWait /\ ~HandlerKill /\ ~HandlerSwallowed /\ ~NewSession
      BY DEF HandlerPoll, HandlerWait, HandlerKill, HandlerSwallowed, NewSession, main
    <3>4. CASE UNCHANGED pc
      BY <3>4 DEF Inv, TypeOK
    <3>5. Signal \/ FishBinds \/ FishEnds \/ UNCHANGED vars => UNCHANGED pc
      BY DEF Signal, FishBinds, FishEnds, main, vars
    <3> QED BY <3>1, <3>2, <3>3, <3>4, <3>5 DEF Next, HandlerStep
  <2>2. p \in strays \/ p = born \/ (p = child /\ rc = "unset")
    BY <2>1 DEF Inv, Owned
  <2>3. p = born => pc = "assign"
    BY NoneAssumption DEF Inv, TypeOK
  <2>4. ~(p = child /\ rc = "unset")
    BY <2>1, NoneAssumption DEF Inv, HandlerKnows, Supervising
  <2> QED BY <2>2, <2>3, <2>4
<1> QED BY Invariance, <1>1, PTL DEF Spec, EndsWithItsFish

(* The sweep before each start removes no socket of a living fish, unless that
   fish outlived an earlier monitor.                                       *)
THEOREM SweepSparesOwnFish == Spec => CleanupSparesSupervised
<1> DEFINE Spares == \A p \in sockets \ sockets' : fish'[p] = "alive" => p \in strays
<1>1. Inv /\ [Next]_vars => [Spares]_vars
  <2> SUFFICES ASSUME Inv, [Next]_vars, NEW p \in sockets \ sockets',
                      fish'[p] = "alive"
               PROVE  p \in strays
    OBVIOUS
  <2>1. p \in Pids
    BY DEF Inv, TypeOK
  <2>2. CASE CleanupSockets
    <3>1. fish[p] # "none" /\ pc = "cleanup"
      BY <2>2 DEF CleanupSockets, Loop
    <3>2. born = None /\ ~Supervising
      BY <3>1 DEF Inv, TypeOK, OwnIsNoStray
    <3> QED BY <2>1, <3>1, <3>2, NoneAssumption DEF Inv, Owned, Supervising
  <2>3. CASE FishEnds
    <3>1. PICK q \in Alive :
            /\ \E how \in {"zero", "nonzero"} :
                 fish' = [fish EXCEPT ![q] = IF q \in strays THEN "none" ELSE how]
            /\ sockets' \in {sockets, sockets \ {q}}
      BY <2>3 DEF FishEnds
    <3> QED BY <2>1, <3>1 DEF Inv, TypeOK, Alive
  <2>4. sockets \subseteq sockets' \/ CleanupSockets \/ FishEnds
    BY DEF Next, LoopStep, HandlerStep, CleanupSockets, WriteStatus, Popen, Assign, Wait,
       NotifyAndSleep, Prompt, Gone, Raise, Signal, HandlerPoll, HandlerWait, HandlerKill,
       HandlerExit, HandlerSwallowed, FishBinds, Hangup, NewSession, world, vars
  <2> QED BY <2>2, <2>3, <2>4
<1> QED BY Invariance, <1>1, PTL DEF Spec, CleanupSparesSupervised
=============================================================================
