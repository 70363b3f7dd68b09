------------------------- MODULE OskManagerProofs -------------------------
(***************************************************************************)
(* What OskManager promises for any number of process ids, events and      *)
(* waiting timers, and whether or not Popen may fail.                      *)
(***************************************************************************)
EXTENDS OskManager, TLAPS

USE NoneAssumption, BoundsAssumption, SpawnFailsAssumption
USE DEF NoneAssumption, BoundsAssumption, SpawnFailsAssumption

\* The type invariant in parts: the flags, the control state, and what the
\* critical sections of wvkbd's life change.
Flags ==
  /\ kbd \in BOOLEAN /\ missed \in BOOLEAN /\ monitor \in BOOLEAN /\ heard \in BOOLEAN
  /\ armed \in BOOLEAN /\ present \in BOOLEAN /\ stop \in BOOLEAN /\ settled \in BOOLEAN
  /\ fresh \in BOOLEAN /\ lost \in BOOLEAN /\ excused \in BOOLEAN

Control ==
  /\ events \in 0 .. MaxEvents /\ waiting \in 0 .. MaxWaiting
  /\ lock \in {Free, "reap", "spawn", "cmd"}
  /\ mpc \in {"init", "start", "wait", "finally", "join", "exited"}
  /\ spc \in {"off", "accept", "want", "send"}
  /\ mpc \in {"init", "start"} => spc = "off"
  /\ (spc = "send") <=> (lock = "cmd")
  /\ spc = "send" => proc # None

StateType ==
  /\ proc \in Pids \cup {None} /\ hw \in BOOLEAN
  /\ wv \in [Pids -> {"none", "starting", "ready", "dead"}]
  /\ auto \in [Pids -> BOOLEAN]

\* The steps that touch wvkbd or what the daemon knows of it.
LEMMA WvkbdSteps ==
  ASSUME TypeOK, [Next]_vars
  PROVE  \/ UNCHANGED state
         \/ \E seen \in BOOLEAN : Spawned(seen)
         \/ Reaped \/ CommandSend \/ Ready \/ WvkbdExits
<1>1. kbd \in BOOLEAN /\ present \in BOOLEAN /\ hw \in BOOLEAN
  BY DEF TypeOK
<1>2. CASE Main
  BY <1>1, <1>2 DEF Main, MainInit, MainStart, Watchdog, MainStops, MainFinally, MainExit
<1>3. CASE Udev \/ TimerFires \/ Plug \/ Sigterm \/ Settle
  BY <1>3 DEF Udev, MonitorStart, UdevPoll, UdevSchedule, TimerFires, Plug, Sigterm, Settle
<1>4. CASE Timer
  BY <1>1, <1>4 DEF Timer, Rescan, RescanReap, RescanSpawn
<1>5. CASE Command
  BY <1>1, <1>5 DEF Command, CommandArrives, CommandEnsure
<1>6. QED
  BY <1>2, <1>3, <1>4, <1>5 DEF Next, vars

LEMMA StateTypeKept == ASSUME TypeOK, [Next]_vars PROVE StateType'
<1>1. StateType
  BY DEF TypeOK, StateType
<1>2. CASE UNCHANGED state
  BY <1>1, <1>2 DEF state, StateType
<1>3. ASSUME NEW seen \in BOOLEAN, Spawned(seen) PROVE StateType'
  BY <1>1, <1>3 DEF Spawned, StateType
<1>4. CASE Reaped
  BY <1>1, <1>4 DEF Reaped, StateType
<1>5. CASE CommandSend
  BY <1>1, <1>5 DEF CommandSend, StateType
<1>6. CASE Ready \/ WvkbdExits
  BY <1>1, <1>6 DEF Ready, WvkbdExits, StateType
<1>7. QED
  BY <1>2, <1>3, <1>4, <1>5, <1>6, WvkbdSteps

\* A spawn leaves a child behind.
LEMMA SpawnedChild == ASSUME NEW seen, Spawned(seen) PROVE proc' # None
BY DEF Spawned

LEMMA FlagsKept == ASSUME Flags, [Next]_vars PROVE Flags'
<1> USE DEF Flags, hardware, udev, timers, socket
<1>1. CASE Next
  <2>1. CASE MainInit
    BY <2>1 DEF MainInit
  <2>2. CASE MainStart
    BY <2>2 DEF MainStart
  <2>3. CASE Watchdog
    BY <2>3 DEF Watchdog
  <2>4. CASE MainStops
    BY <2>4 DEF MainStops
  <2>5. CASE MainFinally
    BY <2>5 DEF MainFinally
  <2>6. CASE MainExit
    BY <2>6 DEF MainExit
  <2>7. CASE MonitorStart
    BY <2>7 DEF MonitorStart
  <2>8. CASE UdevPoll
    BY <2>8 DEF UdevPoll
  <2>9. CASE UdevSchedule
    BY <2>9 DEF UdevSchedule
  <2>10. CASE TimerFires
    BY <2>10 DEF TimerFires
  <2>11. CASE Rescan
    BY <2>11 DEF Rescan
  <2>12. CASE RescanReap
    BY <2>12 DEF RescanReap
  <2>13. CASE RescanSpawn
    BY <2>13 DEF RescanSpawn
  <2>14. CASE CommandArrives
    BY <2>14 DEF CommandArrives
  <2>15. CASE CommandEnsure
    BY <2>15 DEF CommandEnsure
  <2>16. CASE CommandSend
    BY <2>16 DEF CommandSend
  <2>17. CASE Plug
    BY <2>17 DEF Plug
  <2>18. CASE Ready
    BY <2>18 DEF Ready
  <2>19. CASE WvkbdExits
    BY <2>19 DEF WvkbdExits
  <2>20. CASE Sigterm
    BY <2>20 DEF Sigterm
  <2>21. CASE Settle
    BY <2>21 DEF Settle
  <2>22. QED
    BY <1>1, <2>1, <2>2, <2>3, <2>4, <2>5, <2>6, <2>7, <2>8, <2>9, <2>10, <2>11,
       <2>12, <2>13, <2>14, <2>15, <2>16, <2>17, <2>18, <2>19, <2>20, <2>21
    DEF Next, Main, Udev, Timer, Command
<1>2. QED
  BY <1>1 DEF vars

LEMMA ControlKept == ASSUME Control, StateType, [Next]_vars PROVE Control'
<1> USE DEF Control, StateType, Free, hardware, udev, timers, state, socket
<1>1. CASE Next
  <2>1. CASE MainInit
    BY <2>1 DEF MainInit
  <2>2. CASE MainStart
    BY <2>2 DEF MainStart
  <2>3. CASE Watchdog
    BY <2>3 DEF Watchdog
  <2>4. CASE MainStops
    BY <2>4 DEF MainStops
  <2>5. CASE MainFinally
    BY <2>5 DEF MainFinally
  <2>6. CASE MainExit
    BY <2>6 DEF MainExit
  <2>7. CASE MonitorStart
    BY <2>7 DEF MonitorStart
  <2>8. CASE UdevPoll
    BY <2>8 DEF UdevPoll
  <2>9. CASE UdevSchedule
    BY <2>9 DEF UdevSchedule
  <2>10. CASE TimerFires
    BY <2>10 DEF TimerFires
  <2>11. CASE Rescan
    BY <2>11 DEF Rescan
  <2>12. CASE RescanReap
    BY <2>12 DEF RescanReap
  <2>13. CASE RescanSpawn
    BY <2>13 DEF RescanSpawn
  <2>14. CASE CommandArrives
    BY <2>14 DEF CommandArrives
  <2>15. CASE CommandEnsure
    <3>1. CASE ~Dead /\ spc' = "send" /\ lock' = "cmd" /\ fresh' = FALSE /\ UNCHANGED state
      BY <2>15, <3>1 DEF CommandEnsure, Dead
    <3>2. CASE Dead /\ Spawned(hw) /\ spc' = "send" /\ lock' = "cmd" /\ fresh' = TRUE
      <4>1. proc' # None
        BY <3>2, SpawnedChild
      <4>2. QED
        BY <2>15, <3>2, <4>1 DEF CommandEnsure
    <3>3. CASE spc' = "off" /\ UNCHANGED <<state, lock, fresh>>
      BY <2>15, <3>3 DEF CommandEnsure
    <3>4. QED
      BY <2>15, <3>1, <3>2, <3>3 DEF CommandEnsure
  <2>16. CASE CommandSend
    BY <2>16 DEF CommandSend
  <2>17. CASE Plug
    BY <2>17 DEF Plug
  <2>18. CASE Ready
    BY <2>18 DEF Ready
  <2>19. CASE WvkbdExits
    BY <2>19 DEF WvkbdExits
  <2>20. CASE Sigterm
    BY <2>20 DEF Sigterm
  <2>21. CASE Settle
    BY <2>21 DEF Settle
  <2>22. QED
    BY <1>1, <2>1, <2>2, <2>3, <2>4, <2>5, <2>6, <2>7, <2>8, <2>9, <2>10, <2>11,
       <2>12, <2>13, <2>14, <2>15, <2>16, <2>17, <2>18, <2>19, <2>20, <2>21
    DEF Next, Main, Udev, Timer, Command
<1>2. QED
  BY <1>1 DEF vars

\* Every variable keeps its type, and the lock is held by a command exactly
\* while its signal is outstanding, when there is a child to send it to.
THEOREM TypeCorrect == Spec => []TypeOK
<1>1. Init => TypeOK
  <2> SUFFICES ASSUME Init PROVE TypeOK
    OBVIOUS
  <2>1. wv \in [Pids -> {"none", "starting", "ready", "dead"}] /\ auto \in [Pids -> BOOLEAN]
    BY DEF Init
  <2>2. events \in 0 .. MaxEvents /\ waiting \in 0 .. MaxWaiting
    BY DEF Init
  <2>3. QED
    BY <2>1, <2>2 DEF Init, TypeOK, Free
<1>2. TypeOK <=> Flags /\ Control /\ StateType
  BY DEF TypeOK, Flags, Control, StateType
<1>3. ASSUME TypeOK, [Next]_vars PROVE TypeOK'
  <2>1. Flags' /\ Control' /\ StateType'
    BY <1>2, <1>3, FlagsKept, ControlKept, StateTypeKept
  <2>2. QED
    BY <2>1 DEF TypeOK, Flags, Control, StateType
<1>4. QED
  BY <1>1, <1>3, PTL DEF Spec

----------------------------------------------------------------------------
\* Why nobody spawns over a live child: a rescan has reaped it under the lock
\* that it still holds, and nothing holds the lock before the first child.
ReapedFirst ==
  /\ mpc = "init" => proc = None /\ lock = Free
  /\ lock = "spawn" => proc = None

LEMMA ReapedFirstKept ==
  ASSUME TypeOK, ReapedFirst, [Next]_vars
  PROVE  ReapedFirst'
<1> USE DEF ReapedFirst, Free, hardware, udev, timers, state, socket, Threads
<1>1. Control
  BY DEF TypeOK, Control
<1> USE <1>1 DEF Control
<1>2. CASE MainInit \/ Watchdog
  BY <1>2 DEF MainInit, Watchdog, Spawned
<1>3. CASE MainStart \/ MainStops \/ MainFinally \/ MainExit
  BY <1>3 DEF MainStart, MainStops, MainFinally, MainExit, Reaped
<1>4. CASE Udev \/ TimerFires
  BY <1>4 DEF Udev, MonitorStart, UdevPoll, UdevSchedule, TimerFires
<1>5. CASE Timer
  BY <1>5 DEF Timer, Rescan, RescanReap, RescanSpawn, Reaped
<1>6. CASE Command
  BY <1>6 DEF Command, CommandArrives, CommandEnsure, CommandSend
<1>7. CASE Plug \/ Ready \/ WvkbdExits \/ Sigterm \/ Settle
  BY <1>7 DEF Plug, Ready, WvkbdExits, Sigterm, Settle
<1>8. CASE UNCHANGED vars
  BY <1>8 DEF vars
<1>9. QED
  BY <1>2, <1>3, <1>4, <1>5, <1>6, <1>7, <1>8 DEF Next, Main

\* So a spawn overwrites state.proc only when the former child has exited and
\* been polled, or is gone.
LEMMA SpawnsOverDead ==
  ASSUME TypeOK, ReapedFirst, [Next]_vars
  PROVE  \/ UNCHANGED state
         \/ \E seen \in BOOLEAN : Spawned(seen) /\ Dead
         \/ Reaped \/ CommandSend \/ Ready \/ WvkbdExits
<1> USE DEF ReapedFirst, Dead
<1>1. kbd \in BOOLEAN /\ present \in BOOLEAN /\ hw \in BOOLEAN
  BY DEF TypeOK
<1>2. CASE Main
  BY <1>1, <1>2 DEF Main, MainInit, MainStart, Watchdog, MainStops, MainFinally, MainExit
<1>3. CASE Udev \/ TimerFires \/ Plug \/ Sigterm \/ Settle
  BY <1>3 DEF Udev, MonitorStart, UdevPoll, UdevSchedule, TimerFires, Plug, Sigterm, Settle
<1>4. CASE Timer
  BY <1>1, <1>4 DEF Timer, Rescan, RescanReap, RescanSpawn
<1>5. CASE Command
  BY <1>1, <1>5 DEF Command, CommandArrives, CommandEnsure
<1>6. QED
  BY <1>2, <1>3, <1>4, <1>5 DEF Next, vars

\* Whatever the watchdog, the rescans and the commands do to wvkbd, there is
\* never a live keyboard that the daemon does not own, nor one with the wrong
\* flag.  Overwriting state.proc ends nothing: it is the lock, held from a poll
\* or a reap to the spawn, that keeps a live child from being overwritten.
THEOREM OnlyOwnedKeyboards == Spec => []OnlyTheOwnedKeyboardLives
<1> USE DEF OnlyTheOwnedKeyboardLives, Alive, Running
<1>1. Init => OnlyTheOwnedKeyboardLives /\ ReapedFirst
  BY DEF Init, ReapedFirst
<1>2. ASSUME TypeOK, ReapedFirst, OnlyTheOwnedKeyboardLives, [Next]_vars
      PROVE  OnlyTheOwnedKeyboardLives'
  <2>1. StateType
    BY <1>2 DEF TypeOK, StateType
  <2>2. CASE UNCHANGED state
    BY <1>2, <2>2 DEF state
  <2>3. ASSUME NEW seen \in BOOLEAN, Spawned(seen), Dead PROVE OnlyTheOwnedKeyboardLives'
    BY <1>2, <2>1, <2>3 DEF StateType, Spawned, Dead
  <2>4. CASE Reaped
    BY <1>2, <2>1, <2>4 DEF StateType, Reaped
  <2>5. CASE CommandSend
    BY <1>2, <2>1, <2>5 DEF CommandSend, StateType
  <2>6. CASE Ready
    BY <1>2, <2>1, <2>6 DEF Ready, StateType
  <2>7. CASE WvkbdExits
    BY <1>2, <2>1, <2>7 DEF WvkbdExits, StateType
  <2>8. QED
    BY <1>2, <2>2, <2>3, <2>4, <2>5, <2>6, <2>7, SpawnsOverDead
<1>3. ASSUME TypeOK, ReapedFirst, [Next]_vars PROVE ReapedFirst'
  BY <1>3, ReapedFirstKept
<1>4. QED
  BY <1>1, <1>2, <1>3, TypeCorrect, PTL DEF Spec

----------------------------------------------------------------------------
\* The daemon knows no child without a process, and a command that is about to
\* signal has found it alive: it can only have exited since.
ChildKnown == proc # None => wv[proc] # "none"
SignalsLiveChild == spc = "send" => wv[proc] \in Running \/ excused
SendInv == ChildKnown /\ SignalsLiveChild

LEMMA SendInvariant == Spec => []SendInv
<1> USE DEF SendInv, ChildKnown, SignalsLiveChild, Running
<1>1. Init => SendInv
  BY DEF Init
<1>2. ASSUME TypeOK, SendInv, [Next]_vars PROVE SendInv'
  <2>1. StateType /\ Control
    BY <1>2 DEF TypeOK, StateType, Control
  <2>2. ChildKnown'
    <3>1. CASE UNCHANGED state
      BY <1>2, <3>1 DEF state
    <3>2. ASSUME NEW seen \in BOOLEAN, Spawned(seen) PROVE ChildKnown'
      BY <2>1, <3>2 DEF Spawned, StateType
    <3>3. CASE Reaped
      BY <3>3 DEF Reaped
    <3>4. CASE CommandSend
      BY <1>2, <2>1, <3>4 DEF CommandSend, StateType
    <3>5. CASE Ready
      BY <1>2, <2>1, <3>5 DEF Ready, StateType
    <3>6. CASE WvkbdExits
      BY <1>2, <2>1, <3>6 DEF WvkbdExits, StateType, Alive
    <3>7. QED
      BY <1>2, <3>1, <3>2, <3>3, <3>4, <3>5, <3>6, WvkbdSteps
  <2>3. SignalsLiveChild'
    <3> USE <1>2, <2>1 DEF Control, StateType, Free, state, socket
    <3>1. CASE Main
      BY <3>1 DEF Main, MainInit, MainStart, Watchdog, MainStops, MainFinally, MainExit
    <3>2. CASE Udev \/ TimerFires \/ Plug \/ Sigterm \/ Settle
      BY <3>2 DEF Udev, MonitorStart, UdevPoll, UdevSchedule, TimerFires, Plug, Sigterm, Settle
    <3>3. CASE Timer
      BY <3>3 DEF Timer, Rescan, RescanReap, RescanSpawn
    <3>4. CASE CommandArrives \/ CommandSend
      BY <3>4 DEF CommandArrives, CommandSend
    <3>5. CASE CommandEnsure
      <4>1. CASE ~Dead /\ spc' = "send" /\ UNCHANGED state
        BY <3>5, <4>1 DEF CommandEnsure, Dead
      <4>2. CASE Spawned(hw)
        BY <4>2 DEF Spawned
      <4>3. CASE spc' = "off"
        BY <4>3
      <4>4. QED
        BY <3>5, <4>1, <4>2, <4>3 DEF CommandEnsure
    <3>6. CASE Ready
      BY <3>6 DEF Ready
    <3>7. CASE WvkbdExits
      BY <3>7 DEF WvkbdExits, Alive
    <3>8. QED
      BY <3>1, <3>2, <3>3, <3>4, <3>5, <3>6, <3>7 DEF Next, Command, vars
  <2>4. QED
    BY <2>2, <2>3
<1>3. QED
  BY <1>1, <1>2, TypeCorrect, PTL DEF Spec

\* The answer "ok" is wrong only when wvkbd exits, or has not come up yet,
\* between _ensure_running and the signal, which the lock does not prevent.
THEOREM LostSignalsExcused == Spec => SignalLostOnlyInARace
<1>1. ASSUME TypeOK, SendInv, [Next]_vars
      PROVE  [CommandSend /\ lost' => excused \/ (~fresh /\ wv[proc] = "starting")]_vars
  BY <1>1 DEF SendInv, SignalsLiveChild, CommandSend, Running
<1>2. QED
  BY <1>1, TypeCorrect, SendInvariant, PTL DEF Spec, SignalLostOnlyInARace

----------------------------------------------------------------------------
(* The flag and the keyboards.                                             *)

\* A change of the keyboards that a rescan will still look at.
Outstanding == events > 0 \/ heard \/ armed \/ waiting > 0
Rescanning == lock \in {"reap", "spawn"}

\* Every way from an input event to wvkbd's flag: the event waits for a look,
\* the look has been taken and the respawn is under way, or the daemon knows.
ChangeReaches ==
  mpc \in {"start", "wait"} /\ ~missed =>
    \/ Outstanding
    \/ Rescanning /\ present = kbd
    \/ ~Rescanning /\ hw = kbd

\* Nothing is outstanding before somebody listens.
HeardFirst ==
  /\ mpc = "init" => ~monitor
  /\ ~monitor => ~Outstanding /\ ~Rescanning

FlagInv == ChangeReaches /\ HeardFirst

LEMMA FlagInvariant == Spec => []FlagInv
<1> USE DEF FlagInv, ChangeReaches, HeardFirst, Outstanding, Rescanning, Free
<1>1. Init => FlagInv
  BY DEF Init
<1>2. ASSUME TypeOK, FlagInv, [Next]_vars PROVE FlagInv'
  <2>1. Flags /\ Control /\ FlagInv
    BY <1>2 DEF TypeOK, Flags, Control
  <2> USE <2>1 DEF Flags, Control, hardware, udev, timers, state, socket, Threads
  <2>2. CASE MainInit
    BY <2>2 DEF MainInit, Spawned
  <2>3. CASE MainStart \/ MainStops \/ MainExit
    BY <2>3 DEF MainStart, MainStops, MainExit
  <2>4. CASE Watchdog
    BY <2>4 DEF Watchdog, Spawned
  <2>5. CASE MainFinally
    BY <2>5 DEF MainFinally, Reaped
  <2>6. CASE Udev \/ TimerFires
    BY <2>6 DEF Udev, MonitorStart, UdevPoll, UdevSchedule, TimerFires
  <2>7. CASE Rescan
    BY <2>7 DEF Rescan
  <2>8. CASE RescanReap
    BY <2>8 DEF RescanReap, Reaped
  <2>9. CASE RescanSpawn
    BY <2>9 DEF RescanSpawn, Spawned
  <2>10. CASE CommandArrives \/ CommandSend
    BY <2>10 DEF CommandArrives, CommandSend
  <2>11. CASE CommandEnsure
    BY <2>11 DEF CommandEnsure, Spawned
  <2>12. CASE Plug
    <3>1. CASE monitor /\ events' = events + 1 /\ UNCHANGED missed
      BY <2>12, <3>1 DEF Plug
    <3>2. CASE ~monitor /\ missed' = (mpc # "init")
      BY <2>12, <3>2 DEF Plug
    <3> QED BY <2>12, <3>1, <3>2 DEF Plug
  <2>13. CASE Ready \/ WvkbdExits \/ Sigterm \/ Settle
    BY <2>13 DEF Ready, WvkbdExits, Sigterm, Settle
  <2>14. CASE UNCHANGED vars
    BY <2>14 DEF vars
  <2> QED
    BY <1>2, <2>2, <2>3, <2>4, <2>5, <2>6, <2>7, <2>8, <2>9, <2>10, <2>11, <2>12, <2>13, <2>14
    DEF Next, Main, Timer, Command
<1> QED
  BY <1>1, <1>2, TypeCorrect, PTL DEF Spec

\* When no event, timer or rescan is on its way, the live wvkbd has the flag the
\* plugged keyboards call for: no interleaving of the udev thread, the timers it
\* cancels too late, the watchdog and the commands loses a change for good.
QuietFlagIsRight ==
  mpc = "wait" /\ ~missed /\ ~Outstanding /\ ~Rescanning
    => \A p \in Alive : auto[p] = ~kbd

THEOREM NoChangeForgotten == Spec => []QuietFlagIsRight
<1>1. FlagInv /\ OnlyTheOwnedKeyboardLives => QuietFlagIsRight
  BY DEF FlagInv, ChangeReaches, OnlyTheOwnedKeyboardLives, QuietFlagIsRight
<1> QED
  BY <1>1, FlagInvariant, OnlyOwnedKeyboards, PTL
=============================================================================
