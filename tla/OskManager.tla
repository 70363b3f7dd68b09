----------------------------- MODULE OskManager -----------------------------
(***************************************************************************)
(* osk-manager: the daemon that owns the on-screen keyboard (wvkbd).  Four *)
(* kinds of thread share one lock: the main thread (start, watchdog,       *)
(* shutdown), the udev thread, the debounce timers it starts, and the      *)
(* socket thread that turns commands into signals.  wvkbd itself may exit  *)
(* at any time, and keyboards come and go.                                 *)
(*                                                                         *)
(* A critical section is one step, except where it waits (reaping a child, *)
(* the sleep after a respawn): there the lock stays held between steps.    *)
(***************************************************************************)
EXTENDS Integers, FiniteSets

CONSTANTS
  Pids,           \* process ids wvkbd may get
  None,
  MaxEvents,      \* bound on the udev events that wait in the netlink queue
  MaxWaiting,     \* bound on the fired timers that wait for the lock
  SpawnFails      \* may Popen raise?

ASSUME NoneAssumption == None \notin Pids
ASSUME BoundsAssumption == MaxEvents \in Nat \ {0} /\ MaxWaiting \in Nat \ {0}
ASSUME SpawnFailsAssumption == SpawnFails \in BOOLEAN

VARIABLES
  kbd,            \* hardware: is a keyboard plugged in?
  events,         \* input add/remove events queued for the monitor
  monitor,        \* has the udev thread started its monitor?
  heard,          \* the udev thread has an event in hand
  armed,          \* _debounce_timer is counting down
  waiting,        \* timer callbacks that have begun and want the lock
  lock,           \* who holds the lock over several steps
  proc, hw,       \* WvkbdState
  wv,             \* per pid: "none", "starting", "ready" or "dead" (unreaped)
  auto,           \* per pid: was it started with --auto?
  mpc,            \* main thread
  present,        \* what the running rescan has seen
  spc,            \* socket thread
  fresh,          \* did this command respawn wvkbd (and sleep after it)?
  stop,           \* stop_event
  missed,         \* history: since the last scan the keyboards changed unheard,
                  \* or what it saw was lost with a failing spawn
  lost,           \* history: the last command answered ok without an effect
  excused,        \* history: wvkbd exited by itself during the last command
  settled         \* from here on no keyboard, exit, command or SIGTERM

hardware == <<kbd, events, missed>>
udev == <<monitor, heard>>
timers == <<armed, waiting>>
state == <<proc, hw, wv, auto>>
socket == <<spc, fresh, lost, excused>>
vars == <<hardware, udev, timers, lock, state, mpc, present, socket, stop,
          settled>>

Free == "free"
Running == {"starting", "ready"}
Alive == {p \in Pids : wv[p] \in Running}

Init ==
  /\ kbd \in BOOLEAN /\ events = 0 /\ missed = FALSE
  /\ monitor = FALSE /\ heard = FALSE
  /\ armed = FALSE /\ waiting = 0
  /\ lock = Free
  /\ proc = None /\ hw = FALSE
  /\ wv = [p \in Pids |-> "none"] /\ auto = [p \in Pids |-> FALSE]
  /\ mpc = "init" /\ present = FALSE
  /\ spc = "off" /\ fresh = FALSE /\ lost = FALSE /\ excused = FALSE
  /\ stop = FALSE /\ settled = FALSE

----------------------------------------------------------------------------
(* wvkbd's life.                                                           *)

\* _spawn_wvkbd: --auto exactly when no hardware keyboard was seen.  Only
\* state.proc is overwritten: a former child that lives goes on living, one that
\* has exited has been polled, and its pid is free again.
Spawned(seen) ==
  \E p \in Pids :
    /\ wv[p] = "none" \/ (p = proc /\ wv[p] = "dead")
    /\ proc' = p
    /\ hw' = seen
    /\ wv' = [q \in Pids |-> IF q = p THEN "starting"
                             ELSE IF q = proc /\ wv[q] = "dead" THEN "none" ELSE wv[q]]
    /\ auto' = [auto EXCEPT ![p] = ~seen]

Dead_NoneOnly == proc = None                \* mutant: the child is not polled

\* poll() is not None, or there is no child.
Dead == IF proc = None THEN TRUE ELSE wv[proc] = "dead"

\* _reap_wvkbd: SIGTERM, wait, SIGKILL; the child is gone and forgotten.
Reaped ==
  /\ wv' = IF proc = None THEN wv ELSE [wv EXCEPT ![proc] = "none"]
  /\ proc' = None
  /\ UNCHANGED <<hw, auto>>

----------------------------------------------------------------------------
(* Main thread.                                                            *)

\* The first scan and the first child; a failing Popen ends the program.
MainInit ==
  /\ mpc = "init"
  /\ missed' = FALSE
  /\ \/ Spawned(kbd) /\ mpc' = "start"
     \/ SpawnFails /\ mpc' = "exited" /\ UNCHANGED state
  /\ UNCHANGED <<kbd, events, udev, timers, lock, present, socket, stop, settled>>

MainStart ==
  /\ mpc = "start"
  /\ mpc' = "wait"
  /\ spc' = "accept"
  /\ UNCHANGED <<hardware, udev, timers, lock, state, present, fresh, lost,
                 excused, stop, settled>>

\* Once a second: respawn a child that has exited (but not one that is None).
Watchdog ==
  /\ mpc = "wait" /\ ~stop
  /\ lock = Free
  /\ proc # None /\ Dead
  /\ \/ Spawned(hw) /\ UNCHANGED mpc
     \/ SpawnFails /\ ~settled /\ mpc' = "finally" /\ UNCHANGED state
  /\ UNCHANGED <<hardware, udev, timers, lock, present, socket, stop, settled>>

MainStops ==
  /\ mpc = "wait" /\ stop
  /\ mpc' = "finally"
  /\ UNCHANGED <<hardware, udev, timers, lock, state, present, socket, stop, settled>>

\* Shutdown: cancel a timer that still counts down, then reap.
MainFinally ==
  /\ mpc = "finally"
  /\ lock = Free
  /\ armed' = FALSE
  /\ Reaped
  /\ mpc' = "join"
  /\ UNCHANGED <<hardware, udev, waiting, lock, present, socket, stop, settled>>

\* join(timeout) and return: the daemon threads go with the process.
MainExit ==
  /\ mpc = "join"
  /\ mpc' = "exited"
  /\ UNCHANGED <<hardware, udev, timers, lock, state, present, socket, stop, settled>>

Threads == mpc \in {"wait", "finally", "join"}

----------------------------------------------------------------------------
(* udev thread and debounce timers.                                        *)

MonitorStart ==
  /\ Threads /\ ~monitor
  /\ monitor' = TRUE
  /\ UNCHANGED <<hardware, heard, timers, lock, state, mpc, present, socket, stop, settled>>

\* monitor.poll returns an event; stop_event is looked at before the lock.
UdevPoll ==
  /\ Threads /\ monitor /\ ~stop
  /\ ~heard /\ events > 0
  /\ events' = events - 1
  /\ heard' = TRUE
  /\ UNCHANGED <<kbd, missed, monitor, timers, lock, state, mpc, present, socket,
                 stop, settled>>

UdevSchedule_OnlyCancels ==                 \* mutant: no new timer
  /\ Threads /\ heard /\ lock = Free
  /\ heard' = FALSE
  /\ armed' = FALSE
  /\ UNCHANGED <<hardware, monitor, waiting, lock, state, mpc, present, socket,
                 stop, settled>>

\* _schedule_rescan cancels the timer and starts a new one.
UdevSchedule ==
  /\ Threads /\ heard
  /\ lock = Free
  /\ heard' = FALSE
  /\ armed' = TRUE
  /\ UNCHANGED <<hardware, monitor, waiting, lock, state, mpc, present, socket,
                 stop, settled>>

\* From here on cancel() has no effect on this callback.
TimerFires ==
  /\ Threads /\ armed
  /\ waiting < MaxWaiting
  /\ armed' = FALSE
  /\ waiting' = waiting + 1
  /\ UNCHANGED <<hardware, udev, lock, state, mpc, present, socket, stop, settled>>

\* _rescan_and_reconfigure takes the lock and scans; the child stays when the
\* answer has not changed.
Rescan ==
  /\ Threads /\ waiting > 0
  /\ lock = Free
  /\ waiting' = waiting - 1
  /\ present' = kbd
  /\ missed' = FALSE
  /\ lock' = IF kbd = hw /\ proc # None THEN Free ELSE "reap"
  /\ UNCHANGED <<kbd, events, udev, armed, state, mpc, socket, stop, settled>>

RescanReap ==
  /\ Threads /\ lock = "reap"
  /\ Reaped
  /\ lock' = "spawn"
  /\ UNCHANGED <<hardware, udev, timers, mpc, present, socket, stop, settled>>

\* A failing Popen leaves no child, which the watchdog lets be, and the old hw.
RescanSpawn ==
  /\ Threads /\ lock = "spawn"
  /\ lock' = Free
  /\ \/ Spawned(present) /\ UNCHANGED missed
     \/ SpawnFails /\ ~settled /\ missed' = TRUE /\ UNCHANGED state
  /\ UNCHANGED <<kbd, events, udev, timers, mpc, present, socket, stop, settled>>

----------------------------------------------------------------------------
(* Socket thread: show, hide and toggle are one signal each.               *)

\* accept and recv; stop_event is looked at before, not after.
CommandArrives ==
  /\ Threads /\ spc = "accept" /\ ~stop /\ ~settled
  /\ spc' = "want"
  /\ lost' = FALSE /\ excused' = FALSE
  /\ UNCHANGED <<hardware, udev, timers, lock, state, mpc, present, fresh, stop,
                 settled>>

CommandEnsure_NoLock ==           \* mutant: only the signal is under the lock
  /\ Threads /\ spc = "want"
  /\ \/ Dead /\ Spawned(hw) /\ UNCHANGED <<spc, lock, fresh>>
     \/ ~Dead /\ lock = Free /\ spc' = "send" /\ lock' = "cmd" /\ fresh' = FALSE
        /\ UNCHANGED state
  /\ UNCHANGED <<hardware, udev, timers, mpc, present, lost, excused, stop, settled>>

\* _ensure_running under the lock; a failing Popen ends the socket thread.
CommandEnsure ==
  /\ Threads /\ spc = "want"
  /\ lock = Free
  /\ \/ ~Dead /\ spc' = "send" /\ lock' = "cmd" /\ fresh' = FALSE /\ UNCHANGED state
     \/ Dead /\ Spawned(hw) /\ spc' = "send" /\ lock' = "cmd" /\ fresh' = TRUE
     \/ Dead /\ SpawnFails /\ ~settled /\ spc' = "off" /\ UNCHANGED <<state, lock, fresh>>
  /\ UNCHANGED <<hardware, udev, timers, mpc, present, lost, excused, stop, settled>>

CommandSend_KeepsLock ==                    \* mutant: the lock is not released
  /\ Threads /\ spc = "send"
  /\ fresh => wv[proc] # "starting"
  /\ lost' = (wv[proc] # "ready")
  /\ spc' = "accept" /\ fresh' = FALSE
  /\ UNCHANGED <<hardware, udev, timers, lock, state, mpc, present, excused, stop,
                 settled>>

\* send_signal, after the sleep when the child is fresh.  Popen swallows the
\* signal of a child that has exited; one without handlers is killed by it.
CommandSend ==
  /\ Threads /\ spc = "send"
  /\ fresh => wv[proc] # "starting"
  /\ lost' = (wv[proc] # "ready")
  /\ wv' = IF wv[proc] = "starting" THEN [wv EXCEPT ![proc] = "dead"] ELSE wv
  /\ spc' = "accept"
  /\ lock' = Free
  /\ fresh' = FALSE
  /\ UNCHANGED <<hardware, udev, timers, proc, hw, auto, mpc, present, excused,
                 stop, settled>>

----------------------------------------------------------------------------
(* Environment.                                                            *)

\* The kernel queues the event only for a monitor that listens.
Plug ==
  /\ ~settled /\ mpc # "exited"
  /\ kbd' = ~kbd
  /\ IF monitor
       THEN events < MaxEvents /\ events' = events + 1 /\ UNCHANGED missed
       ELSE missed' = (mpc # "init") /\ UNCHANGED events
  /\ UNCHANGED <<udev, timers, lock, state, mpc, present, socket, stop, settled>>

\* wvkbd installs its handlers.
Ready ==
  /\ \E p \in Pids : wv[p] = "starting" /\ wv' = [wv EXCEPT ![p] = "ready"]
  /\ UNCHANGED <<hardware, udev, timers, lock, proc, hw, auto, mpc, present,
                 socket, stop, settled>>

\* wvkbd exits by itself; the daemon's child stays a zombie until it is polled.
WvkbdExits ==
  /\ ~settled
  /\ \E p \in Alive : wv' = [wv EXCEPT ![p] = IF p = proc THEN "dead" ELSE "none"]
  /\ excused' = (excused \/ spc = "send")
  /\ UNCHANGED <<hardware, udev, timers, lock, proc, hw, auto, mpc, present,
                 spc, fresh, lost, stop, settled>>

Sigterm ==
  /\ ~settled /\ Threads /\ ~stop
  /\ stop' = TRUE
  /\ UNCHANGED <<hardware, udev, timers, lock, state, mpc, present, socket, settled>>

Settle ==
  /\ ~settled /\ ~stop /\ mpc = "wait"
  /\ settled' = TRUE
  /\ UNCHANGED <<hardware, udev, timers, lock, state, mpc, present, socket, stop>>

----------------------------------------------------------------------------
Main == MainInit \/ MainStart \/ Watchdog \/ MainStops \/ MainFinally \/ MainExit
Udev == MonitorStart \/ UdevPoll \/ UdevSchedule
Timer == Rescan \/ RescanReap \/ RescanSpawn
Command == CommandArrives \/ CommandEnsure \/ CommandSend

Next == Main \/ Udev \/ TimerFires \/ Timer \/ Command
        \/ Plug \/ Ready \/ WvkbdExits \/ Sigterm \/ Settle

Spec == Init /\ [][Next]_vars

\* Every thread runs; nobody holds the lock for long, so a thread that wants
\* it gets it.
FairSpec ==
  /\ Spec
  /\ WF_vars(MainInit) /\ WF_vars(MainStart) /\ SF_vars(Watchdog)
  /\ WF_vars(MonitorStart) /\ WF_vars(UdevPoll) /\ SF_vars(UdevSchedule) /\ WF_vars(TimerFires)
  /\ SF_vars(Timer) /\ SF_vars(CommandEnsure) /\ WF_vars(CommandSend)
  /\ WF_vars(Ready)

----------------------------------------------------------------------------
TypeOK ==
  /\ kbd \in BOOLEAN /\ events \in 0 .. MaxEvents /\ missed \in BOOLEAN
  /\ monitor \in BOOLEAN /\ heard \in BOOLEAN
  /\ armed \in BOOLEAN /\ waiting \in 0 .. MaxWaiting
  /\ lock \in {Free, "reap", "spawn", "cmd"}
  /\ proc \in Pids \cup {None} /\ hw \in BOOLEAN
  /\ wv \in [Pids -> {"none", "starting", "ready", "dead"}]
  /\ auto \in [Pids -> BOOLEAN]
  /\ mpc \in {"init", "start", "wait", "finally", "join", "exited"}
  /\ present \in BOOLEAN
  /\ spc \in {"off", "accept", "want", "send"}
  /\ mpc \in {"init", "start"} => spc = "off"
  /\ (spc = "send") <=> (lock = "cmd")
  /\ spc = "send" => proc # None
  /\ fresh \in BOOLEAN /\ lost \in BOOLEAN /\ excused \in BOOLEAN
  /\ stop \in BOOLEAN /\ settled \in BOOLEAN

\* The watchdog, a rescan and a command, each of which may start a wvkbd and
\* overwrite state.proc, never leave two keyboards on the screen, nor one the
\* daemon has forgotten: every live wvkbd is state.proc and carries the flag
\* that state.hw_kbd_present stands for.
OnlyTheOwnedKeyboardLives ==
  \A p \in Alive : p = proc /\ auto[p] = ~hw

\* A command that answers ok without an effect found wvkbd exiting under its
\* hands, or just started by another thread: never one that was already gone,
\* which is all that _ensure_running achieves.  Both exceptions are less than the
\* repository claims: osk-manager/README.md:68-70 has the first retried (but
\* send_signal raises nothing when the child has exited), and the comment at
\* osk-manager.py:174-176 excludes the second (but the watchdog does not sleep).
SignalLostOnlyInARace ==
  [][CommandSend /\ lost' => excused \/ (~fresh /\ wv[proc] = "starting")]_vars

Converged == proc # None /\ wv[proc] = "ready" /\ auto[proc] = ~kbd

\* When things calm down, a running wvkbd has the flag that the plugged
\* keyboards call for, however events, timers, exits and commands interleaved,
\* unless a change fell between the first scan and the start of the monitor, or
\* the last rescan was left without a child.
FlagFollowsKeyboards == (settled /\ ~missed) ~> Converged
=============================================================================
