---------------------------- MODULE FishMonitor ----------------------------
(***************************************************************************)
(* fish-monitor: one loop that sweeps the old sockets, starts fish, waits  *)
(* for it, and starts it again after a crash or when the operator asks; a  *)
(* handler for SIGTERM and SIGINT that takes fish down; and the status     *)
(* file that waybar shows.                                                 *)
(*                                                                         *)
(* Python runs the handler between any two steps of the loop, on top of    *)
(* them, and it does not return to them: it ends in sys.exit, or in an     *)
(* OSError that one try of the loop catches (a FileNotFoundError, which    *)
(* another one would catch, is left out: write_status makes the directory  *)
(* first).  Of the library the model has what the program relies on:       *)
(* Popen.wait holds a lock while it waits, and poll and wait learn nothing *)
(* while another frame holds it; a text file is emptied when it is opened  *)
(* and filled when it is closed, also by an exception.  fish itself, the   *)
(* terminal and the session are not in the repository.                     *)
(***************************************************************************)
EXTENDS Integers

CONSTANTS
  Pids,           \* process ids fish may get
  None,
  OsErrors,       \* may the status file fail to be written, or the fork fail?
  MaxSignals      \* bound: signals in the life of one monitor

ASSUME NoneAssumption == None \notin Pids
ASSUME OsErrorsAssumption == OsErrors \in BOOLEAN
ASSUME MaxSignalsAssumption == MaxSignals \in Nat

States == {"starting", "running", "crashed", "stopped"}  \* write_status(state)
Steps == States \cup {"cleanup", "popen", "assign", "wait", "prompt", "notify",
                      "sleep", "gone"}

VARIABLES
  pc,             \* the loop of main; "starting" ... are its write_status calls
  half,           \* inside such a call: the file is open, and empty
  child, rc,      \* main's child, and what Popen knows of its exit
  born,           \* what Popen has forked and main not yet bound to child
  handler,        \* _shutdown, on top of the loop
  locked,         \* does the loop below it hold Popen's lock?
  signals,        \* signals received
  fish,           \* the processes
  sockets,        \* those whose /tmp/fish.sock* is there
  strays,         \* history: fish that outlived the monitor that started them
  status,         \* status.json
  installed       \* is FISH_BIN there?

main == <<pc, half, child, rc, born>>
shutdown == <<handler, locked, signals>>
world == <<fish, sockets, strays>>
vars == <<main, shutdown, world, status, installed>>

Alive == {p \in Pids : fish[p] = "alive"}

Init ==
  /\ pc = "cleanup" /\ half = FALSE
  /\ child = None /\ rc = "unset" /\ born = None
  /\ handler = "none" /\ locked = FALSE /\ signals = 0
  /\ fish = [p \in Pids |-> "none"] /\ sockets = {} /\ strays = {}
  /\ status = "none"
  /\ installed \in BOOLEAN

----------------------------------------------------------------------------
(* The loop.                                                               *)

\* The process ends; what is left of fish belongs to init, which reaps the dead.
Gone ==
  /\ pc' = "gone" /\ half' = FALSE
  /\ child' = None /\ rc' = "unset" /\ born' = None
  /\ handler' = "none" /\ locked' = FALSE /\ signals' = 0
  /\ fish' = [p \in Pids |-> IF fish[p] = "alive" THEN "alive" ELSE "none"]
  /\ strays' = Alive
  /\ UNCHANGED <<sockets, installed>>

Loop(step) == pc = step /\ handler = "none"

CleanupSockets ==
  /\ Loop("cleanup")
  /\ sockets' \in SUBSET sockets             \* a failing unlink is passed over
  /\ pc' = "starting"
  /\ UNCHANGED <<half, child, rc, born, shutdown, fish, strays, status, installed>>

After == [starting |-> "popen", running |-> "wait", stopped |-> "prompt",
          crashed |-> "notify"]

WriteStatus ==
  /\ pc \in States /\ handler = "none"
  /\ \/ ~half /\ half' = TRUE /\ status' = "empty" /\ UNCHANGED pc
     \/ half /\ half' = FALSE /\ status' = pc /\ pc' = After[pc]
  /\ UNCHANGED <<child, rc, born, shutdown, world, installed>>

\* An OSError in write_status, or one of Popen that is not caught, ends main.
Raise ==
  /\ OsErrors
  /\ pc \in States \cup {"popen"} /\ handler = "none"
  /\ Gone
  /\ UNCHANGED status

Popen_MissingRuns ==                        \* mutant: goes on without a process
  /\ Loop("popen")
  /\ \/ ~installed /\ pc' = "running" /\ UNCHANGED <<born, fish>>
     \/ /\ installed /\ pc' = "assign"
        /\ \E p \in Pids : /\ fish[p] = "none"
                           /\ born' = p
                           /\ fish' = [fish EXCEPT ![p] = "alive"]
  /\ UNCHANGED <<half, child, rc, shutdown, sockets, strays, status, installed>>

\* A missing binary goes the way of a crash; child keeps what it was.
Popen ==
  /\ Loop("popen")
  /\ \/ ~installed /\ pc' = "crashed" /\ UNCHANGED <<born, fish>>
     \/ /\ installed /\ pc' = "assign"
        /\ \E p \in Pids : /\ fish[p] = "none"
                           /\ born' = p
                           /\ fish' = [fish EXCEPT ![p] = "alive"]
  /\ UNCHANGED <<half, child, rc, shutdown, sockets, strays, status, installed>>

Assign ==
  /\ Loop("assign")
  /\ child' = born /\ rc' = "unset" /\ born' = None
  /\ pc' = "running"
  /\ UNCHANGED <<half, shutdown, world, status, installed>>

\* waitpid reaps a process that has ended.
Reap == fish[child] \in {"zero", "nonzero"} /\ rc' = fish[child]
        /\ fish' = [fish EXCEPT ![child] = "none"]

Wait_Impatient ==                           \* mutant: wait gives up on a live fish
  /\ Loop("wait")
  /\ \/ Reap /\ pc' = IF rc' = "zero" THEN "stopped" ELSE "crashed"
     \/ fish[child] = "alive" /\ pc' = "crashed" /\ UNCHANGED <<rc, fish>>
  /\ UNCHANGED <<half, child, born, shutdown, sockets, strays, status, installed>>

Wait_Swapped ==                             \* mutant: the prompt after a crash
  /\ Loop("wait")
  /\ Reap
  /\ pc' = IF rc' = "zero" THEN "crashed" ELSE "stopped"
  /\ UNCHANGED <<half, child, born, shutdown, sockets, strays, status, installed>>

Wait ==
  /\ Loop("wait")
  /\ Reap
  /\ pc' = IF rc' = "zero" THEN "stopped" ELSE "crashed"
  /\ UNCHANGED <<half, child, born, shutdown, sockets, strays, status, installed>>

\* ENTER starts over, Ctrl+D returns from main.
Prompt ==
  /\ Loop("prompt")
  /\ \/ /\ pc' = "cleanup"
        /\ UNCHANGED <<half, child, rc, born, shutdown, world, installed>>
     \/ Gone
  /\ UNCHANGED status

\* notify-send has 5 seconds, then 3 seconds pass.
NotifyAndSleep ==
  /\ pc \in {"notify", "sleep"} /\ handler = "none"
  /\ pc' = IF pc = "notify" THEN "sleep" ELSE "cleanup"
  /\ UNCHANGED <<half, child, rc, born, shutdown, world, status, installed>>

----------------------------------------------------------------------------
(* _shutdown.                                                              *)

\* A signal, also while an earlier one is handled.  The loop is inside the
\* locked part of wait for most of its waiting.
Signal ==
  /\ pc # "gone" /\ signals < MaxSignals
  /\ signals' = signals + 1
  /\ handler' = "poll"
  /\ locked' \in {locked} \cup IF Loop("wait") \/ handler \in {"poll", "wait"}
                              THEN {TRUE} ELSE {}
  /\ UNCHANGED <<main, world, status, installed>>

HandlerReaps == ~locked /\ Reap /\ handler' = "write"

HandlerPoll_NeedsLock ==                    \* mutant: not to know means it has ended
  /\ handler = "poll"
  /\ \/ /\ child = None \/ rc # "unset" \/ locked
        /\ handler' = "write" /\ UNCHANGED <<fish, rc>>
     \/ child # None /\ rc = "unset" /\ HandlerReaps
     \/ /\ child # None /\ rc = "unset" /\ ~locked /\ fish[child] = "alive"
        /\ handler' = "wait"
        /\ UNCHANGED <<fish, rc>>
  /\ UNCHANGED <<pc, half, child, born, locked, signals, sockets, strays, status,
                 installed>>

\* if child and child.poll() is None: child.terminate()
HandlerPoll ==
  /\ handler = "poll"
  /\ \/ /\ child = None \/ rc # "unset"
        /\ handler' = "write" /\ UNCHANGED <<fish, rc>>
     \/ child # None /\ rc = "unset" /\ HandlerReaps
     \/ /\ child # None /\ rc = "unset" /\ (locked \/ fish[child] = "alive")
        /\ handler' = "wait"
        /\ UNCHANGED <<fish, rc>>
  /\ UNCHANGED <<pc, half, child, born, locked, signals, sockets, strays, status,
                 installed>>

HandlerWait_NoTimeout ==                    \* mutant: child.wait()
  /\ handler = "wait"
  /\ HandlerReaps
  /\ UNCHANGED <<pc, half, child, born, locked, signals, sockets, strays, status,
                 installed>>

\* child.wait(timeout=5): under the lock it always takes the five seconds.
HandlerWait ==
  /\ handler = "wait"
  /\ \/ HandlerReaps
     \/ (locked \/ fish[child] = "alive") /\ handler' = "kill" /\ UNCHANGED <<fish, rc>>
  /\ UNCHANGED <<pc, half, child, born, locked, signals, sockets, strays, status,
                 installed>>

HandlerKill ==
  /\ handler = "kill"
  /\ fish' = [fish EXCEPT ![child] = IF @ = "alive" THEN "nonzero" ELSE @]
  /\ handler' = "write"
  /\ UNCHANGED <<main, locked, signals, sockets, strays, status, installed>>

\* write_status("stopped") and sys.exit.  If the loop was inside write_status,
\* its file is closed on the way out, and what it had written comes last.
HandlerExit ==
  /\ handler = "write"
  /\ status' \in {"stopped"} \cup (IF half THEN {pc} ELSE {})
                             \cup (IF OsErrors THEN {status, "empty"} ELSE {})
  /\ Gone

\* If write_status("stopped") fails while the loop is at an unlink, the sweep's
\* own "except OSError" catches that: the sweep and the loop go on.
HandlerSwallowed ==
  /\ handler = "write" /\ OsErrors
  /\ pc = "cleanup" /\ sockets # {}
  /\ handler' = "none" /\ locked' = FALSE
  /\ status' \in {status, "empty"}
  /\ UNCHANGED <<main, signals, world, installed>>

----------------------------------------------------------------------------
(* fish, the terminal and the session.                                     *)

FishBinds ==
  \E p \in Alive \ sockets :
    /\ sockets' = sockets \cup {p}
    /\ UNCHANGED <<main, shutdown, fish, strays, status, installed>>

\* It exits, crashes or obeys a signal, and may leave its socket behind.
FishEnds ==
  \E p \in Alive :
    /\ \E how \in {"zero", "nonzero"} :
         fish' = [fish EXCEPT ![p] = IF p \in strays THEN "none" ELSE how]
    /\ sockets' \in {sockets, sockets \ {p}}
    /\ strays' = strays \ {p}
    /\ UNCHANGED <<main, shutdown, status, installed>>

\* The terminal is closed (SIGHUP is not handled), or the monitor is killed.
Hangup ==
  /\ pc # "gone"
  /\ Gone
  /\ UNCHANGED status

\* The next session starts the next monitor (bound: an id for its fish is left).
NewSession ==
  /\ pc = "gone"
  /\ \E p \in Pids : fish[p] = "none"
  /\ pc' = "cleanup"
  /\ UNCHANGED <<half, child, rc, born, shutdown, world, status, installed>>

LoopStep == CleanupSockets \/ WriteStatus \/ Popen \/ Assign \/ Wait \/ NotifyAndSleep
HandlerStep == HandlerPoll \/ HandlerWait \/ HandlerKill \/ HandlerExit
               \/ HandlerSwallowed

Next ==
  \/ LoopStep \/ Prompt \/ Raise \/ Signal \/ HandlerStep
  \/ FishBinds \/ FishEnds \/ Hangup \/ NewSession

Spec == Init /\ [][Next]_vars

\* Both pieces of Python run on; their waits and notify-send are bounded.  fish
\* need never end, and nobody need answer the prompt.
FairSpec == Spec /\ WF_vars(LoopStep) /\ WF_vars(HandlerStep)

----------------------------------------------------------------------------
TypeOK ==
  /\ pc \in Steps /\ half \in BOOLEAN
  /\ child \in Pids \cup {None} /\ born \in Pids \cup {None}
  /\ rc \in {"unset", "zero", "nonzero"}
  /\ handler \in {"none", "poll", "wait", "kill", "write"} /\ locked \in BOOLEAN
  /\ signals \in 0 .. MaxSignals
  /\ fish \in [Pids -> {"none", "alive", "zero", "nonzero"}]
  /\ sockets \subseteq Pids /\ strays \subseteq Alive
  /\ status \in States \cup {"none", "empty"}
  /\ installed \in BOOLEAN
  /\ half => pc \in States
  /\ pc \in {"running", "wait"} => child # None
  /\ pc = "gone" => handler = "none"
  /\ pc = "assign" <=> born # None

(* However the shutdown interleaves with the loop, also under the loop's lock
   and when a second signal interrupts the first: the handler leaves no fish of
   its session alive, but for the one a signal found between its fork and
   "child =" (fish-monitor.py:77-87, 98).                                  *)
EndsWithItsFish ==
  [][handler = "write" /\ pc' = "gone" =>
       \A p \in Pids : fish'[p] = "alive" =>
         p \in strays \/ (pc = "assign" /\ p = born)]_vars

(* The sweep before a start (fish-monitor.py:52-59, 93) takes a socket from no
   fish that is alive, but for one that outlived an earlier monitor.       *)
CleanupSparesSupervised ==
  [][\A p \in sockets \ sockets' : fish'[p] = "alive" => p \in strays]_vars

(* After a crash fish is running again, without anyone's doing, or the
   monitor has ended (fish-monitor.py:121-127).                            *)
RestartsAfterCrash ==
  pc = "wait" /\ handler = "none" /\ fish[child] = "nonzero"
    ~> pc \in {"running", "gone"}

(* A signal ends the monitor, even if fish ignores SIGTERM and although the
   handler can learn nothing of a fish the loop waits for (lines 77-87): only
   a status file that cannot be written lets the sweep go on instead, which
   "received signal ..., shutting down" (line 78) does not say.            *)
ShutdownEnds == handler # "none" ~> pc = "gone" \/ (OsErrors /\ Loop("cleanup"))
=============================================================================
