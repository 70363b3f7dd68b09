------------------------------ MODULE Explorer ------------------------------
(***************************************************************************)
(* mdmx-explorer: the mount watcher that turns /proc/self/mountinfo into   *)
(* tabs, and the runner that mounts network shares and takes them down,    *)
(* itself (sshfs) or through the pkexec helper mdmx-explorer-mount.        *)
(*                                                                         *)
(* One GUI thread.  It handles events in its own loop and in the loops of  *)
(* dialogs and message boxes, and blocks while it waits for a command; the *)
(* mount table changes under it at any time.                               *)
(***************************************************************************)
EXTENDS Sequences, Integers

CONSTANTS
  Sticks,         \* paths the automounter uses: /run/media/<label>-<device>
  Partitions,     \* the same for rootfsA-*, rootfsB-* and userdata-*
  Shares,         \* paths of network shares: /run/media/net.<name>
  MaxDepth,       \* bound: file systems stacked on one path
  NoPath          \* the empty string

Paths == Sticks \cup Partitions \cup Shares

ASSUME PathsAssumption ==
  /\ Sticks \cap Shares = {} /\ Sticks \cap Partitions = {} /\ Partitions \cap Shares = {}
  /\ NoPath \notin Paths
ASSUME MaxDepthAssumption == MaxDepth \in Nat \ {0}

\* "fuse" is sshfs, "kernel" CIFS or NFS, "disk" an automounted partition.
Kinds == {"fuse", "kernel", "disk"}
NetKinds == {"fuse", "kernel"}

\* The commands the runner starts on a share.
Commands == [do : {"mount"}, kind : NetKinds, at : Shares]
            \cup [do : {"fusermount"}, kind : {"fuse"}, at : Shares]

Loops == {"idle", "dialog", "warn"}      \* the GUI thread handles events
GuiSteps == Loops \cup {"closed", "parse", "run", "wait", "fusermount", "helper"}

VARIABLES
  mounts,         \* the file systems on each path, the visible one first
  changed,        \* has the table changed since the watcher's poll?
  active,         \* has the poll been answered, the notifier not yet run?
  known,          \* MountWatcher._known
  blind,          \* did the last look at mountinfo fail?
  tabs,           \* the keys of MainWindow._dynamic_tabs
  gui,            \* where the GUI thread is
  cmd,            \* the command it works on
  running,        \* is that command still under way?
  strays,         \* commands that outlived the runner's patience
  settled         \* from here on the table and the operator keep still

watcher == <<changed, active, known, blind>>
runner == <<cmd, running, strays>>
vars == <<mounts, watcher, tabs, gui, runner, settled>>

Mounted == {p \in Paths : mounts[p] # <<>>}
NoCommand == [do |-> "none", kind |-> "none", at |-> NoPath]

Init ==
  /\ mounts = [p \in Paths |-> <<>>]
  /\ changed = FALSE /\ active = FALSE /\ known = {} /\ blind = FALSE
  /\ tabs = {}
  /\ gui = "closed"
  /\ cmd = NoCommand /\ running = FALSE /\ strays = {}
  /\ settled = FALSE

----------------------------------------------------------------------------
(* The watcher and the tabs.                                               *)

ShouldShowTab_All(p) == p \in Paths          \* mutant: the labels are not looked at

\* _should_show_tab, for the mounts below /run/media.
ShouldShowTab(p) == p \notin Partitions

\* _parse_mountpoints: an OSError is an empty table.
Look(now) ==
  \/ now = Mounted /\ blind' = FALSE
  \/ now = {} /\ ~settled /\ blind' = TRUE

\* MountWatcher opens mountinfo; what changes from here on wakes its poll.
Open ==
  /\ gui = "closed"
  /\ gui' = "parse"
  /\ changed' = FALSE /\ active' = FALSE
  /\ UNCHANGED <<mounts, known, blind, tabs, runner, settled>>

\* The first look, and a tab for each mount found.
FirstLook ==
  /\ gui = "parse"
  /\ gui' = "idle"
  /\ \E now \in {Mounted, {}} : Look(now) /\ known' = now /\ tabs' = {p \in now : ShouldShowTab(p)}
  /\ UNCHANGED <<mounts, changed, active, runner, settled>>

Poll_MainLoopOnly ==                        \* mutant: deaf while a dialog is open
  /\ gui = "idle"
  /\ changed
  /\ changed' = FALSE /\ active' = TRUE
  /\ UNCHANGED <<mounts, known, blind, tabs, gui, runner, settled>>

\* The kernel reports a change once; the notifier is run by the same loop.
Poll ==
  /\ gui \in Loops
  /\ changed
  /\ changed' = FALSE /\ active' = TRUE
  /\ UNCHANGED <<mounts, known, blind, tabs, gui, runner, settled>>

OnChange_AddsOnly ==                        \* mutant: mountRemoved is not connected
  /\ gui \in Loops
  /\ active
  /\ active' = FALSE
  /\ \E now \in {Mounted, {}} :
       /\ Look(now)
       /\ known' = now
       /\ tabs' = tabs \cup {p \in now \ known : ShouldShowTab(p)}
  /\ UNCHANGED <<mounts, changed, gui, runner, settled>>

\* _on_change with the two slots connected to it.
OnChange ==
  /\ gui \in Loops
  /\ active
  /\ active' = FALSE
  /\ \E now \in {Mounted, {}} :
       /\ Look(now)
       /\ known' = now
       /\ tabs' = (tabs \cup {p \in now \ known : ShouldShowTab(p)}) \ (known \ now)
  /\ UNCHANGED <<mounts, changed, gui, runner, settled>>

\* closeEvent
Close ==
  /\ gui = "idle"
  /\ gui' = "closed"
  /\ known' = {} /\ tabs' = {} /\ blind' = FALSE /\ active' = FALSE
  /\ UNCHANGED <<mounts, changed, runner, settled>>

----------------------------------------------------------------------------
(* MountRunner.                                                            *)

OpenMountDialog ==
  /\ gui = "idle" /\ ~settled
  /\ gui' = "dialog"
  /\ UNCHANGED <<mounts, watcher, tabs, runner, settled>>

\* The dialog is left, with a request or without.
CloseDialog ==
  /\ gui = "dialog"
  /\ \/ gui' = "idle" /\ UNCHANGED cmd
     \/ \E k \in NetKinds, s \in Shares :
          cmd' = [do |-> "mount", kind |-> k, at |-> s] /\ gui' = "run"
  /\ UNCHANGED <<mounts, watcher, tabs, running, strays, settled>>

\* run: mkdir may raise out of the slot, the command may not start.
Run ==
  /\ gui = "run"
  /\ \/ gui' \in {"idle", "warn"} /\ cmd' = NoCommand /\ UNCHANGED running
     \/ gui' = "wait" /\ running' = TRUE /\ UNCHANGED cmd
  /\ UNCHANGED <<mounts, watcher, tabs, strays, settled>>

\* Commands end: a mount goes on top of what is there, fusermount3 takes the
\* top away if that is a FUSE file system, and each may fail.
Effect(c) ==
  \/ UNCHANGED <<mounts, changed>>
  \/ /\ c.do = "mount"
     /\ Len(mounts[c.at]) < MaxDepth
     /\ mounts' = [mounts EXCEPT ![c.at] = <<c.kind>> \o @]
     /\ changed' = TRUE
  \/ /\ c.do = "fusermount"
     /\ mounts[c.at] # <<>> /\ Head(mounts[c.at]) = "fuse"
     /\ mounts' = [mounts EXCEPT ![c.at] = Tail(@)]
     /\ changed' = TRUE

\* The command that is waited for ends within its 30 (10) seconds, with
\* success or not; the runner goes on from its exit code.
CommandEnds ==
  /\ running
  /\ running' = FALSE
  /\ Effect(cmd)
  /\ \/ mounts' # mounts /\ gui' = "idle" /\ cmd' = NoCommand
     \/ mounts' = mounts /\ gui = "wait" /\ gui' = "warn" /\ cmd' = NoCommand
     \/ mounts' = mounts /\ gui = "fusermount" /\ gui' = "helper" /\ UNCHANGED cmd
  /\ UNCHANGED <<active, known, blind, tabs, strays, settled>>

\* The wait runs out.  kill() does not reach a helper that has become root,
\* and unmount does not try it: such a command goes on by itself.
WaitTimeout ==
  /\ running
  /\ running' = FALSE
  /\ \/ gui = "wait" /\ gui' = "warn" /\ cmd' = NoCommand
        /\ strays' \in {strays, strays \cup {cmd}}
     \/ gui = "fusermount" /\ gui' = "helper" /\ UNCHANGED cmd
        /\ strays' = strays \cup {cmd}
  /\ UNCHANGED <<mounts, watcher, tabs, settled>>

StrayEnds ==
  \E c \in strays :
    /\ strays' = strays \ {c}
    /\ Effect(c)
    /\ UNCHANGED <<active, known, blind, tabs, gui, cmd, running, settled>>

Dismiss ==
  /\ gui = "warn"
  /\ gui' = "idle"
  /\ UNCHANGED <<mounts, watcher, tabs, runner, settled>>

\* The Unmount button of a share's tab.
Unmount ==
  /\ gui = "idle" /\ ~settled
  /\ \E s \in Shares \cap tabs : cmd' = [do |-> "fusermount", kind |-> "fuse", at |-> s]
  /\ gui' = "fusermount" /\ running' = TRUE
  /\ UNCHANGED <<mounts, watcher, tabs, strays, settled>>

\* mdmx-explorer-mount: the mountpoint is its third argument.
Accepts(argv) == argv.mountpoint \in Shares

\* unmount's second try passes the path where the helper expects a source.
Argv == [fstype |-> "umount", source |-> cmd.at, mountpoint |-> NoPath]

\* umount(8) as root, unless the file system is busy.
HelperUmount ==
  /\ gui = "helper"
  /\ gui' = "idle"
  /\ \/ UNCHANGED <<mounts, changed>>
     \/ /\ Accepts(Argv) /\ mounts[Argv.mountpoint] # <<>>
        /\ mounts' = [mounts EXCEPT ![Argv.mountpoint] = Tail(@)]
        /\ changed' = TRUE
  /\ cmd' = NoCommand
  /\ UNCHANGED <<active, known, blind, tabs, running, strays, settled>>

----------------------------------------------------------------------------
(* Everything else that changes the table.                                 *)

\* The automounter adds a partition that was plugged in, or takes it away.
Automount ==
  /\ ~settled
  /\ \E p \in Sticks \cup Partitions :
       mounts' = [mounts EXCEPT ![p] = IF @ = <<>> THEN <<"disk">> ELSE <<>>]
  /\ changed' = TRUE
  /\ UNCHANGED <<active, known, blind, tabs, gui, runner, settled>>

Settle ==
  /\ ~settled
  /\ settled' = TRUE
  /\ UNCHANGED <<mounts, watcher, tabs, gui, runner>>

Gui == FirstLook \/ Poll \/ OnChange \/ CloseDialog \/ Run \/ Dismiss \/ HelperUmount

Operator == Open \/ Close \/ OpenMountDialog \/ Unmount

Next == Gui \/ Operator \/ CommandEnds \/ WaitTimeout \/ StrayEnds \/ Automount \/ Settle

Spec == Init /\ [][Next]_vars

\* The GUI thread runs on wherever it does not wait for the operator, and the
\* runner's waits are bounded.  No dialog need ever be answered, no command
\* need ever end.
FairSpec ==
  /\ Spec
  /\ WF_vars(FirstLook) /\ WF_vars(Poll) /\ WF_vars(OnChange) /\ WF_vars(Run)
  /\ WF_vars(CommandEnds \/ WaitTimeout) /\ WF_vars(HelperUmount)

----------------------------------------------------------------------------
TypeOK ==
  /\ mounts \in [Paths -> Seq(Kinds)]
  /\ changed \in BOOLEAN /\ active \in BOOLEAN /\ blind \in BOOLEAN
  /\ known \subseteq Paths
  /\ tabs \subseteq Sticks \cup Shares
  /\ gui \in GuiSteps
  /\ cmd \in Commands \cup {NoCommand}
  /\ cmd # NoCommand <=> gui \in {"run", "wait", "fusermount", "helper"}
  /\ running \in BOOLEAN
  /\ running <=> gui \in {"wait", "fusermount"}
  /\ strays \subseteq Commands
  /\ settled \in BOOLEAN

\* Whenever the watcher has nothing left to handle, the tabs are those of the
\* mounts that exist, however the table changed while the thread was blocked,
\* in a dialog or between its poll and its look (mount_watcher.py, _on_change).
Shown == {p \in Mounted : ShouldShowTab(p)}
TabsMatchTable ==
  gui \notin {"closed", "parse"} /\ ~changed /\ ~active /\ ~blind => tabs = Shown

\* While the window stays open, the tabs end up right once the table is left
\* alone, even if a dialog is never answered and a mount command never ends.
TabsConverge == <>[](settled /\ gui # "closed") => <>[](blind \/ tabs = Shown)
=============================================================================
