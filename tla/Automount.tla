----------------------------- MODULE Automount -----------------------------
(***************************************************************************)
(* udev's mount.sh for one kernel name (sda1, say), under systemd: what    *)
(* the script does on add, change and remove, with the directory it makes  *)
(* and the cache file by which the remove event finds that directory again.*)
(*                                                                         *)
(* udevd hands over the events of one device in order, one at a time; the  *)
(* medium comes and goes meanwhile, and /sys, blkid and the mount table    *)
(* always tell of the present, not of the event.  systemd-mount --no-block *)
(* leaves a job behind, which systemd carries out when it likes.           *)
(***************************************************************************)
EXTENDS Integers, Sequences, FiniteSets

CONSTANTS
  Media,          \* the media one may plug in
  Unsupported,    \* those in fstab, or of a file system the kernel lacks
  Label,          \* name of a medium's directory: its label and the kernel name
  Plain,          \* the kernel name alone
  SysPaths,       \* device paths the kernel may give to the name
  None, Dead,     \* nothing mounted; a mount whose device has been pulled out
  MaxEvents       \* bound: events waiting in udevd

Names == {Label[m] : m \in Media} \cup {Plain}

ASSUME MediaAssumption == None \notin Media \cup SysPaths /\ Dead \notin Media /\ None # Dead
ASSUME UnsupportedAssumption == Unsupported \subseteq Media
ASSUME MaxEventsAssumption == MaxEvents \in Nat \ {0}

VARIABLES
  present, path,  \* the medium, and the device path it has in /sys
  queue,          \* events in udevd
  pc, ev, name,   \* the running script, its event, its $name (mntdir on remove)
  caches,         \* /tmp/.automount-<name>
  dirs,           \* directories below MOUNT_BASE
  jobs,           \* mount jobs systemd has accepted
  mounted,        \* what is mounted on each directory
  overlapped,     \* history: plugged before the last removal had been dealt with
  failed,         \* history: a mount of a present medium has failed
  mislabelled     \* history: cached under a second name, its label being unreadable

device == <<present, path>>
script == <<pc, ev, name>>
files == <<caches, dirs>>
units == <<jobs, mounted>>
history == <<overlapped, failed, mislabelled>>
automountVars == <<device, queue, script, files, units, history>>

NoEvent == [act |-> "none", at |-> None]
Events == [act : {"add", "change", "remove"}, at : SysPaths]

\* /run/systemd/transient/<...>name.mount
UnitFiles == jobs \cup {n \in Names : mounted[n] # None}

AutomountInit ==
  /\ present = None /\ path = None
  /\ queue = <<>>
  /\ pc = "idle" /\ ev = NoEvent /\ name = Plain
  /\ caches = {} /\ dirs = {}
  /\ jobs = {} /\ mounted = [n \in Names |-> None]
  /\ overlapped = FALSE /\ failed = FALSE /\ mislabelled = FALSE

----------------------------------------------------------------------------
(* The device and the kernel.                                              *)

Emit(act, at) == Len(queue) < MaxEvents
                 /\ queue' = Append(queue, [act |-> act, at |-> at])

Plug ==
  /\ present = None
  /\ present' \in Media /\ path' \in SysPaths
  /\ Emit("add", path')
  /\ overlapped' = (overlapped \/ queue # <<>> \/ pc # "idle" \/ UnitFiles # {})
  /\ UNCHANGED <<script, files, units, failed, mislabelled>>

Unplug ==
  /\ present # None
  /\ present' = None /\ path' = None
  /\ Emit("remove", path)
  /\ mounted' = [n \in Names |-> IF mounted[n] = None THEN None ELSE Dead]
  /\ UNCHANGED <<script, files, jobs, history>>

\* udevadm trigger
Retrigger ==
  /\ present # None
  /\ \E act \in {"add", "change"} : Emit(act, path)
  /\ UNCHANGED <<device, script, files, units, history>>

----------------------------------------------------------------------------
(* mount.sh on add.                                                        *)

Go(next) == pc' = next /\ UNCHANGED ev

Done == pc' = "idle" /\ ev' = NoEvent

\* ID_FS_TYPE is udev's own look at the medium, just before the script.
Start ==
  /\ pc = "idle" /\ queue # <<>>
  /\ queue' = Tail(queue)
  /\ \/ /\ Head(queue).act = "add" /\ present = None
        /\ Done
     \/ /\ Head(queue).act = "add" /\ present # None
        /\ pc' = "unit" /\ ev' = Head(queue)
     \/ /\ Head(queue).act # "add"
        /\ pc' = "test" /\ ev' = Head(queue)
  /\ name' = Plain
  /\ UNCHANGED <<device, files, units, history>>

\* test -f of a pattern fails when two files match it.
CheckUnit ==
  /\ pc = "unit"
  /\ IF Cardinality(UnitFiles) = 1 THEN Done ELSE Go("label")
  /\ UNCHANGED <<device, queue, name, files, units, history>>

GetLabelName ==
  /\ pc = "label"
  /\ name' = IF present = None THEN Plain ELSE Label[present]
  /\ mislabelled' = (mislabelled \/ (present = None /\ caches \notin SUBSET {Plain}))
  /\ Go("cached")
  /\ UNCHANGED <<device, queue, files, units, overlapped, failed>>

CheckCache ==
  /\ pc = "cached"
  /\ IF name \in caches \/ present \in Unsupported THEN Done ELSE Go("mkdir")
  /\ UNCHANGED <<device, queue, name, files, units, history>>

MakeDir ==
  /\ pc = "mkdir"
  /\ dirs' = dirs \cup {name}
  /\ Go("mount")
  /\ UNCHANGED <<device, queue, name, caches, units, history>>

\* rm_dir keeps what is not empty, and rm cannot remove a mount point.
RmDir_Always == dirs' = dirs \ {name}       \* mutant: umount -l, rm -r

RmDir == dirs' = IF mounted[name] = None THEN dirs \ {name} ELSE dirs

\* systemd-mount may fail, and does if the unit is there already.
Mount ==
  /\ pc = "mount"
  /\ \/ /\ name \notin UnitFiles
        /\ jobs' = jobs \cup {name}
        /\ Go("cache")
        /\ UNCHANGED <<dirs, failed>>
     \/ /\ RmDir
        /\ failed' = (failed \/ present # None)
        /\ Done
        /\ UNCHANGED jobs
  /\ UNCHANGED <<device, queue, name, caches, mounted, overlapped, mislabelled>>

WriteCache ==
  /\ pc = "cache"
  /\ caches' = caches \cup {name}
  /\ Done
  /\ UNCHANGED <<device, queue, name, dirs, units, history>>

----------------------------------------------------------------------------
(* mount.sh on remove and change.                                          *)

RemoveTest_NoSys ==                         \* mutant: trusts the event
  /\ pc = "test"
  /\ IF Cardinality(caches) = 1
       THEN Go("umount") /\ name' \in caches
       ELSE Done /\ UNCHANGED name
  /\ UNCHANGED <<device, queue, files, units, history>>

RemoveTest_IfMounted ==                     \* mutant: only what is still mounted
  /\ pc = "test"
  /\ IF path # ev.at /\ Cardinality(caches) = 1 /\ \E n \in caches : mounted[n] # None
       THEN Go("umount") /\ name' \in caches
       ELSE Done /\ UNCHANGED name
  /\ UNCHANGED <<device, queue, files, units, history>>

\* -e "$tmpfile" is false of two names with a line break between them.
RemoveTest ==
  /\ pc = "test"
  /\ IF path # ev.at /\ Cardinality(caches) = 1
       THEN Go("umount") /\ name' \in caches
       ELSE Done /\ UNCHANGED name
  /\ UNCHANGED <<device, queue, files, units, history>>

\* Every mount of the device; an umount may fail, which nobody looks at.
Umount ==
  /\ pc = "umount"
  /\ \E gone \in SUBSET {n \in Names : mounted[n] # None} :
       mounted' = [n \in Names |-> IF n \in gone THEN None ELSE mounted[n]]
  /\ Go("rmdir")
  /\ UNCHANGED <<device, queue, name, files, jobs, history>>

RemoveDir ==
  /\ pc = "rmdir"
  /\ RmDir
  /\ Go("rmtmp")
  /\ UNCHANGED <<device, queue, name, caches, units, history>>

RemoveCache_IfGone ==                       \* mutant: rm_dir ... && rm
  /\ pc = "rmtmp"
  /\ caches' = IF name \in dirs THEN caches ELSE caches \ {name}
  /\ Done
  /\ UNCHANGED <<device, queue, name, dirs, units, history>>

RemoveCache ==
  /\ pc = "rmtmp"
  /\ caches' = caches \ {name}
  /\ Done
  /\ UNCHANGED <<device, queue, name, dirs, units, history>>

----------------------------------------------------------------------------
(* systemd.                                                                *)

JobMounts ==
  \E n \in jobs :
    /\ present # None /\ mounted[n] = None
    /\ mounted' = [mounted EXCEPT ![n] = present]
    /\ jobs' = jobs \ {n} /\ dirs' = dirs \cup {n}
    /\ UNCHANGED <<device, queue, script, caches, history>>

\* A medium it cannot read, or none for too long.
JobFails ==
  \E n \in jobs :
    /\ jobs' = jobs \ {n}
    /\ failed' = (failed \/ present # None)
    /\ UNCHANGED <<device, queue, script, files, mounted, overlapped, mislabelled>>

\* BindsTo= the device unit.
SystemdUmounts ==
  \E n \in Names :
    /\ mounted[n] = Dead
    /\ mounted' = [mounted EXCEPT ![n] = None]
    /\ UNCHANGED <<device, queue, script, files, jobs, history>>

ScriptStep == \/ Start \/ CheckUnit \/ GetLabelName \/ CheckCache \/ MakeDir \/ Mount
              \/ WriteCache \/ RemoveTest \/ Umount \/ RemoveDir \/ RemoveCache

AutomountNext ==
  \/ Plug \/ Unplug \/ Retrigger
  \/ ScriptStep
  \/ JobMounts \/ JobFails \/ SystemdUmounts

AutomountSpec == AutomountInit /\ [][AutomountNext]_automountVars

\* udevd runs the script for each event, systemd its jobs; nothing is said of
\* the operator.
AutomountFairSpec ==
  /\ AutomountSpec
  /\ WF_automountVars(ScriptStep)
  /\ WF_automountVars(JobMounts \/ JobFails)
  /\ WF_automountVars(SystemdUmounts)

----------------------------------------------------------------------------
DeviceTypes ==
  /\ present \in Media \cup {None} /\ path \in SysPaths \cup {None}
  /\ present = None <=> path = None
QueueTypes == queue \in Seq(Events) /\ Len(queue) <= MaxEvents
ScriptTypes ==
  /\ pc \in {"idle", "unit", "label", "cached", "mkdir", "mount", "cache", "test",
             "umount", "rmdir", "rmtmp"}
  /\ ev \in Events \cup {NoEvent} /\ name \in Names
  /\ caches \subseteq Names
MountTypes ==
  /\ dirs \subseteq Names /\ jobs \subseteq Names
  /\ mounted \in [Names -> Media \cup {None, Dead}]
  /\ \A n \in Names : mounted[n] # None => n \in dirs
HistoryTypes ==
  overlapped \in BOOLEAN /\ failed \in BOOLEAN /\ mislabelled \in BOOLEAN

AutomountTypeOK == DeviceTypes /\ QueueTypes /\ ScriptTypes /\ MountTypes /\ HistoryTypes

(* Once the removal of a medium has been handled nothing of it is cached, so
   that the next one is not taken for it (mount.sh:94-99, 214-228), whenever
   it was pulled out and whatever failed; two cases are named.             *)
CleanAfterRemoval ==
  ~overlapped /\ ~mislabelled /\ present = None /\ queue = <<>> /\ pc = "idle" => caches = {}

(* No event takes a medium away from under the operator while it is plugged
   in (the test of /sys, mount.sh:217).                                    *)
LiveMediumStays ==
  [][\A n \in Names : mounted[n] \in Media /\ present' # None /\ mounted'[n] = None
       => overlapped]_automountVars

(* A medium that is plugged in gets mounted, whatever was plugged before it
   and however early that was pulled out (mount.sh:82-129).                *)
MountsWhatIsPlugged ==
  \A m \in Media \ Unsupported :
    present = m ~> \/ present # m \/ overlapped \/ failed \/ mislabelled
                   \/ \E n \in Names : mounted[n] = m
=============================================================================
