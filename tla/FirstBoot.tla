----------------------------- MODULE FirstBoot -----------------------------
(***************************************************************************)
(* The initramfs module `firstboot`: it creates, formats and seeds the     *)
(* userdata partition on the first boot and bind-mounts it on every boot.  *)
(* Power may fail between any two steps and the initramfs starts over.     *)
(*                                                                         *)
(* sgdisk, mkfs, udev and ext4 are not in the repository.  Of ext4 the     *)
(* model has the journal, which commits names in order, and the data, which *)
(* is written back later: until then a committed file is empty.            *)
(***************************************************************************)
EXTENDS Integers

CONSTANTS
  Dirs,           \* the seeded directories: home, var and root
  UdevLate        \* may the by-partlabel link lag behind the kernel?

ASSUME DirsAssumption == Dirs # {}
ASSUME UdevLateAssumption == UdevLate \in BOOLEAN

VARIABLES
  part,           \* partition 4: "none", "blank" or "ext4"
  link,           \* does /dev/disk/by-partlabel/userdata exist, in this boot?
  pc,             \* where the boot is
  todo,           \* the directories that are still to be copied
  live, disk,     \* per directory, its files: as the system sees them, on disk
  seeded, durable,\* the .seeded marker: as the system sees it, on disk
  reliable        \* from here on no power cut, no I/O error, and timely links

boot == <<pc, todo>>
cache == <<live, seeded>>
media == <<disk, durable>>
firstBootVars == <<part, link, boot, cache, media, reliable>>

Files == {"absent", "empty", "seed", "user"}
NoFiles == [d \in Dirs |-> "absent"]
Steps == {"off", "look", "sgdisk", "wait", "mkfs", "mount", "seed", "mark",
          "sync", "bind", "up", "fatal"}

\* mdmx-ab.wks.in leaves partition 4 out.
FirstBootInit ==
  /\ part = "none" /\ link = FALSE
  /\ pc = "off" /\ todo = {}
  /\ live = NoFiles /\ disk = NoFiles
  /\ seeded = FALSE /\ durable = FALSE
  /\ reliable = FALSE

Goto(step) == pc' = step /\ UNCHANGED todo

----------------------------------------------------------------------------
\* 90-rootfs has mounted the slot; udev has coldplugged the disk, or not yet.
PowerOn ==
  /\ pc = "off"
  /\ Goto("look")
  /\ \/ link' = (part # "none")
     \/ UdevLate /\ ~reliable /\ link' = FALSE
  /\ UNCHANGED <<part, cache, media, reliable>>

Look ==
  /\ pc = "look"
  /\ Goto(IF link THEN "mount" ELSE "sgdisk")
  /\ UNCHANGED <<part, link, cache, media, reliable>>

Sgdisk_Reuses ==                            \* mutant: its failure is ignored
  /\ pc = "sgdisk"
  /\ part' = IF part = "none" THEN "blank" ELSE part
  /\ Goto("wait")
  /\ UNCHANGED <<link, cache, media, reliable>>

\* sgdisk -n 4 fails when there is a partition 4.
Sgdisk ==
  /\ pc = "sgdisk"
  /\ IF part = "none"
       THEN part' = "blank" /\ Goto("wait")
       ELSE Goto("fatal") /\ UNCHANGED part
  /\ UNCHANGED <<link, cache, media, reliable>>

\* Thirty seconds for the link to appear.
WaitForLink ==
  /\ pc = "wait"
  /\ \/ link' = TRUE /\ Goto("mkfs")
     \/ UdevLate /\ ~reliable /\ Goto("fatal") /\ UNCHANGED link
  /\ UNCHANGED <<part, cache, media, reliable>>

Mkfs ==
  /\ pc = "mkfs"
  /\ part' = "ext4"
  /\ disk' = NoFiles
  /\ durable' = FALSE
  /\ Goto("mount")
  /\ UNCHANGED <<link, cache, reliable>>

Mount_Unchecked ==                          \* mutant: mount's failure is ignored
  /\ pc = "mount"
  /\ live' = disk /\ seeded' = durable
  /\ pc' = IF durable THEN "bind" ELSE "seed"
  /\ todo' = IF durable THEN {} ELSE Dirs
  /\ UNCHANGED <<part, link, media, reliable>>

\* A partition without a file system cannot be mounted.
Mount ==
  /\ pc = "mount"
  /\ \/ /\ part = "ext4"
        /\ live' = disk /\ seeded' = durable
        /\ pc' = IF durable THEN "bind" ELSE "seed"
        /\ todo' = IF durable THEN {} ELSE Dirs
     \/ /\ part # "ext4"
        /\ Goto("fatal")
        /\ UNCHANGED cache
  /\ UNCHANGED <<part, link, media, reliable>>

\* cp -a, one directory after the other; its errors are only logged.
Seed ==
  /\ pc = "seed"
  /\ \/ \E d \in todo :
          /\ live' \in {[live EXCEPT ![d] = "seed"], live}
          /\ live' # live \/ live[d] = "seed" \/ ~reliable
          /\ todo' = todo \ {d}
          /\ UNCHANGED pc
     \/ todo = {} /\ Goto("mark") /\ UNCHANGED live
  /\ UNCHANGED <<part, link, seeded, media, reliable>>

Mark ==
  /\ pc = "mark"
  /\ seeded' = TRUE
  /\ Goto("sync")
  /\ UNCHANGED <<part, link, live, media, reliable>>

Flushed == disk' = live /\ durable' = seeded

Sync ==
  /\ pc = "sync"
  /\ Flushed
  /\ Goto("bind")
  /\ UNCHANGED <<part, link, cache, reliable>>

\* The bind mounts, and the move of the partition's own mount point.
Bind ==
  /\ pc = "bind"
  /\ Goto("up")
  /\ UNCHANGED <<part, link, cache, media, reliable>>

\* Every command that fails on its way ends in `fatal`.
Fails ==
  /\ ~reliable
  /\ pc \in {"sgdisk", "mkfs", "mount", "bind"}
  /\ Goto("fatal")
  /\ UNCHANGED <<part, link, cache, media, reliable>>

----------------------------------------------------------------------------
(* The system afterwards, ext4 and the power.                              *)

\* The operator changes a seeded file.
Save ==
  /\ pc = "up"
  /\ \E d \in Dirs : live' = [live EXCEPT ![d] = "user"]
  /\ UNCHANGED <<part, link, boot, seeded, media, reliable>>

Mounted == pc \in {"seed", "mark", "sync", "bind", "up"}

\* The journal commits the names, and the marker, which has no data.
Commit ==
  /\ Mounted
  /\ disk' = [d \in Dirs |-> IF disk[d] = "absent" /\ live[d] # "absent" THEN "empty" ELSE disk[d]]
  /\ durable' = seeded
  /\ UNCHANGED <<part, link, boot, cache, reliable>>

WriteBack ==
  /\ Mounted
  /\ \E d \in Dirs : disk[d] # "absent" /\ disk' = [disk EXCEPT ![d] = live[d]]
  /\ UNCHANGED <<part, link, boot, cache, durable, reliable>>

Off == pc' = "off" /\ todo' = {} /\ link' = FALSE /\ live' = NoFiles /\ seeded' = FALSE

Shutdown == pc = "up" /\ Flushed /\ Off /\ UNCHANGED <<part, reliable>>

PowerLost == ~reliable /\ pc # "off" /\ Off /\ UNCHANGED <<part, media, reliable>>

\* Whoever stands before a boot that ended in `fatal` cycles the power.
SwitchOffAndOn == pc = "fatal" /\ Off /\ UNCHANGED <<part, media, reliable>>

BecomeReliable == ~reliable /\ reliable' = TRUE /\ UNCHANGED <<part, link, boot, cache, media>>

BootStep ==
  \/ PowerOn \/ Look \/ Sgdisk \/ WaitForLink \/ Mkfs \/ Mount \/ Seed \/ Mark
  \/ Sync \/ Bind \/ SwitchOffAndOn

FirstBootNext ==
  \/ BootStep \/ Fails \/ Save \/ Commit \/ WriteBack
  \/ Shutdown \/ PowerLost \/ BecomeReliable

FirstBootSpec == FirstBootInit /\ [][FirstBootNext]_firstBootVars

\* The script runs on; the file system writes back in its own time.
FirstBootFairSpec == FirstBootSpec /\ WF_firstBootVars(BootStep)

----------------------------------------------------------------------------
FirstBootTypeOK ==
  /\ part \in {"none", "blank", "ext4"}
  /\ link \in BOOLEAN /\ reliable \in BOOLEAN
  /\ link => part # "none"
  /\ pc \in Steps /\ todo \subseteq Dirs
  /\ live \in [Dirs -> Files] /\ disk \in [Dirs -> Files]
  /\ seeded \in BOOLEAN /\ durable \in BOOLEAN
  /\ pc \in {"wait", "mkfs"} => part = "blank"
  /\ Mounted => part = "ext4"

\* What the operator saved and ext4 wrote back is never lost to a later boot:
\* neither formatted because the link was late, nor overwritten by a second
\* seeding because the marker of the first was lost.
SavedFilesSurvive ==
  [][\A d \in Dirs : disk[d] = "user" => disk'[d] = "user"]_firstBootVars

\* What the header of firstboot, README.md and the recipe promise of the first
\* boots: in the end the partition is formatted and the system runs on it.
FirstBootCompletes == reliable ~> (pc = "up")
=============================================================================
