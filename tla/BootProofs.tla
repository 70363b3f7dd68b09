----------------------------- MODULE BootProofs -----------------------------
(***************************************************************************)
(* What the boot path promises: FirstBoot for every set of seeded          *)
(* directories, with or without late links; BootSlots for any bundles, any *)
(* fstab, atomic or torn writes, any number of power cuts; and both of them *)
(* as the one machine of module Startup.                                   *)
(***************************************************************************)
EXTENDS Startup, TLAPS

----------------------------------------------------------------------------
(* FirstBoot.                                                              *)

\* Every variable keeps its type; nothing is mounted that is not formatted.
THEOREM FirstBootTypeCorrect == FirstBootSpec => []FirstBootTypeOK
<1> USE DEF FirstBootTypeOK, Files, Steps, Mounted, NoFiles
<1>1. FirstBootInit => FirstBootTypeOK
  BY DEF FirstBootInit
<1>2. ASSUME FirstBootTypeOK, [FirstBootNext]_firstBootVars PROVE FirstBootTypeOK'
  <2> USE <1>2 DEF Goto, boot, cache, media
  <2>1. CASE PowerOn
    BY <2>1 DEF PowerOn
  <2>2. CASE Look
    BY <2>2 DEF Look
  <2>3. CASE Sgdisk
    BY <2>3 DEF Sgdisk
  <2>4. CASE WaitForLink
    BY <2>4 DEF WaitForLink
  <2>5. CASE Mkfs
    BY <2>5 DEF Mkfs
  <2>6. CASE Mount
    BY <2>6 DEF Mount
  <2>7. CASE Seed
    <3>1. live' \in [Dirs -> Files]
      BY <2>7 DEF Seed
    <3>2. QED
      BY <2>7, <3>1 DEF Seed
  <2>8. CASE Mark
    BY <2>8 DEF Mark
  <2>9. CASE Sync
    BY <2>9 DEF Sync, Flushed
  <2>10. CASE Bind
    BY <2>10 DEF Bind
  <2>11. CASE SwitchOffAndOn
    BY <2>11 DEF SwitchOffAndOn, Off
  <2>12. CASE Fails
    BY <2>12 DEF Fails
  <2>13. CASE Save
    BY <2>13 DEF Save
  <2>14. CASE Commit
    BY <2>14 DEF Commit
  <2>15. CASE WriteBack
    BY <2>15 DEF WriteBack
  <2>16. CASE Shutdown
    BY <2>16 DEF Shutdown, Flushed, Off
  <2>17. CASE PowerLost
    BY <2>17 DEF PowerLost, Off
  <2>18. CASE BecomeReliable
    BY <2>18 DEF BecomeReliable
  <2>19. CASE UNCHANGED firstBootVars
    BY <2>19 DEF firstBootVars
  <2>20. QED
    BY <2>1, <2>2, <2>3, <2>4, <2>5, <2>6, <2>7, <2>8, <2>9, <2>10, <2>11, <2>12,
       <2>13, <2>14, <2>15, <2>16, <2>17, <2>18, <2>19 DEF FirstBootNext, BootStep
<1>3. QED
  BY <1>1, <1>2, PTL DEF FirstBootSpec

----------------------------------------------------------------------------
\* What the operator saved is on disk only behind the marker, and whoever has
\* the partition mounted sees it.
SavedBehindMarker == \A d \in Dirs : disk[d] = "user" => durable /\ part = "ext4"
SavedIsSeen == Mounted => \A d \in Dirs : disk[d] = "user" => live[d] = "user"
\* Changes are made on a system that is up, and a boot that is past the seeding
\* has the marker on disk.
ChangedWhenUp == \A d \in Dirs : live[d] = "user" => pc \in {"bind", "up", "fatal"}
MarkerFirst ==
  /\ pc \in {"seed", "mark"} => ~seeded /\ ~durable
  /\ pc \in {"bind", "up"} => seeded /\ durable
  /\ pc = "sync" => seeded

SavedInv == SavedBehindMarker /\ SavedIsSeen /\ ChangedWhenUp /\ MarkerFirst

LEMMA SavedInvariant == FirstBootSpec => []SavedInv
<1> USE DEF Mounted, NoFiles, Files
<1>1. FirstBootInit => SavedInv
  BY DEF FirstBootInit, SavedInv, SavedBehindMarker, SavedIsSeen, ChangedWhenUp, MarkerFirst
<1>2. ASSUME FirstBootTypeOK, SavedInv, [FirstBootNext]_firstBootVars PROVE SavedInv'
  <2> USE <1>2 DEF FirstBootTypeOK, SavedInv, SavedBehindMarker, SavedIsSeen, ChangedWhenUp,
                   MarkerFirst, Goto, boot, cache, media
  <2>1. CASE PowerOn
    BY <2>1 DEF PowerOn
  <2>2. CASE Look
    BY <2>2 DEF Look
  <2>3. CASE Sgdisk
    BY <2>3 DEF Sgdisk
  <2>4. CASE WaitForLink
    BY <2>4 DEF WaitForLink
  <2>5. CASE Mkfs
    BY <2>5 DEF Mkfs
  <2>6. CASE Mount
    BY <2>6 DEF Mount
  <2>7. CASE Seed
    BY <2>7 DEF Seed
  <2>8. CASE Mark
    BY <2>8 DEF Mark
  <2>9. CASE Sync
    BY <2>9 DEF Sync, Flushed
  <2>10. CASE Bind
    BY <2>10 DEF Bind
  <2>11. CASE SwitchOffAndOn
    BY <2>11 DEF SwitchOffAndOn, Off
  <2>12. CASE Fails
    BY <2>12 DEF Fails
  <2>13. CASE Save
    BY <2>13 DEF Save
  <2>14. CASE Commit
    BY <2>14 DEF Commit
  <2>15. CASE WriteBack
    BY <2>15 DEF WriteBack
  <2>16. CASE Shutdown
    BY <2>16 DEF Shutdown, Flushed, Off
  <2>17. CASE PowerLost
    BY <2>17 DEF PowerLost, Off
  <2>18. CASE BecomeReliable
    BY <2>18 DEF BecomeReliable
  <2>19. CASE UNCHANGED firstBootVars
    BY <2>19 DEF firstBootVars
  <2>20. QED
    BY <2>1, <2>2, <2>3, <2>4, <2>5, <2>6, <2>7, <2>8, <2>9, <2>10, <2>11, <2>12,
       <2>13, <2>14, <2>15, <2>16, <2>17, <2>18, <2>19 DEF FirstBootNext, BootStep
<1>3. QED
  BY <1>1, <1>2, FirstBootTypeCorrect, PTL DEF FirstBootSpec

\* No boot ever formats or re-seeds over what the operator saved: the partition
\* is formatted only when this boot created it, and seeded only while the marker
\* is not on disk, which it is before the system first comes up.
THEOREM SavedFilesKept == FirstBootSpec => SavedFilesSurvive
<1>1. ASSUME FirstBootTypeOK, SavedInv, [FirstBootNext]_firstBootVars
      PROVE  [\A d \in Dirs : disk[d] = "user" => disk'[d] = "user"]_firstBootVars
  <2> SUFFICES ASSUME NEW d \in Dirs, disk[d] = "user" PROVE disk'[d] = "user"
    OBVIOUS
  <2>1. part = "ext4" /\ (Mounted => live[d] = "user")
    BY <1>1 DEF SavedInv, SavedBehindMarker, SavedIsSeen
  <2>2. CASE Mkfs
    BY <1>1, <2>1, <2>2 DEF Mkfs, FirstBootTypeOK
  <2>3. CASE Sync \/ Shutdown
    BY <2>1, <2>3 DEF Sync, Shutdown, Flushed, Mounted
  <2>4. CASE Commit
    BY <2>4 DEF Commit
  <2>5. CASE WriteBack
    BY <1>1, <2>1, <2>5 DEF WriteBack, FirstBootTypeOK
  <2>6. CASE UNCHANGED disk
    BY <2>6
  <2>7. FirstBootNext /\ ~(Mkfs \/ Sync \/ Shutdown \/ Commit \/ WriteBack) => UNCHANGED disk
    BY DEF FirstBootNext, BootStep, PowerOn, Look, Sgdisk, WaitForLink, Mount, Seed, Mark, Bind,
           SwitchOffAndOn, Fails, Save, PowerLost, BecomeReliable, media
  <2>8. QED
    BY <1>1, <2>2, <2>3, <2>4, <2>5, <2>6, <2>7 DEF firstBootVars, media
<1>2. QED
  BY <1>1, FirstBootTypeCorrect, SavedInvariant, PTL DEF FirstBootSpec, SavedFilesSurvive

----------------------------------------------------------------------------
MarkedIsFormatted == durable => part = "ext4"

\* The userdata partition is provisioned once: with the marker on disk no boot,
\* however it ends, formats the partition or takes the marker away again.
ProvisionedForGood == [][durable => durable' /\ part' = "ext4"]_firstBootVars

THEOREM ProvisionedOnce == FirstBootSpec => ProvisionedForGood
<1>1. FirstBootInit => MarkedIsFormatted
  BY DEF FirstBootInit, MarkedIsFormatted
<1>2. ASSUME FirstBootTypeOK, SavedInv, MarkedIsFormatted, [FirstBootNext]_firstBootVars
      PROVE  MarkedIsFormatted' /\ (durable => durable' /\ part' = "ext4")
  <2>1. /\ durable => part = "ext4" /\ (Mounted => seeded)
        /\ Mounted => part = "ext4"
        /\ pc = "mkfs" => part = "blank"
    BY <1>2 DEF FirstBootTypeOK, SavedInv, MarkerFirst, MarkedIsFormatted, Mounted
  <2> USE <2>1 DEF MarkedIsFormatted
  <2>2. CASE Sgdisk
    BY <2>2 DEF Sgdisk, media
  <2>3. CASE Mkfs
    BY <2>3 DEF Mkfs
  <2>4. CASE Sync \/ Shutdown
    BY <2>4 DEF Sync, Shutdown, Flushed, Mounted
  <2>5. CASE Commit
    BY <2>5 DEF Commit
  <2>6. CASE WriteBack
    BY <2>6 DEF WriteBack
  <2>7. CASE UNCHANGED <<part, media>>
    BY <2>7 DEF media
  <2> QED
    BY <1>2, <2>2, <2>3, <2>4, <2>5, <2>6, <2>7
    DEF FirstBootNext, BootStep, PowerOn, Look, WaitForLink, Mount, Seed, Mark, Bind, Fails,
        Save, PowerLost, SwitchOffAndOn, BecomeReliable, firstBootVars, media
<1> QED
  BY <1>1, <1>2, FirstBootTypeCorrect, SavedInvariant, PTL DEF FirstBootSpec, ProvisionedForGood

----------------------------------------------------------------------------
(* BootSlots.                                                              *)

USE SlotsDiffer, BundlesAssumption, MountsEspAssumption
USE DEF Slots, SlotsDiffer, BundlesAssumption, MountsEspAssumption

LEMMA OtherType ==
  ASSUME NEW s \in Slots PROVE Other(s) \in Slots /\ Other(s) # s
BY DEF Other, Slots

LEMMA SelectedType == ASSUME TypeOK PROVE Selected \in Slots
BY OtherType DEF TypeOK, Selected, EnvOrder, Slots

\* Every variable keeps its type, and RAUC only works on a machine that is up.
THEOREM TypeCorrect == Spec => []TypeOK
<1>1. Init => TypeOK
  <2> SUFFICES ASSUME Init PROVE TypeOK
    OBVIOUS
  <2>1. esp \in [Slots -> BOOLEAN]
    BY DEF Init
  <2>2. /\ ok \in [Slots -> {0, 1}] /\ try \in [Slots -> {0, 1}]
        /\ chosen \subseteq Slots /\ image \in [Slots -> Images]
    BY DEF Init, Images
  <2>3. QED
    BY <2>1, <2>2 DEF Init, TypeOK, Phases, InstallSteps
<1>2. ASSUME TypeOK, [Next]_vars PROVE TypeOK'
  <2> USE <1>2, OtherType DEF TypeOK, Phases, Images, InstallSteps
  <2>1. CASE Grub
    <3>1. TriedAfter(try) \in [Slots -> {0, 1}]
      BY DEF TriedAfter
    <3>2. chosen' \subseteq Slots
      BY <2>1, SelectedType DEF Grub
    <3>3. QED
      BY <2>1, <3>1, <3>2, SelectedType DEF Grub, content
  <2>2. CASE MenuTimeout
    BY <2>2 DEF MenuTimeout, Launch, grubenv, content, history
  <2>3. CASE MenuPick
    BY <2>3 DEF MenuPick, Launch, grubenv, content, history
  <2>4. CASE BootUp
    BY <2>4 DEF BootUp, grubenv, content, history
  <2>5. CASE BootCheck
    BY <2>5 DEF BootCheck, content
  <2>6. CASE Reboot
    BY <2>6 DEF Reboot, PowerOff, grubenv, content, history
  <2>7. CASE PowerCycle
    BY <2>7 DEF PowerCycle, PowerOff, grubenv, content, history
  <2>8. CASE PowerCut
    BY <2>8 DEF PowerCut, PowerOff, grubenv, content, history
  <2>9. CASE TornWrite
    BY <2>9 DEF TornWrite, PowerOff, content, history
  <2>10. CASE BecomeSteady
    BY <2>10 DEF BecomeSteady, grubenv, content, history
  <2>11. CASE InstallBegin
    BY <2>11 DEF InstallBegin, content, Target
  <2>12. CASE InstallWrite
    BY <2>12 DEF InstallWrite, grubenv, history, Target
  <2>13. CASE InstallWritten
    BY <2>13 DEF InstallWritten, grubenv, history, Target
  <2>14. CASE InstallFail
    BY <2>14 DEF InstallFail, grubenv, content, history
  <2>15. CASE InstallActivate
    BY <2>15 DEF InstallActivate, content, Target
  <2>16. CASE UNCHANGED vars
    BY <2>16 DEF vars, grubenv, content, history
  <2>17. QED
    BY <2>1, <2>2, <2>3, <2>4, <2>5, <2>6, <2>7, <2>8, <2>9, <2>10, <2>11,
       <2>12, <2>13, <2>14, <2>15, <2>16 DEF Next
<1>3. QED
  BY <1>1, <1>2, PTL DEF Spec

----------------------------------------------------------------------------
\* As long as the block can be read, a slot that GRUB has made its default
\* carries TRY = 1 until somebody clears it.
ChoicesBooked == readable => \A s \in chosen : try[s] = 1

LEMMA ChoicesBookedInvariant == Spec => []ChoicesBooked
<1>1. Init => ChoicesBooked
  BY DEF Init, ChoicesBooked
<1>2. ASSUME TypeOK, ChoicesBooked, [Next]_vars PROVE ChoicesBooked'
  <2> USE <1>2, OtherType DEF TypeOK, ChoicesBooked
  <2>1. CASE Grub
    <3>1. Selected \in Visited
      BY DEF Selected, Visited, EnvOrder, Other, Slots
    <3>2. readable => \A s \in Slots : s \in Visited \/ try[s] = 1 => try'[s] = 1
      BY <2>1 DEF Grub, TriedAfter
    <3>3. QED
      BY <2>1, <3>1, <3>2, SelectedType DEF Grub
  <2>2. CASE BootCheck
    BY <2>2 DEF BootCheck
  <2>3. CASE InstallBegin
    BY <2>3 DEF InstallBegin, Target
  <2>4. CASE InstallActivate
    BY <2>4 DEF InstallActivate, Target
  <2>5. CASE TornWrite
    BY <2>5 DEF TornWrite
  <2>6. CASE UNCHANGED <<readable, try, chosen>>
    BY <2>6
  <2>7. QED
    BY <2>1, <2>2, <2>3, <2>4, <2>5, <2>6
    DEF Next, MenuTimeout, MenuPick, Launch, BootUp, Reboot, PowerCycle, PowerCut,
        PowerOff, BecomeSteady, InstallWrite, InstallWritten, InstallFail, vars,
        grubenv, history
<1>3. QED
  BY <1>1, <1>2, TypeCorrect, PTL DEF Spec

\* GRUB makes a slot its default again, although nobody has cleared its TRY, only
\* when nothing is on offer, and then it is slot A: an eligible slot has not been
\* chosen since, so only "default=0" repeats a choice.
THEOREM RechoiceIsLastResort == Spec => RechosenOnlyAsLastResort
<1>1. ASSUME TypeOK, ChoicesBooked, [Next]_vars,
             phase = "off", phase' = "menu", default' \in chosen
      PROVE  default' = A /\ (readable => \A s \in Slots : ok[s] = 0 \/ try[s] = 1)
  <2> USE DEF TypeOK
  <2>1. Grub
    BY <1>1 DEF Next, MenuTimeout, MenuPick, Launch, BootUp, BootCheck, Reboot, PowerCycle,
       PowerCut, TornWrite, PowerOff, BecomeSteady, InstallBegin, InstallWrite,
       InstallWritten, InstallFail, InstallActivate, vars
  <2>2. default' = Selected
    BY <2>1 DEF Grub
  <2>3. CASE ~readable
    BY <2>2, <2>3 DEF Selected, Eligible, EnvOrder, EnvOk, EnvTry
  <2>4. CASE readable
    <3>1. ~Eligible(Selected)
      BY <1>1, <2>2, <2>4 DEF ChoicesBooked, Eligible, EnvTry
    <3>2. Selected = A /\ \A s \in Slots : ~Eligible(s)
      BY <1>1, <3>1 DEF Selected, EnvOrder, Other, Slots
    <3>3. QED
      BY <1>1, <2>2, <2>4, <3>2 DEF Eligible, EnvOk, EnvTry
  <2>5. QED
    BY <2>3, <2>4
<1>2. TypeOK /\ ChoicesBooked /\ [Next]_vars =>
        [phase = "off" /\ phase' = "menu" /\ default' \in chosen =>
           /\ default' = A
           /\ readable => \A s \in Slots : ok[s] = 0 \/ try[s] = 1]_vars
  BY <1>1
<1>3. QED
  BY <1>2, TypeCorrect, ChoicesBookedInvariant, PTL DEF Spec, RechosenOnlyAsLastResort

----------------------------------------------------------------------------
\* Between GRUB's pass and RAUC's next rewriting of ORDER, the first slot of
\* ORDER can be chosen again only if it is the slot that runs.
FirstSlotSpent ==
  /\ confirmed => phase = "up" /\ try[running] = 0
  /\ phase # "off" /\ readable /\ ~switched =>
       \/ try[order] = 1
       \/ ok[order] = 0
       \/ phase = "up" /\ running = order
  /\ install # "idle" => readable

LEMMA FirstSlotSpentInvariant == Spec => []FirstSlotSpent
<1>1. Init => FirstSlotSpent
  BY DEF Init, FirstSlotSpent
<1>2. ASSUME TypeOK, FirstSlotSpent, [Next]_vars PROVE FirstSlotSpent'
  <2> USE <1>2, OtherType DEF TypeOK, FirstSlotSpent
  <2>1. CASE Grub
    <3>1. readable => order \in Visited
      BY DEF Visited, EnvOrder
    <3>2. readable => try'[order] = 1
      BY <2>1, <3>1 DEF Grub, TriedAfter
    <3>3. QED
      BY <2>1, <3>2 DEF Grub, content
  <2>2. CASE MenuTimeout \/ MenuPick
    BY <2>2 DEF MenuTimeout, MenuPick, Launch, grubenv, content, history
  <2>3. CASE BootUp
    BY <2>3 DEF BootUp, grubenv, content, history
  <2>4. CASE BootCheck
    BY <2>4 DEF BootCheck, content
  <2>5. CASE Reboot \/ PowerCycle \/ PowerCut \/ TornWrite
    BY <2>5 DEF Reboot, PowerCycle, PowerCut, TornWrite, PowerOff, history
  <2>6. CASE BecomeSteady
    BY <2>6 DEF BecomeSteady, grubenv, content, history
  <2>7. CASE InstallBegin
    BY <2>7 DEF InstallBegin, content, Target
  <2>8. CASE InstallWrite \/ InstallWritten \/ InstallFail
    BY <2>8 DEF InstallWrite, InstallWritten, InstallFail, grubenv, content,
       history, Target
  <2>9. CASE InstallActivate
    BY <2>9 DEF InstallActivate, content, Target
  <2>10. CASE UNCHANGED vars
    BY <2>10 DEF vars, grubenv, content, history
  <2>11. QED
    BY <2>1, <2>2, <2>3, <2>4, <2>5, <2>6, <2>7, <2>8, <2>9, <2>10 DEF Next
<1>3. QED
  BY <1>1, <1>2, TypeCorrect, PTL DEF Spec

\* A confirmed boot is repeated by the next one: no pick at the menu, fallback
\* or interrupted installation moves the selection away from the slot that runs.
THEOREM ConfirmedBootRepeats == Spec => []ConfirmedSlotBootsNext
<1>1. ASSUME TypeOK, FirstSlotSpent PROVE ConfirmedSlotBootsNext
  <2> SUFFICES ASSUME phase = "up", confirmed, readable, ok[running] = 1, ~switched
               PROVE  Selected = running
    BY DEF ConfirmedSlotBootsNext
  <2> USE <1>1 DEF TypeOK, FirstSlotSpent
  <2>1. running \in Slots /\ Eligible(running)
    BY DEF Eligible, EnvOk, EnvTry
  <2>2. CASE running = order
    BY <2>1, <2>2 DEF Selected, EnvOrder
  <2>3. CASE running # order
    <3>1. ~Eligible(order)
      BY <2>3 DEF Eligible, EnvOk, EnvTry
    <3>2. running = Other(order)
      BY <2>1, <2>3 DEF Other, Slots
    <3>3. QED
      BY <2>1, <3>1, <3>2 DEF Selected, EnvOrder
  <2>4. QED
    BY <2>2, <2>3
<1>2. QED
  BY <1>1, TypeCorrect, FirstSlotSpentInvariant, PTL

----------------------------------------------------------------------------
\* A half-written slot is marked bad, from before RAUC writes it until it holds
\* a whole image again.
HalfIsMarked ==
  /\ \A s \in Slots : image[s] = "half" => ok[s] = 0
  /\ install \in {"marked", "writing"} => ok[Target] = 0
  /\ install = "written" => image[Target] # "half"

LEMMA HalfIsMarkedInvariant == Spec => []HalfIsMarked
<1>1. Init => HalfIsMarked
  BY DEF Init, HalfIsMarked
<1>2. ASSUME TypeOK, HalfIsMarked, [Next]_vars PROVE HalfIsMarked'
  <2> USE <1>2, OtherType DEF TypeOK, HalfIsMarked, Target
  <2>1. CASE InstallBegin
    BY <2>1 DEF InstallBegin, content
  <2>2. CASE InstallWrite
    BY <2>2 DEF InstallWrite, grubenv
  <2>3. CASE InstallWritten
    <3>1. PICK b \in Bundles : image' = [image EXCEPT ![Target] = b]
      BY <2>3 DEF InstallWritten
    <3>2. b # "half"
      OBVIOUS
    <3>3. QED
      BY <2>3, <3>1, <3>2 DEF InstallWritten, grubenv
  <2>4. CASE InstallActivate
    BY <2>4 DEF InstallActivate, content
  <2>5. CASE install' = "idle" /\ UNCHANGED <<ok, image>>
    BY <2>5
  <2>6. CASE phase # "up" /\ UNCHANGED <<ok, image, install>>
    BY <2>6
  <2>7. CASE UNCHANGED <<ok, image, install, running>>
    BY <2>7
  <2>8. QED
    BY <2>1, <2>2, <2>3, <2>4, <2>5, <2>6, <2>7
    DEF Next, Grub, MenuTimeout, MenuPick, Launch, BootUp, BootCheck, Reboot, PowerCycle,
        PowerCut, TornWrite, PowerOff, BecomeSteady, InstallFail, grubenv, content, vars
<1>3. QED
  BY <1>1, <1>2, TypeCorrect, PTL DEF Spec

\* GRUB's default is a half-written slot only if the environment block cannot be
\* read, or if both slots were tried and this one is marked bad.
THEOREM HalfWrittenIsLastResort == Spec => []HalfWrittenOnlyAsLastResort
<1>1. Init => HalfWrittenOnlyAsLastResort
  BY DEF Init, HalfWrittenOnlyAsLastResort
<1>2. ASSUME TypeOK, HalfIsMarked, HalfWrittenOnlyAsLastResort, [Next]_vars
      PROVE  HalfWrittenOnlyAsLastResort'
  <2> USE <1>2, OtherType DEF TypeOK, HalfIsMarked, HalfWrittenOnlyAsLastResort
  <2>1. CASE Grub
    <3>1. default' = Selected /\ UNCHANGED <<ok, image, readable>>
      BY <2>1 DEF Grub, content
    <3>2. CASE ~readable
      <4>1. Selected = A
        BY <3>2 DEF Selected, Eligible, EnvOrder, EnvOk, EnvTry
      <4>2. QED
        BY <3>1, <3>2, <4>1
    <3>3. CASE readable /\ Eligible(Selected)
      <4>1. ok[Selected] = 1 /\ Selected \in Slots
        BY <3>3, SelectedType DEF Eligible, EnvOk
      <4>2. QED
        BY <3>1, <4>1
    <3>4. CASE readable /\ ~Eligible(Selected)
      <4>1. Selected = A /\ ~Eligible(EnvOrder)
        BY <3>4 DEF Selected
      <4>2. \A s \in Slots : try'[s] = 1
        BY <2>1, <3>4, <4>1 DEF Grub, TriedAfter, Visited
      <4>3. QED
        BY <3>1, <4>1, <4>2
    <3>5. QED
      BY <3>2, <3>3, <3>4
  <2>2. CASE phase' # "menu"
    BY <2>2
  <2>3. CASE UNCHANGED <<phase, default, image, readable, ok, try>>
    BY <2>3
  <2>4. CASE phase = "up" /\ phase' = "up"
    BY <2>4
  <2>5. QED
    BY <2>1, <2>2, <2>3, <2>4
    DEF Next, MenuTimeout, MenuPick, Launch, BootUp, BootCheck, Reboot, PowerCycle, PowerCut,
        TornWrite, PowerOff, BecomeSteady, InstallBegin, InstallWrite, InstallWritten,
        InstallFail, InstallActivate, grubenv, content, vars
<1>3. QED
  BY <1>1, <1>2, TypeCorrect, HalfIsMarkedInvariant, PTL DEF Spec

----------------------------------------------------------------------------
\* There is always a slot that boots, whatever is installed and whenever the
\* power fails: RAUC writes only beside the slot that has come up.
SoundSlotRemains == \E s \in Slots : image[s] = "good"

RunsSound == phase = "up" => image[running] = "good"

THEOREM NeverWithoutSoundSlot == Spec => []SoundSlotRemains
<1>1. Init => SoundSlotRemains /\ RunsSound
  BY DEF Init, SoundSlotRemains, RunsSound
<1>2. ASSUME TypeOK, SoundSlotRemains, RunsSound, [Next]_vars
      PROVE  SoundSlotRemains' /\ RunsSound'
  <2> USE DEF SoundSlotRemains, RunsSound
  <2>1. CASE InstallWrite \/ InstallWritten
    <3>1. phase = "up" /\ phase' = "up" /\ running' = running /\ running \in Slots
      BY <1>2, <2>1 DEF InstallWrite, InstallWritten, TypeOK
    <3>2. image'[running] = "good"
      BY <1>2, <2>1, <3>1, OtherType DEF InstallWrite, InstallWritten, Target, TypeOK
    <3> QED BY <3>1, <3>2
  <2>2. CASE BootUp
    BY <1>2, <2>2 DEF BootUp, content
  <2>3. CASE UNCHANGED image /\ (phase' # "up" \/ UNCHANGED <<phase, running>>)
    BY <1>2, <2>3
  <2> QED
    BY <1>2, <2>1, <2>2, <2>3
    DEF Next, Grub, MenuTimeout, MenuPick, Launch, BootCheck, Reboot, PowerCycle, PowerCut,
        TornWrite, PowerOff, BecomeSteady, InstallBegin, InstallFail, InstallActivate, content, vars
<1> QED
  BY <1>1, <1>2, TypeCorrect, PTL DEF Spec

----------------------------------------------------------------------------
\* GRUB spends the TRY of an eligible slot only on making it the default: saving the
\* variables of all slots the loop reached takes no chance away from the slot
\* that a fallback would need.
NoTrialWasted ==
  [][\A s \in Slots : readable /\ Eligible(s) /\ try'[s] = 1
       => phase' = "menu" /\ default' = s]_vars

THEOREM TrialsAreUsed == Spec => NoTrialWasted
<1>1. ASSUME TypeOK, [Next]_vars, NEW s \in Slots,
             readable, Eligible(s), try'[s] = 1
      PROVE  phase' = "menu" /\ default' = s
  <2>1. try[s] = 0 /\ try \in [Slots -> {0, 1}]
    BY <1>1 DEF Eligible, EnvTry, TypeOK
  <2>2. CASE Grub
    <3>1. phase' = "menu" /\ default' = Selected /\ try' = TriedAfter(try)
      BY <1>1, <2>2 DEF Grub
    <3>2. s \in Visited
      BY <1>1, <2>1, <3>1 DEF TriedAfter
    <3>3. CASE Eligible(EnvOrder)
      BY <3>1, <3>2, <3>3 DEF Visited, Selected
    <3>4. CASE ~Eligible(EnvOrder)
      <4>1. EnvOrder \in Slots /\ s # EnvOrder
        BY <1>1, <3>4 DEF EnvOrder, TypeOK
      <4>2. s = Other(EnvOrder)
        BY <4>1 DEF Other
      <4> QED BY <1>1, <3>1, <3>4, <4>2 DEF Selected
    <3> QED BY <3>3, <3>4
  <2>3. CASE BootCheck
    <3>1. try' = [try EXCEPT ![running] = 0]
      BY <2>3 DEF BootCheck
    <3> QED BY <1>1, <2>1, <3>1
  <2>4. CASE InstallBegin \/ InstallActivate
    <3>1. try' = [try EXCEPT ![Target] = 0]
      BY <2>4 DEF InstallBegin, InstallActivate
    <3> QED BY <1>1, <2>1, <3>1
  <2>5. CASE UNCHANGED try
    BY <1>1, <2>1, <2>5
  <2> QED
    BY <1>1, <2>2, <2>3, <2>4, <2>5
    DEF Next, MenuTimeout, MenuPick, Launch, BootUp, Reboot, PowerOff, PowerCycle, PowerCut,
        TornWrite, BecomeSteady, InstallWrite, InstallWritten, InstallFail, grubenv, vars
<1>2. TypeOK /\ [Next]_vars =>
        [\A s \in Slots : readable /\ Eligible(s) /\ try'[s] = 1
           => phase' = "menu" /\ default' = s]_vars
  BY <1>1
<1> QED
  BY <1>2, TypeCorrect, PTL DEF Spec, NoTrialWasted

----------------------------------------------------------------------------
(* Startup.                                                                *)

\* Each step of the machine is one of the boot slots, and one of the initramfs.
LEMMA StepOfBoth == StartupNext => [Next]_vars /\ [FirstBootNext]_firstBootVars
<1> SUFFICES ASSUME StartupNext PROVE [Next]_vars /\ [FirstBootNext]_firstBootVars
  OBVIOUS
<1>1. CASE Loader \/ Desktop \/ Confirm \/ Install
  BY <1>1 DEF Loader, Desktop, Confirm, Install, Next
<1>2. CASE Initramfs \/ InitramfsFails \/ OperatorSaves \/ FileSystem
  BY <1>2 DEF Initramfs, InitramfsFails, OperatorSaves, FileSystem, ScriptStep,
     FirstBootNext, BootStep
<1>3. CASE CleanReboot \/ PowerFails \/ CalmDown
  BY <1>3 DEF CleanReboot, PowerFails, CalmDown, Next, FirstBootNext
<1>4. CASE OperatorCycles
  BY <1>4 DEF OperatorCycles, Next, FirstBootNext, BootStep
<1> QED
  BY <1>1, <1>2, <1>3, <1>4 DEF StartupNext

\* The machine implements both: what is proved of the boot slots, whose kernels
\* start no initramfs, and of the initramfs, which knows of no slots, holds of
\* them together.
THEOREM StartupIsBoth == StartupSpec => Spec /\ FirstBootSpec
<1>1. StartupInit => Init /\ FirstBootInit
  BY DEF StartupInit
<1>2. [StartupNext]_startupVars => [Next]_vars /\ [FirstBootNext]_firstBootVars
  BY StepOfBoth DEF startupVars
<1> QED
  BY <1>1, <1>2, PTL DEF StartupSpec, Spec, FirstBootSpec

\* The safety properties of the run, for the machine the run checks.
THEOREM StartupIsSafe ==
  StartupSpec =>
    /\ []TypeOK /\ []FirstBootTypeOK
    /\ []ConfirmedSlotBootsNext /\ []HalfWrittenOnlyAsLastResort
    /\ RechosenOnlyAsLastResort /\ SavedFilesSurvive
BY StartupIsBoth, TypeCorrect, FirstBootTypeCorrect, ConfirmedBootRepeats,
   HalfWrittenIsLastResort, RechoiceIsLastResort, SavedFilesKept, PTL

\* The desktop, and with it the confirmation of a boot, is only reached on a
\* userdata partition that is formatted, and whose marker is on the disk: no
\* slot is confirmed whose initramfs has not brought the machine to that point.
DesktopIsProvisioned == phase = "up" => part = "ext4" /\ durable

THEOREM ConfirmedOnUserdata == StartupSpec => []DesktopIsProvisioned
<1> DEFINE RootSwitched == phase = "up" => pc = "up"
<1>1. StartupInit => RootSwitched
  BY DEF StartupInit, Init
<1>2. ASSUME RootSwitched, [StartupNext]_startupVars PROVE RootSwitched'
  <2>1. CASE Loader
    BY <2>1 DEF Loader, Grub, MenuTimeout, MenuPick, Launch
  <2>2. CASE Initramfs \/ InitramfsFails
    BY <2>2 DEF Initramfs, InitramfsFails, KernelRuns, vars
  <2>3. CASE Desktop
    BY <2>3 DEF Desktop, firstBootVars, boot
  <2>4. CASE Confirm \/ Install
    BY <1>2, <2>4 DEF Confirm, Install, BootCheck, InstallBegin, InstallWrite, InstallWritten,
       InstallFail, InstallActivate, firstBootVars, boot
  <2>5. CASE OperatorSaves \/ FileSystem
    BY <1>2, <2>5 DEF OperatorSaves, FileSystem, Save, Commit, WriteBack, vars, boot
  <2>6. CASE CleanReboot \/ PowerFails \/ OperatorCycles
    BY <2>6 DEF CleanReboot, PowerFails, OperatorCycles, Reboot, PowerCut, TornWrite,
       PowerCycle, PowerOff
  <2>7. CASE CalmDown
    BY <1>2, <2>7 DEF CalmDown, BecomeSteady, BecomeReliable, boot
  <2>8. CASE UNCHANGED startupVars
    BY <1>2, <2>8 DEF startupVars, vars, firstBootVars, boot
  <2> QED
    BY <1>2, <2>1, <2>2, <2>3, <2>4, <2>5, <2>6, <2>7, <2>8 DEF StartupNext
<1>3. FirstBootTypeOK /\ SavedInv /\ RootSwitched => DesktopIsProvisioned
  BY DEF FirstBootTypeOK, Mounted, SavedInv, MarkerFirst, DesktopIsProvisioned
<1> QED
  BY <1>1, <1>2, <1>3, StartupIsBoth, FirstBootTypeCorrect, SavedInvariant, PTL DEF StartupSpec
=============================================================================
