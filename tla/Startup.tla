------------------------------ MODULE Startup ------------------------------
(***************************************************************************)
(* From power-on to the desktop: the boot slots (BootSlots) and the         *)
(* initramfs (FirstBoot) as one machine.  The kernel of a sound slot runs   *)
(* the initramfs, of which both slots carry the same and which works on the *)
(* one userdata partition they share; only then is graphical.target reached *)
(* and a boot confirmed.  A boot that ends in `fatal` has spent the TRY of  *)
(* its slot like one whose kernel hangs.  Power fails for both at once.     *)
(***************************************************************************)
EXTENDS BootSlots, FirstBoot

startupVars == <<vars, firstBootVars>>

StartupInit == Init /\ FirstBootInit

\* GRUB and its menu; the disk is not touched.
Loader == (Grub \/ MenuTimeout \/ MenuPick) /\ UNCHANGED firstBootVars

KernelRuns == phase = "booting" /\ image[running] = "good"

ScriptStep ==
  \/ PowerOn \/ Look \/ Sgdisk \/ WaitForLink \/ Mkfs \/ Mount \/ Seed \/ Mark
  \/ Sync \/ Bind

\* The kernel starts the initramfs, whose script runs to its end.
Initramfs == KernelRuns /\ ScriptStep /\ UNCHANGED vars
InitramfsFails == KernelRuns /\ Fails /\ UNCHANGED vars

\* The root is switched when the script has ended.
Desktop == BootUp /\ pc = "up" /\ UNCHANGED firstBootVars

Confirm == BootCheck /\ UNCHANGED firstBootVars

\* rauc install from the desktop; userdata is not part of a slot.
Install ==
  /\ InstallBegin \/ InstallWrite \/ InstallWritten \/ InstallFail \/ InstallActivate
  /\ UNCHANGED firstBootVars

OperatorSaves == phase = "up" /\ Save /\ UNCHANGED vars
FileSystem == (Commit \/ WriteBack) /\ UNCHANGED vars

----------------------------------------------------------------------------
(* Power.                                                                  *)

CleanReboot == Reboot /\ Shutdown

PowerFails ==
  /\ PowerCut \/ TornWrite
  /\ IF pc = "off" THEN UNCHANGED firstBootVars ELSE PowerLost

\* The kernel hangs, or the initramfs has stopped.
OperatorCycles ==
  /\ PowerCycle
  /\ \/ image[running] # "good" /\ UNCHANGED firstBootVars
     \/ SwitchOffAndOn

CalmDown == BecomeSteady /\ BecomeReliable

StartupNext ==
  \/ Loader \/ Initramfs \/ InitramfsFails \/ Desktop \/ Confirm \/ Install
  \/ OperatorSaves \/ FileSystem
  \/ CleanReboot \/ PowerFails \/ OperatorCycles \/ CalmDown

StartupSpec == StartupInit /\ [][StartupNext]_startupVars

\* Firmware, kernel, script and units run by themselves, and a dead machine is
\* power-cycled.
StartupFairSpec ==
  /\ StartupSpec
  /\ WF_startupVars((Grub \/ MenuTimeout) /\ UNCHANGED firstBootVars)
  /\ WF_startupVars(Initramfs) /\ WF_startupVars(Desktop)
  /\ WF_startupVars(Confirm) /\ WF_startupVars(OperatorCycles)

----------------------------------------------------------------------------
\* With steady power and nobody at the menu, a sound slot that a readable
\* environment makes eligible ends in a running desktop, whatever the other slot
\* holds, at whichever step earlier boots were cut off and whatever the initramfs
\* left on the disk.  The one exception is a partition that was created and not
\* formatted (firstboot:84-112): it stops both slots.
EligibleSoundSlotComesUp ==
  (/\ steady /\ readable
   /\ \E s \in Slots : Eligible(s) /\ image[s] = "good"
   /\ part # "blank" \/ pc \in {"wait", "mkfs"}) ~> (phase = "up")
=============================================================================
