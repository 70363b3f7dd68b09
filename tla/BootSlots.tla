----------------------------- MODULE BootSlots -----------------------------
(***************************************************************************)
(* A/B slot booting: the GRUB script (wic/mdmx-grub.cfg), the environment  *)
(* block it shares with userland (grubenv on the ESP), the oneshot that    *)
(* confirms a boot (mdmx-bootcheck) and the RAUC installer that fills the  *)
(* other slot.  Power may fail between any two steps.  Module Startup joins *)
(* this to what the initramfs does in between.                             *)
(*                                                                         *)
(* RAUC and grub-editenv are not in the repository.  They are modelled     *)
(* from how system.conf, mdmx-updater-install and mdmx-bootcheck.sh use    *)
(* them.                                                                   *)
(***************************************************************************)
EXTENDS Integers, FiniteSets

CONSTANTS
  A, B,           \* the two firmware slots; GRUB's menu entry 0 is slot A
  None,           \* no slot
  Bundles,        \* what a bundle may hold: a subset of {"good", "bad"}
  MountsEsp,      \* may a slot's fstab list the ESP?  a subset of BOOLEAN
  TornWrites      \* may a power cut truncate the grubenv under grub-editenv?

Slots == {A, B}

ASSUME SlotsDiffer == A # B /\ None \notin Slots
ASSUME BundlesAssumption == Bundles \subseteq {"good", "bad"}
ASSUME MountsEspAssumption == MountsEsp \subseteq BOOLEAN /\ MountsEsp # {}
ASSUME TornWritesAssumption == TornWrites \in BOOLEAN

\* "half" is a slot RAUC had begun to write; it is taken not to boot.
Images == {"good", "bad", "half"}

VARIABLES
  order,          \* grubenv ORDER: the slot that is tried first
  ok, try,        \* grubenv <slot>_OK and <slot>_TRY
  readable,       \* does the grubenv hold a valid block ( -s test, load_env)?
  phase,          \* what the machine does now
  default,        \* GRUB's default menu entry, as a slot
  running,        \* the slot on the kernel command line (rauc.slot=)
  confirmed,      \* has mdmx-bootcheck run since this boot?
  image, esp,     \* per slot: its content, and whether its fstab has the ESP
  install,        \* where RAUC is
  steady,         \* from here on no power cut and nobody at the boot menu
  chosen,         \* history: the slots GRUB has made its default since userland
                  \* (or RAUC) last cleared their TRY
  switched        \* history: has RAUC rewritten ORDER since this boot?

grubenv == <<order, ok, try, readable>>
content == <<image, esp>>
history == <<chosen, switched>>
vars == <<grubenv, phase, default, running, confirmed, content, install,
          steady, history>>

Phases == {"off", "menu", "booting", "up"}
InstallSteps == {"idle", "marked", "writing", "written"}

\* The other slot of the pair.
Other(s) == IF s = A THEN B ELSE A

----------------------------------------------------------------------------
(* The selection in mdmx-grub.cfg.                                         *)

\* load_env, and the defaults of the variables it leaves unset.
EnvOrder == IF readable THEN order ELSE A
EnvOk    == IF readable THEN ok ELSE [s \in Slots |-> 1]
EnvTry   == IF readable THEN try ELSE [s \in Slots |-> 0]

Eligible_IgnoresOk(s) == EnvTry[s] = 0   \* mutant: the OK test is dropped

Eligible(s) == EnvOk[s] = 1 /\ EnvTry[s] = 0

Visited_NoBreak == Slots                  \* mutant: no break in the loop

\* The slots the loop reaches: it stops at the first eligible one.
Visited == IF Eligible(EnvOrder) THEN {EnvOrder} ELSE Slots

\* No slot eligible: the loop runs out and "default=0" stands.
Selected == IF Eligible(EnvOrder) THEN EnvOrder
            ELSE IF Eligible(Other(EnvOrder)) THEN Other(EnvOrder)
            ELSE A

TriedAfter_NotSaved(e) == e                                  \* mutants: TRY is
TriedAfter_Counts(e) == [s \in Slots |-> e[s] + 1]           \* lost, or counted

\* Every slot the loop reached gets TRY=1, whether it was eligible or not.
TriedAfter(e) == [s \in Slots |-> IF s \in Visited THEN 1 ELSE e[s]]

----------------------------------------------------------------------------
Init ==
  \* mdmx-grubenv_1.0.bb, and the factory image in both slots
  /\ order = A
  /\ ok = [s \in Slots |-> 1]
  /\ try = [s \in Slots |-> 0]
  /\ readable = TRUE
  /\ phase = "off"
  /\ default = A
  /\ running = None
  /\ confirmed = FALSE
  /\ image = [s \in Slots |-> "good"]
  /\ esp \in [Slots -> MountsEsp]
  /\ install = "idle"
  /\ steady = FALSE
  /\ chosen = {}
  /\ switched = FALSE

\* Power comes on: GRUB reads the block, selects a slot and saves the block
\* before the menu is shown.  save_env needs a valid block to write to.
Grub ==
  /\ phase = "off"
  /\ phase' = "menu"
  /\ default' = Selected
  /\ try' = IF readable THEN TriedAfter(try) ELSE try
  /\ chosen' = chosen \cup {Selected}
  /\ confirmed' = FALSE
  /\ switched' = FALSE
  /\ UNCHANGED <<order, ok, readable, running, content, install, steady>>

\* The kernel of slot s starts with rauc.slot=s.
Launch(s) ==
  /\ phase = "menu"
  /\ phase' = "booting"
  /\ running' = s
  /\ UNCHANGED <<grubenv, default, confirmed, content, install, steady, history>>

MenuTimeout == Launch(default)

\* The operator picks the other entry within the three seconds.
MenuPick == ~steady /\ Launch(Other(default))

\* The slot reaches graphical.target.
BootUp ==
  /\ phase = "booting"
  /\ image[running] = "good"
  /\ phase' = "up"
  /\ UNCHANGED <<grubenv, default, running, confirmed, content, install, steady,
                 history>>

\* Mutant: clears the TRY of both slots.
BootCheck_ClearsBoth ==
  /\ phase = "up" /\ ~confirmed /\ esp[running] /\ readable
  /\ try' = [s \in Slots |-> 0]
  /\ chosen' = {}
  /\ confirmed' = TRUE
  /\ UNCHANGED <<order, ok, readable, phase, default, running, content, install,
                 steady, switched>>

\* mdmx-bootcheck: clears the TRY of the slot that runs.  Its unit is skipped
\* when the ESP is not mounted; grub-editenv fails on a block it cannot parse.
BootCheck ==
  /\ phase = "up"
  /\ ~confirmed
  /\ esp[running]
  /\ readable
  /\ try' = [try EXCEPT ![running] = 0]
  /\ chosen' = chosen \ {running}
  /\ confirmed' = TRUE
  /\ UNCHANGED <<order, ok, readable, phase, default, running, content, install,
                 steady, switched>>

PowerOff ==
  /\ phase' = "off"
  /\ running' = None
  /\ confirmed' = FALSE
  /\ install' = "idle"
  /\ UNCHANGED <<default, content, steady, history>>

\* A clean reboot from the desktop, also while RAUC works.
Reboot == phase = "up" /\ PowerOff /\ UNCHANGED grubenv

\* Whoever stands before a machine that does not come up cycles the power.
PowerCycle == phase = "booting" /\ PowerOff /\ UNCHANGED grubenv

PowerCut == ~steady /\ phase # "off" /\ PowerOff /\ UNCHANGED grubenv

\* grub-editenv rewrites the file: a cut in the middle leaves no valid block.
TornWrite ==
  /\ TornWrites
  /\ ~steady
  /\ phase = "up"
  /\ esp[running]
  /\ readable
  /\ ~confirmed \/ install # "idle"
  /\ PowerOff
  /\ readable' = FALSE
  /\ UNCHANGED <<order, ok, try>>

BecomeSteady ==
  /\ ~steady
  /\ steady' = TRUE
  /\ UNCHANGED <<grubenv, phase, default, running, confirmed, content, install,
                 history>>

----------------------------------------------------------------------------
(* rauc install, started by mdmx-updater-install.                          *)

Target == Other(running)

\* RAUC has verified the bundle; it marks the target slot as not bootable.
InstallBegin ==
  /\ phase = "up"
  /\ install = "idle"
  /\ esp[running]
  /\ readable
  /\ install' = "marked"
  /\ ok' = [ok EXCEPT ![Target] = 0]
  /\ try' = [try EXCEPT ![Target] = 0]
  /\ chosen' = chosen \ {Target}
  /\ UNCHANGED <<order, readable, phase, default, running, confirmed, content,
                 steady, switched>>

InstallWrite ==
  /\ install = "marked"
  /\ install' = "writing"
  /\ image' = [image EXCEPT ![Target] = "half"]
  /\ UNCHANGED <<grubenv, phase, default, running, confirmed, esp, steady,
                 history>>

InstallWritten ==
  /\ install = "writing"
  /\ install' = "written"
  /\ \E b \in Bundles, m \in MountsEsp :
       /\ image' = [image EXCEPT ![Target] = b]
       /\ esp' = [esp EXCEPT ![Target] = m]
  /\ UNCHANGED <<grubenv, phase, default, running, confirmed, steady, history>>

\* An I/O error: the target stays marked as it is.
InstallFail ==
  /\ install \in {"marked", "writing"}
  /\ install' = "idle"
  /\ UNCHANGED <<grubenv, phase, default, running, confirmed, content, steady,
                 history>>

\* The target becomes the first slot of ORDER, bootable and untried.
InstallActivate ==
  /\ install = "written"
  /\ install' = "idle"
  /\ order' = Target
  /\ ok' = [ok EXCEPT ![Target] = 1]
  /\ try' = [try EXCEPT ![Target] = 0]
  /\ chosen' = chosen \ {Target}
  /\ switched' = TRUE
  /\ UNCHANGED <<readable, phase, default, running, confirmed, content, steady>>

----------------------------------------------------------------------------
Next ==
  \/ Grub \/ MenuTimeout \/ MenuPick \/ BootUp \/ BootCheck
  \/ Reboot \/ PowerCycle \/ PowerCut \/ TornWrite \/ BecomeSteady
  \/ InstallBegin \/ InstallWrite \/ InstallWritten \/ InstallFail
  \/ InstallActivate

Spec == Init /\ [][Next]_vars

----------------------------------------------------------------------------
TypeOK ==
  /\ order \in Slots
  /\ ok \in [Slots -> {0, 1}]
  /\ try \in [Slots -> {0, 1}]
  /\ readable \in BOOLEAN
  /\ phase \in Phases
  /\ default \in Slots
  /\ running \in Slots \cup {None}
  /\ (phase \in {"booting", "up"}) <=> (running # None)
  /\ confirmed \in BOOLEAN
  /\ image \in [Slots -> Images]
  /\ esp \in [Slots -> BOOLEAN]
  /\ install \in InstallSteps
  /\ install # "idle" => phase = "up"
  /\ steady \in BOOLEAN
  /\ chosen \subseteq Slots
  /\ switched \in BOOLEAN

\* GRUB goes back to a slot that it has made its default before, and whose TRY
\* nobody has cleared since, in one case only: slot A, by "default=0", when no
\* slot is eligible or the block cannot be read.  A slot that hangs is left for
\* the other one first, whatever power cuts, picks at the menu and interrupted
\* installations came in between (mdmx-grub.cfg, the TRY assignments, save_env).
RechosenOnlyAsLastResort ==
  [][phase = "off" /\ phase' = "menu" /\ default' \in chosen =>
       /\ default' = A
       /\ readable => \A s \in Slots : ok[s] = 0 \/ try[s] = 1]_vars

\* Once mdmx-bootcheck has confirmed a boot, the next one selects the same
\* slot, whichever way this one was reached (a fallback, the operator's
\* choice) and however far an installation got before the power went: only
\* RAUC's rewriting of ORDER moves the selection (mdmx-bootcheck_1.0.bb).
ConfirmedSlotBootsNext ==
  phase = "up" /\ confirmed /\ readable /\ ok[running] = 1 /\ ~switched
    => Selected = running

\* A slot whose installation was interrupted is the default only when the
\* environment offers nothing else: "default=0" after both slots were tried,
\* or a block that cannot be read.
HalfWrittenOnlyAsLastResort ==
  phase = "menu" /\ image[default] = "half" =>
    /\ default = A
    /\ ~readable \/ (ok[A] = 0 /\ \A s \in Slots : try[s] = 1)
=============================================================================
