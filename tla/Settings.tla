------------------------------ MODULE Settings ------------------------------
(***************************************************************************)
(* console-settings.ini and what hangs on it.  Three programs share the    *)
(* file, each with a section of its own, and each saves it whole: a copy   *)
(* is read, one section of the copy changed, the copy renamed over the     *)
(* file.  No lock orders them.  console-lock owns the PIN, the explorer    *)
(* the show-hidden preference, console-settings-daemon the rest: the       *)
(* keyboard and time zone, and which touch panel belongs to which output.  *)
(*                                                                         *)
(* Panels of one model look alike to sway.  The daemon therefore writes a  *)
(* libinput quirks file that gives every mapped panel a name of its own,   *)
(* and restarts sway, which reads the quirks when it starts.  It is assumed *)
(* that libinput honours the attribute which the helper writes             *)
(* (AttrDeviceNameOverride): neither libinput nor a patch for it is in the *)
(* repository.                                                             *)
(***************************************************************************)
EXTENDS FiniteSets, Integers

CONSTANTS
  Outputs, Panels,        \* all panels are of the same model
  Pins, DefaultPin,
  NoPanel, NoOutput, NoCopy,
  Model,                  \* the identifier of every panel without a quirk
  MaxDisturbances         \* bound on what the operator and the surroundings
                          \* do before things settle

ASSUME SettingsAssumption ==
  /\ DefaultPin \in Pins /\ MaxDisturbances \in Nat
  /\ NoPanel \notin Panels /\ Model \notin Panels /\ NoOutput \notin Outputs

Writers == {"lock", "explorer", "daemon"}
TouchMaps == [Outputs -> Panels \cup {NoPanel}]
Ini == [pin : Pins, hidden : BOOLEAN, setup : BOOLEAN, map : TouchMaps]
ASSUME NoCopyAssumption == NoCopy \notin Ini

VARIABLES
  ini,            \* the file; "setup": keyboard layout and time zone are set
  quirks,         \* panels named in the quirks file
  plugged,        \* panels connected
  loaded,         \* the quirks sway read when it started
  route,          \* sway: identifier -> output its touches go to
  applied,        \* the daemon took its fast path in this session
  copy,           \* per writer: what it read and has not saved yet
  dpc, dmap,      \* daemon; dmap: the calibrated touch map
  lpc, pending,   \* Locker: _stage, _pending_new_pin
  epc, shown,     \* explorer; shown: MainWindow._show_hidden
  stale,          \* history: writers whose copy predates another's save
  behind,         \* history: the map was saved, the quirks for it not written
  spent,          \* disturbances so far
  settled         \* from here on there are none, and nothing fails

daemon == <<dpc, dmap>>
locker == <<lpc, pending>>
explorer == <<epc, shown>>
sway == <<loaded, route, applied>>
calm == <<spent, settled>>
vars == <<ini, quirks, plugged, sway, copy, daemon, locker, explorer, stale,
          behind, calm>>

NoMap == [o \in Outputs |-> NoPanel]
Stored(m) == {m[o] : o \in Outputs} \ {NoPanel}

\* scan_touchscreens: the name the quirks gave the panel if sway knows it
\* under that name, else its device name.
Identifier_DeviceName(p) == Model     \* mutant: the device name comes first
Identifier(p) == IF p \in loaded THEN p ELSE Model

Unrouted == [i \in Panels \cup {Model} |-> NoOutput]

Init ==
  /\ ini = [pin |-> DefaultPin, hidden |-> FALSE, setup |-> FALSE, map |-> NoMap]
  /\ quirks = {} /\ plugged \in SUBSET Panels
  /\ loaded = {} /\ route = Unrouted /\ applied = FALSE
  /\ copy = [w \in Writers |-> NoCopy]
  /\ dpc = "start" /\ dmap = NoMap
  /\ lpc = "off" /\ pending = DefaultPin
  /\ epc = "closed" /\ shown = FALSE
  /\ stale = {} /\ behind = FALSE /\ spent = 0 /\ settled = FALSE

Disturbed ==
  /\ ~settled /\ spent < MaxDisturbances
  /\ spent' = spent + 1 /\ settled' = settled

----------------------------------------------------------------------------
(* Reading and saving the file.                                            *)

Read(w) ==
  /\ copy' = [copy EXCEPT ![w] = ini]
  /\ stale' = stale \ {w}

\* mkstemp, write, os.replace: the file becomes the writer's copy.  What
\* others saved since the copy was read is gone.
Save(w, new) ==
  /\ ini' = new
  /\ copy' = [copy EXCEPT ![w] = NoCopy]
  /\ stale' = (stale \cup {v \in Writers : copy[v] # NoCopy}) \ {w}

Drop(w) ==
  /\ copy' = [copy EXCEPT ![w] = NoCopy]
  /\ stale' = stale \ {w}

----------------------------------------------------------------------------
(* console-settings-daemon: started with sway, or by hand with             *)
(* --reconfigure.                                                          *)

\* diagnose: nothing is missing, and the mapped panels are those connected.
Complete == ini.setup /\ Stored(ini.map) = plugged

\* apply_settings: one map_to_output command per mapped output, addressed by
\* identifier; of two with the same identifier the later one counts.
Routed(m) ==
  LET claims(i) == {o \in Outputs : m[o] \in plugged /\ Identifier(m[o]) = i}
  IN  \E pick \in [Panels \cup {Model} -> Outputs \cup {NoOutput}] :
        /\ \A i \in Panels \cup {Model} :
             IF claims(i) = {} THEN pick[i] = route[i] ELSE pick[i] \in claims(i)
        /\ route' = pick

FastPath ==
  /\ dpc = "start" /\ Complete
  /\ Routed(ini.map)
  /\ applied' = TRUE /\ dpc' = "off"
  /\ UNCHANGED <<ini, quirks, plugged, loaded, copy, dmap, locker, explorer,
                 stale, behind, calm>>

OpenWizard ==
  /\ \/ dpc = "start" /\ ~Complete /\ UNCHANGED calm
     \/ dpc = "off" /\ Disturbed             \* --reconfigure
  /\ Read("daemon")
  /\ dpc' = "wizard"
  /\ UNCHANGED <<ini, quirks, plugged, sway, dmap, locker, explorer, behind>>

\* The pages and the calibration: for each output a touch of a connected
\* panel, or a skip.  Touches are read from evdev, also when they are meant for
\* a lock screen above the wizard.  list_touchscreens_evdev looks at the event
\* devices and scan_touchscreens at udev's ID_INPUT_TOUCHSCREEN: "plugged"
\* takes both for the same set.
Calibrate ==
  /\ dpc = "wizard"
  /\ \E m \in TouchMaps :
       /\ Stored(m) \subseteq plugged
       /\ settled => Stored(m) = plugged
       /\ dmap' = m
  /\ dpc' = "save"
  /\ UNCHANGED <<ini, quirks, plugged, sway, copy, locker, explorer, stale,
                 behind, calm>>

\* A page was closed, sway could not be reached or the file not be written.
DaemonGivesUp ==
  /\ Disturbed
  /\ dpc \in {"start", "wizard", "save"}
  /\ Drop("daemon")
  /\ dpc' = "off" /\ dmap' = NoMap
  /\ UNCHANGED <<ini, quirks, plugged, sway, locker, explorer, behind>>

\* set_input_section replaces the whole section, set_time_section the zone.
WithInput_Fresh(cfg, m) ==       \* mutant: the PIN is not carried over
  [cfg EXCEPT !.pin = DefaultPin, !.setup = TRUE, !.map = m]
WithInput_Merged(cfg, m) ==      \* mutant: old touch_map keys stay
  [cfg EXCEPT !.setup = TRUE,
              !.map = [o \in Outputs |-> IF m[o] = NoPanel THEN cfg.map[o] ELSE m[o]]]
WithInput(cfg, m) == [cfg EXCEPT !.setup = TRUE, !.map = m]

SaveSettings ==
  /\ dpc = "save"
  /\ Save("daemon", WithInput(copy["daemon"], dmap))
  /\ dpc' = IF Stored(dmap) = {} THEN "off" ELSE "quirks"
  /\ behind' = (Stored(dmap) # {})
  /\ dmap' = IF Stored(dmap) = {} THEN NoMap ELSE dmap
  /\ UNCHANGED <<quirks, plugged, sway, locker, explorer, calm>>

\* write_quirks: an entry for each mapped panel, once.
QuirkEntries_Skipped(m) == {m[o] : o \in Outputs}   \* mutant: skips as well
QuirkEntries(m) == Stored(m)

WriteQuirks ==
  /\ dpc = "quirks"
  /\ quirks' = QuirkEntries(dmap)
  /\ behind' = (behind /\ ini.map # dmap)
  /\ dpc' = "restart" /\ dmap' = NoMap
  /\ UNCHANGED <<ini, plugged, sway, copy, locker, explorer, stale, calm>>

\* pkexec or the helper failed: the map is saved, the quirks are the old ones.
WriteQuirksFails ==
  /\ dpc = "quirks" /\ Disturbed
  /\ dpc' = "off" /\ dmap' = NoMap
  /\ UNCHANGED <<ini, quirks, plugged, sway, copy, locker, explorer, stale,
                 behind>>

\* sway starts: quirks are read, every client of the old session is gone, and
\* the daemon is started anew.
NewSession ==
  /\ loaded' = quirks /\ route' = Unrouted /\ applied' = FALSE
  /\ copy' = [w \in Writers |-> NoCopy] /\ stale' = {}
  /\ dpc' = "start" /\ dmap' = NoMap
  /\ lpc' = "off" /\ epc' = "closed"
  /\ pending' = DefaultPin /\ shown' = FALSE
  /\ UNCHANGED <<ini, quirks, plugged, behind>>

RestartSway == dpc = "restart" /\ NewSession /\ UNCHANGED calm

RestartFails ==
  /\ dpc = "restart" /\ Disturbed
  /\ dpc' = "off"
  /\ UNCHANGED <<ini, quirks, plugged, sway, copy, dmap, locker, explorer,
                 stale, behind>>

----------------------------------------------------------------------------
(* console-lock.                                                           *)

LockScreen ==
  /\ lpc = "off" /\ Disturbed
  /\ lpc' \in {"unlock", "current"}          \* without and with --change-pin
  /\ UNCHANGED <<ini, quirks, plugged, sway, copy, daemon, pending, explorer,
                 stale, behind>>

\* _submit.  In the first two stages only the PIN read at start leads on, and
\* anything else changes nothing; a mismatch leads back to "new".
Submit(entered) ==
  /\ \/ lpc = "unlock" /\ lpc' = "off" /\ UNCHANGED <<pending, copy, stale>>
     \/ lpc = "current" /\ lpc' = "new" /\ UNCHANGED <<pending, copy, stale>>
     \/ /\ lpc = "new" /\ lpc' = "confirm"
        /\ pending' = entered /\ UNCHANGED <<copy, stale>>
     \/ /\ lpc = "confirm" /\ entered = pending /\ lpc' = "save"
        /\ Read("lock") /\ UNCHANGED pending
     \/ /\ lpc = "confirm" /\ entered # pending /\ ~settled /\ lpc' = "new"
        /\ pending' = DefaultPin /\ UNCHANGED <<copy, stale>>
  /\ UNCHANGED <<ini, quirks, plugged, sway, daemon, explorer, behind, calm>>

SavePin ==
  /\ lpc = "save"
  /\ Save("lock", [copy["lock"] EXCEPT !.pin = pending])
  /\ behind' = (behind \/ ini'.map # ini.map)
  /\ lpc' = "off" /\ pending' = DefaultPin
  /\ UNCHANGED <<quirks, plugged, sway, daemon, explorer, calm>>

SavePinFails ==
  /\ lpc = "save" /\ Disturbed
  /\ Drop("lock")
  /\ lpc' = "new" /\ pending' = DefaultPin
  /\ UNCHANGED <<ini, quirks, plugged, sway, daemon, explorer,
                 behind>>

----------------------------------------------------------------------------
(* The explorer's preference.                                              *)

StartExplorer ==
  /\ epc = "closed" /\ lpc = "off"
  /\ epc' = "open" /\ shown' = ini.hidden
  /\ UNCHANGED <<ini, quirks, plugged, sway, copy, daemon, locker, stale,
                 behind, calm>>

ToggleHidden ==
  /\ epc = "open" /\ lpc = "off" /\ Disturbed
  /\ shown' = ~shown
  /\ Read("explorer")
  /\ epc' = "save"
  /\ UNCHANGED <<ini, quirks, plugged, sway, daemon, locker, behind>>

SaveHidden ==
  /\ epc = "save"
  /\ Save("explorer", [copy["explorer"] EXCEPT !.hidden = shown])
  /\ behind' = (behind \/ ini'.map # ini.map)
  /\ epc' = "open"
  /\ UNCHANGED <<quirks, plugged, sway, daemon, locker, shown, calm>>

SaveHiddenFails ==
  /\ epc = "save" /\ Disturbed
  /\ Drop("explorer")
  /\ epc' = "open"
  /\ UNCHANGED <<ini, quirks, plugged, sway, daemon, locker, shown, behind>>

----------------------------------------------------------------------------
(* The surroundings.                                                       *)

Hotplug ==
  /\ Disturbed
  /\ \E p \in Panels :
       plugged' = IF p \in plugged THEN plugged \ {p} ELSE plugged \cup {p}
  /\ UNCHANGED <<ini, quirks, sway, copy, daemon, locker, explorer, stale,
                 behind>>

\* A power cycle, or sway dies and systemd starts it again.
SessionEnds ==
  /\ \/ Disturbed
     \/ settled /\ dpc = "off" /\ UNCHANGED calm
  /\ NewSession

\* From here on the operator calibrates every panel (there is an output for
\* each), nothing fails, and nobody changes another setting meanwhile.
Settle ==
  /\ ~settled /\ Cardinality(plugged) <= Cardinality(Outputs)
  /\ settled' = TRUE /\ spent' = MaxDisturbances
  /\ UNCHANGED <<ini, quirks, plugged, sway, copy, daemon, locker, explorer,
                 stale, behind>>

Daemon == FastPath \/ OpenWizard \/ Calibrate \/ SaveSettings \/ WriteQuirks
          \/ RestartSway
Locker == SavePin \/ \E entered \in Pins : Submit(entered)

Next ==
  \/ Daemon \/ DaemonGivesUp \/ WriteQuirksFails \/ RestartFails
  \/ LockScreen \/ Locker \/ SavePinFails
  \/ StartExplorer \/ ToggleHidden \/ SaveHidden \/ SaveHiddenFails
  \/ Hotplug \/ SessionEnds \/ Settle

Spec == Init /\ [][Next]_vars

\* The programs run to their end; the operator finishes the wizard and the
\* re-key dialogue, which has no way to cancel.
FairSpec == Spec /\ WF_vars(Daemon) /\ WF_vars(Locker) /\ WF_vars(SaveHidden)

----------------------------------------------------------------------------
(* Properties.                                                             *)

\* Every variable has its type.
TypeOK ==
  /\ ini \in Ini
  /\ quirks \subseteq Panels /\ plugged \subseteq Panels
  /\ loaded \subseteq Panels /\ applied \in BOOLEAN
  /\ route \in [Panels \cup {Model} -> Outputs \cup {NoOutput}]
  /\ copy \in [Writers -> Ini \cup {NoCopy}]
  /\ dpc \in {"start", "off", "wizard", "save", "quirks", "restart"}
  /\ dmap \in TouchMaps
  /\ lpc \in {"off", "unlock", "current", "new", "confirm", "save"}
  /\ pending \in Pins
  /\ epc \in {"closed", "open", "save"} /\ shown \in BOOLEAN
  /\ stale \subseteq Writers /\ behind \in BOOLEAN
  /\ spent \in 0..MaxDisturbances /\ settled \in BOOLEAN

Owner(field) ==
  CASE field = "pin" -> "lock" [] field = "hidden" -> "explorer"
    [] OTHER -> "daemon"
Saved(w) == copy[w] # NoCopy /\ copy'[w] = NoCopy

\* A PIN, a preference or a touch map changes only when its own program saves
\* it.  The one exception: a program whose copy is older than another's save
\* writes the old values back (console-settings-daemon.py:880-899, the wizard
\* holds its copy while the operator thinks).
UpdatesLostOnlyByOverlap ==
  [][\A f \in DOMAIN ini : ini'[f] # ini[f] =>
       \E w \in Writers : Saved(w) /\ (w = Owner(f) \/ w \in stale)]_vars

\* When a session starts on the fast path, and the quirks for the saved map
\* had been written, each panel drives the output it was calibrated for,
\* although all panels are of one model.
FastPathRoutesEachPanel ==
  [][~applied /\ applied' /\ ~behind =>
       \A p \in plugged : ini.map[route'[Identifier(p)]] = p]_vars

\* Once every panel has been calibrated under quiet conditions, no later start
\* opens the wizard again (and restarts sway under the operator).
WizardConverges == settled ~> [](dpc # "wizard")
=============================================================================
