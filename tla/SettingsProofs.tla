--------------------------- MODULE SettingsProofs ---------------------------
(***************************************************************************)
(* Proofs about module Settings, for every set of outputs, panels and PINs *)
(* and every number of disturbances: type correctness, that an update is   *)
(* lost only to an older copy, and that a fast path whose quirks were      *)
(* written sends each panel to its own output.                             *)
(***************************************************************************)
EXTENDS Settings, TLAPS

USE DEF Writers

\* A program about to save has a copy to save.
InHand ==
  /\ dpc \in {"wizard", "save"} => copy["daemon"] # NoCopy
  /\ lpc = "save" => copy["lock"] # NoCopy
  /\ epc = "save" => copy["explorer"] # NoCopy

Typed == TypeOK /\ InHand

\* A copy that is not stale is the file.
Fresh == \A w \in Writers : copy[w] # NoCopy /\ w \notin stale => copy[w] = ini

\* The quirks cover the saved map unless they lag behind it, and a session
\* that has not looked yet has read the present quirks.
Covered ==
  /\ ~behind => Stored(ini.map) \subseteq quirks
  /\ dpc = "quirks" => behind
  /\ dpc = "start" => loaded = quirks /\ ~applied

----------------------------------------------------------------------------
\* Reading, saving and dropping a copy keep the types and the copies in hand.
LEMMA ReadKeeps ==
  ASSUME ini \in Ini, copy \in [Writers -> Ini \cup {NoCopy}], stale \subseteq Writers,
         NEW w \in Writers, Read(w)
  PROVE  /\ copy' \in [Writers -> Ini \cup {NoCopy}] /\ stale' \subseteq Writers
         /\ copy'[w] # NoCopy
         /\ \A v \in Writers \ {w} : copy'[v] = copy[v]
BY NoCopyAssumption DEF Read

LEMMA SaveKeeps ==
  ASSUME copy \in [Writers -> Ini \cup {NoCopy}], stale \subseteq Writers,
         NEW w \in Writers, NEW new \in Ini, Save(w, new)
  PROVE  /\ ini' \in Ini
         /\ copy' \in [Writers -> Ini \cup {NoCopy}] /\ stale' \subseteq Writers
         /\ \A v \in Writers \ {w} : copy'[v] = copy[v]
BY DEF Save

LEMMA DropKeeps ==
  ASSUME copy \in [Writers -> Ini \cup {NoCopy}], stale \subseteq Writers,
         NEW w \in Writers, Drop(w)
  PROVE  /\ copy' \in [Writers -> Ini \cup {NoCopy}] /\ stale' \subseteq Writers
         /\ \A v \in Writers \ {w} : copy'[v] = copy[v]
BY DEF Drop

\* A new session starts with every variable in its type and no copy in hand.
LEMMA NewSessionTyped ==
  ASSUME Typed, NewSession, spent' \in 0..MaxDisturbances, settled' \in BOOLEAN
  PROVE  Typed'
BY SettingsAssumption
   DEF Typed, TypeOK, InHand, NewSession, Unrouted, NoMap, TouchMaps

LEMMA DisturbedTyped ==
  ASSUME TypeOK, Disturbed
  PROVE  spent' \in 0..MaxDisturbances /\ settled' \in BOOLEAN
BY SettingsAssumption DEF TypeOK, Disturbed

LEMMA TypedInit == Init => Typed
<1> SUFFICES ASSUME Init PROVE Typed
  OBVIOUS
<1>1. ini \in Ini /\ NoMap \in TouchMaps
  BY SettingsAssumption DEF Init, Ini, TouchMaps, NoMap
<1>2. route \in [Panels \cup {Model} -> Outputs \cup {NoOutput}]
  BY DEF Init, Unrouted
<1>3. spent \in 0..MaxDisturbances
  BY SettingsAssumption DEF Init
<1> QED
  BY <1>1, <1>2, <1>3, SettingsAssumption DEF Init, Typed, TypeOK, InHand

LEMMA TypedStep == Typed /\ [Next]_vars => Typed'
<1> SUFFICES ASSUME Typed, [Next]_vars PROVE Typed'
  OBVIOUS
<1> USE DEF Typed, TypeOK, InHand
<1>0. NoMap \in TouchMaps
  BY DEF NoMap, TouchMaps
<1>1. CASE FastPath
  <2>1. route' \in [Panels \cup {Model} -> Outputs \cup {NoOutput}]
    BY <1>1 DEF FastPath, Routed
  <2> QED BY <1>1, <2>1 DEF FastPath, daemon, locker, explorer, calm
<1>2. CASE OpenWizard
  <2>1. spent' \in 0..MaxDisturbances /\ settled' \in BOOLEAN
    BY <1>2, DisturbedTyped DEF OpenWizard, calm
  <2>2. Read("daemon")
    BY <1>2 DEF OpenWizard
  <2> QED BY <1>2, <2>1, <2>2, ReadKeeps DEF OpenWizard, sway, locker, explorer
<1>3. CASE Calibrate
  BY <1>3 DEF Calibrate, sway, locker, explorer, calm
<1>4. CASE SaveSettings
  <2>1. copy["daemon"] \in Ini
    BY <1>4 DEF SaveSettings
  <2>2. WithInput(copy["daemon"], dmap) \in Ini
    BY <2>1 DEF WithInput, Ini
  <2>3. Save("daemon", WithInput(copy["daemon"], dmap))
    BY <1>4 DEF SaveSettings
  <2> QED
    BY <1>0, <1>4, <2>2, <2>3, SaveKeeps DEF SaveSettings, sway, locker, explorer, calm
<1>5. CASE WriteQuirks
  <2>1. QuirkEntries(dmap) \subseteq Panels
    BY DEF QuirkEntries, Stored, TouchMaps
  <2> QED BY <1>0, <1>5, <2>1 DEF WriteQuirks, sway, locker, explorer, calm
<1>6. CASE RestartSway
  BY <1>6, NewSessionTyped DEF RestartSway, calm
<1>7. CASE DaemonGivesUp
  <2>1. Drop("daemon")
    BY <1>7 DEF DaemonGivesUp
  <2> QED
    BY <1>0, <1>7, <2>1, DropKeeps, DisturbedTyped
       DEF DaemonGivesUp, sway, locker, explorer
<1>8. CASE WriteQuirksFails
  BY <1>0, <1>8, DisturbedTyped DEF WriteQuirksFails, sway, locker, explorer
<1>9. CASE RestartFails
  BY <1>9, DisturbedTyped DEF RestartFails, sway, locker, explorer
<1>10. CASE LockScreen
  BY <1>10, DisturbedTyped DEF LockScreen, sway, daemon, explorer
<1>11. CASE SavePin
  <2>1. copy["lock"] \in Ini
    BY <1>11 DEF SavePin
  <2>2. [copy["lock"] EXCEPT !.pin = pending] \in Ini
    BY <2>1 DEF Ini
  <2>3. Save("lock", [copy["lock"] EXCEPT !.pin = pending])
    BY <1>11 DEF SavePin
  <2> QED
    BY <1>11, <2>2, <2>3, SaveKeeps, SettingsAssumption
       DEF SavePin, sway, daemon, explorer, calm
<1>12. ASSUME NEW entered \in Pins, Submit(entered) PROVE Typed'
  <2>1. CASE lpc = "confirm" /\ Read("lock") /\ lpc' = "save"
    BY <1>12, <2>1, ReadKeeps DEF Submit, sway, daemon, explorer, calm
  <2>2. CASE UNCHANGED <<copy, stale>> /\ lpc' # "save"
    BY <1>12, <2>2, SettingsAssumption DEF Submit, sway, daemon, explorer, calm
  <2> QED BY <1>12, <2>1, <2>2 DEF Submit
<1>13. CASE SavePinFails
  <2>1. Drop("lock")
    BY <1>13 DEF SavePinFails
  <2> QED
    BY <1>13, <2>1, DropKeeps, DisturbedTyped, SettingsAssumption
       DEF SavePinFails, sway, daemon, explorer
<1>14. CASE StartExplorer
  BY <1>14 DEF StartExplorer, Ini, sway, daemon, locker, calm
<1>15. CASE ToggleHidden
  <2>1. Read("explorer")
    BY <1>15 DEF ToggleHidden
  <2> QED
    BY <1>15, <2>1, ReadKeeps, DisturbedTyped DEF ToggleHidden, sway, daemon, locker
<1>16. CASE SaveHidden
  <2>1. copy["explorer"] \in Ini
    BY <1>16 DEF SaveHidden
  <2>2. [copy["explorer"] EXCEPT !.hidden = shown] \in Ini
    BY <2>1 DEF Ini
  <2>3. Save("explorer", [copy["explorer"] EXCEPT !.hidden = shown])
    BY <1>16 DEF SaveHidden
  <2> QED
    BY <1>16, <2>2, <2>3, SaveKeeps DEF SaveHidden, sway, daemon, locker, calm
<1>17. CASE SaveHiddenFails
  <2>1. Drop("explorer")
    BY <1>17 DEF SaveHiddenFails
  <2> QED
    BY <1>17, <2>1, DropKeeps, DisturbedTyped DEF SaveHiddenFails, sway, daemon, locker
<1>18. CASE Hotplug
  BY <1>18, DisturbedTyped DEF Hotplug, sway, daemon, locker, explorer
<1>19. CASE SessionEnds
  BY <1>19, NewSessionTyped, DisturbedTyped DEF SessionEnds, calm
<1>20. CASE Settle
  BY <1>20, SettingsAssumption DEF Settle, sway, daemon, locker, explorer
<1>21. CASE UNCHANGED vars
  BY <1>21 DEF vars, sway, daemon, locker, explorer, calm
<1> QED
  BY <1>1, <1>2, <1>3, <1>4, <1>5, <1>6, <1>7, <1>8, <1>9, <1>10, <1>11, <1>12,
     <1>13, <1>14, <1>15, <1>16, <1>17, <1>18, <1>19, <1>20, <1>21
     DEF Next, Daemon, Locker

LEMMA TypedAlways == Spec => []Typed
BY TypedInit, TypedStep, PTL DEF Spec

\* Every reachable state is well typed.
THEOREM TypeCorrect == Spec => []TypeOK
<1>1. Typed => TypeOK
  BY DEF Typed
<1> QED BY <1>1, TypedAlways, PTL

----------------------------------------------------------------------------
\* A save makes every other copy stale; reading and dropping concern one copy.
LEMMA SaveFresh ==
  ASSUME copy \in [Writers -> Ini \cup {NoCopy}], NEW w \in Writers, NEW new,
         Save(w, new)
  PROVE  Fresh'
BY DEF Save, Fresh

LEMMA ReadFresh ==
  ASSUME Fresh, copy \in [Writers -> Ini \cup {NoCopy}], NEW w \in Writers,
         Read(w), ini' = ini
  PROVE  Fresh'
BY DEF Read, Fresh

LEMMA DropFresh ==
  ASSUME Fresh, copy \in [Writers -> Ini \cup {NoCopy}], NEW w \in Writers,
         Drop(w), ini' = ini
  PROVE  Fresh'
BY DEF Drop, Fresh

LEMMA KeptFresh ==
  ASSUME Fresh, UNCHANGED <<ini, copy, stale>>
  PROVE  Fresh'
BY DEF Fresh

LEMMA FreshStep == Typed /\ Fresh /\ [Next]_vars => Fresh'
<1> SUFFICES ASSUME Typed, Fresh, [Next]_vars PROVE Fresh'
  OBVIOUS
<1>0. copy \in [Writers -> Ini \cup {NoCopy}]
  BY DEF Typed, TypeOK
<1>1. CASE FastPath \/ Calibrate \/ WriteQuirks \/ WriteQuirksFails \/ RestartFails
           \/ LockScreen \/ StartExplorer \/ Hotplug \/ Settle
  BY <1>1, KeptFresh
     DEF FastPath, Calibrate, WriteQuirks, WriteQuirksFails, RestartFails,
         LockScreen, StartExplorer, Hotplug, Settle
<1>2. CASE OpenWizard
  <2>1. Read("daemon") /\ ini' = ini
    BY <1>2 DEF OpenWizard
  <2> QED BY <1>0, <2>1, ReadFresh
<1>3. CASE SaveSettings \/ SavePin \/ SaveHidden
  <2>1. PICK w \in Writers : \E new : Save(w, new)
    BY <1>3 DEF SaveSettings, SavePin, SaveHidden
  <2> QED BY <1>0, <2>1, SaveFresh
<1>4. CASE RestartSway \/ SessionEnds
  BY <1>4 DEF RestartSway, SessionEnds, NewSession, Fresh
<1>5. CASE DaemonGivesUp \/ SavePinFails \/ SaveHiddenFails
  <2>1. PICK w \in Writers : Drop(w) /\ ini' = ini
    BY <1>5 DEF DaemonGivesUp, SavePinFails, SaveHiddenFails
  <2> QED BY <1>0, <2>1, DropFresh
<1>6. ASSUME NEW entered \in Pins, Submit(entered) PROVE Fresh'
  <2>1. ini' = ini
    BY <1>6 DEF Submit
  <2>2. CASE Read("lock")
    BY <1>0, <2>1, <2>2, ReadFresh
  <2>3. CASE UNCHANGED <<copy, stale>>
    BY <2>1, <2>3, KeptFresh
  <2> QED BY <1>6, <2>2, <2>3 DEF Submit
<1>7. CASE ToggleHidden
  <2>1. Read("explorer") /\ ini' = ini
    BY <1>7 DEF ToggleHidden
  <2> QED BY <1>0, <2>1, ReadFresh
<1>8. CASE UNCHANGED vars
  BY <1>8, KeptFresh DEF vars
<1> QED
  BY <1>1, <1>2, <1>3, <1>4, <1>5, <1>6, <1>7, <1>8 DEF Next, Daemon, Locker

\* Who saves, and what: one section of the copy in hand is changed.
LEMMA SaveChangesOwn ==
  ASSUME Typed, Fresh, NEW w \in Writers, NEW new, Save(w, new),
         copy[w] # NoCopy,
         \A f \in DOMAIN ini : Owner(f) # w => new[f] = copy[w][f]
  PROVE  \A f \in DOMAIN ini : ini'[f] # ini[f] =>
           \E v \in Writers : Saved(v) /\ (v = Owner(f) \/ v \in stale)
<1>1. Saved(w)
  BY DEF Saved, Save, Typed, TypeOK
<1>2. ini' = new
  BY DEF Save
<1> SUFFICES ASSUME NEW f \in DOMAIN ini, ini'[f] # ini[f], w \notin stale
             PROVE  w = Owner(f)
  BY <1>1
<1>3. copy[w] = ini
  BY DEF Fresh
<1> QED
  BY <1>2, <1>3

\* No step loses an update unless two programs had the file in hand at once.
THEOREM NothingLostWithoutOverlap == Spec => UpdatesLostOnlyByOverlap
<1> DEFINE Kept ==
      \A f \in DOMAIN ini : ini'[f] # ini[f] =>
        \E w \in Writers : Saved(w) /\ (w = Owner(f) \/ w \in stale)
<1>1. Init => Fresh
  BY DEF Init, Fresh
<1>2. ASSUME Typed, Fresh, [Next]_vars PROVE [Kept]_vars
  <2>0. DOMAIN ini = {"pin", "hidden", "setup", "map"}
    BY <1>2 DEF Typed, TypeOK, Ini
  <2>1. CASE SaveSettings
    <3> DEFINE new == WithInput(copy["daemon"], dmap)
    <3>1. copy["daemon"] \in Ini /\ copy["daemon"] # NoCopy
      BY <1>2, <2>1 DEF SaveSettings, Typed, TypeOK, InHand
    <3>2. new["pin"] = copy["daemon"]["pin"] /\ new["hidden"] = copy["daemon"]["hidden"]
      BY <3>1 DEF WithInput, Ini
    <3>3. Save("daemon", new)
      BY <2>1 DEF SaveSettings
    <3>4. \A f \in DOMAIN ini : Owner(f) # "daemon" => new[f] = copy["daemon"][f]
      BY <2>0, <3>2 DEF Owner
    <3> QED BY <1>2, <3>1, <3>3, <3>4, SaveChangesOwn
  <2>2. CASE SavePin
    <3> DEFINE new == [copy["lock"] EXCEPT !.pin = pending]
    <3>1. copy["lock"] \in Ini /\ copy["lock"] # NoCopy
      BY <1>2, <2>2 DEF SavePin, Typed, TypeOK, InHand
    <3>2. /\ new["hidden"] = copy["lock"]["hidden"]
          /\ new["setup"] = copy["lock"]["setup"] /\ new["map"] = copy["lock"]["map"]
      BY <3>1 DEF Ini
    <3>3. Save("lock", new)
      BY <2>2 DEF SavePin
    <3>4. \A f \in DOMAIN ini : Owner(f) # "lock" => new[f] = copy["lock"][f]
      BY <2>0, <3>2 DEF Owner
    <3> QED BY <1>2, <3>1, <3>3, <3>4, SaveChangesOwn
  <2>3. CASE SaveHidden
    <3> DEFINE new == [copy["explorer"] EXCEPT !.hidden = shown]
    <3>1. copy["explorer"] \in Ini /\ copy["explorer"] # NoCopy
      BY <1>2, <2>3 DEF SaveHidden, Typed, TypeOK, InHand
    <3>2. /\ new["pin"] = copy["explorer"]["pin"]
          /\ new["setup"] = copy["explorer"]["setup"]
          /\ new["map"] = copy["explorer"]["map"]
      BY <3>1 DEF Ini
    <3>3. Save("explorer", new)
      BY <2>3 DEF SaveHidden
    <3>4. \A f \in DOMAIN ini : Owner(f) # "explorer" => new[f] = copy["explorer"][f]
      BY <2>0, <3>2 DEF Owner
    <3> QED BY <1>2, <3>1, <3>3, <3>4, SaveChangesOwn
  <2>4. CASE ini' = ini
    BY <2>4
  <2>5. SaveSettings \/ SavePin \/ SaveHidden \/ ini' = ini
    BY <1>2
       DEF Next, Daemon, Locker, FastPath, OpenWizard, Calibrate, WriteQuirks,
           RestartSway, DaemonGivesUp, WriteQuirksFails, RestartFails, LockScreen,
           Submit, SavePinFails, StartExplorer, ToggleHidden, SaveHiddenFails,
           Hotplug, SessionEnds, NewSession, Settle, vars
  <2> QED BY <2>1, <2>2, <2>3, <2>4, <2>5
<1> QED
  BY <1>1, <1>2, TypedAlways, FreshStep, PTL DEF Spec, UpdatesLostOnlyByOverlap

----------------------------------------------------------------------------
\* What the steps that neither save the map nor write the quirks keep.
LEMMA CoveredKept ==
  ASSUME Covered, UNCHANGED <<quirks, loaded, applied>>, ini'.map = ini.map,
         behind' = behind, dpc' = dpc \/ dpc' \notin {"quirks", "start"}
  PROVE  Covered'
BY DEF Covered, Stored

LEMMA CoveredStep == Typed /\ Covered /\ [Next]_vars => Covered'
<1> SUFFICES ASSUME Typed, Covered, [Next]_vars PROVE Covered'
  OBVIOUS
<1>1. CASE OpenWizard \/ Calibrate \/ DaemonGivesUp \/ WriteQuirksFails
           \/ RestartFails \/ LockScreen \/ SavePinFails \/ StartExplorer
           \/ ToggleHidden \/ SaveHiddenFails \/ Hotplug \/ Settle
  BY <1>1, CoveredKept
     DEF OpenWizard, Calibrate, DaemonGivesUp, WriteQuirksFails, RestartFails,
         LockScreen, SavePinFails, StartExplorer, ToggleHidden, SaveHiddenFails,
         Hotplug, Settle, sway, daemon
<1>2. CASE FastPath
  BY <1>2 DEF FastPath, Covered, Stored
<1>3. CASE SaveSettings
  <2>1. ini'.map = dmap
    <3>1. copy["daemon"] \in Ini
      BY <1>3 DEF SaveSettings, Typed, TypeOK, InHand
    <3>2. WithInput(copy["daemon"], dmap).map = dmap
      BY <3>1 DEF WithInput, Ini
    <3> QED BY <1>3, <3>2 DEF SaveSettings, Save
  <2> QED BY <1>3, <2>1 DEF SaveSettings, Covered, Stored, sway
<1>4. CASE WriteQuirks
  <2>1. behind /\ ini' = ini /\ quirks' = Stored(dmap)
    BY <1>4 DEF WriteQuirks, Covered, QuirkEntries
  <2>2. ~behind' => ini.map = dmap
    BY <1>4, <2>1 DEF WriteQuirks
  <2> QED BY <1>4, <2>1, <2>2 DEF WriteQuirks, Covered, Stored
<1>5. CASE RestartSway \/ SessionEnds
  BY <1>5 DEF RestartSway, SessionEnds, NewSession, Covered, Stored
<1>6. CASE SavePin \/ SaveHidden
  <2>1. ~behind' => ~behind /\ ini'.map = ini.map
    BY <1>6 DEF SavePin, SaveHidden
  <2>2. behind => behind'
    BY <1>6 DEF SavePin, SaveHidden
  <2> QED
    BY <1>6, <2>1, <2>2 DEF SavePin, SaveHidden, Covered, Stored, sway, daemon
<1>7. ASSUME NEW entered \in Pins, Submit(entered) PROVE Covered'
  BY <1>7, CoveredKept DEF Submit, sway, daemon
<1>8. CASE UNCHANGED vars
  BY <1>8, CoveredKept DEF vars, sway, daemon
<1> QED
  BY <1>1, <1>2, <1>3, <1>4, <1>5, <1>6, <1>7, <1>8 DEF Next, Daemon, Locker

\* A fast path whose quirks were written addresses every panel by a name of
\* its own, so no command undoes another.
THEOREM FastPathIsRight == Spec => FastPathRoutesEachPanel
<1> DEFINE Right ==
      ~applied /\ applied' /\ ~behind =>
        \A p \in plugged : ini.map[route'[Identifier(p)]] = p
<1>1. Init => Covered
  <2>1. Init => Stored(ini.map) = {}
    BY DEF Init, Stored, NoMap
  <2> QED BY <2>1 DEF Init, Covered
<1>2. ASSUME Typed, Covered, [Next]_vars PROVE [Right]_vars
  <2>1. CASE FastPath /\ ~behind
    <3>1. loaded = quirks /\ Stored(ini.map) = plugged /\ plugged \subseteq loaded
      BY <1>2, <2>1 DEF FastPath, Complete, Covered
    <3>2. ini.map \in TouchMaps /\ plugged \subseteq Panels
      BY <1>2 DEF Typed, TypeOK, Ini
    <3> SUFFICES ASSUME NEW p \in plugged PROVE ini.map[route'[Identifier(p)]] = p
      OBVIOUS
    <3> DEFINE claims == {o \in Outputs : ini.map[o] \in plugged /\ Identifier(ini.map[o]) = p}
    <3>3. Identifier(p) = p /\ p \in Panels
      BY <3>1, <3>2 DEF Identifier
    <3>4. PICK o \in Outputs : ini.map[o] = p
      BY <3>1 DEF Stored
    <3>5. o \in claims
      BY <3>3, <3>4
    <3>6. route'[p] \in claims
      BY <2>1, <3>3, <3>5 DEF FastPath, Routed
    <3>7. \A q \in plugged : Identifier(q) = q
      BY <3>1 DEF Identifier
    <3> QED BY <3>3, <3>6, <3>7
  <2>2. FastPath \/ ~applied' \/ applied' = applied
    BY <1>2
       DEF Next, Daemon, Locker, OpenWizard, Calibrate, SaveSettings, WriteQuirks,
           RestartSway, DaemonGivesUp, WriteQuirksFails, RestartFails, LockScreen,
           Submit, SavePin, SavePinFails, StartExplorer, ToggleHidden, SaveHidden,
           SaveHiddenFails, Hotplug, SessionEnds, NewSession, Settle, vars, sway
  <2> QED BY <2>1, <2>2
<1> QED
  BY <1>1, <1>2, TypedAlways, CoveredStep, PTL DEF Spec, FastPathRoutesEachPanel
=============================================================================
