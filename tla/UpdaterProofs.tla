--------------------------- MODULE UpdaterProofs ---------------------------
(***************************************************************************)
(* Proofs about module Updater, for any number of releases, any keyring and *)
(* any digests: type correctness; that checker, menu and helper implement  *)
(* UpdateOffer and that a marker is earned, whatever the server lists and  *)
(* whatever fails; and that nothing older is installed, as long as the     *)
(* server moves forward.                                                   *)
(***************************************************************************)
EXTENDS Updater, WellFoundedInduction, TLAPS

\* The checker has chosen its candidate and not yet put it on offer.
CandSteps == {"wipe", "bundle", "sig", "sha", "verify", "mark"}
Deciding == pc = "pick" \/ pc \in CandSteps

\* What the checker works on was listed and newer; what it marks is verified.
ChosenFromList ==
  /\ pc \in CandSteps => cand.stamp = seen.stamp /\ cand.file \in seen.files
                         /\ cand.stamp > local
  /\ pc = "mark" => Verified(cand.file)

\* What the marker names is signed, the menu is open while a timestamp is shown,
\* and the helper holds a path only where it has read one.
HandedOn ==
  /\ marker # Unset => marker.file \in Trusted
  /\ ipc = "idle" <=> shown = NoRelease
  /\ ipc \notin {"exists", "rauc"} => path = NoRelease

\* Timestamp s is at least as new as every build in use.
Covers(s) == s >= marker.stamp /\ s >= shown /\ s >= path /\ s >= local /\ s >= other

\* The server lists a build as new as any in use, and so did the manifest the
\* checker decides upon.
NothingNewer ==
  /\ Covers(manifest.stamp)
  /\ Deciding => Covers(seen.stamp) /\ manifest.stamp >= seen.stamp

\* Hence a marker is never behind the builds in use.
MarkerLeads ==
  /\ marker.file = marker.stamp /\ cand.file = cand.stamp
  /\ marker # Unset => /\ marker.stamp >= shown /\ marker.stamp >= path
                       /\ marker.stamp >= local /\ marker.stamp >= other
  /\ ipc \in {"exists", "rauc"} => path >= shown /\ path >= local

InOrder == Forward => NothingNewer /\ MarkerLeads

\* A marker without its bundle is one that a newer release has overtaken, so
\* that the checker never stages its release again.
Overtaken ==
  marker # Unset =>
    /\ bundle[marker.file] = "absent" => marker.stamp < manifest.stamp
    /\ bundle[marker.file] = "absent" /\ pc = "pick" => marker.stamp < seen.stamp
    /\ pc \in CandSteps => marker.stamp < cand.stamp
    /\ pc = "discard" => marker.stamp < manifest.stamp

StaleIsOvertaken == Forward /\ Clean => Overtaken

----------------------------------------------------------------------------
(* The candidate exists: a non-empty set of files has a first one.         *)

LEMMA BuildNumbers ==
  /\ Releases \subseteq Builds /\ NoRelease \in Builds
  /\ \A b \in Builds : b \in Int /\ b >= 0
  /\ \A b \in Builds : b # NoRelease <=> b \in Releases
BY NewestAssumption DEF Releases, Builds, NoRelease

LessThan == {ss \in Nat \X Nat : ss[1] < ss[2]}

LEMMA LessThanWellFounded == IsWellFoundedOn(LessThan, Nat)
BY NatLessThanWellFounded, Zenon DEF OpToRel, LessThan

\* The first of some files is one of them.
LEMMA FirstIsOne ==
  ASSUME NEW F, F \subseteq Releases, F # {}
  PROVE  First(F) \in F
<1>1. F \subseteq Nat
  BY NewestAssumption DEF Releases
<1>2. PICK x \in F : \A y \in F : ~(<<y, x>> \in LessThan)
  BY <1>1, LessThanWellFounded, WFMin
<1>3. ASSUME NEW y \in F PROVE x <= y
  <2>1. ~(y < x)
    BY <1>1, <1>2 DEF LessThan
  <2> QED
    BY <1>1, <2>1
<1> QED
  BY <1>3 DEF First

\* What the checker picks is listed and newer than this build; from a server
\* that publishes one build at a time it is that build.
LEMMA PickedIsListed ==
  ASSUME NEW m \in Manifests, local \in Builds
  PROVE  /\ PickCandidate(m) \in Entries \cup {Unset}
         /\ PickCandidate(m) # Unset =>
              /\ PickCandidate(m).stamp = m.stamp
              /\ PickCandidate(m).file \in m.files
              /\ PickCandidate(m).stamp > local
              /\ ~StaleBundles => PickCandidate(m).file = m.stamp
<1>1. /\ m.stamp \in Releases /\ m.files \subseteq Releases /\ m.files # {}
      /\ \A f \in m.files : f <= m.stamp
      /\ StaleBundles \/ m.files = {m.stamp}
  BY DEF Manifests
<1>2. First(m.files) \in m.files
  BY <1>1, FirstIsOne
<1>3. CASE m.stamp > local
  <2>1. PickCandidate(m) = [stamp |-> m.stamp, file |-> First(m.files)]
    BY <1>3 DEF PickCandidate
  <2>2. [stamp |-> m.stamp, file |-> First(m.files)] \in Entries
    BY <1>1, <1>2 DEF Entries
  <2> QED
    BY <1>1, <1>2, <1>3, <2>1, <2>2
<1>4. CASE ~(m.stamp > local)
  BY <1>4 DEF PickCandidate
<1> QED
  BY <1>3, <1>4

LEMMA EntryFields ==
  /\ \A e \in Entries : /\ e.stamp \in Releases /\ e.file \in Releases
                        /\ e.file <= e.stamp /\ e # Unset
                        /\ e = [stamp |-> e.stamp, file |-> e.file]
  /\ Unset.stamp = NoRelease /\ Unset.file = NoRelease
  /\ \A m \in Manifests : m.stamp \in Releases /\ m.files \subseteq Releases
  /\ NoManifest.stamp = NoRelease
BY NewestAssumption DEF Entries, Unset, Releases, NoRelease, Manifests, NoManifest

----------------------------------------------------------------------------
(* Types.                                                                  *)

USE DEF Contents, UpdaterSteps, InstallerSteps

LEMMA RemovalKeepsType ==
  ASSUME bundle \in [Releases -> Contents], sig \in Contents, RemoveFiles
  PROVE  /\ bundle' \in [Releases -> Contents] /\ sig' \in Contents
         /\ \A r \in Releases : bundle'[r] \in {bundle[r], "absent"}
BY DEF RemoveFiles, NoFiles

LEMMA TypeInit == Init => TypeOK
BY BuildNumbers DEF Init, TypeOK, NoFiles, NoRelease

LEMMA TypeStep == TypeOK /\ [Next]_vars => TypeOK'
<1> SUFFICES ASSUME TypeOK, [Next]_vars PROVE TypeOK'
  OBVIOUS
<1> USE BuildNumbers, EntryFields DEF TypeOK, server, slots, cache, checker, installer,
        CheckerEnds, InstallerEnds
<1>1. CASE CheckerStart
  BY <1>1 DEF CheckerStart
<1>2. CASE Fetch
  BY <1>2 DEF Fetch
<1>3. CASE Pick
  <2>1. PickCandidate(seen) \in Entries \cup {Unset}
    BY <1>3, PickedIsListed DEF Pick
  <2> QED
    BY <1>3, <2>1 DEF Pick
<1>4. CASE ClearPending
  BY <1>4 DEF ClearPending
<1>5. CASE Wipe
  BY <1>5, RemovalKeepsType DEF Wipe
<1>6. CASE DownloadBundle
  <2>1. Arrives \subseteq Contents
    BY DEF Arrives
  <2> QED
    BY <1>6, <2>1 DEF DownloadBundle
<1>7. CASE DownloadSig
  <2>1. Arrives \subseteq Contents
    BY DEF Arrives
  <2> QED
    BY <1>7, <2>1 DEF DownloadSig
<1>8. CASE CheckSha
  BY <1>8 DEF CheckSha
<1>9. CASE VerifyHybrid
  BY <1>9 DEF VerifyHybrid
<1>10. CASE WritePending
  BY <1>10 DEF WritePending
<1>11. CASE Discard
  BY <1>11, RemovalKeepsType DEF Discard
<1>12. CASE CheckerDies
  BY <1>12 DEF CheckerDies
<1>13. CASE OpenMenu
  BY <1>13 DEF OpenMenu
<1>14. CASE Tap
  BY <1>14 DEF Tap
<1>15. CASE ReadMarker
  BY <1>15 DEF ReadMarker
<1>16. CASE FindBundle
  BY <1>16 DEF FindBundle
<1>17. CASE RaucInstall
  BY <1>17 DEF RaucInstall
<1>18. CASE Publish
  BY <1>18 DEF Publish
<1>19. CASE Reboot
  BY <1>19 DEF Reboot
<1>20. CASE Settle
  BY <1>20 DEF Settle
<1>21. CASE UNCHANGED vars
  BY <1>21 DEF vars
<1> QED
  BY <1>1, <1>2, <1>3, <1>4, <1>5, <1>6, <1>7, <1>8, <1>9, <1>10, <1>11, <1>12,
     <1>13, <1>14, <1>15, <1>16, <1>17, <1>18, <1>19, <1>20, <1>21
     DEF Next, CheckerStep, InstallerStep

\* Every reachable state of server, checker and helper is of its type.
THEOREM TypeCorrect == Spec => []TypeOK
<1>1. Init => TypeOK
  BY TypeInit
<1>2. TypeOK /\ [Next]_vars => TypeOK'
  BY TypeStep
<1> QED
  BY <1>1, <1>2, PTL DEF Spec

----------------------------------------------------------------------------
(* What holds whatever the server lists and whatever fails.                *)

LEMMA ChosenInvariant == Spec => [](ChosenFromList /\ HandedOn)
<1> USE EntryFields, BuildNumbers DEF ChosenFromList, HandedOn, CandSteps, Verified
<1>1. Init => ChosenFromList /\ HandedOn
  BY DEF Init
<1>2. ASSUME TypeOK, ChosenFromList, HandedOn, [Next]_vars
      PROVE  ChosenFromList' /\ HandedOn'
  <2> USE <1>2 DEF server, slots, cache, checker, installer
  <2>1. CASE Pick
    <3> DEFINE c == PickCandidate(seen)
    <3>1. seen \in Manifests /\ local \in Builds /\ UNCHANGED <<local, marker, ipc, shown, path>>
      BY <2>1 DEF TypeOK, Pick
    <3>2. c # Unset => c.stamp = seen.stamp /\ c.file \in seen.files /\ c.stamp > local
      BY <3>1, PickedIsListed
    <3> HIDE DEF c
    <3>3. \/ pc' \in {"idle", "clear"}
          \/ c # Unset /\ pc' = "wipe" /\ cand' = c /\ UNCHANGED seen
      BY <2>1 DEF Pick, CheckerEnds, c
    <3> QED BY <3>1, <3>2, <3>3
  <2>2. CASE CheckerStart \/ Fetch \/ ClearPending \/ Discard
    BY <2>2 DEF CheckerStart, Fetch, ClearPending, Discard, CheckerEnds
  <2>3. CASE Wipe \/ DownloadBundle \/ DownloadSig \/ CheckSha
    BY <2>3 DEF Wipe, DownloadBundle, DownloadSig, CheckSha
  <2>4. CASE VerifyHybrid
    BY <2>4 DEF VerifyHybrid
  <2>5. CASE WritePending
    BY <2>5 DEF WritePending, CheckerEnds
  <2>6. CASE CheckerDies
    BY <2>6 DEF CheckerDies, CheckerEnds
  <2>7. CASE Reboot
    BY <2>7 DEF Reboot, CheckerEnds, InstallerEnds
  <2>8. CASE InstallerStep
    BY <2>8 DEF TypeOK, InstallerStep, OpenMenu, Tap, ReadMarker, FindBundle, RaucInstall,
       InstallerEnds
  <2>9. CASE Publish \/ Settle
    BY <2>9 DEF Publish, Settle
  <2>10. CASE UNCHANGED vars
    BY <2>10 DEF vars
  <2> QED
    BY <2>1, <2>2, <2>3, <2>4, <2>5, <2>6, <2>7, <2>8, <2>9, <2>10 DEF Next, CheckerStep
<1> QED
  BY <1>1, <1>2, TypeCorrect, PTL DEF Spec

\* A marker becomes another one only for a bundle that is verified at that
\* moment, under a timestamp newer than the build that runs: a server that steps
\* back or lists old bundles, a failing unlink and a death of the checker at any
\* step are no exceptions.
THEOREM MarkersAreEarned == Spec => MarkerIsEarned
<1>1. ASSUME TypeOK, ChosenFromList, [Next]_vars, marker' \notin {marker, Unset}
      PROVE  /\ Verified(marker'.file) /\ UNCHANGED <<bundle, sig>>
             /\ marker'.stamp = seen.stamp /\ marker'.file \in seen.files
             /\ marker'.stamp > local
  <2>1. WritePending
    BY <1>1
    DEF Next, CheckerStep, CheckerStart, Fetch, Pick, ClearPending, Wipe, DownloadBundle,
        DownloadSig, CheckSha, VerifyHybrid, Discard, CheckerDies, InstallerStep, OpenMenu,
        Tap, ReadMarker, FindBundle, RaucInstall, Publish, Reboot, Settle, vars, cache
  <2> QED BY <1>1, <2>1 DEF WritePending, ChosenFromList, CandSteps
<1> QED
  BY <1>1, TypeCorrect, ChosenInvariant, PTL DEF Spec, MarkerIsEarned

----------------------------------------------------------------------------
(* A server that moves forward, one build at a time.                       *)

\* The published timestamp only moves on, and whatever the processes take up,
\* they take from a manifest or from each other.
LEMMA NewerStep ==
  ASSUME Forward, TypeOK, ChosenFromList, NothingNewer, MarkerLeads, [Next]_vars
  PROVE  NothingNewer'
<1> USE BuildNumbers, EntryFields
        DEF TypeOK, NothingNewer, Covers, Deciding, CandSteps, ChosenFromList, MarkerLeads,
            NoRelease, server, slots, cache, checker, installer, CheckerEnds, InstallerEnds
<1>1. CASE CheckerStart
  BY <1>1 DEF CheckerStart
<1>2. CASE Fetch
  BY <1>2 DEF Fetch
<1>3. CASE Pick
  BY <1>3 DEF Pick
<1>4. CASE ClearPending
  BY <1>4 DEF ClearPending
<1>5. CASE Wipe
  BY <1>5 DEF Wipe
<1>6. CASE DownloadBundle
  BY <1>6 DEF DownloadBundle
<1>7. CASE DownloadSig
  BY <1>7 DEF DownloadSig
<1>8. CASE CheckSha
  BY <1>8 DEF CheckSha
<1>9. CASE VerifyHybrid
  BY <1>9 DEF VerifyHybrid
<1>10. CASE WritePending
  BY <1>10 DEF WritePending
<1>11. CASE Discard
  BY <1>11 DEF Discard
<1>12. CASE CheckerDies
  BY <1>12 DEF CheckerDies
<1>13. CASE OpenMenu
  BY <1>13 DEF OpenMenu
<1>14. CASE Tap
  BY <1>14 DEF Tap
<1>15. CASE ReadMarker
  BY <1>15 DEF ReadMarker
<1>16. CASE FindBundle
  BY <1>16 DEF FindBundle
<1>17. CASE RaucInstall
  BY <1>17 DEF RaucInstall
<1>18. CASE Publish
  <2>1. manifest' \in Manifests /\ manifest'.stamp >= manifest.stamp
    BY <1>18 DEF Publish, Forward
  <2>2. manifest'.stamp \in Int /\ manifest.stamp \in Int
    BY <2>1
  <2>3. UNCHANGED <<slots, cache, checker, installer>>
    BY <1>18 DEF Publish
  <2> QED
    BY <2>1, <2>2, <2>3
<1>19. CASE Reboot
  BY <1>19 DEF Reboot
<1>20. CASE Settle
  BY <1>20 DEF Settle
<1>21. CASE UNCHANGED vars
  BY <1>21 DEF vars
<1> QED
  BY <1>1, <1>2, <1>3, <1>4, <1>5, <1>6, <1>7, <1>8, <1>9, <1>10, <1>11, <1>12,
     <1>13, <1>14, <1>15, <1>16, <1>17, <1>18, <1>19, <1>20, <1>21
     DEF Next, CheckerStep, InstallerStep

\* The marker moves only to a candidate, which leads; slots, menu and helper
\* take their builds from the marker.
LEMMA LeadsStep ==
  ASSUME Forward, TypeOK, ChosenFromList, HandedOn, NothingNewer, MarkerLeads, [Next]_vars
  PROVE  MarkerLeads'
<1> USE BuildNumbers, EntryFields
        DEF TypeOK, MarkerLeads, HandedOn, NoRelease, server, slots, cache, checker,
            installer, CheckerEnds, InstallerEnds
<1>1. CASE CheckerStart
  BY <1>1 DEF CheckerStart
<1>2. CASE Fetch
  BY <1>2 DEF Fetch
<1>3. CASE Pick
  <2>1. /\ PickCandidate(seen) \in Entries \cup {Unset}
        /\ PickCandidate(seen) # Unset => PickCandidate(seen).file = PickCandidate(seen).stamp
    BY <1>3, PickedIsListed DEF Pick, Forward
  <2>2. cand' \in {cand, Unset, PickCandidate(seen)} /\ UNCHANGED <<slots, cache, installer>>
    BY <1>3 DEF Pick
  <2> QED
    BY <2>1, <2>2
<1>4. CASE ClearPending
  BY <1>4 DEF ClearPending
<1>5. CASE Wipe
  BY <1>5 DEF Wipe
<1>6. CASE DownloadBundle
  BY <1>6 DEF DownloadBundle
<1>7. CASE DownloadSig
  BY <1>7 DEF DownloadSig
<1>8. CASE CheckSha
  BY <1>8 DEF CheckSha
<1>9. CASE VerifyHybrid
  BY <1>9 DEF VerifyHybrid
<1>10. CASE WritePending
  <2>1. cand # Unset /\ cand \in Entries /\ cand.stamp = seen.stamp /\ Covers(seen.stamp)
    BY <1>10 DEF WritePending, ChosenFromList, CandSteps, NothingNewer, Deciding
  <2>2. marker' = cand /\ cand' = Unset /\ UNCHANGED <<slots, installer>>
    BY <1>10 DEF WritePending
  <2> QED
    BY <2>1, <2>2 DEF Covers
<1>11. CASE Discard
  BY <1>11 DEF Discard
<1>12. CASE CheckerDies
  BY <1>12 DEF CheckerDies
<1>13. CASE OpenMenu
  BY <1>13 DEF OpenMenu
<1>14. CASE Tap
  BY <1>14 DEF Tap
<1>15. CASE ReadMarker
  <2>1. CASE marker = Unset /\ InstallerEnds
    BY <1>15, <2>1 DEF ReadMarker
  <2>2. CASE marker # Unset /\ ipc' = "exists" /\ path' = marker.file /\ UNCHANGED shown
    BY <1>15, <2>2 DEF ReadMarker
  <2> QED
    BY <1>15, <2>1, <2>2 DEF ReadMarker
<1>16. CASE FindBundle
  BY <1>16 DEF FindBundle
<1>17. CASE RaucInstall
  BY <1>17 DEF RaucInstall
<1>18. CASE Publish
  BY <1>18 DEF Publish
<1>19. CASE Reboot
  BY <1>19 DEF Reboot
<1>20. CASE Settle
  BY <1>20 DEF Settle
<1>21. CASE UNCHANGED vars
  BY <1>21 DEF vars
<1> QED
  BY <1>1, <1>2, <1>3, <1>4, <1>5, <1>6, <1>7, <1>8, <1>9, <1>10, <1>11, <1>12,
     <1>13, <1>14, <1>15, <1>16, <1>17, <1>18, <1>19, <1>20, <1>21
     DEF Next, CheckerStep, InstallerStep

LEMMA OrderStep ==
  ASSUME TypeOK, ChosenFromList, HandedOn, InOrder, [Next]_vars
  PROVE  InOrder'
<1>1. CASE Forward
  <2>1. NothingNewer /\ MarkerLeads
    BY <1>1 DEF InOrder
  <2> QED
    BY <1>1, <2>1, NewerStep, LeadsStep DEF InOrder
<1>2. CASE ~Forward
  BY <1>2 DEF InOrder, Forward
<1> QED
  BY <1>1, <1>2

LEMMA OrderInvariant == Spec => []InOrder
<1>1. Init => InOrder
  BY DEF Init, InOrder, NothingNewer, MarkerLeads, Covers, Deciding, CandSteps, Unset,
     NoManifest, NoRelease
<1>2. TypeOK /\ ChosenFromList /\ HandedOn /\ InOrder /\ [Next]_vars => InOrder'
  BY OrderStep
<1> QED
  BY <1>1, <1>2, TypeCorrect, ChosenInvariant, PTL DEF Spec

\* As long as the server moves forward, one build at a time, the helper never
\* hands RAUC a build older than the one the operator saw or the one that runs,
\* whichever deletions fail.
THEOREM NothingOlderInstalled ==
  ASSUME Forward
  PROVE  Spec => []NeverInstallsOlder
<1>1. InOrder => NeverInstallsOlder
  BY DEF InOrder, MarkerLeads, NeverInstallsOlder
<1> QED
  BY <1>1, OrderInvariant, PTL

----------------------------------------------------------------------------
(* ... and a marker that is gone once it is unlinked.                      *)

\* A marker loses its bundle only to a newer candidate, so its release is not
\* staged again.
LEMMA OvertakenStep ==
  ASSUME Forward, Clean, TypeOK, ChosenFromList, NothingNewer, MarkerLeads, Overtaken,
         [Next]_vars
  PROVE  Overtaken'
<1> USE BuildNumbers, EntryFields
        DEF TypeOK, Overtaken, CandSteps, server, slots, cache, checker, installer,
            CheckerEnds, InstallerEnds
<1>0. pc \in CandSteps /\ marker # Unset => marker.stamp < manifest.stamp
  BY DEF NothingNewer, Deciding, ChosenFromList
<1>1. CASE CheckerStart
  BY <1>1 DEF CheckerStart
<1>2. CASE Fetch
  BY <1>2 DEF Fetch
<1>3. CASE Pick
  <2> DEFINE c == PickCandidate(seen)
  <2>1. seen \in Manifests
    BY <1>3 DEF Pick
  <2>2. c # Unset => c.stamp = seen.stamp /\ c.file = c.stamp
    BY <2>1, PickedIsListed DEF Forward
  <2>3. seen.stamp >= marker.stamp
    BY <1>3 DEF Pick, NothingNewer, Deciding, Covers
  <2>4. ASSUME c # Unset, marker # Unset, ~AlreadyPending(c) PROVE marker.stamp < c.stamp
    <3>1. CASE marker.stamp = c.stamp
      <4>1. bundle[marker.file] = "absent"
        BY <2>2, <2>4, <3>1 DEF AlreadyPending, SameSha, MarkerLeads
      <4> QED
        BY <1>3, <2>2, <2>4, <4>1 DEF Pick
    <3>2. CASE marker.stamp # c.stamp
      BY <2>1, <2>2, <2>3, <2>4, <3>2
    <3> QED
      BY <3>1, <3>2
  <2> HIDE DEF c
  <2>5. /\ \/ pc' \in {"idle", "clear"}
           \/ c # Unset /\ ~AlreadyPending(c) /\ pc' = "wipe" /\ cand' = c
        /\ UNCHANGED <<marker, bundle, manifest>>
    BY <1>3 DEF Pick, c
  <2> QED
    BY <2>4, <2>5
<1>4. CASE ClearPending
  <2>1. marker' = Unset
    BY <1>4 DEF ClearPending, Clean
  <2> QED
    BY <2>1
<1>5. CASE Wipe
  <2>1. \A r \in Releases : bundle'[r] \in {bundle[r], "absent"}
    BY <1>5, RemovalKeepsType DEF Wipe
  <2> QED
    BY <1>0, <1>5, <2>1 DEF Wipe
<1>6. CASE DownloadBundle
  BY <1>0, <1>6 DEF DownloadBundle
<1>7. CASE DownloadSig
  BY <1>0, <1>7 DEF DownloadSig
<1>8. CASE CheckSha
  BY <1>0, <1>8 DEF CheckSha
<1>9. CASE VerifyHybrid
  BY <1>0, <1>9 DEF VerifyHybrid
<1>10. CASE WritePending
  <2>1. bundle[cand.file] # "absent"
    BY <1>10 DEF WritePending, ChosenFromList, Verified
  <2>2. marker' = cand /\ pc' = "idle" /\ UNCHANGED <<bundle, manifest>>
    BY <1>10 DEF WritePending
  <2> QED
    BY <2>1, <2>2
<1>11. CASE Discard
  <2>1. \A r \in Releases : bundle'[r] \in {bundle[r], "absent"}
    BY <1>11, RemovalKeepsType DEF Discard
  <2> QED
    BY <1>11, <2>1 DEF Discard
<1>12. CASE CheckerDies
  BY <1>0, <1>12 DEF CheckerDies
<1>13. CASE OpenMenu
  BY <1>13 DEF OpenMenu
<1>14. CASE Tap
  BY <1>14 DEF Tap
<1>15. CASE ReadMarker
  BY <1>15 DEF ReadMarker
<1>16. CASE FindBundle
  BY <1>16 DEF FindBundle
<1>17. CASE RaucInstall
  BY <1>17 DEF RaucInstall
<1>18. CASE Publish
  <2>1. manifest' \in Manifests /\ manifest'.stamp >= manifest.stamp
    BY <1>18 DEF Publish, Forward
  <2>2. manifest'.stamp \in Int /\ manifest.stamp \in Int /\ marker.stamp \in Int
    BY <2>1
  <2>3. UNCHANGED <<marker, bundle, pc, cand, seen>>
    BY <1>18 DEF Publish
  <2> QED
    BY <2>1, <2>2, <2>3
<1>19. CASE Reboot
  BY <1>19 DEF Reboot
<1>20. CASE Settle
  BY <1>20 DEF Settle
<1>21. CASE UNCHANGED vars
  BY <1>21 DEF vars
<1> QED
  BY <1>1, <1>2, <1>3, <1>4, <1>5, <1>6, <1>7, <1>8, <1>9, <1>10, <1>11, <1>12,
     <1>13, <1>14, <1>15, <1>16, <1>17, <1>18, <1>19, <1>20, <1>21
     DEF Next, CheckerStep, InstallerStep

LEMMA StaleInvariant == Spec => []StaleIsOvertaken
<1>1. Init => StaleIsOvertaken
  BY DEF Init, StaleIsOvertaken, Overtaken
<1>2. ASSUME TypeOK, ChosenFromList, InOrder, StaleIsOvertaken, [Next]_vars
      PROVE  StaleIsOvertaken'
  <2>1. CASE Forward /\ Clean
    <3>1. NothingNewer /\ MarkerLeads /\ Overtaken
      BY <1>2, <2>1 DEF InOrder, StaleIsOvertaken
    <3> QED
      BY <1>2, <2>1, <3>1, OvertakenStep DEF StaleIsOvertaken
  <2>2. CASE ~(Forward /\ Clean)
    BY <2>2 DEF StaleIsOvertaken, Forward, Clean
  <2> QED
    BY <2>1, <2>2
<1> QED
  BY <1>1, <1>2, TypeCorrect, ChosenInvariant, OrderInvariant, PTL DEF Spec

----------------------------------------------------------------------------
(* The refinement.                                                         *)

LEMMA PromiseInit == Init => Promise!Init
BY DEF Init, Promise!Init, Promise!Nothing, Offered, Unset, NoRelease

\* Where the marker stays and its bundle stays or goes, the offer stays or lapses.
LEMMA OfferLapses ==
  ASSUME TypeOK, UNCHANGED <<marker, shown, path, local, other>>,
         marker # Unset => bundle'[marker.file] \in {bundle[marker.file], "absent"}
  PROVE  Promise!Lapse \/ UNCHANGED Promise!vars
BY DEF Offered, Promise!Lapse, Promise!vars

LEMMA DownloadIsRefetch ==
  ASSUME TypeOK, MarkerLeads \/ ~Forward, StaleIsOvertaken, DownloadBundle
  PROVE  Promise!Refetch \/ UNCHANGED Promise!vars
<1> USE BuildNumbers, EntryFields DEF TypeOK
<1>1. UNCHANGED <<marker, shown, path, local, other>> /\ cand # Unset
  BY DEF DownloadBundle, slots, installer
<1>2. CASE UNCHANGED bundle
  BY <1>1, <1>2 DEF Promise!vars, Offered
<1>3. CASE bundle' # bundle /\ marker # Unset /\ marker.file = cand.file
  <2>1. PICK c \in {"good", "corrupt"} : bundle' = [bundle EXCEPT ![cand.file] = c]
    BY <1>3 DEF DownloadBundle, Arrives
  <2>2. ~(Forward /\ Clean)
    <3> SUFFICES ASSUME Forward, Clean PROVE FALSE
      OBVIOUS
    <3>1. marker.stamp < cand.stamp
      BY <1>3 DEF StaleIsOvertaken, Overtaken, DownloadBundle, CandSteps
    <3>2. marker.file = marker.stamp /\ cand.file = cand.stamp
      BY DEF MarkerLeads
    <3>3. cand.stamp \in Int
      BY <1>1
    <3>4. marker.stamp = cand.stamp
      BY <1>3, <3>2
    <3>5. cand.stamp < cand.stamp
      BY <3>1, <3>4
    <3> QED
      BY <3>3, <3>5
  <2>3. Offered' = [Offered EXCEPT !.content = c]
    BY <1>1, <1>3, <2>1 DEF Offered
  <2>4. Offered.build # 0
    BY <1>3 DEF Offered, NoRelease
  <2> QED
    BY <1>1, <2>1, <2>2, <2>3, <2>4 DEF Promise!Refetch
<1>4. CASE bundle' # bundle /\ (marker = Unset \/ marker.file # cand.file)
  <2>1. PICK c \in {"good", "corrupt"} : bundle' = [bundle EXCEPT ![cand.file] = c]
    BY <1>4 DEF DownloadBundle, Arrives
  <2>2. Offered' = Offered
    BY <1>1, <1>4, <2>1 DEF Offered
  <2> QED
    BY <1>1, <2>2 DEF Promise!vars
<1> QED
  BY <1>2, <1>3, <1>4

LEMMA MarkingIsOffer ==
  ASSUME TypeOK, ChosenFromList, InOrder, StaleIsOvertaken, WritePending
  PROVE  Promise!Offer
<1> USE BuildNumbers, EntryFields DEF TypeOK
<1>1. /\ cand \in Entries /\ cand.stamp > local /\ cand.stamp = seen.stamp
      /\ cand.file \in Trusted /\ bundle[cand.file] = "good"
  BY DEF WritePending, ChosenFromList, CandSteps, Verified
<1>2. marker' = cand /\ UNCHANGED <<bundle, shown, path, local, other>>
  BY DEF WritePending, slots, installer
<1>3. Offered' = [stamp |-> cand.stamp, build |-> cand.file, content |-> "good"]
  BY <1>1, <1>2 DEF Offered
<1>4. Forward => cand.stamp = cand.file /\ cand.stamp >= Offered.stamp
  BY <1>1 DEF InOrder, MarkerLeads, NothingNewer, Deciding, CandSteps, Covers, WritePending, Offered
<1>5. Forward /\ Clean => cand.stamp > Offered.stamp
  <2>1. CASE marker = Unset
    BY <1>1, <2>1 DEF Offered, NoRelease
  <2>2. CASE marker # Unset
    BY <1>1, <2>2 DEF Offered, StaleIsOvertaken, Overtaken, CandSteps, WritePending
  <2> QED
    BY <2>1, <2>2
<1>6. cand.stamp \in Releases /\ cand.stamp >= cand.file
  BY <1>1
<1> QED
  BY <1>1, <1>2, <1>3, <1>4, <1>5, <1>6 DEF Promise!Offer

LEMMA PromiseStep ==
  ASSUME TypeOK, ChosenFromList, HandedOn, InOrder, StaleIsOvertaken, [Next]_vars
  PROVE  [Promise!Next]_(Promise!vars)
<1> USE BuildNumbers, EntryFields
        DEF TypeOK, server, slots, cache, checker, installer, Promise!Next
<1>1. CASE CheckerStart \/ Fetch \/ Pick \/ DownloadSig \/ CheckSha \/ VerifyHybrid
           \/ Publish \/ Settle \/ UNCHANGED vars
  BY <1>1 DEF CheckerStart, Fetch, Pick, DownloadSig, CheckSha, VerifyHybrid, Publish,
     Settle, vars, Offered, Promise!vars
<1>2. CASE ClearPending
  BY <1>2 DEF ClearPending, Offered, Promise!Withdraw, Promise!Nothing, Promise!vars, NoRelease
<1>3. CASE Wipe \/ Discard
  <2>1. UNCHANGED <<marker, shown, path, local, other>> /\ RemoveFiles
    BY <1>3 DEF Wipe, Discard
  <2>2. \A r \in Releases : bundle'[r] \in {bundle[r], "absent"}
    BY <2>1, RemovalKeepsType
  <2> QED
    BY <2>1, <2>2, OfferLapses
<1>4. CASE DownloadBundle
  BY <1>4, DownloadIsRefetch DEF InOrder
<1>5. CASE CheckerDies
  <2>1. UNCHANGED <<marker, shown, path, local, other>>
    BY <1>5 DEF CheckerDies
  <2>2. marker # Unset => bundle'[marker.file] \in {bundle[marker.file], "absent"}
    BY <1>5 DEF CheckerDies
  <2> QED
    BY <2>1, <2>2, OfferLapses
<1>6. CASE WritePending
  BY <1>6, MarkingIsOffer
<1>7. CASE OpenMenu
  <2>1. /\ marker # Unset /\ shown' = marker.stamp
        /\ UNCHANGED <<marker, bundle, path, local, other>>
    BY <1>7 DEF OpenMenu
  <2>2. Forward => marker.stamp >= local
    BY <2>1 DEF InOrder, MarkerLeads
  <2> QED
    BY <2>1, <2>2 DEF Promise!Show, Offered, NoRelease
<1>8. CASE Tap \/ FindBundle \/ (ReadMarker /\ InstallerEnds)
  <2>1. /\ UNCHANGED <<marker, bundle, local, other>>
        /\ (shown' = 0 /\ path' = 0) \/ UNCHANGED <<shown, path>>
    BY <1>8 DEF Tap, ReadMarker, FindBundle, InstallerEnds, NoRelease
  <2> QED
    BY <2>1 DEF Promise!Dismiss, Promise!vars, Offered
<1>9. CASE ReadMarker /\ ~InstallerEnds
  <2>1. /\ marker # Unset /\ path' = marker.file /\ shown # 0
        /\ UNCHANGED <<marker, bundle, shown, local, other>>
    BY <1>9 DEF ReadMarker, HandedOn, NoRelease
  <2>2. Forward => marker.file >= shown /\ marker.file >= local
    BY <2>1 DEF InOrder, MarkerLeads
  <2> QED
    BY <2>1, <2>2 DEF Promise!Take, Offered, NoRelease
<1>10. CASE RaucInstall
  <2>1. UNCHANGED <<marker, bundle, local>> /\ shown' = 0 /\ path' = 0
    BY <1>10 DEF RaucInstall, InstallerEnds, NoRelease
  <2>2. CASE path \in Trusted /\ bundle[path] = "good"
    <3>1. other' = path /\ (Forward => path >= shown /\ path >= local)
      BY <1>10, <2>2 DEF RaucInstall, InOrder, MarkerLeads
    <3> QED
      BY <2>1, <2>2, <3>1 DEF Promise!Install, Offered
  <2>3. CASE ~(path \in Trusted /\ bundle[path] = "good")
    BY <1>10, <2>1, <2>3 DEF RaucInstall, Promise!Dismiss, Offered
  <2> QED
    BY <2>2, <2>3
<1>11. CASE Reboot
  BY <1>11 DEF Reboot, InstallerEnds, Promise!Reboot, Offered, NoRelease
<1> QED
  BY <1>1, <1>2, <1>3, <1>4, <1>5, <1>6, <1>7, <1>8, <1>9, <1>10, <1>11
     DEF Next, CheckerStep, InstallerStep

\* Checker, menu and install helper implement UpdateOffer, with a server of
\* either kind and whether or not unlinking the marker may fail.
THEOREM UpdaterKeepsPromise == Spec => KeepsPromise
<1>1. Init => Promise!Init
  BY PromiseInit
<1>2. TypeOK /\ ChosenFromList /\ HandedOn /\ InOrder /\ StaleIsOvertaken /\ [Next]_vars
      => [Promise!Next]_(Promise!vars)
  BY PromiseStep
<1> QED
  BY <1>1, <1>2, TypeCorrect, ChosenInvariant, OrderInvariant, StaleInvariant, PTL
     DEF Spec, KeepsPromise, Promise!Spec
=============================================================================
