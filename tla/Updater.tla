------------------------------ MODULE Updater ------------------------------
(***************************************************************************)
(* mdmx-updater: the timer-driven checker that downloads and verifies a    *)
(* bundle and leaves a pending marker, the console menu that offers it, and *)
(* the pkexec helper that hands the marker's bundle to RAUC.  The checker  *)
(* and the helper run as separate processes over the same cache directory, *)
(* and either may die between two steps.                                   *)
(*                                                                         *)
(* A bundle is named by the timestamp of the build that made it: file f is  *)
(* the only one of that name and digest, and a system installed from it is *)
(* build f.  The build_timestamp of a manifest entry is another matter:    *)
(* publish-updates.py writes that of the last build into every entry.      *)
(***************************************************************************)
EXTENDS Integers

CONSTANTS
  Newest,         \* releases are 1 .. Newest; build 0 is the factory image
  Trusted,        \* bundles signed with keys of the on-device keyring
  WithSha,        \* bundles whose manifest entry has a sha384
  Withdraws,      \* may the published timestamp step back?
  StaleBundles,   \* may the deploy directory hold bundles of earlier builds?
  IoErrors        \* which of "unlink" and "rmtree" may fail, and be ignored

Releases == 1 .. Newest
Builds == 0 .. Newest
NoRelease == 0    \* nothing shown, nothing to install

\* An entry of the manifest, and what the marker keeps of it.
Entries == {e \in [stamp : Releases, file : Releases] : e.file <= e.stamp}
Unset == [stamp |-> NoRelease, file |-> NoRelease]

ASSUME NewestAssumption == Newest \in Nat \ {0}
ASSUME TrustedAssumption == Trusted \subseteq Releases
ASSUME WithShaAssumption == WithSha \subseteq Releases
ASSUME SwitchesAssumption == Withdraws \in BOOLEAN /\ StaleBundles \in BOOLEAN
                            /\ IoErrors \subseteq {"unlink", "rmtree"}

Contents == {"absent", "good", "corrupt"}
UpdaterSteps == {"idle", "fetch", "pick", "clear", "wipe", "bundle", "sig",
                 "sha", "verify", "mark", "discard"}
InstallerSteps == {"idle", "menu", "helper", "exists", "rauc"}

VARIABLES
  manifest,       \* server: manifest.json, the timestamp and the files it lists
  local, other,   \* builds of the running slot and of the other one
  marker,         \* pending.json: the entry it was written for
  bundle,         \* BUNDLE_DIR: what is stored under each file name
  sig,            \* BUNDLE_DIR: the signature fetched for the candidate
  pc,             \* the checker
  seen,           \* the manifest the checker has fetched
  cand,           \* the candidate it works on
  ipc,            \* menu and install helper
  shown,          \* the timestamp in the menu entry the operator taps
  path,           \* the bundle path the helper has read
  settled         \* from here on the server, the network and the power are good

server == <<manifest, settled>>
slots == <<local, other>>
cache == <<marker, bundle, sig>>
checker == <<pc, seen, cand>>
installer == <<ipc, shown, path>>
vars == <<server, slots, cache, checker, installer>>

NoFiles == [f \in Releases |-> "absent"]
NoManifest == [stamp |-> NoRelease, files |-> {}]

\* What a run of publish-updates.py can leave on the server.
Manifests ==
  {m \in [stamp : Releases, files : SUBSET Releases] :
     /\ m.files # {} /\ \A f \in m.files : f <= m.stamp
     /\ StaleBundles \/ m.files = {m.stamp}}

----------------------------------------------------------------------------
Init ==
  /\ manifest = NoManifest
  /\ local = 0 /\ other = 0
  /\ marker = Unset
  /\ bundle = NoFiles /\ sig = "absent"
  /\ pc = "idle" /\ seen = NoManifest /\ cand = Unset
  /\ ipc = "idle" /\ shown = NoRelease /\ path = NoRelease
  /\ settled = FALSE

\* The first of a manifest's entries in its order, which is that of the names.
First(files) == CHOOSE f \in files : \A g \in files : f <= g

\* pick_candidate: the entries are newer than this build all or none, and of
\* equal timestamps max() returns the first.
PickCandidate(m) ==
  IF m.stamp > local THEN [stamp |-> m.stamp, file |-> First(m.files)] ELSE Unset

\* Absent digests are equal, too.
SameSha(f, g) == f = g \/ {f, g} \cap WithSha = {}

AlreadyPending_AnyRelease(e) ==             \* mutant: timestamps not compared
  marker # Unset /\ bundle[marker.file] # "absent"

\* already_pending: same timestamp, same sha384, and the marker's bundle is
\* still there.
AlreadyPending(e) ==
  /\ marker # Unset
  /\ marker.stamp = e.stamp
  /\ SameSha(marker.file, e.file)
  /\ bundle[marker.file] # "absent"

----------------------------------------------------------------------------
(* The checker.  One instance at a time: a systemd oneshot.                *)

\* What the process knew goes with it.
CheckerEnds == pc' = "idle" /\ seen' = NoManifest /\ cand' = Unset

CheckerStart ==
  /\ pc = "idle"
  /\ pc' = "fetch"
  /\ UNCHANGED <<server, slots, cache, seen, cand, installer>>

\* The manifest is fetched, or cannot be and the run ends.
Fetch ==
  /\ pc = "fetch"
  /\ \/ manifest # NoManifest /\ pc' = "pick" /\ seen' = manifest /\ UNCHANGED cand
     \/ (manifest = NoManifest \/ ~settled) /\ CheckerEnds
  /\ UNCHANGED <<server, slots, cache, installer>>

Pick ==
  /\ pc = "pick"
  /\ LET c == PickCandidate(seen) IN
     \/ c = Unset /\ pc' = "clear" /\ UNCHANGED <<seen, cand>>
     \/ c # Unset /\ AlreadyPending(c) /\ CheckerEnds
     \/ c # Unset /\ ~AlreadyPending(c)
        /\ pc' = "wipe" /\ cand' = c /\ UNCHANGED seen
  /\ UNCHANGED <<server, slots, cache, installer>>

\* rmtree(BUNDLE_DIR, ignore_errors=True)
RemoveFiles ==
  \/ bundle' = NoFiles /\ sig' = "absent"
  \/ "rmtree" \in IoErrors /\ ~settled /\ UNCHANGED <<bundle, sig>>

\* clear_pending: the marker goes first, then the directory.
ClearPending ==
  /\ pc = "clear"
  /\ \/ marker' = Unset
     \/ "unlink" \in IoErrors /\ ~settled /\ UNCHANGED marker
  /\ pc' = "discard"
  /\ UNCHANGED <<server, slots, bundle, sig, seen, cand, installer>>

\* Before staging, the directory is emptied; the marker is left alone.
Wipe ==
  /\ pc = "wipe"
  /\ RemoveFiles
  /\ pc' = "bundle"
  /\ UNCHANGED <<server, slots, marker, seen, cand, installer>>

\* http_download: the file appears under its name only when the transfer has
\* ended, whole or cut short; a reported error discards the directory.
Arrives == {"good"} \cup (IF settled THEN {} ELSE {"corrupt"})

DownloadBundle ==
  /\ pc = "bundle"
  /\ \/ \E c \in Arrives : bundle' = [bundle EXCEPT ![cand.file] = c] /\ pc' = "sig"
     \/ ~settled /\ pc' = "discard" /\ UNCHANGED bundle
  /\ UNCHANGED <<server, slots, marker, sig, seen, cand, installer>>

DownloadSig ==
  /\ pc = "sig"
  /\ \/ \E c \in Arrives : sig' = c /\ pc' = "sha"
     \/ ~settled /\ pc' = "discard" /\ UNCHANGED sig
  /\ UNCHANGED <<server, slots, marker, bundle, seen, cand, installer>>

CheckSha_Suffices ==                        \* mutant: a digest for a signature
  /\ pc = "sha"
  /\ pc' = IF cand.file \notin WithSha THEN "verify"
            ELSE IF bundle[cand.file] = "good" THEN "mark" ELSE "discard"
  /\ UNCHANGED <<server, slots, cache, seen, cand, installer>>

CheckSha ==
  /\ pc = "sha"
  /\ pc' = IF cand.file \in WithSha /\ bundle[cand.file] # "good"
              THEN "discard" ELSE "verify"
  /\ UNCHANGED <<server, slots, cache, seen, cand, installer>>

Verified_AnyFile(f) == f \in Trusted        \* mutant: content not covered

\* openssl cms -verify of the stored bundle against the stored signature.
Verified(f) == f \in Trusted /\ bundle[f] = "good" /\ sig = "good"

VerifyHybrid ==
  /\ pc = "verify"
  /\ pc' = IF Verified(cand.file) THEN "mark" ELSE "discard"
  /\ UNCHANGED <<server, slots, cache, seen, cand, installer>>

\* write_pending: a temporary file renamed over the marker.
WritePending ==
  /\ pc = "mark"
  /\ marker' = cand
  /\ CheckerEnds
  /\ UNCHANGED <<server, slots, bundle, sig, installer>>

Discard ==
  /\ pc = "discard"
  /\ RemoveFiles
  /\ CheckerEnds
  /\ UNCHANGED <<server, slots, marker, installer>>

\* The checker dies anywhere; a death inside rmtree leaves some of the files.
CheckerDies ==
  /\ ~settled
  /\ pc # "idle"
  /\ CheckerEnds
  /\ \/ UNCHANGED <<bundle, sig>>
     \/ /\ pc \in {"wipe", "discard"}
        /\ \E gone \in SUBSET Releases :
             bundle' = [f \in Releases |-> IF f \in gone THEN "absent" ELSE bundle[f]]
        /\ sig' \in {sig, "absent"}
  /\ UNCHANGED <<server, slots, marker, installer>>

----------------------------------------------------------------------------
(* The console menu and the install helper.                                *)

InstallerEnds == ipc' = "idle" /\ shown' = NoRelease /\ path' = NoRelease

\* The entry is shown while the marker exists, with its timestamp.
OpenMenu ==
  /\ ipc = "idle"
  /\ marker # Unset
  /\ ipc' = "menu"
  /\ shown' = marker.stamp
  /\ UNCHANGED <<server, slots, cache, checker, path>>

Tap ==
  /\ ipc = "menu"
  /\ \/ ipc' = "helper" /\ UNCHANGED <<shown, path>>
     \/ InstallerEnds
  /\ UNCHANGED <<server, slots, cache, checker>>

ReadMarker_Unchecked ==                     \* mutant: a marker is taken for granted
  /\ ipc = "helper"
  /\ ipc' = "exists" /\ path' = marker.file
  /\ UNCHANGED <<shown, server, slots, cache, checker>>

ReadMarker_AnyBundle ==                     \* mutant: a file of BUNDLE_DIR at hand
  /\ ipc = "helper"
  /\ \/ marker = Unset /\ InstallerEnds
     \/ /\ marker # Unset
        /\ ipc' = "exists"
        /\ \E f \in Releases : bundle[f] # "absent" /\ path' = f
        /\ UNCHANGED shown
  /\ UNCHANGED <<server, slots, cache, checker>>

\* The helper reads the marker anew; exit 2 when it is gone.
ReadMarker ==
  /\ ipc = "helper"
  /\ \/ marker = Unset /\ InstallerEnds
     \/ marker # Unset /\ ipc' = "exists" /\ path' = marker.file /\ UNCHANGED shown
  /\ UNCHANGED <<server, slots, cache, checker>>

\* Exit 3 when the bundle is missing, else exec rauc.
FindBundle ==
  /\ ipc = "exists"
  /\ \/ bundle[path] = "absent" /\ InstallerEnds
     \/ bundle[path] # "absent" /\ ipc' = "rauc" /\ UNCHANGED <<shown, path>>
  /\ UNCHANGED <<server, slots, cache, checker>>

\* RAUC opens the bundle, checks the embedded signature and fills the other
\* slot; it fails when the file has gone or does not verify.
RaucInstall ==
  /\ ipc = "rauc"
  /\ InstallerEnds
  /\ other' = IF path \in Trusted /\ bundle[path] = "good" THEN path ELSE other
  /\ UNCHANGED <<server, local, cache, checker>>

----------------------------------------------------------------------------
(* The environment.                                                        *)

\* A run of publish-updates.py, and the upload: an entry for every bundle of
\* the deploy directory, and in each the timestamp of the last build.
Publish ==
  /\ ~settled
  /\ manifest' \in Manifests
  /\ Withdraws \/ manifest'.stamp >= manifest.stamp
  /\ UNCHANGED <<settled, slots, cache, checker, installer>>

\* A reboot stops both processes and starts either slot (module BootSlots).
Reboot ==
  /\ ~settled
  /\ \/ UNCHANGED slots
     \/ local' = other /\ other' = local
  /\ CheckerEnds /\ InstallerEnds
  /\ UNCHANGED <<server, cache>>

Settle ==
  /\ ~settled
  /\ settled' = TRUE
  /\ UNCHANGED <<manifest, slots, cache, checker, installer>>

CheckerStep ==
  \/ CheckerStart \/ Fetch \/ Pick \/ ClearPending \/ Wipe \/ DownloadBundle
  \/ DownloadSig \/ CheckSha \/ VerifyHybrid \/ WritePending \/ Discard

InstallerStep == OpenMenu \/ Tap \/ ReadMarker \/ FindBundle \/ RaucInstall

Next == CheckerStep \/ CheckerDies \/ InstallerStep \/ Publish \/ Reboot \/ Settle

Spec == Init /\ [][Next]_vars

\* The timer fires again and again (OnUnitActiveSec=6h) and a started check
\* runs on.  Nothing makes the operator tap.
FairSpec == Spec /\ WF_vars(CheckerStep)

----------------------------------------------------------------------------
TypeOK ==
  /\ manifest \in Manifests \cup {NoManifest}
  /\ local \in Builds /\ other \in Builds
  /\ marker \in Entries \cup {Unset}
  /\ bundle \in [Releases -> Contents] /\ sig \in Contents
  /\ pc \in UpdaterSteps
  /\ seen \in Manifests \cup {NoManifest} /\ cand \in Entries \cup {Unset}
  /\ pc = "pick" => seen # NoManifest
  /\ pc \in {"wipe", "bundle", "sig", "sha", "verify", "mark"} => cand # Unset
  /\ ipc \in InstallerSteps
  /\ shown \in Builds /\ path \in Builds
  /\ ipc \in {"exists", "rauc"} => path \in Releases
  /\ settled \in BOOLEAN

\* What 50-mdmx-updater.rules:3-6 grants: "install a bundle that we already
\* downloaded and verified against the on-device RAUC keyring".  The bundle the
\* marker names, when it is there to be installed, has been verified.  It fails
\* when the published timestamp steps back (or unlink fails): the checker wipes
\* under a standing marker and downloads its file anew (mdmx-updater.py:243).
PendingBundleVerified ==
  marker # Unset /\ bundle[marker.file] # "absent" =>
    marker.file \in Trusted /\ bundle[marker.file] = "good"

\* With a server that moves forward, one build at a time: the bundle that RAUC is
\* handed is neither older than the one the operator saw in the menu, whatever
\* the checker did meanwhile, nor older than the build that runs, whatever slot a
\* reboot has brought up.  With a bundle of an earlier build left in the deploy
\* directory it is false: that bundle is listed under the timestamp of the last
\* build, and is the one the client picks (publish-updates.py:148).
NeverInstallsOlder == ipc = "rauc" => path >= shown /\ path >= local

\* Whatever the server publishes and whatever fails (a timestamp that steps back,
\* old bundles, an unlink that is ignored, a death of the checker at any step):
\* the marker becomes another one only for a bundle that is verified at that
\* moment, and only for a timestamp newer than the build that runs, the one of
\* the manifest the check went by.
MarkerIsEarned ==
  [][marker' \notin {marker, Unset} =>
       /\ Verified(marker'.file) /\ UNCHANGED <<bundle, sig>>
       /\ marker'.stamp = seen.stamp /\ marker'.file \in seen.files
       /\ marker'.stamp > local]_vars

Forward == ~Withdraws /\ ~StaleBundles
Clean == "unlink" \notin IoErrors

\* Once the server, the network and the power are good, the menu ends up
\* offering what is published if that is newer than what runs, and nothing if it
\* is not, whatever crashes and broken downloads came before.  The one exception
\* is an offer whose file was fetched anew under the standing marker and never
\* verified (PendingBundleVerified): every check takes it for pending.
OfferConverges ==
  LET offered == LET c == PickCandidate(manifest)
                 IN  \/ c # Unset /\ c.file \notin Trusted
                     \/ marker = c /\ (c # Unset => bundle[c.file] = "good")
  IN  <>settled => <>[](offered \/ (~(Forward /\ Clean) /\ ~PendingBundleVerified))

\* What the marker offers: the bundle that is stored under the name it holds.
Offered ==
  [stamp |-> marker.stamp, build |-> marker.file,
   content |-> IF marker = Unset THEN "absent" ELSE bundle[marker.file]]

Promise == INSTANCE UpdateOffer WITH Stamps <- Releases, offer <- Offered, taken <- path

\* The checker, the menu and the helper together implement UpdateOffer: a
\* marker is one atomic offer, of which the steps that take files away and fetch
\* them are seen as a change of its content at most, and whichever of the two
\* processes dies, what is left is again an offer or none.
KeepsPromise == Promise!Spec
=============================================================================
