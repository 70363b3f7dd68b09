# TLA+ models of the MissionDMX console OS

This directory holds the formal model of the programs that make up the MissionDMX
firmware image: how it boots, updates itself, prepares its disk, configures its
network, keeps the on-screen keyboard and the fish alive, mounts and shows media, lists
recent shows and shares one file of settings. The specifications are written from the source (`meta-custom/`, `scripts/`); TLC checks
them on small instances and TLAPS proves every safety property of the passing runs, and what
they rest on, for every value of the constants. `PROJECT.json` maps every definition to
the lines it stands for and lists the hazards the properties were chosen for.

## The system

The repository is a Yocto layer. Most of it (recipes, kernel configuration, themes,
CI) describes a build. The programs with behaviour of their own, the state they keep
and how they meet:

| part | source | state | operations | talks to |
|---|---|---|---|---|
| boot slots | `wic/mdmx-grub.cfg`, `mdmx-grubenv_1.0.bb`, `mdmx-bootcheck.sh`, `rauc/files/system.conf` | grubenv (`ORDER`, `A/B_OK`, `A/B_TRY`), the two root file systems | select and save at power-on, menu, confirm at `graphical.target` | RAUC rewrites grubenv and the other slot |
| updater | `mdmx-updater.py`, `mdmx-updater-install` | `pending.json`, the bundle directory | check every six hours: fetch, pick, wipe, download, verify, mark; privileged install | HTTP server, console menu, `rauc install` |
| publication | `scripts/publish-updates.py`, `sign-images.sh` | the served directory | stage bundles, write manifest | read by the updater |
| console menu | `console-menu.sh` | none | shows the pending version, starts the install | reads the updater's marker |
| OSK manager | `osk-manager.py` | the wvkbd child, the flag it was started with, a debounce timer | start, watchdog, hot-plug rescan, show/hide/toggle, shutdown | udev, wvkbd (signals), `oskctl` (socket) |
| network controller | `mdmx-network-ctrl.py` | drop-in files under `/run` | `ApplyConfiguration` over D-Bus | systemd-networkd, systemd-resolved |
| first boot | `mdmx-initramfs/files/firstboot` | partition table, userdata file system, `.seeded` | create, format, mount, seed, bind | runs in the initramfs before the root switch |
| recent shows | `recent_shows_tab.py`, `show_metadata.py` | rows of the tab, a watcher, a metadata cache in memory and on disk | open, reload on a change of the list | the console writes the list, anybody the shows |
| explorer | `mdmx_explorer/*.py`, `mdmx-explorer-mount.sh` | set of known mounts, tabs, a running mount command | watch mountinfo, mount and unmount network shares | kernel, automounter, pkexec helper |
| automounter | `udev/files/mount.sh` | `/tmp/.automount-*`, mount directories | add, change, remove | udev, systemd's mount jobs; its mounts appear in the explorer |
| settings | `console-settings-daemon.py`, `console-lock.py`, explorer `settings.py` | one shared INI file | wizard, PIN change, show-hidden | three writers of one file |
| fish monitor | `fish-monitor.py` | one child, a status file, `/tmp/fish.sock*` | restart loop, prompt, shutdown by a signal | realtime-fish, waybar, the terminal |
| others | document viewer, wallpaper, launcher, sway session, flatpak and user set-up | none shared | one-shot | – |

The updater hands a bundle to RAUC, RAUC rewrites the slot that is not running and
grubenv, GRUB chooses from grubenv at the next power-on, `firstboot` binds `/var` and
`/home` from userdata below whichever slot was chosen, and `mdmx-bootcheck` confirms.

What is hard here, and hardly testable:

* **power failure between any two steps**: grubenv is rewritten without a copy, a slot
  is written in place, the partition exists before it is formatted, a marker becomes
  durable before the data it vouches for;
* **interleaving**: four kinds of threads of the OSK manager over one lock and one
  child; the updater's check against the menu, the install helper and the server; a
  signal handler that runs between any two steps of the loop below it, under that loop's
  lock; files that are written while the GUI thread reads them;
* **notifications against looks**: udev events before the monitor runs, mount changes
  while the GUI thread is blocked for 30 s, events of a medium handled when another one
  is plugged in already;
* **partial failure**: a configuration rejected half-way through the files, a command
  that outlives its time-out, a `Popen` that fails inside a restart;
* **three writers of one file** without a lock, one of which holds its copy for as long
  as the operator takes;
* **order of a map**: which of several interfaces becomes the default gateway.

## Modules

Each component is one module with its constants, `Init`, an action per step, `Next`,
`Spec`, its properties; `MC…` modules instantiate it for TLC; `…Proofs` modules hold
theorems (`BootProofs` those of BootSlots, FirstBoot and Startup, `MediaProofs` those of
Automount and Explorer). `FirstBoot` and `Automount` put their own name before `Init`,
`Next`, `Spec`, `TypeOK`, because a module extends each of them together with another
component. Definitions keep the names of the source where TLA+ allows it. Definitions
called `X_Something` next to a definition `X` are faulty variants of `X` (a dropped
test, a swapped order); they are not part of the specification, and the entries under
"mutants" say which property finds each of them.

### BootSlots

`order`, `ok`, `try`, `readable` are grubenv; `phase` is the machine; `image`, `esp`
say what a slot holds and whether its fstab lists the ESP. `Grub` is the whole script
up to the menu, including the saved `TRY` of *every* slot the loop reached. `Launch`,
`MenuTimeout`, `MenuPick` are the menu; `BootCheck` is the oneshot, which needs the
ESP and a readable block. RAUC is not in the repository: `Install*` follow RAUC's grub
integration as `system.conf` configures it (mark the target not bootable, write,
activate: `ORDER`, `OK=1`, `TRY=0`). `PowerCut` may happen at any moment, `TornWrite`
leaves an unreadable block. `chosen` (the slots GRUB has made its default, by the
selection or by `default=0`, since userland or RAUC cleared their `TRY`) and `switched`
are history variables.

Properties: a slot that was chosen, and that nobody has cleared since, is chosen again
in one case only, as the last resort of `default=0` (`RechosenOnlyAsLastResort`; a
machine both of whose slots hang, or whose block is unreadable, does boot slot A for
ever); after a confirmed boot the same slot is selected again unless RAUC has rewritten
`ORDER` (`ConfirmedSlotBootsNext`); a half-written slot is the default only when nothing
else is on offer (`HalfWrittenOnlyAsLastResort`).

### Updater

`manifest` is what the server lists, `marker`/`bundle`/`sig` the cache, `pc` the check,
`ipc` the menu and the install helper. A file is `absent`, `good` or `corrupt` (short,
altered); sha384 and the hybrid signature are what they tell of such a file. Every
early return of `main`, `clear_pending` (marker first, then files), the wipe that
leaves the marker, `CheckerDies` at any step (including in the middle of an `rmtree`),
and reboots into either slot are actions.

A bundle has the number of its build, and a system installed from it is that build. A
manifest has one `stamp`, that of the last build, and the `files` of the deploy directory
(`Manifests`): this is what `publish-updates.py` writes into every entry. Of entries with
equal timestamps the client picks the first (`First`), which is the oldest by name.
`StaleBundles` says whether the deploy directory may hold more than the last build's
bundle, `Withdraws` whether the published timestamp may step back, `IoErrors` which
deletions may fail unnoticed.

Properties: with a server that moves forward, one build at a time, the helper never hands
RAUC something older than what the operator saw or what runs (`NeverInstallsOlder`), and
once everything calms down the menu offers what is published, or nothing if it is not
newer (`OfferConverges`; with a server that steps back, or an `unlink` that fails, it may
instead be stuck with a file that was fetched anew under a standing marker and never
verified, which every later check takes for pending). Whatever the server lists and whatever fails, a marker appears
only for a bundle that has just been verified, under a timestamp newer than the running
build's (`MarkerIsEarned`). `PendingBundleVerified`, that what the marker names is
verified, is what the repository promises and TLC refutes.

`UpdateOffer` is what the three programs promise together, with no word of markers,
directories, downloads or crashes: one build on offer at most, sound and signed when it is
first offered; what goes into the other slot is signed and was on offer after the menu
opened. Its constants say what kind of server and disk it speaks of. If the server only
moves `Forward`, what is shown and installed is not older than what runs. If a withdrawn
offer is moreover gone (`Clean`: `unlink` does not fail), an offer that lost its file never
gets it back unverified, and gives way only to a newer one; otherwise the step `Refetch`
is possible, which is the hazard of `mdmx-updater.py:243` seen from outside. `Offered` is
the refinement mapping: the marker together with the file stored under the name it holds.
`KeepsPromise` is the specification of UpdateOffer under that mapping, checked for a server
that moves forward and deletions that fail, and proved for any server and disk.

### OskManager

`mpc` is the main thread, `monitor`/`heard` the udev thread, `armed`/`waiting` the
debounce timer that can still be cancelled and the callbacks that no longer can, `spc`
the socket thread, `lock` the section that holds the RLock. `wv` is the life of each
wvkbd process (`starting` until its handlers are installed, `dead` while it is a zombie
child), `auto` the flag it was started with. `Spawned` only overwrites `proc`: a former
child that lives goes on living, as it does when Python drops a `Popen`; one that has been
found dead is reaped. A section that does nothing observable
between acquiring and releasing the lock is one action; a rescan is three (look, reap,
spawn), a command two (ensure, send), because wvkbd may exit in between.

Properties: no wvkbd but the owned one is alive and it has the flag the daemon believes
in, which rests on the lock being held from a poll to the spawn after it
(`OnlyTheOwnedKeyboardLives`); a command without effect is only possible if wvkbd
exited under its hands or had just been started by another thread
(`SignalLostOnlyInARace`; both cases are ones the README or a comment of the OSK manager
claims away, see Runs); the flag converges to the plugged keyboards
(`FlagFollowsKeyboards`), with two named exceptions (`missed`): a change before the
monitor runs, and a failed spawn in the last rescan.

### NetworkCtrl

`network`, `netdev`, `catchall`, `dns` are the files, `applied`/`resolved` what the two
daemons run, `stale` the daemons whose restart failed. A configuration is its keys in
order, what addresses each has (`auto`, a subnet with the gateway, one without), the
gateway, and a `defect`, or a `broken` entry, that makes the code raise at the place
where it raises. Every file is one step; removal, the stub files, the exclusion list
and the two restarts are in the code's order. `Loaded` is networkd's rule that the
first matching file in name order counts.

Properties: after a call that was answered without an error the files are what was asked
for, whatever rejected calls, I/O errors and crashes came before, and each daemon runs
them unless its restart failed, which the code logs and does not answer
(`AcceptedIsApplied`). `Configured` says what that is: every listed link its addresses,
every VLAN attached to its parent, Ethernet links that nobody mentions down
(`OtherEthernetDown`), the gateway on one link. It also says what happens to a listed VLAN
that is the parent of another one (`Overwritten`): it runs the stub. At no moment do the
files name two default gateways (`OneDefaultGateway`).

### FirstBoot

`part` and `link` are the partition and its udev link, `live`/`seeded` the mounted file
system, `disk`/`durable` what is on the media. Write-back (`Commit`, `WriteBack`) may
happen in any order that keeps a file's own history, so `.seeded` may become durable
before the data. Properties: saved files survive every later boot
(`SavedFilesSurvive`), checked on the machine of Startup; `FirstBootCompletes` is what
the script promises of the first boots and TLC refutes.

### Startup

Boot slots and initramfs as one machine. `Initramfs` lets the script of FirstBoot run
while the kernel of a sound slot is booting; `Desktop` is BootSlots' `BootUp`, once the
script has ended; userdata is the one partition both slots mount. A boot that ends in
`fatal` is cycled by the operator and has spent the `TRY` of its slot, like one whose
kernel hangs. Power cuts and reboots are steps of both parts. Each step of the machine is
a step or a stutter of either module (`StartupIsBoth`), so that the properties of both
hold of it, and are checked on it.

Property: with steady power a sound slot that a readable environment makes eligible ends
in a desktop, whatever the other slot holds and wherever earlier boots were cut off
(`EligibleSoundSlotComesUp`), unless the partition is there and was never formatted, which
stops both slots.

### Explorer

`mounts` stacks the file systems of each path; `changed` is the kernel's pending
notification, `active` the notifier that has not run; `known` and `tabs` are the
watcher and the window; `gui` is the GUI thread, which handles events only in its
loops (`idle`, and the nested loops of dialogs); `cmd`/`running`/`strays` are mount
commands, those that outlived their time-out included. A failing read of mountinfo is
an empty table (`blind`), as in the code. Properties: whenever the window handles
events, no change is pending and the last look succeeded, tabs and table agree
(`TabsMatchTable`); once the table keeps still they agree for good (`TabsConverge`).

### Settings

`ini` is `console-settings.ini`, one field per section (`setup` and `map` are the two
halves of what the wizard writes); `copy[w]` is what program `w` has read and not saved
yet; `dpc`, `lpc`, `epc` are console-settings-daemon, console-lock and the explorer's
preference. Each save writes the whole copy (`Save`), so it takes back what others
saved since. `quirks` is the libinput file the root helper writes, `loaded` what sway
read of it when it started, `route` sway's table from identifier to output; panels are
all of one model and share the identifier `Model` until a quirk renames them.
`Calibrate` stands for the wizard's pages, whose dialogue changes only the wizard's own
fields. A restart of sway (by the daemon, by systemd or a power cycle) ends every
client. `stale`, `behind` are history variables. One daemon runs at a time: a second one
started by hand with `--reconfigure` while a wizard is open is not modelled.

Properties: a section changes only by its owner's save, or by a program whose copy is
older than another save (`UpdatesLostOnlyByOverlap`; the lost PIN change is possible and
is in the model); a start on the fast path sends each panel to its own output provided
the quirks for the map were written (`FastPathRoutesEachPanel`); once every panel has
been calibrated the wizard does not come back (`WizardConverges`).

Two limits of the code show in the antecedents. The map is saved before the quirks
(`console-settings-daemon.py:899` and `908`): if the helper fails or power goes in
between, the next start finds the file complete, takes the fast path, and panels of one
model still share one identifier; nothing repairs that until the next calibration. And a
connected panel that was skipped, or more panels than outputs, make every start open the
wizard and every completion restart sway (`diagnose`, lines 334-338).

### FishMonitor

`pc` is the loop of `main` (its `write_status` calls are two steps, the file being empty
in between: `half`), `child`/`rc` what main knows, `born` a process that `Popen` has
forked and `child =` has not bound yet. `handler` is `_shutdown`, which Python runs
between any two steps of the loop. It returns to them in one way only: if it runs on top
of the `try` of `cleanup_sockets` and its `write_status` raises, the sweep's `except
OSError` takes that for a failed `unlink` and the loop goes on (`HandlerSwallowed`). `locked` says that
the frame below holds the lock of `Popen.wait`, so that `poll` and `wait` in the handler
learn nothing. A second signal interrupts the first handler. `Raise` is an uncaught
`OSError`, `Hangup` the end without a handler, `NewSession` the next monitor, which may
find fish and sockets of the last one (`strays`).

Properties: the handler leaves none of its session's fish alive except one forked but
not yet assigned (`EndsWithItsFish`); the sweep takes no socket from a supervised fish
(`CleanupSparesSupervised`); a crash leads to a restart or to the monitor's end
(`RestartsAfterCrash`); a signal ends the monitor, but for the swallowed error
(`ShutdownEnds`). `status.json` has no
property: the last write may be the loop's, whose half-written file Python closes after
the handler's exit, so the file can say `running` of a monitor that is gone.

### Automount

One kernel name, `sda1`, under systemd. `present`/`path` are the medium and its device
path now, `queue` the events udevd has not handed over, `pc`/`ev`/`name` the running
script. The script is told of a past event but asks `/sys`, `blkid` and the mount table
of the present. `caches` are the `/tmp/.automount-*` files, `dirs` the directories,
`jobs` what `systemd-mount --no-block` has left to systemd, `mounted` the mounts (`Dead`:
of a device that was pulled out). `UnitFiles` and `RemoveTest` have the shell's own
view of two matching files: `[ -f` and `-e` are false of them.

Properties: after a removal has been handled nothing stays cached
(`CleanAfterRemoval`); no event unmounts a medium that is plugged in
(`LiveMediumStays`); a plugged medium of a supported kind gets mounted
(`MountsWhatIsPlugged`). Three histories are excepted by name: `overlapped`, plugged
before the last removal had been dealt with; `mislabelled`, cached under a second name
because the medium was pulled out before `blkid` read its label (two cache files match
from then on, and the remove handler, whose `-e "$tmpfile"` is false of two names, never
cleans either); `failed`, a mount that systemd refused or gave up.

### RecentShows

`list` is `recently_used.list`, `writing` a rewriting in place, `watched`/`fileChanged`
the QFileSystemWatcher and its pending signal, `data`/`saved` the metadata cache and its
file, `pc`/`todo`/`at`/`st` the reload in the GUI thread (line by line: stat, look into
the cache, parse, remember), `rows` what the tab shows. The n-th content of a show is
the number n. `key` is what `os.stat` tells of a file: a write may give it a new key,
numbered as its content is, or leave it the one it has, or bring back an earlier one
(inode, size and mtime kept or restored). Properties: a cache entry that passes for current
holds the file's present metadata, in memory and on disk, if the file's last write gave it
a key of its own (`CacheNotPoisoned`); no card is older than the first content that had the
key this reload found (`CardsAreNotStale`); a watched list and the tab end up the same
(`TabFollowsList`).

What is written under an old key is not seen. The comment of `show_metadata.py:44-46`
claims that it is (`st_ino` is there so that writes "without touching mtime can't poison
the cache"), but a rewriting in place keeps the inode: `InPlaceCannotPoison`, refuted in
the run `recent_inplace`. A list that is absent when the tab opens, or is replaced
by another file, is watched no longer (`recent_shows_tab.py:144`).

## Runs

| run | instance | shows |
|---|---|---|
| `startup` | two slots, sound and broken bundles, slots with and without the ESP, torn writes; two directories, late links | the safety properties of BootSlots and FirstBoot on the composed machine, and that it comes up |
| `firstboot_cut` | FirstBoot alone, two directories | **violated**: a cut between `sgdisk` and `mkfs` stops every later boot, contrary to `firstboot:10-12` |
| `updater` | three releases, one untrusted, one without sha384; a server that moves forward; both deletions may fail | types, nothing older installed, every marker earned, convergence, the refinement of UpdateOffer |
| `updater_unverified` | two releases, a server that steps back | **violated**: a marker names a file that is not verified, contrary to `50-mdmx-updater.rules:3-6` |
| `osk` | two processes, two queued events, two waiting timers, failing spawns | the four properties of OskManager |
| `network` | five links, eleven configurations, four of them rejected at different places | the three properties of NetworkCtrl |
| `firstboot_cut` | two directories | **violated**: a cut between `sgdisk` and `mkfs` stops every later boot |
| `explorer` | a stick, a hidden partition, a share with up to two stacked mounts | the three properties of Explorer |
| `settings` | two outputs, two panels of one model, two PINs, three disturbances | the four properties of Settings |
| `fish` | three processes, two signals per monitor, failing status writes | the five properties of FishMonitor |
| `automount` | a labelled stick, one without a label, an unsupported disk, two ports, two waiting events | the four properties of Automount |
| `recent` | two shows of two contents each, one of them broken, keys that are new, kept or restored | the four properties of RecentShows |
| `recent_inplace` | the same | **violated**: a rewriting in place poisons the cache, contrary to `show_metadata.py:44-46` |

Each violated property is what a comment, document or message of the repository says; the
findings in `PROJECT.json` quote the lines.

More places where code and words part are known from the models. They have no run of their
own; in each case a property of a passing run, or a definition, names the very case:

* **Boot.** `mdmx-ab.wks.in:6-8` says that "GRUB's fallback path always lands on a bootable
  kernel". After an installation into A was interrupted and B was tried and cut off
  before its confirmation, no slot is eligible and `default=0` (`mdmx-grub.cfg:6`) boots the
  half-written A (`HalfWrittenOnlyAsLastResort`).
* `mdmx-bootcheck.sh:5-8` says that GRUB "would refuse to try the same slot again" until the
  counter is reset. It refuses only while the other slot is eligible: with both `TRY` at 1,
  or an unreadable block, it boots A at every power-on (`RechosenOnlyAsLastResort`).
* **Publication.** `publish-updates.py:139-141` wipes the server's directory because otherwise
  "the client would happily install a rolled-back image". The deploy directory is not
  wiped: a bundle of an earlier build in it is published under the last build's timestamp
  (148), and of equal timestamps the client picks the first by name
  (`mdmx-updater.py:162`). `NeverInstallsOlder` therefore needs `StaleBundles = FALSE`.
* **On-screen keyboard.** `osk-manager/README.md:68-70` says "If wvkbd has died by the time a
  signal arrives [...], the signal path transparently respawns it and retries once". The
  retry waits for a `ProcessLookupError` (`osk-manager.py:186`), but `Popen.send_signal`
  polls first and returns silently when the child has exited: nothing is retried, and
  the command answers ok (`excused` in `SignalLostOnlyInARace`).
* The comment at `osk-manager.py:174-176` says of the sleep in `_ensure_running` "without this
  the first show/toggle after an unexpected exit races and gets lost". The watchdog
  (338) respawns without it, and the first command after that gets lost (not `fresh` in
  `SignalLostOnlyInARace`).
* **Network.** `NetworkControlProtocol.md:15-16` says of every device that is not in the
  message "it is taken down". The catch-all names `en*` and `eth*` only
  (`mdmx-network-ctrl.py:111`): `wlan0` of the instance keeps what it runs
  (`OtherEthernetDown`).
* The comment at `mdmx-network-ctrl.py:253-255` has stubs for VLAN parents "that weren't
  listed themselves". The test (257) knows the listed devices, not the listed VLANs: of a
  VLAN and a VLAN of it, both in the message, the outer one's file is overwritten by the
  stub (`Overwritten`).
* **Fish monitor.** `fish-monitor.py:78` prints "received signal …, shutting down". If the
  handler interrupts the `try` of `cleanup_sockets` and cannot write its status, the sweep
  swallows the error and the loop starts fish again (`HandlerSwallowed`, excepted in
  `ShutdownEnds`).
* **Others.** A keyboard plugged between `main`'s scan (`osk-manager.py:313`) and the start of the
  udev monitor (224) is not noticed until the next event, although
  `osk-manager/README.md:33-34` says "a change in the hardware-keyboard set forces a
  wvkbd respawn". `FlagFollowsKeyboards` excepts it (`missed`).
* `unmount` (`network_mount.py:204`) passes the helper its mount point in the place of
  the source, and the helper refuses every such call (`mdmx-explorer-mount.sh:31-34`).
  `Explorer` has it so (`Argv`, `Accepts`).

**Bounds and why they suffice.** Two slots are all there are. Three releases give a
current, a pending and a newer one, with a different weakness each; a server needs two to
step back. `Pids = {p1, p2}` is
the owned wvkbd and one that may have been forgotten: a third could only exist after the
second was already a violation. `MaxEvents = 2` and `MaxWaiting = 2` allow an event
during a rescan and a callback that escaped `cancel()` next to its successor. Links and
configurations cover: VLAN with and without its parent, a VLAN of a VLAN, a gateway in the second key's
subnet, in none, not an address at all; a link that is not Ethernet; rejection before
the files, at the gateway, at the second file, at the servers. Two directories let a cut
leave one seeded, or copied without its data, and one absent. Two stacked mounts are enough
to tell the top from what it hides. Two panels of one model are enough for one to take
the other's output. `MaxDisturbances = 3` bounds failures, hot-plugs, session ends, locks,
toggles and reconfigurations before things settle: a lost update takes one of them,
a failed helper and the session after it two. Three processes are a fish left over from an
earlier session, one that crashes and its successor; two signals let one interrupt the
handler of the other. Two events in udevd let a removal wait while the next medium is
plugged; the longest wait in `Automount` is bounded only by that. Two contents per show
give a write between stat and parse, and one broken content an entry that must not be
kept. All other counters are finite by themselves.

**Fairness and why the code justifies it.** `Startup`: firmware, kernel, script and units run
by themselves and a dead machine is power-cycled by its operator; nothing is assumed of
RAUC or of the operator's menu choice. `Updater`: only the checker's own steps (a
systemd timer starts it again for ever); nothing of installer, server or reboots.
`OskManager`: each thread runs; strong fairness for the sections that need the lock,
because CPython's lock wakes some waiter and no section holds it without end.
`FirstBoot` alone: the script runs on. `Explorer`: the GUI thread runs unless a dialog waits
for the operator, and the runner's waits have time-outs; neither dialogs nor commands
need ever end. `Settings`: the programs run on; the operator finishes the wizard and the
lock dialogue, which `WizardConverges` needs and says. `FishMonitor`: loop and handler
run on, fish need never end and nobody need answer the prompt. `Automount`: udevd runs
the script for each event, systemd its jobs; nothing of the operator. `RecentShows`: the
GUI thread only. `settled`, `steady` and `reliable` say "from here on the environment keeps still";
no property assumes that it does, they are antecedents of leads-to formulas.

**Deadlock** is checked everywhere except in the run `osk`: that daemon ends after
SIGTERM.

**Assumptions on what is not in the repository.** RAUC marks the target slot before it
writes; `grub-editenv` refuses an unreadable block; a half-written slot does not boot;
a signal kills a wvkbd without handlers, and the 0.1 s the code sleeps after a spawn is
enough for the handlers; `sgdisk -n 4` fails if partition 4 exists; a bundle's content
does not change on disk by itself; writes of small files by `write_text` are not cut in
the middle by a power failure; `Popen.wait` holds a lock that `poll` does not wait for;
`QFileSystemWatcher` signals a write and, once, the replacement of a watched file; udevd
hands over the events of one device in order, one at a time; systemd stops a mount when
its device goes and refuses a unit that exists; libinput honours `AttrDeviceNameOverride`,
which `install-touch-quirks:49` writes (no recipe or patch of the repository brings a
libinput that does; `FastPathRoutesEachPanel`, `WizardConverges` and `FastPathIsRight` rest
on it); the touch screens that evdev lists to the wizard are the ones udev lists to the
check for unmapped panels; `/usr/bin/fish` is the only thing whose absence `Popen` reports
as `FileNotFoundError`, and what the fish monitor prints never fails.

## Proofs

TLAPS proves, for every value of the constants:

| module | theorem | argument |
|---|---|---|
| `BootProofs` | `TypeCorrect` | inductive as it stands |
| | `RechoiceIsLastResort` | strengthened by `ChoicesBooked`: while the block is readable, every slot chosen since it was cleared has its `TRY` at 1, so that a choice of it can only be `default=0` |
| | `ConfirmedBootRepeats` | `FirstSlotSpent`: between GRUB's pass and RAUC's next rewriting, the first slot of `ORDER` is tried, marked bad, or the running one |
| | `HalfWrittenIsLastResort` | `HalfIsMarked`: a half-written slot is marked bad, from RAUC's first mark on |
| | `NeverWithoutSoundSlot` | `RunsSound`: what has come up is sound, and RAUC writes only beside it |
| | `TrialsAreUsed` | of the slots the loop reached only the last can be eligible, and that one is selected |
| | `FirstBootTypeCorrect` | nothing is mounted that is not formatted |
| | `SavedFilesKept` | `SavedInv`: saved data lies behind a durable marker, is visible when mounted, and users write only after the marker is synced |
| | `ProvisionedOnce` | the same and `MarkedIsFormatted` |
| | `StartupIsBoth` | `StepOfBoth`: each step of Startup is a step or a stutter of BootSlots and of FirstBoot |
| | `StartupIsSafe` | the safety properties of the run `startup`, from `StartupIsBoth` and the theorems on either part |
| | `ConfirmedOnUserdata` | the desktop is up only after the script's end, and with the marker on disk (`SavedInv`) |
| `UpdaterProofs` | `TypeCorrect` | inductive, one step per action |
| | `MarkersAreEarned` | `ChosenFromList`: the candidate is listed and newer, and verified when the marker is written |
| | `NothingOlderInstalled` | for a server that moves `Forward`. `NothingNewer`: its timestamp is at least that of any build in use, and so was that of the manifest the check goes by; `MarkerLeads`: the marker is never behind what is shown, run or being installed |
| | `UpdaterKeepsPromise` | for any server and disk; step by step: `WritePending` is `Offer`, `ClearPending` is `Withdraw`, a wipe is `Lapse`, a download under a standing marker is `Refetch`. That the latter cannot happen when `Forward` and `Clean` hold is `StaleIsOvertaken`: a marker without its bundle is one that a newer release has overtaken |
| `OskManagerProofs` | `TypeCorrect` | split into flags, control and child; `WvkbdSteps` names the steps that touch the child |
| | `OnlyOwnedKeyboards` | with `ReapedFirst` and `SpawnsOverDead`: a spawn ends no child, but it happens under the lock, after a poll that found the child dead or after a reap |
| | `LostSignalsExcused` | `SendInv`: between ensure and send the child runs or an exit has been recorded |
| | `NoChangeForgotten` | `ChangeReaches`: a change of the keyboards is an event, a timer, a rescan with the present answer, or known; `HeardFirst`: nothing waits before the monitor runs |
| `NetworkCtrlProofs` | `TypeCorrect` | split into files, daemons and call |
| | `OneGateway` | see below |
| | `AcceptedConfigurationApplied` | see below |
| | `NoMixture` | `WritesItsOwn`: while a call writes, every file on disk is its own; removal keeps the files those of one call |
| `MediaProofs` | `AutomountTypeCorrect` | split into device, queue, script, mounts and history |
| | `LiveMediumKept` | `Timely`: unless a medium was plugged too early, the events in udevd and in the script are of the device path at hand, and a script that unmounts works on a medium that is gone |
| | `NothingLeftBehind` | `OneName`: the cache holds one name at most, that of the medium or of the script at work; `RemovalPending`: while it holds the name of a medium that is gone, the removal is still to come |
| | `NothingKeptOut` | `OnItsWay`: a plugged medium is mounted, has a job, or its add event is the first in udevd or in the script, with nothing cached and no unit |
| | `TypeCorrect` (Explorer) | `EffectOnTable`: what a command may do to the table |
| | `TabsMatch` | `Watched`: the tabs belong to the table read last, which is the present one when no change is pending and the read succeeded |
| `FishMonitorProofs` | `TypeCorrect` | as the first part of `Inv` |
| | `ShutdownTakesFish` | `Owned`: every process is a stray, just born, or main's child that has not been reaped; `HandlerKnows`: the handler writes its last status only after that child has ended |
| | `SweepSparesOwnFish` | `OwnIsNoStray`: main has a live child only from its assignment to the end of `wait`, never at the sweep |
| `RecentShowsProofs` | `TypeCorrect` | as the first part of `Inv` |
| | `CacheIsSound` | `ReadAfterStat`: the metadata of an entry are no older than the first content with its key and no newer than the file; no assumption on keys |
| | `CardsAreCurrent` | the same and `StatIsPast`: what `os.stat` said is not newer than the file; `KeysArePast` |
| | `NoChangeOfListLost` | `FollowInv`: without a pending signal, what is on the tab, at hand and still to do is the list, or the next reload has not read it yet |
| `SettingsProofs` | `TypeCorrect` | with `InHand`: who is about to save has a copy |
| | `NothingLostWithoutOverlap` | `Fresh`: a copy that is not stale equals the file |
| | `FastPathIsRight` | `Covered`: the quirks cover the saved map unless they lag, and a session that has not looked yet has read the present ones |

**The network controller.** One call writes its files in two loops and four single steps,
and may be left at each of them, so the invariant (`Inv` of NetworkCtrlProofs, checked by
TLC on the instance of `network` before it was proved) reads off `pc` and `todo` how far
the files have come: in the loop over the VLANs the `.netdev` files are those done so far,
in the loop over the keys each link has its own file or is still to do, in the loop over
the stubs the parents of what is done have theirs, and from the catch-all on all are
there. `Written` says of an answered call that the files are all of its configuration,
`Loading` and `Resolving` that each daemon runs what it read when it last started, unless
that start failed. `AcceptedIsApplied` follows from these and from who gets the gateway
(`GatewayOwner`), for every document: a listed VLAN that is
the parent of another one has the stub's file (`Overwritten`), and nothing else goes wrong
with it. `OneDefaultGateway` holds because a stub
has no gateway, and of the keys only the owner has one. That the owner is one key rests on
`FirstIn`, a well-founded argument: the set of positions has a least element.

**Safety halves of liveness properties.** Fairness cannot be used in a proof here, but
what such a property adds to fairness often can be stated without it: *when nothing is
left to do, the aim has been reached*. `NoChangeForgotten` is that half of
`FlagFollowsKeyboards`, `NoChangeOfListLost` of `TabFollowsList`, `NothingKeptOut` of
`MountsWhatIsPlugged`, `TabsMatch` of `TabsConverge`. TLC confirmed these invariants on
the instances of the runs before they were proved.

**What the theorems without a run's property add.** `NeverWithoutSoundSlot` stands
beside the fact that the fallback may land on the half-written slot: the other slot is
sound all that time, what is missing is that GRUB picks it. `ProvisionedOnce` stands
beside the finding of `firstboot_cut`: the cut that stops every later boot can only happen before
`.seeded` is on the media. `NoMixture` says of the states in the middle of a call, and
of those a crash leaves, what `AcceptedIsApplied` says of answered ones.

The proofs rest on the named assumptions of the modules about their constants. One names
more in its statement: `NothingOlderInstalled` assumes `Forward`, without which
`NeverInstallsOlder` is false (see Runs, publication). `USE` directives make the assumptions
visible; each action has its own step.

Only model-checked: the liveness properties (`EligibleSoundSlotComesUp`,
`OfferConverges`, `FlagFollowsKeyboards`, `TabsConverge`, `WizardConverges`,
`RestartsAfterCrash`, `ShutdownEnds`, `MountsWhatIsPlugged`, `TabFollowsList`), because
fairness and `ENABLED` are beyond the prover. Every invariant and every action property
of the passing runs is proved. What a recursive definition computes for every input would need
induction over data, which the prover cannot do either; no module here declares a
RECURSIVE operator, loops are actions over a sequence, and where a proof needs a first file
or a first key it takes the least element of a set of numbers
(`WellFoundedInduction`).

## Not modelled, and what comes next

Not modelled because there is no protocol to get wrong: document viewer, wallpaper,
launcher, themes, recipes, kernel configuration, CI, signing. Data that no property is
about is left out everywhere: versions' spelling, addresses, rendering, logging.
`README.md:58` calls slot B empty after flashing, while `mdmx-ab.wks.in` fills it; the
model follows the latter. The sysvinit branch of `mount.sh` (131-174) is left out, since the
image runs systemd; its list of ignored devices only drops events. The explorer's file
browser is Qt's own model in a view.

Planned, in this order:

1. `Automount` in the place of Explorer's external action of that name.
2. `Lifecycle`: publication, updater and `Startup` composed, with `UpdateOffer` joined
   to an abstract device that runs a release and moves to the one it was offered.
3. Proofs: the safety halves of `OfferConverges`, `WizardConverges` and
   `EligibleSoundSlotComesUp`.
