---------------------------- MODULE RecentShows ----------------------------
(***************************************************************************)
(* The explorer's tab of recent shows: the list that the console keeps in  *)
(* a file, the watcher on that file, the reload in the GUI thread, and the *)
(* cache of what was read from each show file, kept on disk.               *)
(*                                                                         *)
(* Writers of the list and of the shows run beside the GUI thread, without *)
(* a lock.  The n-th content of a show is the number n.  A key stands for  *)
(* (inode, mtime, size); its number is at most that of the first content   *)
(* that had it.  A write in place, or one that sets the time back, may     *)
(* leave the file with a key it has had before.                            *)
(* Of Qt the model has what the tab relies on: a watched file that is      *)
(* written raises fileChanged, and so does one that is replaced by another *)
(* file, once, after which nothing is watched any more.                    *)
(***************************************************************************)
EXTENDS Integers

CONSTANTS
  Shows,          \* paths of show files
  NoShow,
  Broken,         \* <<s, n>>: the n-th content of s is no show file
  MaxWrites       \* bound: contents of one show

ASSUME NoShowAssumption == NoShow \notin Shows
ASSUME BrokenAssumption == Broken \subseteq Shows \X (1 .. MaxWrites)
ASSUME MaxWritesAssumption == MaxWrites \in Nat \ {0}

Missing == 0                                \* no such file; None as metadata
Nothing == -1                               \* no row, no entry
Contents == 1 .. MaxWrites
NoEntry == [key |-> Nothing, meta |-> Nothing]
Caches == [Shows -> [key : Contents, meta : Contents] \cup {NoEntry}]
Empty == [s \in Shows |-> NoEntry]

VARIABLES
  exists, list,   \* recently_used.list and the paths in it
  writing,        \* is it being rewritten in place?
  there, version, \* the show files, and the content last written to each
  key,            \* what os.stat tells of that content
  watched,        \* does the watcher have the list?
  fileChanged,    \* its signal, not yet delivered
  data, saved,    \* MetadataCache._data, and the file it is saved in
  pc, todo, at,   \* the GUI thread in reload: lines left, the one at hand
  st,             \* what os.stat said of it
  rows,           \* the entries of the model: metadata for each path
  settled         \* the writers have come to rest

listFile == <<exists, list, writing>>
files == <<there, version, key>>
watcher == <<watched, fileChanged>>
cache == <<data, saved>>
gui == <<pc, todo, at, st, rows>>
vars == <<listFile, files, watcher, cache, gui, settled>>

Shown == {s \in Shows : rows[s] # Nothing}

Init ==
  /\ exists = FALSE /\ list = {} /\ writing = FALSE
  /\ there = {} /\ version = [s \in Shows |-> 0] /\ key = version
  /\ watched = FALSE /\ fileChanged = FALSE
  /\ data = Empty /\ saved = Empty
  /\ pc = "closed" /\ todo = {} /\ at = NoShow /\ st = Nothing
  /\ rows = [s \in Shows |-> Nothing]
  /\ settled = FALSE

----------------------------------------------------------------------------
(* The tab.                                                                *)

\* _load passes over a file it cannot read, RecentShowsTab looks for the list.
Open ==
  /\ pc = "closed"
  /\ data' \in {saved, Empty}
  /\ watched' = exists /\ fileChanged' = FALSE
  /\ pc' = "open"
  /\ UNCHANGED <<listFile, files, saved, todo, at, st, rows, settled>>

OnFileChanged ==
  /\ pc = "idle" /\ fileChanged
  /\ fileChanged' = FALSE
  /\ pc' = "reload"
  /\ UNCHANGED <<listFile, files, watched, cache, todo, at, st, rows, settled>>

\* A list caught while it is written may end anywhere.  If that is inside a
\* character, nobody catches the exception: it ends the slot, or the explorer
\* if that is still being opened.
ReadList ==
  /\ pc \in {"open", "reload"}
  /\ rows' = [s \in Shows |-> Nothing]
  /\ \/ /\ todo' \in {list} \cup (IF writing THEN SUBSET Shows ELSE {})
        /\ pc' = "line" /\ UNCHANGED watcher
     \/ writing /\ pc = "reload" /\ pc' = "idle" /\ UNCHANGED <<todo, watcher>>
     \/ /\ writing /\ pc = "open" /\ pc' = "closed"
        /\ watched' = FALSE /\ fileChanged' = FALSE /\ UNCHANGED todo
  /\ UNCHANGED <<listFile, files, cache, at, st, settled>>

NextLine_ClearsSignal ==                    \* mutant: one reload for all signals so far
  /\ pc = "line"
  /\ IF todo = {}
       THEN pc' = "idle" /\ at' = NoShow /\ fileChanged' = FALSE /\ UNCHANGED todo
       ELSE pc' = "get" /\ at' \in todo /\ todo' = todo \ {at'} /\ UNCHANGED fileChanged
  /\ st' = Nothing
  /\ UNCHANGED <<listFile, files, watched, cache, rows, settled>>

NextLine ==
  /\ pc = "line"
  /\ IF todo = {}
       THEN pc' = "idle" /\ at' = NoShow /\ UNCHANGED todo
       ELSE pc' = "get" /\ at' \in todo /\ todo' = todo \ {at'}
  /\ st' = Nothing
  /\ UNCHANGED <<listFile, files, watcher, cache, rows, settled>>

Put(meta) ==
  /\ rows' = [rows EXCEPT ![at] = meta]
  /\ pc' = "line" /\ at' = NoShow

StatFile_AnyEntry ==                        \* mutant: does not compare the key
  /\ pc = "get"
  /\ st' = key[at]
  /\ \/ at \notin there /\ Put(Missing)
     \/ at \in there /\ data[at] # NoEntry /\ Put(data[at].meta)
     \/ at \in there /\ data[at] = NoEntry /\ pc' = "extract" /\ UNCHANGED <<rows, at>>
  /\ UNCHANGED <<listFile, files, watcher, cache, todo, settled>>

StatFile ==
  /\ pc = "get"
  /\ st' = key[at]
  /\ \/ at \notin there /\ Put(Missing)
     \/ at \in there /\ data[at].key = st' /\ Put(data[at].meta)
     \/ at \in there /\ data[at].key # st' /\ pc' = "extract" /\ UNCHANGED <<rows, at>>
  /\ UNCHANGED <<listFile, files, watcher, cache, todo, settled>>

Readable == at \in there /\ <<at, version[at]>> \notin Broken

Remember(k, meta) ==                        \* a failing save is passed over
  /\ data' = [data EXCEPT ![at] = [key |-> k, meta |-> meta]]
  /\ saved' \in {data', saved}

Extract_ThenStat ==                         \* mutant: os.stat after the parse
  /\ \/ /\ pc = "extract" /\ Readable
        /\ rows' = [rows EXCEPT ![at] = version[at]]
        /\ pc' = "stat" /\ UNCHANGED <<at, cache>>
     \/ pc = "extract" /\ ~Readable /\ Put(Missing) /\ UNCHANGED cache
     \/ pc = "stat" /\ Put(rows[at]) /\ Remember(key[at], rows[at])
  /\ UNCHANGED <<listFile, files, watcher, todo, st, settled>>

Extract_KeepsFailures ==                    \* mutant: caches None
  /\ pc = "extract"
  /\ LET meta == IF Readable THEN version[at] ELSE Missing
     IN Put(meta) /\ Remember(st, meta)
  /\ UNCHANGED <<listFile, files, watcher, todo, st, settled>>

\* The entry is kept under the key of the stat before.
Extract ==
  /\ pc = "extract"
  /\ IF Readable THEN Put(version[at]) /\ Remember(st, version[at])
                 ELSE Put(Missing) /\ UNCHANGED cache
  /\ UNCHANGED <<listFile, files, watcher, todo, st, settled>>

Close ==
  /\ pc = "idle"
  /\ pc' = "closed" /\ watched' = FALSE /\ fileChanged' = FALSE
  /\ rows' = [s \in Shows |-> Nothing]
  /\ UNCHANGED <<listFile, files, cache, todo, at, st, settled>>

----------------------------------------------------------------------------
(* The console, and whoever else writes shows.                             *)

Announce(stillWatched) ==
  /\ fileChanged' = (fileChanged \/ watched)
  /\ watched' = (watched /\ stillWatched)

Truncate ==
  /\ ~settled /\ exists /\ ~writing
  /\ writing' = TRUE /\ list' = {} /\ Announce(TRUE)
  /\ UNCHANGED <<exists, files, cache, gui, settled>>

Fill ==
  /\ writing
  /\ writing' = FALSE /\ list' \in SUBSET Shows /\ Announce(TRUE)
  /\ UNCHANGED <<exists, files, cache, gui, settled>>

\* A new file takes the name, also the first one.
ReplaceList ==
  /\ ~settled /\ ~writing
  /\ exists' = TRUE /\ list' \in SUBSET Shows /\ Announce(FALSE)
  /\ UNCHANGED <<writing, files, cache, gui, settled>>

WriteShow ==
  /\ ~settled
  /\ \E s \in Shows :
       /\ version[s] < MaxWrites
       /\ version' = [version EXCEPT ![s] = @ + 1]
       /\ \E k \in 1 .. version[s] + 1 : key' = [key EXCEPT ![s] = k]
       /\ there' = there \cup {s}
  /\ UNCHANGED <<listFile, watcher, cache, gui, settled>>

DeleteShow ==
  /\ ~settled
  /\ \E s \in there : there' = there \ {s}
  /\ UNCHANGED <<listFile, version, key, watcher, cache, gui, settled>>

Settle ==
  /\ ~settled /\ ~writing
  /\ settled' = TRUE
  /\ UNCHANGED <<listFile, files, watcher, cache, gui>>

GuiStep == Open \/ OnFileChanged \/ ReadList \/ NextLine \/ StatFile \/ Extract

Next == \/ GuiStep \/ Close
        \/ Truncate \/ Fill \/ ReplaceList \/ WriteShow \/ DeleteShow
        \/ Settle

Spec == Init /\ [][Next]_vars

\* The GUI thread runs on.  Nobody need write, close or come to rest.
FairSpec == Spec /\ WF_vars(GuiStep)

----------------------------------------------------------------------------
TypeOK ==
  /\ exists \in BOOLEAN /\ list \subseteq Shows /\ writing \in BOOLEAN
  /\ there \subseteq Shows /\ version \in [Shows -> 0 .. MaxWrites]
  /\ key \in [Shows -> 0 .. MaxWrites]
  /\ watched \in BOOLEAN /\ fileChanged \in BOOLEAN
  /\ data \in Caches /\ saved \in Caches
  /\ pc \in {"closed", "open", "idle", "reload", "line", "get", "extract"}
  /\ todo \subseteq Shows /\ at \in Shows \cup {NoShow} /\ st \in 0 .. MaxWrites \cup {Nothing}
  /\ rows \in [Shows -> 0 .. MaxWrites \cup {Nothing}]
  /\ settled \in BOOLEAN
  /\ pc \in {"get", "extract"} <=> at # NoShow

\* An entry that the next look would take for current.
Current(c, s) == c[s] # NoEntry /\ c[s].key = key[s]

(* A look at a file whose last write gave it a key of its own finds no entry,
   or one with the file's content: neither a show written between os.stat and
   the parse, nor a cache left by an earlier explorer, nor keys that came back
   in between, poison the cache for it (show_metadata.py:69-88).           *)
CacheNotPoisoned ==
  \A c \in {data, saved} : \A s \in Shows :
    Current(c, s) /\ key[s] = version[s] => c[s].meta = version[s]

(* "st_ino is included so rsync --inplace and editors that O_TRUNC+write
   without touching mtime can't poison the cache" (show_metadata.py:44-46).  A
   write in place keeps the inode.                                         *)
InPlaceCannotPoison ==
  \A s \in Shows : Current(data, s) => data[s].meta = version[s]

(* A card never shows what a file held before it first had the key that this
   reload's look finds, be it from a cache that is years old: if every write
   changes the key, nothing older than the look (recent_shows_tab.py:54-58).
   What is written without changing the key is not seen, see above.        *)
CardsAreNotStale ==
  [][\A s \in Shows : rows'[s] # rows[s] /\ rows'[s] \in Contents
       => rows'[s] >= st']_vars

(* While the watcher has the list, the tab ends up with what is in it, however
   reads and writes of it overlap (recent_shows_tab.py:144-147).           *)
TabFollowsList ==
  settled /\ watched ~> Shown = list \/ pc = "closed"
=============================================================================
