------------------------- MODULE RecentShowsProofs -------------------------
(***************************************************************************)
(* Proofs about module RecentShows, for any shows and any number of writes *)
(* to them: type correctness, that no entry of the cache is poisoned, that *)
(* no card is older than the look the reload took at its file, and that no *)
(* change of a watched list is lost.                                       *)
(***************************************************************************)
EXTENDS RecentShows, TLAPS

USE DEF Missing, Nothing, Contents, NoEntry, Caches, Empty

\* What is remembered of a show was read from it, after its key was taken.
ReadAfterStat(c) ==
  \A s \in Shows : c[s] # NoEntry => c[s].key <= c[s].meta /\ c[s].meta <= version[s]

\* The key at hand is one that the file at hand has had.
StatIsPast == pc = "extract" => st \in Contents /\ st <= version[at]

\* A key is not younger than the content that has it.
KeysArePast == \A s \in Shows : key[s] <= version[s]

\* A file that is there has been written.
WrittenOnce == \A s \in there : version[s] >= 1 /\ key[s] >= 1

Inv == TypeOK /\ ReadAfterStat(data) /\ ReadAfterStat(saved) /\ StatIsPast /\ WrittenOnce
       /\ KeysArePast

\* Entries stay what they are while files are written.
LEMMA EntriesAge ==
  ASSUME NEW c \in Caches, ReadAfterStat(c), version \in [Shows -> 0 .. MaxWrites],
         version' \in [Shows -> 0 .. MaxWrites],
         \A s \in Shows : version[s] <= version'[s]
  PROVE  \A s \in Shows : c[s] # NoEntry => c[s].key <= c[s].meta /\ c[s].meta <= version'[s]
<1> SUFFICES ASSUME NEW s \in Shows, c[s] # NoEntry
             PROVE  c[s].key <= c[s].meta /\ c[s].meta <= version'[s]
  OBVIOUS
<1>1. c[s] \in [key : Contents, meta : Contents]
  OBVIOUS
<1>2. c[s].key <= c[s].meta /\ c[s].meta <= version[s] /\ version[s] <= version'[s]
  BY DEF ReadAfterStat
<1>3. c[s].meta \in Int /\ version[s] \in Int /\ version'[s] \in Int
  BY <1>1, MaxWritesAssumption
<1> QED BY <1>2, <1>3

LEMMA InvInit == Init => Inv
<1> SUFFICES ASSUME Init PROVE Inv
  OBVIOUS
<1>1. TypeOK
  <2>1. data \in Caches /\ saved \in Caches
    BY DEF Init
  <2>2. version \in [Shows -> 0 .. MaxWrites]
    BY MaxWritesAssumption DEF Init
  <2> QED BY <2>1, <2>2, NoShowAssumption DEF Init, TypeOK
<1>2. ReadAfterStat(data) /\ ReadAfterStat(saved) /\ StatIsPast /\ WrittenOnce /\ KeysArePast
  BY DEF Init, ReadAfterStat, StatIsPast, WrittenOnce, KeysArePast
<1> QED BY <1>1, <1>2 DEF Inv

LEMMA InvStep == Inv /\ [Next]_vars => Inv'
<1> SUFFICES ASSUME Inv, [Next]_vars PROVE Inv'
  OBVIOUS
<1> USE MaxWritesAssumption, NoShowAssumption
<1> USE DEF Inv, TypeOK, StatIsPast, WrittenOnce, KeysArePast, listFile, files, watcher, cache, gui
<1>1. CASE Open
  BY <1>1 DEF Open, ReadAfterStat
<1>2. CASE OnFileChanged
  BY <1>2 DEF OnFileChanged, ReadAfterStat
<1>3. CASE ReadList
  BY <1>3 DEF ReadList, ReadAfterStat
<1>4. CASE NextLine
  BY <1>4 DEF NextLine, ReadAfterStat
<1>5. CASE StatFile
  <2>1. at \in Shows /\ st' = key[at] /\ UNCHANGED <<data, saved, there, version, key>>
    BY <1>5 DEF StatFile
  <2>2. rows' \in [Shows -> 0 .. MaxWrites \cup {Nothing}]
    <3>1. CASE at \notin there
      BY <1>5, <3>1 DEF StatFile, Put
    <3>2. CASE at \in there /\ data[at].key = st'
      <4>1. key[at] >= 1
        BY <3>2
      <4>2. data[at] # NoEntry
        BY <2>1, <3>2, <4>1
      <4>3. data[at].meta \in Contents
        BY <2>1, <4>2
      <4> QED BY <1>5, <2>1, <3>2, <4>3 DEF StatFile, Put
    <3>3. CASE at \in there /\ data[at].key # st'
      BY <1>5, <2>1, <3>3 DEF StatFile
    <3> QED BY <3>1, <3>2, <3>3
  <2>3. (pc' = "line" /\ at' = NoShow) \/ (pc' = "extract" /\ at' = at /\ at \in there)
    BY <1>5 DEF StatFile, Put
  <2>4. st' \in 0 .. MaxWrites /\ st' <= version[at] /\ (at \in there => st' \in Contents)
    BY <2>1
  <2>5. TypeOK'
    BY <1>5, <2>1, <2>2, <2>3, <2>4 DEF StatFile
  <2> QED BY <2>1, <2>3, <2>4, <2>5 DEF ReadAfterStat
<1>6. CASE Extract
  <2>1. at \in Shows /\ pc' = "line" /\ at' = NoShow /\ UNCHANGED <<there, version, key, st>>
    BY <1>6 DEF Extract, Put
  <2>2. CASE ~Readable
    BY <1>6, <2>1, <2>2 DEF Extract, Put, ReadAfterStat
  <2>3. CASE Readable
    <3> DEFINE entry == [key |-> st, meta |-> version[at]]
    <3>1. version[at] \in Contents /\ st \in Contents /\ st <= version[at]
      BY <1>6, <2>1, <2>3 DEF Extract, Readable
    <3>2. entry \in [key : Contents, meta : Contents] /\ entry.key <= entry.meta
          /\ entry.meta <= version[at]
      BY <3>1
    <3> HIDE DEF entry
    <3>3. data' = [data EXCEPT ![at] = entry] /\ saved' \in {data', saved}
      BY <1>6, <2>3 DEF Extract, Remember, entry
    <3>4. data' \in Caches /\ saved' \in Caches
      BY <2>1, <3>2, <3>3
    <3>5. ReadAfterStat(data)' /\ ReadAfterStat(saved)'
      BY <2>1, <3>2, <3>3 DEF ReadAfterStat
    <3>6. rows' \in [Shows -> 0 .. MaxWrites \cup {Nothing}]
      BY <1>6, <2>1, <2>3, <3>1 DEF Extract, Put
    <3> QED BY <1>6, <2>1, <3>4, <3>5, <3>6 DEF Extract
  <2> QED BY <2>2, <2>3
<1>7. CASE Close
  BY <1>7 DEF Close, ReadAfterStat
<1>8. CASE Truncate \/ Fill \/ ReplaceList
  BY <1>8 DEF Truncate, Fill, ReplaceList, Announce, ReadAfterStat
<1>9. CASE WriteShow
  <2>1. PICK s \in Shows : /\ version[s] < MaxWrites
                           /\ version' = [version EXCEPT ![s] = @ + 1]
                           /\ \E k \in 1 .. version[s] + 1 : key' = [key EXCEPT ![s] = k]
                           /\ there' = there \cup {s}
    BY <1>9 DEF WriteShow
  <2>10. PICK k \in 1 .. version[s] + 1 : key' = [key EXCEPT ![s] = k]
    BY <2>1
  <2>11. key' \in [Shows -> 0 .. MaxWrites] /\ k >= 1 /\ k <= version[s] + 1
    BY <2>1, <2>10
  <2>2. version' \in [Shows -> 0 .. MaxWrites]
    BY <2>1
  <2>3. \A t \in Shows : version[t] <= version'[t]
    BY <2>1
  <2>4. UNCHANGED <<data, saved, pc, st, at>>
    BY <1>9 DEF WriteShow
  <2>5. ReadAfterStat(data)' /\ ReadAfterStat(saved)'
    BY <2>2, <2>3, <2>4, EntriesAge DEF ReadAfterStat
  <2>6. TypeOK'
    BY <1>9, <2>1, <2>2, <2>11 DEF WriteShow
  <2>7. StatIsPast'
    BY <2>2, <2>3, <2>4
  <2>8. WrittenOnce'
    BY <2>1, <2>2, <2>3, <2>10, <2>11
  <2>9. KeysArePast'
    BY <2>1, <2>2, <2>3, <2>10, <2>11
  <2> QED BY <2>5, <2>6, <2>7, <2>8, <2>9
<1>10. CASE DeleteShow
  BY <1>10 DEF DeleteShow, ReadAfterStat
<1>11. CASE Settle
  BY <1>11 DEF Settle, ReadAfterStat
<1>12. CASE UNCHANGED vars
  BY <1>12 DEF vars, ReadAfterStat
<1> QED
  BY <1>1, <1>2, <1>3, <1>4, <1>5, <1>6, <1>7, <1>8, <1>9, <1>10, <1>11, <1>12
  DEF Next, GuiStep

LEMMA Invariance == Spec => []Inv
<1> QED BY InvInit, InvStep, PTL DEF Spec

----------------------------------------------------------------------------
(* Every reachable state of the tab and its cache is of its type, for any
   shows and any bound.                                                    *)
THEOREM TypeCorrect == Spec => []TypeOK
<1>1. Inv => TypeOK
  BY DEF Inv
<1> QED BY Invariance, <1>1, PTL

(* No entry whose key is the file's present one holds anything but the file's
   present content, in memory or on disk, if the last write gave the file that
   key.                                                                    *)
THEOREM CacheIsSound == Spec => []CacheNotPoisoned
<1>1. Inv => CacheNotPoisoned
  <2> SUFFICES ASSUME Inv, NEW c \in {data, saved}, NEW s \in Shows,
                      Current(c, s), key[s] = version[s]
               PROVE  c[s].meta = version[s]
    BY DEF CacheNotPoisoned
  <2> USE DEF Current
  <2>1. c[s].key <= c[s].meta /\ c[s].meta <= version[s]
    BY DEF Inv, ReadAfterStat
  <2>2. c[s].meta \in Int /\ version[s] \in Int
    BY MaxWritesAssumption DEF Inv, TypeOK
  <2> QED BY <2>1, <2>2
<1> QED BY Invariance, <1>1, PTL

(* What a reload puts on a card is at least as new as the key that its look
   found at the file, whether or not the content was read in this reload.  *)
THEOREM CardsAreCurrent == Spec => CardsAreNotStale
<1> DEFINE NotStale == \A s \in Shows : rows'[s] # rows[s] /\ rows'[s] \in Contents
                                          => rows'[s] >= st'
<1>1. Inv /\ [Next]_vars => [NotStale]_vars
  <2> SUFFICES ASSUME Inv, [Next]_vars, NEW s \in Shows,
                      rows'[s] # rows[s], rows'[s] \in Contents
               PROVE  rows'[s] >= st'
    OBVIOUS
  <2>1. CASE StatFile
    <3>1. at \in Shows /\ st' = key[at] /\ rows \in [Shows -> 0 .. MaxWrites \cup {Nothing}]
      BY <2>1 DEF StatFile, Inv, TypeOK
    <3>2. s = at /\ at \in there /\ data[at].key = st' /\ rows'[s] = data[at].meta
      BY <2>1, <3>1 DEF StatFile, Put
    <3>3. data[at] # NoEntry
      BY <3>1, <3>2, MaxWritesAssumption DEF Inv, TypeOK, WrittenOnce
    <3>4. data[at].key <= data[at].meta
      BY <3>1, <3>3 DEF Inv, ReadAfterStat
    <3> QED BY <3>1, <3>2, <3>4, MaxWritesAssumption DEF Inv, TypeOK
  <2>2. CASE Extract
    <3>1. at \in Shows /\ UNCHANGED st /\ rows \in [Shows -> 0 .. MaxWrites \cup {Nothing}]
      BY <2>2 DEF Extract, Inv, TypeOK
    <3>2. s = at /\ rows'[s] = version[at]
      BY <2>2, <3>1 DEF Extract, Put
    <3> QED BY <2>2, <3>1, <3>2, MaxWritesAssumption DEF Extract, Inv, TypeOK, StatIsPast
  <2>3. CASE ReadList \/ Close
    BY <2>3 DEF ReadList, Close
  <2>4. StatFile \/ Extract \/ ReadList \/ Close
    BY DEF Next, GuiStep, Open, OnFileChanged, NextLine, Truncate, Fill, ReplaceList,
           WriteShow, DeleteShow, Settle, gui, vars
  <2> QED BY <2>1, <2>2, <2>3, <2>4
<1> QED BY Invariance, <1>1, PTL DEF Spec, CardsAreNotStale

----------------------------------------------------------------------------
\* A watched list and the reload: before the next reload has read it, or once a
\* line for each of its paths is on the tab, at hand or still to do.
AtHand == {at} \ {NoShow}
FollowInv ==
  /\ pc = "closed" => ~watched
  /\ pc \in {"closed", "open", "idle", "reload"} => todo = {}
  /\ watched /\ ~fileChanged /\ ~writing =>
       pc \in {"open", "reload"} \/ Shown \cup todo \cup AtHand = list

(* Whenever the GUI thread is idle, the watcher has the list, no signal of it
   is pending and nobody is writing it, the tab shows the paths that are in
   it, whatever reads and writes overlapped before.                        *)
TabIsTheList ==
  pc = "idle" /\ watched /\ ~fileChanged /\ ~writing => Shown = list

THEOREM NoChangeOfListLost == Spec => []TabIsTheList
<1> USE DEF FollowInv, AtHand
<1>1. Init => FollowInv
  BY DEF Init
<1>2. ASSUME Inv, FollowInv, [Next]_vars PROVE FollowInv'
  <2>1. TypeOK /\ FollowInv
    BY <1>2 DEF Inv
  <2> USE <2>1, NoShowAssumption DEF TypeOK, listFile, files, watcher, cache, gui
  <2>2. CASE Open
    BY <2>2 DEF Open
  <2>3. CASE OnFileChanged
    BY <2>3 DEF OnFileChanged
  <2>4. CASE ReadList
    <3>1. rows' = [s \in Shows |-> Nothing]
      BY <2>4 DEF ReadList
    <3>2. Shown' = {}
      BY <3>1 DEF Shown
    <3>3. at = NoShow
      BY <2>4 DEF ReadList
    <3> QED BY <2>4, <3>2, <3>3 DEF ReadList
  <2>5. CASE NextLine
    BY <2>5 DEF NextLine, Shown
  <2>6. ASSUME NEW meta \in 0 .. MaxWrites, at \in Shows, Put(meta)
        PROVE  Shown' \cup AtHand' = Shown \cup AtHand
    <3>1. rows' = [rows EXCEPT ![at] = meta] /\ meta # Nothing /\ at' = NoShow
      BY <2>6, MaxWritesAssumption DEF Put
    <3> QED BY <2>6, <3>1 DEF Shown
  <2>7. CASE StatFile \/ Extract
    <3>1. at \in Shows /\ UNCHANGED <<list, writing, watched, fileChanged, todo>>
      BY <2>7 DEF StatFile, Extract
    <3>2. \/ pc' = "extract" /\ UNCHANGED <<rows, at>>
          \/ pc' = "line" /\ \E meta \in 0 .. MaxWrites : Put(meta)
      <4>1. CASE StatFile
        <5>1. CASE at \notin there
          BY <4>1, <5>1, MaxWritesAssumption DEF StatFile, Put
        <5>2. CASE at \in there /\ data[at].key = st'
          <6>1. key[at] >= 1 /\ st' = key[at]
            BY <1>2, <4>1, <5>2 DEF StatFile, Inv, WrittenOnce
          <6>2. data[at] # NoEntry
            BY <3>1, <5>2, <6>1
          <6>3. data[at].meta \in 0 .. MaxWrites
            BY <3>1, <6>2, MaxWritesAssumption
          <6> QED BY <4>1, <5>2, <6>3 DEF StatFile, Put
        <5>3. CASE at \in there /\ data[at].key # st'
          BY <4>1, <5>3 DEF StatFile
        <5> QED BY <5>1, <5>2, <5>3
      <4>2. CASE Extract
        <5>1. version[at] \in 0 .. MaxWrites /\ Missing \in 0 .. MaxWrites
          BY <3>1, MaxWritesAssumption
        <5> QED BY <4>2, <5>1 DEF Extract, Put
      <4> QED BY <2>7, <4>1, <4>2
    <3>3. CASE pc' = "extract" /\ UNCHANGED <<rows, at>>
      BY <2>7, <3>1, <3>3 DEF Shown, StatFile, Extract
    <3>4. CASE pc' = "line" /\ \E meta \in 0 .. MaxWrites : Put(meta)
      <4>1. Shown' \cup AtHand' = Shown \cup AtHand
        BY <2>6, <3>1, <3>4
      <4>2. pc \notin {"open", "reload"}
        BY <2>7 DEF StatFile, Extract
      <4> QED BY <3>1, <3>4, <4>1, <4>2
    <3> QED BY <3>2, <3>3, <3>4
  <2>8. CASE Close
    BY <2>8 DEF Close
  <2>9. CASE Truncate \/ Fill \/ ReplaceList
    BY <2>9 DEF Truncate, Fill, ReplaceList, Announce
  <2>10. CASE WriteShow \/ DeleteShow \/ Settle
    BY <2>10 DEF WriteShow, DeleteShow, Settle, Shown
  <2>11. CASE UNCHANGED vars
    BY <2>11 DEF vars, Shown
  <2> QED
    BY <1>2, <2>2, <2>3, <2>4, <2>5, <2>7, <2>8, <2>9, <2>10, <2>11 DEF Next, GuiStep
<1>3. Inv /\ FollowInv => TabIsTheList
  BY DEF Inv, TypeOK, TabIsTheList
<1> QED
  BY <1>1, <1>2, <1>3, Invariance, PTL DEF Spec
=============================================================================
