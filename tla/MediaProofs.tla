---------------------------- MODULE MediaProofs ----------------------------
(***************************************************************************)
(* What the handling of removable media promises: Automount for every set  *)
(* of media, labels and device paths; Explorer for every set of sticks,    *)
(* partitions and shares.                                                  *)
(***************************************************************************)
EXTENDS Explorer, Automount, FiniteSetTheorems, TLAPS

----------------------------------------------------------------------------
(* Automount.                                                              *)

\* Every variable keeps its type; what is mounted has its directory.
THEOREM AutomountTypeCorrect == AutomountSpec => []AutomountTypeOK
<1>1. AutomountInit => AutomountTypeOK
  <2>1. <<>> \in Seq(Events) /\ Len(<<>>) = 0 /\ Plain \in Names
    BY DEF Names
  <2>2. AutomountInit => QueueTypes /\ ScriptTypes
    BY <2>1, MaxEventsAssumption DEF AutomountInit, QueueTypes, ScriptTypes
  <2>3. AutomountInit => DeviceTypes /\ MountTypes /\ HistoryTypes
    BY DEF AutomountInit, DeviceTypes, MountTypes, HistoryTypes
  <2> QED BY <2>2, <2>3 DEF AutomountTypeOK
<1>2. ASSUME AutomountTypeOK, [AutomountNext]_automountVars PROVE DeviceTypes'
  <2> USE DEF DeviceTypes
  <2>1. DeviceTypes
    BY <1>2 DEF AutomountTypeOK
  <2>2. CASE Plug
    BY <2>2, MediaAssumption DEF Plug
  <2>3. CASE Unplug
    BY <2>3 DEF Unplug
  <2>4. CASE UNCHANGED device
    BY <2>1, <2>4 DEF device
  <2> QED
    BY <1>2, <2>2, <2>3, <2>4
    DEF AutomountNext, ScriptStep, automountVars, Retrigger, Start, CheckUnit,
        GetLabelName, CheckCache, MakeDir,
        Mount, WriteCache, RemoveTest, Umount, RemoveDir, RemoveCache, JobMounts, JobFails,
        SystemdUmounts
<1>3. ASSUME AutomountTypeOK, [AutomountNext]_automountVars PROVE QueueTypes'
  <2>1. DeviceTypes /\ QueueTypes
    BY <1>3 DEF AutomountTypeOK
  <2>2. ASSUME NEW act \in {"add", "change", "remove"}, NEW at \in SysPaths, Emit(act, at)
        PROVE  QueueTypes'
    <3>1. [act |-> act, at |-> at] \in Events
      BY DEF Events
    <3> DEFINE e == [act |-> act, at |-> at]
    <3> HIDE DEF e
    <3>2. Append(queue, e) \in Seq(Events) /\ Len(Append(queue, e)) = Len(queue) + 1
      BY <2>1, <3>1 DEF QueueTypes, e
    <3>3. queue' = Append(queue, e) /\ Len(queue) < MaxEvents /\ Len(queue) \in Nat
      BY <2>1, <2>2 DEF Emit, QueueTypes, e
    <3> QED BY <3>2, <3>3, MaxEventsAssumption DEF QueueTypes
  <2>3. CASE Plug \/ Unplug \/ Retrigger
    BY <2>1, <2>2, <2>3 DEF Plug, Unplug, Retrigger, DeviceTypes
  <2>4. CASE Start
    <3>1. queue # <<>> /\ queue' = Tail(queue)
      BY <2>4 DEF Start
    <3>2. Tail(queue) \in Seq(Events) /\ Len(Tail(queue)) = Len(queue) - 1
      BY <2>1, <3>1 DEF QueueTypes
    <3>3. Len(queue) \in Nat
      BY <2>1 DEF QueueTypes
    <3> QED BY <2>1, <3>1, <3>2, <3>3, MaxEventsAssumption DEF QueueTypes
  <2>5. CASE UNCHANGED queue
    BY <2>1, <2>5 DEF QueueTypes
  <2> QED
    BY <1>3, <2>3, <2>4, <2>5
    DEF AutomountNext, ScriptStep, automountVars, CheckUnit, GetLabelName, CheckCache,
        MakeDir, Mount, WriteCache,
        RemoveTest, Umount, RemoveDir, RemoveCache, JobMounts, JobFails, SystemdUmounts
<1>4. ASSUME AutomountTypeOK, [AutomountNext]_automountVars PROVE ScriptTypes'
  <2> USE DEF ScriptTypes, Go, Done, script, files
  <2>1. DeviceTypes /\ QueueTypes /\ ScriptTypes
    BY <1>4 DEF AutomountTypeOK
  <2>2. CASE Start
    <3>1. Head(queue) \in Events /\ Plain \in Names
      BY <2>1, <2>2 DEF Start, QueueTypes, Names
    <3> QED BY <2>1, <2>2, <3>1 DEF Start
  <2>3. CASE CheckUnit \/ CheckCache
    BY <2>1, <2>3 DEF CheckUnit, CheckCache
  <2>4. CASE GetLabelName
    BY <2>1, <2>4 DEF GetLabelName, DeviceTypes, Names
  <2>5. CASE MakeDir \/ Mount \/ WriteCache
    BY <2>1, <2>5 DEF MakeDir, Mount, WriteCache
  <2>6. CASE RemoveTest \/ Umount \/ RemoveDir \/ RemoveCache
    BY <2>1, <2>6 DEF RemoveTest, Umount, RemoveDir, RemoveCache
  <2>7. CASE UNCHANGED <<script, caches>>
    BY <2>1, <2>7
  <2> QED
    BY <1>4, <2>2, <2>3, <2>4, <2>5, <2>6, <2>7
    DEF AutomountNext, ScriptStep, automountVars, Plug, Unplug, Retrigger, JobMounts,
        JobFails, SystemdUmounts
<1>5. ASSUME AutomountTypeOK, [AutomountNext]_automountVars PROVE MountTypes'
  <2> USE DEF MountTypes, files, units, RmDir
  <2>1. DeviceTypes /\ ScriptTypes /\ MountTypes
    BY <1>5 DEF AutomountTypeOK
  <2>2. CASE Unplug
    BY <2>1, <2>2, MediaAssumption DEF Unplug
  <2>3. CASE MakeDir
    BY <2>1, <2>3 DEF MakeDir, ScriptTypes
  <2>4. CASE Mount
    BY <2>1, <2>4 DEF Mount, ScriptTypes
  <2>5. CASE Umount
    BY <2>1, <2>5 DEF Umount
  <2>6. CASE RemoveDir
    BY <2>1, <2>6 DEF RemoveDir, ScriptTypes
  <2>7. CASE JobMounts
    BY <2>1, <2>7 DEF JobMounts, DeviceTypes
  <2>8. CASE JobFails
    BY <2>1, <2>8 DEF JobFails
  <2>9. CASE SystemdUmounts
    BY <2>1, <2>9 DEF SystemdUmounts
  <2>10. CASE UNCHANGED <<dirs, units>>
    BY <2>1, <2>10
  <2> QED
    BY <1>5, <2>2, <2>3, <2>4, <2>5, <2>6, <2>7, <2>8, <2>9, <2>10
    DEF AutomountNext, ScriptStep, automountVars, Plug, Retrigger, Start, CheckUnit,
        GetLabelName, CheckCache,
        WriteCache, RemoveTest, RemoveCache
<1>6. ASSUME AutomountTypeOK, [AutomountNext]_automountVars PROVE HistoryTypes'
  <2> USE DEF HistoryTypes, history
  <2>1. HistoryTypes
    BY <1>6 DEF AutomountTypeOK
  <2>2. CASE Plug \/ GetLabelName \/ Mount \/ JobFails
    BY <2>1, <2>2 DEF Plug, GetLabelName, Mount, JobFails
  <2>3. CASE UNCHANGED history
    BY <2>1, <2>3
  <2> QED
    BY <1>6, <2>2, <2>3
    DEF AutomountNext, ScriptStep, automountVars, Unplug, Retrigger, Start, CheckUnit,
        CheckCache, MakeDir,
        WriteCache, RemoveTest, Umount, RemoveDir, RemoveCache, JobMounts, SystemdUmounts
<1>7. AutomountTypeOK /\ [AutomountNext]_automountVars => AutomountTypeOK'
  BY <1>2, <1>3, <1>4, <1>5, <1>6 DEF AutomountTypeOK
<1> QED
  BY <1>1, <1>7, PTL DEF AutomountSpec

----------------------------------------------------------------------------
(* The events in udevd and in the script tell of the device that is there, *)
(* unless one was plugged in before the last removal had been dealt with.  *)

Adding == {"cached", "mkdir", "mount", "cache"}
Removing == {"umount", "rmdir", "rmtmp"}

AtWork == pc # "idle" => ev \in Events
EventsFit ==
  ~overlapped /\ present # None =>
    /\ pc # "idle" => ev.at = path
    /\ \A i \in 1 .. Len(queue) : queue[i].at = path
RemovesTheGone == ~overlapped /\ pc \in Removing => present = None

Timely == AtWork /\ EventsFit /\ RemovesTheGone

\* An event is put behind those that wait.
LEMMA QueueGrows ==
  ASSUME QueueTypes, NEW act \in {"add", "change", "remove"}, NEW at \in SysPaths, Emit(act, at)
  PROVE  /\ Len(queue) \in Nat /\ queue' # <<>>
         /\ Len(queue') = Len(queue) + 1
         /\ \A i \in 1 .. Len(queue) : queue'[i] = queue[i]
         /\ queue'[Len(queue')] = [act |-> act, at |-> at]
<1> DEFINE e == [act |-> act, at |-> at]
<1>1. e \in Events
  BY DEF Events
<1> HIDE DEF e
<1>2. queue' = Append(queue, e) /\ queue \in Seq(Events)
  BY DEF Emit, QueueTypes, e
<1>3. Len(queue') = Len(queue) + 1 /\ Len(queue) \in Nat
  BY <1>1, <1>2
<1>4. queue'[Len(queue) + 1] = e /\ \A i \in 1 .. Len(queue) : queue'[i] = queue[i]
  BY <1>1, <1>2
<1> QED BY <1>2, <1>3, <1>4 DEF e

\* The script is started for the event that waited longest.
LEMMA QueueShrinks ==
  ASSUME QueueTypes, queue # <<>>
  PROVE  /\ Len(queue) \in Nat \ {0} /\ Head(queue) = queue[1] /\ queue[1] \in Events
         /\ Tail(queue) \in Seq(Events)
         /\ Len(Tail(queue)) = Len(queue) - 1
         /\ Len(queue) # 1 => Tail(queue) # <<>>
         /\ \A i \in 1 .. Len(queue) - 1 : Tail(queue)[i] = queue[i + 1]
<1>1. queue \in Seq(Events)
  BY DEF QueueTypes
<1>2. Len(queue) \in Nat \ {0} /\ Head(queue) = queue[1] /\ queue[1] \in Events
  BY <1>1
<1>3. Tail(queue) \in Seq(Events) /\ Len(Tail(queue)) = Len(queue) - 1
  BY <1>1
<1>4. \A i \in 1 .. Len(queue) - 1 : Tail(queue)[i] = queue[i + 1]
  BY <1>1
<1>5. Len(<<>>) = 0
  OBVIOUS
<1> QED BY <1>2, <1>3, <1>4, <1>5

\* One case per action that touches the queue, the script or the device.
LEMMA TimelyStep ==
  ASSUME AutomountTypeOK, Timely, [AutomountNext]_automountVars
  PROVE  Timely'
<1>1. /\ DeviceTypes /\ QueueTypes /\ ScriptTypes /\ HistoryTypes
      /\ AtWork /\ EventsFit /\ RemovesTheGone
  BY DEF AutomountTypeOK, Timely
<1>2. AtWork'
  <2>1. CASE Start
    BY <1>1, <2>1, QueueShrinks DEF Start, AtWork, Done
  <2>2. CASE ev' = ev /\ (pc # "idle" \/ pc' = "idle")
    BY <1>1, <2>2 DEF AtWork
  <2>3. CASE pc' = "idle"
    BY <2>3 DEF AtWork
  <2>4. CASE UNCHANGED script
    BY <1>1, <2>4 DEF AtWork, script
  <2> QED
    BY <2>1, <2>2, <2>3, <2>4
    DEF AutomountNext, ScriptStep, automountVars, Plug, Unplug, Retrigger, CheckUnit,
        GetLabelName, CheckCache,
        MakeDir, Mount, WriteCache, RemoveTest, Umount, RemoveDir, RemoveCache, JobMounts,
        JobFails, SystemdUmounts, Go, Done
<1>3. EventsFit'
  <2>1. CASE Plug
    <3>1. ASSUME ~overlapped'
          PROVE  pc' = "idle" /\ Len(queue') = 1 /\ queue'[1].at = path'
      <4>1. queue = <<>> /\ pc = "idle" /\ pc' = pc
        BY <2>1, <3>1 DEF Plug, script
      <4>2. path' \in SysPaths /\ Emit("add", path')
        BY <2>1 DEF Plug
      <4>3. Len(queue') = 0 + 1 /\ queue'[Len(queue')] = [act |-> "add", at |-> path']
        BY <1>1, <4>1, <4>2, QueueGrows
      <4>4. queue'[Len(queue')].at = path'
        BY <4>3
      <4> QED BY <4>1, <4>3, <4>4
    <3>2. ASSUME ~overlapped', NEW i \in 1 .. Len(queue') PROVE queue'[i].at = path'
      <4>1. i = 1
        <5>1. Len(queue') = 1
          BY <3>1, <3>2
        <5>2. i \in 1 .. 1
          BY <5>1
        <5> QED BY <5>2
      <4> QED BY <3>1, <3>2, <4>1
    <3> QED BY <3>1, <3>2 DEF EventsFit
  <2>2. CASE Unplug
    BY <2>2 DEF Unplug, EventsFit
  <2>3. CASE Retrigger
    <3>1. /\ present # None /\ path \in SysPaths /\ UNCHANGED <<present, path, pc, ev, overlapped>>
      BY <1>1, <2>3 DEF Retrigger, DeviceTypes, device, script, history
    <3>2. PICK act \in {"add", "change"} : Emit(act, path)
      BY <2>3 DEF Retrigger
    <3>3. /\ Len(queue) \in Nat /\ Len(queue') = Len(queue) + 1
          /\ \A i \in 1 .. Len(queue) : queue'[i] = queue[i]
          /\ queue'[Len(queue')] = [act |-> act, at |-> path]
      BY <1>1, <3>1, <3>2, QueueGrows
    <3>4. queue'[Len(queue')].at = path
      BY <3>3
    <3>5. ASSUME ~overlapped, NEW i \in 1 .. Len(queue') PROVE queue'[i].at = path
      <4>1. i = Len(queue') \/ i \in 1 .. Len(queue)
        BY <3>3
      <4> QED BY <1>1, <3>1, <3>3, <3>4, <3>5, <4>1 DEF EventsFit
    <3> QED BY <1>1, <3>1, <3>5 DEF EventsFit
  <2>4. CASE Start
    <3>1. /\ queue # <<>> /\ queue' = Tail(queue)
          /\ pc' = "idle" \/ ev' = Head(queue)
          /\ UNCHANGED <<present, path, overlapped>>
      BY <2>4 DEF Start, Done, device, history
    <3>2. /\ Len(queue) \in Nat \ {0} /\ Len(queue') = Len(queue) - 1 /\ Head(queue) = queue[1]
          /\ \A i \in 1 .. Len(queue) - 1 : queue'[i] = queue[i + 1]
      BY <1>1, <3>1, QueueShrinks
    <3>3. ASSUME ~overlapped, present # None
          PROVE  Head(queue).at = path /\ \A i \in 1 .. Len(queue') : queue'[i].at = path
      <4>1. \A i \in 1 .. Len(queue) : queue[i].at = path
        BY <1>1, <3>3 DEF EventsFit
      <4> QED BY <3>2, <4>1
    <3> QED BY <3>1, <3>3 DEF EventsFit
  <2>5. CASE /\ UNCHANGED <<present, path, queue, overlapped>>
             /\ pc' = "idle" \/ (ev' = ev /\ pc # "idle")
    BY <1>1, <2>5 DEF EventsFit
  <2>6. CASE UNCHANGED <<device, queue, script, overlapped>>
    BY <1>1, <2>6 DEF EventsFit, device, script
  <2> QED
    BY <2>1, <2>2, <2>3, <2>4, <2>5, <2>6
    DEF AutomountNext, ScriptStep, automountVars, CheckUnit, GetLabelName, CheckCache,
        MakeDir, Mount, WriteCache, RemoveTest, Umount, RemoveDir, RemoveCache, JobMounts,
        JobFails, SystemdUmounts, Go, Done, device, history
<1>4. RemovesTheGone'
  <2> USE DEF RemovesTheGone
  <2>1. CASE Plug
    BY <1>1, <2>1 DEF Plug, Removing, script
  <2>2. CASE Unplug
    BY <2>2 DEF Unplug
  <2>3. CASE RemoveTest
    BY <1>1, <2>3 DEF RemoveTest, EventsFit, Go, Done, device, history, Removing
  <2>4. CASE Umount \/ RemoveDir
    BY <1>1, <2>4 DEF Umount, RemoveDir, Go, device, history, Removing
  <2>5. CASE pc' \notin Removing
    BY <2>5
  <2>6. CASE UNCHANGED <<device, pc, overlapped>>
    BY <1>1, <2>6 DEF device
  <2> QED
    BY <2>1, <2>2, <2>3, <2>4, <2>5, <2>6
    DEF AutomountNext, ScriptStep, automountVars, Retrigger, Start, CheckUnit,
        GetLabelName, CheckCache, MakeDir,
        Mount, WriteCache, RemoveCache, JobMounts, JobFails, SystemdUmounts, Go, Done, Removing,
        script, history
<1> QED
  BY <1>2, <1>3, <1>4 DEF Timely

\* Events and script are of the medium at hand in every state.
LEMMA TimelyInvariant == AutomountSpec => [](AutomountTypeOK /\ Timely)
<1>1. AutomountInit => Timely
  BY DEF AutomountInit, Timely, AtWork, EventsFit, RemovesTheGone, Removing
<1> QED
  BY <1>1, TimelyStep, AutomountTypeCorrect, PTL DEF AutomountSpec

\* No event takes a medium that is plugged in away from under the operator,
\* unless it was plugged before the last removal had been dealt with.
THEOREM LiveMediumKept == AutomountSpec => LiveMediumStays
<1>1. ASSUME AutomountTypeOK, Timely, [AutomountNext]_automountVars, NEW n \in Names,
             mounted[n] \in Media, present' # None, mounted'[n] = None
      PROVE  overlapped
  <2>1. /\ DeviceTypes /\ MountTypes /\ RemovesTheGone
        /\ mounted[n] # None /\ mounted[n] # Dead
    BY <1>1, MediaAssumption DEF AutomountTypeOK, Timely
  <2>2. CASE Umount
    BY <1>1, <2>1, <2>2 DEF Umount, RemovesTheGone, Removing, device
  <2>3. CASE Unplug
    BY <1>1, <2>3 DEF Unplug
  <2>4. CASE JobMounts \/ SystemdUmounts
    BY <1>1, <2>1, <2>4 DEF JobMounts, SystemdUmounts, MountTypes
  <2>5. CASE UNCHANGED mounted
    BY <1>1, <2>1, <2>5
  <2> QED
    BY <1>1, <2>2, <2>3, <2>4, <2>5
    DEF AutomountNext, ScriptStep, automountVars, units, Plug, Retrigger, Start, CheckUnit,
        GetLabelName, CheckCache,
        MakeDir, Mount, WriteCache, RemoveTest, RemoveDir, RemoveCache, JobFails
<1>2. AutomountTypeOK /\ Timely /\ [AutomountNext]_automountVars =>
        [\A n \in Names : mounted[n] \in Media /\ present' # None /\ mounted'[n] = None
           => overlapped]_automountVars
  BY <1>1
<1> QED
  BY <1>2, TimelyInvariant, PTL DEF AutomountSpec, LiveMediumStays

----------------------------------------------------------------------------
(* The cache holds one name at most: of the medium that is there, of the   *)
(* add event or of the removal that the script handles.  While it holds    *)
(* the name of a medium that is gone, its removal is still to come.        *)

Pending == queue # <<>> /\ queue[Len(queue)].act = "remove"

OneName ==
  ~overlapped /\ ~mislabelled =>
    /\ present # None => caches \subseteq {Label[present]}
    /\ pc \in Adding => caches \subseteq {name} /\ (present # None => name = Label[present])
    /\ pc \in Removing => caches \subseteq {name}
    /\ \E n \in Names : caches \subseteq {n}
RemovalPending ==
  ~overlapped /\ ~mislabelled /\ present = None =>
    Pending \/ pc = "test" \/ pc \in Removing \/ (pc = "idle" /\ caches = {})

CacheInv == OneName /\ RemovalPending

\* Which file a script is about to write, and that there is one name at most.
LEMMA OneNameStep ==
  ASSUME AutomountTypeOK, Timely, CacheInv, [AutomountNext]_automountVars
  PROVE  OneName'
<1> USE DEF OneName, Adding, Removing
<1>1. /\ DeviceTypes /\ QueueTypes /\ ScriptTypes /\ HistoryTypes
      /\ OneName /\ RemovalPending
  BY DEF AutomountTypeOK, CacheInv
<1>2. CASE Plug
  <2>1. ASSUME ~overlapped', ~mislabelled' PROVE caches' = {} /\ pc' = "idle" /\ Plain \in Names
    BY <1>1, <1>2, <2>1 DEF Plug, script, files, RemovalPending, Pending, HistoryTypes, Names
  <2> QED BY <2>1
<1>3. CASE Unplug
  BY <1>1, <1>3 DEF Unplug, script, files, history
<1>4. CASE Start
  BY <1>1, <1>4 DEF Start, Done, device, files, history
<1>5. CASE CheckUnit
  BY <1>1, <1>5 DEF CheckUnit, Go, Done, device, files, history
<1>6. CASE GetLabelName
  <2>1. /\ UNCHANGED <<present, overlapped, caches>> /\ pc' = "cached"
        /\ name' = IF present = None THEN Plain ELSE Label[present]
        /\ mislabelled' = (mislabelled \/ (present = None /\ caches \notin SUBSET {Plain}))
    BY <1>6 DEF GetLabelName, Go, device, files
  <2> QED BY <1>1, <2>1 DEF HistoryTypes
<1>7. CASE CheckCache \/ MakeDir
  BY <1>1, <1>7 DEF CheckCache, MakeDir, Go, Done, device, files, history
<1>8. CASE Mount
  BY <1>1, <1>8 DEF Mount, Go, Done, device, files
<1>9. CASE WriteCache
  BY <1>1, <1>9 DEF WriteCache, Done, device, history, ScriptTypes
<1>10. CASE RemoveTest
  <2>1. /\ UNCHANGED <<present, overlapped, mislabelled, caches>>
        /\ pc' = "idle" \/ (pc' = "umount" /\ name' \in caches)
    BY <1>10 DEF RemoveTest, Go, Done, device, files, history
  <2> QED BY <1>1, <2>1
<1>11. CASE Umount \/ RemoveDir
  BY <1>1, <1>11 DEF Umount, RemoveDir, Go, device, files, history
<1>12. CASE RemoveCache
  BY <1>1, <1>12 DEF RemoveCache, Done, device, history
<1>13. CASE UNCHANGED <<present, script, caches, overlapped, mislabelled>>
  BY <1>1, <1>13 DEF script
<1> QED
  BY <1>2, <1>3, <1>4, <1>5, <1>6, <1>7, <1>8, <1>9, <1>10, <1>11, <1>12, <1>13
  DEF AutomountNext, ScriptStep, automountVars, Retrigger, JobMounts, JobFails,
      SystemdUmounts, device, files, history

\* While something is cached of a medium that is gone its removal still waits.
LEMMA RemovalPendingStep ==
  ASSUME AutomountTypeOK, Timely, CacheInv, [AutomountNext]_automountVars
  PROVE  RemovalPending'
<1> USE DEF RemovalPending, Removing
<1>1. /\ DeviceTypes /\ QueueTypes /\ ScriptTypes /\ HistoryTypes
      /\ OneName /\ RemovalPending /\ AtWork
  BY DEF AutomountTypeOK, Timely, CacheInv
<1>2. CASE Plug
  BY <1>2, MediaAssumption DEF Plug
<1>3. CASE Unplug
  <2>1. path \in SysPaths /\ Emit("remove", path)
    BY <1>1, <1>3 DEF Unplug, DeviceTypes
  <2>2. queue' # <<>> /\ queue'[Len(queue')] = [act |-> "remove", at |-> path]
    BY <1>1, <2>1, QueueGrows
  <2>3. Pending'
    BY <2>2 DEF Pending
  <2> QED BY <2>3
<1>4. CASE Retrigger
  BY <1>4 DEF Retrigger, device
<1>5. CASE Start
  <2>1. /\ pc = "idle" /\ queue # <<>> /\ queue' = Tail(queue)
        /\ UNCHANGED <<present, caches, overlapped, mislabelled>>
        /\ pc' = "idle" \/ pc' = "unit" \/ pc' = "test"
        /\ pc' = "unit" => present # None
        /\ Head(queue).act # "add" => pc' = "test"
    BY <1>5 DEF Start, Done, device, files, history
  <2>2. CASE caches = {}
    BY <2>1, <2>2
  <2>3. CASE Pending /\ Len(queue) = 1
    <3>1. Head(queue).act = "remove"
      BY <1>1, <2>1, <2>3, QueueShrinks DEF Pending
    <3> QED BY <2>1, <3>1
  <2>4. CASE Pending /\ Len(queue) # 1
    <3>1. /\ Len(queue) \in Nat \ {0} /\ queue' # <<>> /\ Len(queue') = Len(queue) - 1
          /\ \A i \in 1 .. Len(queue) - 1 : queue'[i] = queue[i + 1]
      BY <1>1, <2>1, <2>4, QueueShrinks
    <3>2. queue'[Len(queue')] = queue[Len(queue)]
      BY <2>4, <3>1
    <3>3. Pending'
      BY <2>4, <3>1, <3>2 DEF Pending
    <3> QED BY <3>3
  <2> QED BY <1>1, <2>1, <2>2, <2>3, <2>4
<1>6. CASE /\ pc \in Adding \cup {"unit", "label"}
           /\ UNCHANGED <<present, queue, overlapped>> /\ (mislabelled => mislabelled')
  BY <1>1, <1>6 DEF Pending, Adding
<1>7. CASE RemoveTest
  <2>1. UNCHANGED <<present, overlapped, mislabelled, caches>>
    BY <1>7 DEF RemoveTest, device, files, history
  <2>2. ASSUME ~overlapped, ~mislabelled, present = None, Cardinality(caches) # 1
        PROVE  caches = {}
    <3>1. PICK n \in Names : caches \subseteq {n}
      BY <1>1, <2>2 DEF OneName
    <3>2. Cardinality({n}) = 1
      BY FS_Singleton
    <3> QED BY <2>2, <3>1, <3>2
  <2>3. present = None => path # ev.at
    BY <1>1, <1>7, MediaAssumption DEF RemoveTest, AtWork, Events, DeviceTypes
  <2>4. CASE path # ev.at /\ Cardinality(caches) = 1
    BY <1>7, <2>4 DEF RemoveTest, Go
  <2>5. CASE ~(path # ev.at /\ Cardinality(caches) = 1)
    BY <1>7, <2>1, <2>2, <2>3, <2>5 DEF RemoveTest, Done
  <2> QED BY <2>4, <2>5
<1>8. CASE Umount \/ RemoveDir
  BY <1>8 DEF Umount, RemoveDir, Go
<1>9. CASE RemoveCache
  <2>1. /\ caches' = caches \ {name} /\ pc' = "idle" /\ pc = "rmtmp"
        /\ UNCHANGED <<overlapped, mislabelled>>
    BY <1>9 DEF RemoveCache, Done, history
  <2> QED BY <1>1, <2>1 DEF OneName
<1>10. CASE UNCHANGED <<device, queue, script, caches, overlapped, mislabelled>>
  BY <1>1, <1>10 DEF Pending, device, script
<1>11. CASE CheckUnit \/ GetLabelName \/ CheckCache \/ MakeDir \/ Mount \/ WriteCache
  <2>1. mislabelled => mislabelled'
    BY <1>11 DEF CheckUnit, GetLabelName, CheckCache, MakeDir, Mount, WriteCache, history
  <2> QED
    BY <1>6, <1>11, <2>1
    DEF CheckUnit, GetLabelName, CheckCache, MakeDir, Mount, WriteCache, device, history, Adding
<1> QED
  BY <1>2, <1>3, <1>4, <1>5, <1>7, <1>8, <1>9, <1>10, <1>11
  DEF AutomountNext, ScriptStep, automountVars, JobMounts, JobFails, SystemdUmounts, files,
      history

LEMMA CacheInvariant == AutomountSpec => []CacheInv
<1>1. AutomountInit => CacheInv
  BY DEF AutomountInit, CacheInv, OneName, RemovalPending, Adding, Removing, Names
<1>2. AutomountTypeOK /\ Timely /\ CacheInv /\ [AutomountNext]_automountVars => CacheInv'
  BY OneNameStep, RemovalPendingStep DEF CacheInv
<1> QED
  BY <1>1, <1>2, TimelyInvariant, PTL DEF AutomountSpec

\* Once the removal of a medium has been handled nothing of it is cached, so
\* that the next one is not taken for it.
THEOREM NothingLeftBehind == AutomountSpec => []CleanAfterRemoval
<1>1. CacheInv => CleanAfterRemoval
  BY DEF CacheInv, RemovalPending, CleanAfterRemoval, Pending, Removing
<1> QED
  BY <1>1, CacheInvariant, PTL

----------------------------------------------------------------------------
(* A medium on its way from the plug to the mount.                         *)

OnItsWay ==
  present # None /\ present \notin Unsupported /\ ~overlapped /\ ~failed /\ ~mislabelled =>
    \/ \E n \in Names : mounted[n] = present
    \/ jobs # {} /\ \A n \in Names : mounted[n] = None
    \/ /\ caches = {} /\ UnitFiles = {}
       /\ \/ pc = "idle" /\ queue # <<>> /\ queue[1].act = "add"
          \/ pc \in {"unit", "label", "cached", "mkdir", "mount"}

\* One case per action that touches the device, the script or the units.
LEMMA OnItsWayStep ==
  ASSUME AutomountTypeOK, Timely, CacheInv, OnItsWay, [AutomountNext]_automountVars
  PROVE  OnItsWay'
<1> USE MediaAssumption DEF OnItsWay
<1>1. /\ DeviceTypes /\ QueueTypes /\ ScriptTypes /\ MountTypes /\ HistoryTypes
      /\ OneName /\ RemovalPending /\ RemovesTheGone /\ AtWork
  BY DEF AutomountTypeOK, Timely, CacheInv
<1>2. CASE Plug
  <2> SUFFICES ASSUME ~overlapped', ~mislabelled'
               PROVE  OnItsWay'
    OBVIOUS
  <2>1. /\ ~overlapped /\ queue = <<>> /\ pc = "idle" /\ UnitFiles = {}
        /\ present = None /\ ~mislabelled /\ UNCHANGED <<pc, caches, jobs, mounted>>
    BY <1>1, <1>2 DEF Plug, HistoryTypes, script, files, units
  <2>2. caches = {}
    BY <1>1, <2>1 DEF RemovalPending, Pending, Removing
  <2>3. UnitFiles' = {}
    BY <2>1 DEF UnitFiles
  <2>4. path' \in SysPaths /\ Emit("add", path')
    BY <1>2 DEF Plug
  <2>5. queue' # <<>> /\ queue'[1] = [act |-> "add", at |-> path']
    BY <1>1, <2>1, <2>4, QueueGrows
  <2> QED BY <2>1, <2>2, <2>3, <2>5
<1>3. CASE Unplug
  BY <1>3 DEF Unplug
<1>4. CASE Retrigger
  <2>1. PICK act \in {"add", "change"} : Emit(act, path)
    BY <1>4 DEF Retrigger
  <2>2. path \in SysPaths /\ UNCHANGED <<present, pc, caches, jobs, mounted, history>>
    BY <1>1, <1>4 DEF Retrigger, DeviceTypes, device, script, files, units
  <2>3. queue' # <<>> /\ (queue # <<>> => queue'[1] = queue[1])
    <3>1. Len(queue) \in Nat /\ (queue # <<>> => 1 \in 1 .. Len(queue))
      BY <1>1, QueueShrinks DEF QueueTypes
    <3> QED BY <1>1, <2>1, <2>2, <3>1, QueueGrows
  <2> QED BY <2>2, <2>3 DEF UnitFiles, history
<1>5. CASE Start
  <2>1. /\ queue # <<>> /\ Head(queue) = queue[1] /\ pc = "idle"
        /\ UNCHANGED <<present, caches, jobs, mounted, history>>
    BY <1>1, <1>5, QueueShrinks DEF Start, device, files, units
  <2>2. present # None /\ queue[1].act = "add" => pc' = "unit"
    BY <1>5, <2>1 DEF Start
  <2> QED BY <2>1, <2>2 DEF UnitFiles, history
<1>6. CASE CheckUnit
  <2>1. UnitFiles = {} => Cardinality(UnitFiles) = 0
    BY FS_EmptySet
  <2>2. pc = "unit" /\ UNCHANGED <<present, caches, jobs, mounted, history>>
    BY <1>6 DEF CheckUnit, device, files, units
  <2>3. UnitFiles = {} => pc' = "label"
    BY <1>6, <2>1 DEF CheckUnit, Go
  <2> QED BY <2>2, <2>3 DEF UnitFiles, history
<1>7. CASE GetLabelName
  BY <1>7 DEF GetLabelName, Go, UnitFiles, device, files, units
<1>8. CASE CheckCache \/ MakeDir
  <2>1. /\ UNCHANGED <<present, caches, jobs, mounted, history>>
        /\ pc \in {"cached", "mkdir"}
        /\ caches = {} /\ present \notin Unsupported => pc' \in {"mkdir", "mount"}
    BY <1>8 DEF CheckCache, MakeDir, Go, device, files, units
  <2> QED BY <2>1 DEF UnitFiles, history
<1>9. CASE Mount
  <2>1. pc = "mount" /\ UNCHANGED <<present, mounted, overlapped, mislabelled>>
    BY <1>9 DEF Mount, device
  <2>2. \/ jobs' # {} /\ UNCHANGED failed
        \/ jobs' = jobs /\ (failed' \/ present = None)
    <3>1. CASE jobs' = jobs \cup {name} /\ UNCHANGED failed
      BY <3>1
    <3>2. CASE UNCHANGED jobs /\ failed' = (failed \/ present # None)
      BY <3>2
    <3> QED BY <1>9, <3>1, <3>2 DEF Mount
  <2> QED BY <1>1, <2>1, <2>2 DEF HistoryTypes, UnitFiles
<1>10. CASE WriteCache
  BY <1>10 DEF WriteCache, device, history, units
<1>11. CASE RemoveTest
  BY <1>11 DEF RemoveTest, device, history, units
<1>12. CASE Umount
  BY <1>1, <1>12 DEF Umount, RemovesTheGone, Removing, device, history
<1>13. CASE RemoveDir \/ RemoveCache
  BY <1>13 DEF RemoveDir, RemoveCache, device, history, units
<1>14. CASE JobMounts
  <2>1. PICK n \in jobs : mounted[n] = None /\ mounted' = [mounted EXCEPT ![n] = present]
    BY <1>14 DEF JobMounts
  <2>2. n \in Names /\ mounted'[n] = present /\ present' = present
    BY <1>1, <1>14, <2>1 DEF JobMounts, MountTypes, device
  <2> QED BY <2>2
<1>15. CASE JobFails
  BY <1>1, <1>15 DEF JobFails, HistoryTypes, UnitFiles, device, script, files
<1>16. CASE SystemdUmounts
  <2>1. PICK n \in Names : mounted[n] = Dead /\ mounted' = [mounted EXCEPT ![n] = None]
    BY <1>16 DEF SystemdUmounts
  <2>2. UNCHANGED <<present, jobs, history>> /\ present \in Media \cup {None} /\ n \in UnitFiles
    BY <1>1, <1>16, <2>1 DEF SystemdUmounts, DeviceTypes, UnitFiles, device
  <2> QED BY <1>1, <2>1, <2>2 DEF MountTypes, history
<1>17. CASE UNCHANGED automountVars
  BY <1>17 DEF automountVars, device, script, files, units, history, UnitFiles
<1> QED
  BY <1>2, <1>3, <1>4, <1>5, <1>6, <1>7, <1>8, <1>9, <1>10, <1>11, <1>12, <1>13, <1>14,
     <1>15, <1>16, <1>17
  DEF AutomountNext, ScriptStep

\* When the last event has been handled and no job is left, a medium of a
\* supported kind is mounted, outside the three named histories: no event that
\* waited, no script that was overtaken and no earlier medium kept it out.
MountedWhenQuiet ==
  present \in Media \ Unsupported /\ queue = <<>> /\ pc = "idle" /\ jobs = {} =>
    overlapped \/ failed \/ mislabelled \/ \E n \in Names : mounted[n] = present

THEOREM NothingKeptOut == AutomountSpec => []MountedWhenQuiet
<1>1. AutomountInit => OnItsWay
  BY DEF AutomountInit, OnItsWay
<1>2. OnItsWay => MountedWhenQuiet
  BY MediaAssumption DEF OnItsWay, MountedWhenQuiet
<1> QED
  BY <1>1, <1>2, OnItsWayStep, TimelyInvariant, CacheInvariant, PTL DEF AutomountSpec

----------------------------------------------------------------------------
(* Explorer: type correctness, and that the tabs match the mount table     *)
(* whenever the watcher is idle.                                           *)

USE DEF Loops, GuiSteps

\* What a step other than a look keeps of the watcher.
Quiet == ~changed /\ ~active /\ ~blind

\* The tabs always belong to the table that was read last; that table is the
\* present one when no change is waiting to be handled.
Watched ==
  gui \notin {"closed", "parse"} =>
    /\ tabs = {p \in known : ShouldShowTab(p)}
    /\ Quiet => known = Mounted

----------------------------------------------------------------------------
\* A command leaves a table behind, and a change of it is announced.
LEMMA EffectOnTable ==
  ASSUME mounts \in [Paths -> Seq(Kinds)], changed \in BOOLEAN,
         NEW c \in Commands, Effect(c)
  PROVE  /\ mounts' \in [Paths -> Seq(Kinds)]
         /\ changed' \in BOOLEAN
         /\ (mounts' = mounts /\ changed' = changed) \/ changed' = TRUE
<1>1. c.at \in Paths /\ c.kind \in Kinds
  BY DEF Commands, NetKinds, Kinds, Paths
<1>2. CASE UNCHANGED <<mounts, changed>>
  BY <1>2
<1>3. ASSUME mounts' = [mounts EXCEPT ![c.at] = <<c.kind>> \o @], changed' = TRUE
      PROVE  mounts' \in [Paths -> Seq(Kinds)]
  <2>1. mounts[c.at] \in Seq(Kinds)
    BY <1>1
  <2>2. <<c.kind>> \o mounts[c.at] \in Seq(Kinds)
    BY <1>1, <2>1
  <2> QED BY <1>1, <1>3, <2>2
<1>4. ASSUME mounts[c.at] # <<>>, mounts' = [mounts EXCEPT ![c.at] = Tail(@)]
      PROVE  mounts' \in [Paths -> Seq(Kinds)]
  <2>1. mounts[c.at] \in Seq(Kinds)
    BY <1>1
  <2>2. Tail(mounts[c.at]) \in Seq(Kinds)
    BY <1>4, <2>1
  <2> QED BY <1>1, <1>4, <2>2
<1> QED
  BY <1>2, <1>3, <1>4 DEF Effect

\* Both outcomes of a look at mountinfo are sets of paths.
LEMMA LookFinds ==
  ASSUME NEW now, Look(now), settled \in BOOLEAN
  PROVE  /\ now \subseteq Paths
         /\ blind' \in BOOLEAN
         /\ ~blind' => now = Mounted
BY DEF Look, Mounted

LEMMA TypeInit == Init => TypeOK
<1> SUFFICES ASSUME Init PROVE TypeOK
  OBVIOUS
<1>1. mounts \in [Paths -> Seq(Kinds)]
  BY DEF Init
<1>2. cmd = NoCommand /\ gui = "closed" /\ running = FALSE
  BY DEF Init
<1> QED
  BY <1>1, <1>2 DEF Init, TypeOK

\* A command on a share is not the empty command.
LEMMA CommandsAreSome == NoCommand \notin Commands
BY PathsAssumption DEF NoCommand, Commands, Paths

\* Every action keeps the types.
LEMMA TypeStep == TypeOK /\ [Next]_vars => TypeOK'
<1> SUFFICES ASSUME TypeOK, [Next]_vars PROVE TypeOK'
  OBVIOUS
<1> USE DEF TypeOK
<1>1. CASE FirstLook
  <2>1. PICK now \in {Mounted, {}} :
          Look(now) /\ known' = now /\ tabs' = {p \in now : ShouldShowTab(p)}
    BY <1>1 DEF FirstLook
  <2>2. now \subseteq Paths /\ blind' \in BOOLEAN
    BY <2>1, LookFinds
  <2>3. known' \subseteq Paths /\ tabs' \subseteq Sticks \cup Shares
    BY <2>1, <2>2 DEF ShouldShowTab, Paths
  <2> QED BY <1>1, <2>2, <2>3 DEF FirstLook, runner
<1>2. CASE Poll
  BY <1>2 DEF Poll, runner
<1>3. CASE OnChange
  <2>1. PICK now \in {Mounted, {}} :
          /\ Look(now) /\ known' = now
          /\ tabs' = (tabs \cup {p \in now \ known : ShouldShowTab(p)}) \ (known \ now)
    BY <1>3 DEF OnChange
  <2>2. now \subseteq Paths /\ blind' \in BOOLEAN
    BY <2>1, LookFinds
  <2>3. known' \subseteq Paths /\ tabs' \subseteq Sticks \cup Shares
    BY <2>1, <2>2 DEF ShouldShowTab, Paths
  <2> QED BY <1>3, <2>2, <2>3 DEF OnChange, runner
<1>4. CASE CloseDialog
  <2>1. \/ gui' = "idle" /\ cmd' = cmd
        \/ gui' = "run" /\ cmd' \in Commands
    BY <1>4 DEF CloseDialog, Commands
  <2> QED BY <1>4, <2>1, CommandsAreSome DEF CloseDialog, watcher
<1>5. CASE Run
  <2>1. CASE gui' \in {"idle", "warn"} /\ cmd' = NoCommand /\ UNCHANGED running
    BY <1>5, <2>1 DEF Run, watcher
  <2>2. CASE gui' = "wait" /\ running' = TRUE /\ UNCHANGED cmd
    BY <1>5, <2>2 DEF Run, watcher
  <2> QED BY <1>5, <2>1, <2>2 DEF Run
<1>6. CASE Dismiss
  BY <1>6 DEF Dismiss, watcher, runner
<1>7. CASE HelperUmount
  BY <1>7, PathsAssumption DEF HelperUmount, Accepts, Argv, Paths
<1>8. CASE Open
  BY <1>8 DEF Open, runner
<1>9. CASE Close
  BY <1>9 DEF Close, runner
<1>10. CASE OpenMountDialog
  BY <1>10 DEF OpenMountDialog, watcher, runner
<1>11. CASE Unmount
  <2>1. cmd' \in Commands
    BY <1>11 DEF Unmount, Commands
  <2> QED BY <1>11, <2>1, CommandsAreSome DEF Unmount, watcher
<1>12. CASE CommandEnds
  <2>1. cmd \in Commands
    BY <1>12 DEF CommandEnds
  <2>2. mounts' \in [Paths -> Seq(Kinds)] /\ changed' \in BOOLEAN
    BY <1>12, <2>1, EffectOnTable DEF CommandEnds
  <2> QED BY <1>12, <2>1, <2>2, CommandsAreSome DEF CommandEnds
<1>13. CASE WaitTimeout
  <2>1. cmd \in Commands
    BY <1>13 DEF WaitTimeout
  <2> QED BY <1>13, <2>1, CommandsAreSome DEF WaitTimeout, watcher
<1>14. CASE StrayEnds
  <2>1. PICK c \in strays : strays' = strays \ {c} /\ Effect(c)
    BY <1>14 DEF StrayEnds
  <2>2. mounts' \in [Paths -> Seq(Kinds)] /\ changed' \in BOOLEAN
    BY <2>1, EffectOnTable
  <2> QED BY <1>14, <2>1, <2>2 DEF StrayEnds
<1>15. CASE Automount
  <2>1. PICK p \in Sticks \cup Partitions :
          mounts' = [mounts EXCEPT ![p] = IF @ = <<>> THEN <<"disk">> ELSE <<>>]
    BY <1>15 DEF Automount
  <2>2. <<"disk">> \in Seq(Kinds) /\ <<>> \in Seq(Kinds)
    BY DEF Kinds
  <2>3. mounts' \in [Paths -> Seq(Kinds)]
    BY <2>1, <2>2 DEF Paths
  <2> QED BY <1>15, <2>3 DEF Automount, runner
<1>16. CASE Settle
  BY <1>16 DEF Settle, watcher, runner
<1>17. CASE UNCHANGED vars
  BY <1>17 DEF vars, watcher, runner
<1> QED
  BY <1>1, <1>2, <1>3, <1>4, <1>5, <1>6, <1>7, <1>8, <1>9, <1>10, <1>11, <1>12,
     <1>13, <1>14, <1>15, <1>16, <1>17 DEF Next, Gui, Operator

\* Every variable keeps its type: the thread waits exactly while its command
\* runs, and a partition of the system never gets a tab.
THEOREM TypeCorrect == Spec => []TypeOK
<1> QED BY TypeInit, TypeStep, PTL DEF Spec

----------------------------------------------------------------------------
\* A step that leaves the watcher and the table alone keeps what was seen, and
\* so does one that announces its change of the table.
LEMMA WatchedKept ==
  ASSUME Watched, changed \in BOOLEAN, changed' \in BOOLEAN,
         UNCHANGED <<active, known, blind, tabs>>,
         gui' \notin {"closed", "parse"} => gui \notin {"closed", "parse"},
         (mounts' = mounts /\ changed' = changed) \/ changed' = TRUE
  PROVE  Watched'
<1>1. CASE mounts' = mounts /\ changed' = changed
  <2>1. Mounted' = Mounted
    BY <1>1 DEF Mounted
  <2> QED BY <1>1, <2>1 DEF Watched, Quiet, ShouldShowTab
<1>2. CASE changed' = TRUE
  BY <1>2 DEF Watched, Quiet, ShouldShowTab
<1> QED BY <1>1, <1>2

LEMMA WatchedStep == TypeOK /\ Watched /\ [Next]_vars => Watched'
<1> SUFFICES ASSUME TypeOK, Watched, [Next]_vars PROVE Watched'
  OBVIOUS
<1>0. changed \in BOOLEAN /\ changed' \in BOOLEAN /\ settled \in BOOLEAN
  BY TypeStep DEF TypeOK
<1>1. CASE FirstLook
  <2>1. PICK now \in {Mounted, {}} :
          Look(now) /\ known' = now /\ tabs' = {p \in now : ShouldShowTab(p)}
    BY <1>1 DEF FirstLook
  <2>2. ~blind' => now = Mounted
    BY <1>0, <2>1, LookFinds
  <2>3. Mounted' = Mounted
    BY <1>1 DEF FirstLook, Mounted
  <2> QED BY <2>1, <2>2, <2>3 DEF Watched, Quiet, ShouldShowTab
<1>2. CASE Poll
  BY <1>2 DEF Poll, Watched, Quiet, ShouldShowTab
<1>3. CASE OnChange
  <2>1. PICK now \in {Mounted, {}} :
          /\ Look(now) /\ known' = now
          /\ tabs' = (tabs \cup {p \in now \ known : ShouldShowTab(p)}) \ (known \ now)
    BY <1>3 DEF OnChange
  <2>2. ~blind' => now = Mounted
    BY <1>0, <2>1, LookFinds
  <2>3. Mounted' = Mounted
    BY <1>3 DEF OnChange, Mounted
  <2>4. tabs = {p \in known : ShouldShowTab(p)}
    BY <1>3 DEF OnChange, Watched
  <2>5. tabs' = {p \in now : ShouldShowTab(p)}
    BY <2>1, <2>4
  <2> QED BY <2>1, <2>2, <2>3, <2>5 DEF Watched, Quiet, ShouldShowTab
<1>4. CASE CloseDialog
  BY <1>0, <1>4, WatchedKept DEF CloseDialog, watcher
<1>5. CASE Run
  BY <1>0, <1>5, WatchedKept DEF Run, watcher
<1>6. CASE Dismiss
  BY <1>0, <1>6, WatchedKept DEF Dismiss, watcher
<1>7. CASE HelperUmount
  BY <1>0, <1>7, WatchedKept DEF HelperUmount
<1>8. CASE Open
  BY <1>8 DEF Open, Watched
<1>9. CASE Close
  BY <1>9 DEF Close, Watched
<1>10. CASE OpenMountDialog
  BY <1>0, <1>10, WatchedKept DEF OpenMountDialog, watcher
<1>11. CASE Unmount
  BY <1>0, <1>11, WatchedKept DEF Unmount, watcher
<1>12. CASE CommandEnds
  <2>1. cmd \in Commands /\ gui \notin {"closed", "parse"}
    BY <1>12 DEF CommandEnds, TypeOK
  <2>2. (mounts' = mounts /\ changed' = changed) \/ changed' = TRUE
    BY <1>12, <2>1, EffectOnTable DEF CommandEnds, TypeOK
  <2> QED BY <1>0, <1>12, <2>1, <2>2, WatchedKept DEF CommandEnds
<1>13. CASE WaitTimeout
  BY <1>0, <1>13, WatchedKept DEF WaitTimeout, watcher
<1>14. CASE StrayEnds
  <2>1. PICK c \in strays :
          Effect(c) /\ UNCHANGED <<active, known, blind, tabs, gui, cmd, running, settled>>
    BY <1>14 DEF StrayEnds
  <2>2. (mounts' = mounts /\ changed' = changed) \/ changed' = TRUE
    BY <2>1, EffectOnTable DEF TypeOK
  <2> QED BY <1>0, <2>1, <2>2, WatchedKept
<1>15. CASE Automount
  BY <1>0, <1>15, WatchedKept DEF Automount
<1>16. CASE Settle
  BY <1>0, <1>16, WatchedKept DEF Settle, watcher
<1>17. CASE UNCHANGED vars
  BY <1>0, <1>17, WatchedKept DEF vars, watcher
<1> QED
  BY <1>1, <1>2, <1>3, <1>4, <1>5, <1>6, <1>7, <1>8, <1>9, <1>10, <1>11, <1>12,
     <1>13, <1>14, <1>15, <1>16, <1>17 DEF Next, Gui, Operator

\* Whatever the table does while the thread is blocked, in a dialog or between
\* its poll and its look: a watcher with nothing to handle shows what is mounted.
THEOREM TabsMatch == Spec => []TabsMatchTable
<1>1. Init => Watched
  BY DEF Init, Watched
<1>2. Watched => TabsMatchTable
  BY DEF Watched, Quiet, TabsMatchTable, Shown
<1> QED BY <1>1, <1>2, TypeCorrect, WatchedStep, PTL DEF Spec
=============================================================================
