-------------------------- MODULE AutoMountProofs --------------------------
(* The types of AutoMount, and what a run of EnsureMountedUSBVolumes that  *)
(* nobody overtook may rely on and does, for any number of disks,          *)
(* filesystems and format requests.                                        *)
EXTENDS AutoMountInv, FiniteSetTheorems, FunctionTheorems,
        WellFoundedInduction, TLAPS

(* A nonempty set of naturals has a least element.                         *)
LEMMA LeastElement ==
  ASSUME NEW S, S \subseteq Nat, S # {}
  PROVE  \E m \in S : \A n \in S : m <= n
<1> DEFINE R == OpToRel(<, Nat)
<1>1. \E x \in S : \A y \in S : ~(<<y, x>> \in R)
  BY NatLessThanWellFounded, WFMin
<1>2. \A x, y \in Nat : <<y, x>> \in R <=> y < x
  BY DEF OpToRel
<1> HIDE DEF R
<1>3. PICK m \in S : \A y \in S : ~(<<y, m>> \in R)
  BY <1>1
<1>4. \A y \in S : ~(y < m)
  BY <1>2, <1>3
<1> QED BY <1>4

(* The first filesystem of a nonempty scan belongs to it.                  *)
LEMMA FirstOfScan ==
  ASSUME NEW S, S \subseteq Fs, S # {}
  PROVE  Next1(S) \in S
<1>1. S \subseteq Nat
  BY MaxFsAssumption DEF Fs
<1>2. \E f \in S : \A g \in S : f <= g
  BY <1>1, LeastElement
<1> QED BY <1>2 DEF Next1

(* nextFreeSlot finds a positive slot that is not used.                    *)
LEMMA FreeSlot ==
  ASSUME NEW S, IsFiniteSet(S)
  PROVE  nextFreeSlot(S) \in Nat \ {0} /\ nextFreeSlot(S) \notin S
<1> DEFINE k == Cardinality(S) + 1
           Unused == (1..k) \ S
<1>1. Cardinality(S) \in Nat
  BY FS_CardinalityType
<1>2. Cardinality(1..k) = k
  BY <1>1, FS_Interval
<1>3. Unused # {}
  <2> SUFFICES ASSUME 1..k \subseteq S PROVE FALSE
    OBVIOUS
  <2>1. Cardinality(1..k) <= Cardinality(S)
    BY FS_Subset
  <2> QED BY <2>1, <1>1, <1>2
<1>4. PICK m \in Unused : \A n \in Unused : m <= n
  <2>1. Unused \subseteq Nat
    BY <1>1
  <2> HIDE DEF Unused
  <2> QED BY <2>1, <1>3, LeastElement
<1>5. m \in 1..k /\ m \notin S /\ 1..(m - 1) \subseteq S
  BY <1>1, <1>4
<1>6. nextFreeSlot(S) \in 1..k /\ nextFreeSlot(S) \notin S
  <2> HIDE DEF Unused
  <2> QED BY <1>5 DEF nextFreeSlot
<1> QED BY <1>1, <1>6

(* The values of a slot map are finitely many.                             *)
LEMMA SlotsFinite ==
  ASSUME NEW m, m \in [Fs -> Nat]
  PROVE  IsFiniteSet({m[f] : f \in Fs})
<1> DEFINE T == {m[f] : f \in Fs}
<1>1. m \in Surjection(Fs, T)
  BY DEF Surjection
<1>2. IsFiniteSet(Fs)
  BY FS_Interval, MaxFsAssumption DEF Fs
<1> HIDE DEF T
<1>3. IsFiniteSet(T)
  BY <1>1, <1>2, FS_Surjection
<1> QED BY <1>3 DEF T

(* The slot a run chooses is positive, no mounted filesystem it knows of   *)
(* is there, and it is the persisted slot or nobody's.                     *)
LEMMA SlotChosen ==
  ASSUME NEW p \in Procs, NEW f \in Fs,
         pers[p] \in [Fs -> Nat], mapping[p] \in [Fs -> Nat]
  PROVE  /\ SlotFor(p, f) \in Nat \ {0}
         /\ \A g \in Fs : mapping[p][g] # SlotFor(p, f)
         /\ \A g \in Fs : pers[p][g] = SlotFor(p, f)
                             => pers[p][f] = SlotFor(p, f)
<1>1. IsFiniteSet(UsedSlots(p))
  <2>1. IsFiniteSet(Occupied(p)) /\ IsFiniteSet({pers[p][g] : g \in Fs} \ {0})
    BY SlotsFinite, FS_Difference DEF Occupied
  <2> QED BY <2>1, FS_Union DEF UsedSlots
<1>2. CASE pers[p][f] \notin Occupied(p) \cup {0}
  BY <1>2 DEF SlotFor, Occupied
<1>3. CASE pers[p][f] \in Occupied(p) \cup {0}
  <2> DEFINE s == nextFreeSlot(UsedSlots(p))
  <2>1. SlotFor(p, f) = s
    BY <1>3 DEF SlotFor
  <2>2. s \in Nat \ {0} /\ s \notin UsedSlots(p)
    BY <1>1, FreeSlot
  <2> HIDE DEF s
  <2>3. \A g \in Fs : mapping[p][g] # s /\ pers[p][g] # s
    BY <2>2 DEF UsedSlots, Occupied
  <2> QED BY <2>1, <2>2, <2>3
<1> QED BY <1>2, <1>3

-----------------------------------------------------------------------------
(* Each action keeps the types.                                            *)

(* The slot of the next mount is a slot.                                   *)
LEMMA NextSlotTyped ==
  ASSUME TypeOK, NEW p \in Procs, todo[p] # {}
  PROVE  /\ Next1(todo[p]) \in Fs
         /\ SlotFor(p, Next1(todo[p])) \in Nat
         /\ mapping[p][Next1(todo[p])] \in Nat
<1>1. todo[p] \subseteq Fs /\ mapping[p] \in [Fs -> Nat] /\ pers[p] \in [Fs -> Nat]
  BY DEF TypeOK
<1>2. Next1(todo[p]) \in Fs
  BY <1>1, FirstOfScan
<1> QED BY <1>1, <1>2, SlotChosen

(* Leaving a run or a format request keeps the types.                      *)
LEMMA FinishTyped ==
  ASSUME TypeOK, NEW p \in Procs, Finish(p),
         UNCHANGED <<devices, mounts, history>>, persisted' \in [Fs -> Nat]
  PROVE  TypeOK'
<1> USE DEF TypeOK, Finish, Release, devices, mounts, history, NoSlots
<1>1. /\ pc' \in [Procs -> {"idle", "begin"} \cup RunPoints \cup FormatPoints]
      /\ pers' \in [Procs -> [Fs -> Nat]]
      /\ todo' \in [Procs -> SUBSET Fs]
      /\ mapping' \in [Procs -> [Fs -> Nat]]
      /\ target' \in [Procs -> Disks \cup {None}]
  OBVIOUS
<1>2. count' \in Int
  OBVIOUS
<1>3. monitoring' \in BOOLEAN /\ trigger' \in BOOLEAN /\ timer' \in BOOLEAN
  BY Zenon
<1> QED BY <1>1, <1>2, <1>3

(* Marking runs as overtaken keeps the type of stale.                      *)
LEMMA OvertakeTyped ==
  ASSUME TypeOK, NEW p, Overtake(p)
  PROVE  stale' \in [Procs -> BOOLEAN]
BY Zenon DEF TypeOK, Overtake

(* An event keeps the types of the udev variables.                         *)
LEMMA EventTyped ==
  ASSUME TypeOK, Event
  PROVE  {monitoring, trigger, timer}' \subseteq BOOLEAN
<1>1. monitoring \in BOOLEAN /\ trigger \in BOOLEAN /\ timer \in BOOLEAN
  BY DEF TypeOK
<1>2. monitoring' \in BOOLEAN /\ trigger' \in BOOLEAN /\ timer' \in BOOLEAN
  BY <1>1, Zenon DEF Event
<1> QED BY <1>2

(* The steps of a run keep the types.                                      *)
LEMMA RunTyped ==
  ASSUME TypeOK, NEW p \in Procs, Run(p)
  PROVE  TypeOK'
<1>1. CASE RunBegin(p)
  <2>1. PICK found \in {persisted, NoSlots} :
          /\ pers' = [pers EXCEPT ![p] = found]
          /\ stale' = [stale EXCEPT ![p] = found # persisted]
    BY <1>1 DEF RunBegin
  <2>2. found \in [Fs -> Nat]
    BY DEF NoSlots, TypeOK
  <2>3. pers' \in [Procs -> [Fs -> Nat]]
    BY <2>1, <2>2 DEF TypeOK
  <2>4. stale' \in [Procs -> BOOLEAN]
    BY <2>1 DEF TypeOK
  <2> QED BY <1>1, <2>3, <2>4
          DEF RunBegin, Goto, TypeOK, devices, mounts, udev, RunPoints
<1>2. CASE RunInhibited(p)
  BY <1>2, FinishTyped DEF RunInhibited, TypeOK
<1>3. CASE RunScan(p)
  <2>1. PICK at \in [Fs -> {0} \cup UNION {where[f] : f \in Fs}] :
          mapping' = [mapping EXCEPT ![p] = at]
    BY <1>3 DEF RunScan
  <2>2. at \in [Fs -> Nat]
    BY DEF TypeOK
  <2>3. mapping' \in [Procs -> [Fs -> Nat]]
    BY <2>1, <2>2 DEF TypeOK
  <2>4. todo' \in [Procs -> SUBSET Fs]
    BY <1>3 DEF RunScan, TypeOK
  <2> QED BY <1>3, <2>3, <2>4
          DEF RunScan, Goto, TypeOK, devices, mounts, udev, history, RunPoints
<1>4. CASE RunScanFails(p)
  BY <1>4, FinishTyped DEF RunScanFails, TypeOK
<1>5. CASE RunClear(p)
  <2> DEFINE f == Next1(todo[p])
             s == SlotFor(p, f)
  <2>1. f \in Fs /\ s \in Nat
    BY <1>5, NextSlotTyped DEF RunClear
  <2>2. /\ mapping' = [mapping EXCEPT ![p][f] = s]
        /\ where' = [g \in Fs |-> where[g] \ {s}]
        /\ dead' = dead \ {s}
    BY <1>5 DEF RunClear, Cleared
  <2> HIDE DEF f, s
  <2>3. /\ mapping' \in [Procs -> [Fs -> Nat]]
        /\ where' \in [Fs -> SUBSET Nat]
        /\ dead' \in SUBSET Nat
    BY <2>1, <2>2 DEF TypeOK
  <2>4. stale' \in [Procs -> BOOLEAN]
    BY <1>5, OvertakeTyped DEF RunClear, TypeOK
  <2> QED BY <1>5, <2>3, <2>4 DEF RunClear, Goto, TypeOK, devices, udev, RunPoints
<1>6. CASE RunClearFails(p)
  <2> DEFINE f == Next1(todo[p])
             s == SlotFor(p, f)
  <2>1. f \in Fs /\ s \in Nat
    BY <1>6, NextSlotTyped DEF RunClearFails
  <2>2. PICK kept \in SUBSET Fs :
          where' = [g \in Fs |-> IF g \in kept THEN where[g] ELSE where[g] \ {s}]
    BY <1>6 DEF RunClearFails
  <2>3. /\ mapping' = [mapping EXCEPT ![p][f] = s]
        /\ todo' = [todo EXCEPT ![p] = @ \ {f}]
        /\ dead' \in {dead, dead \ {s}}
    BY <1>6 DEF RunClearFails
  <2> HIDE DEF f, s
  <2>4. /\ mapping' \in [Procs -> [Fs -> Nat]]
        /\ todo' \in [Procs -> SUBSET Fs]
        /\ where' \in [Fs -> SUBSET Nat]
        /\ dead' \in SUBSET Nat
    BY <2>1, <2>2, <2>3 DEF TypeOK
  <2>5. stale' \in [Procs -> BOOLEAN]
    BY <1>6, OvertakeTyped DEF RunClearFails, TypeOK
  <2> QED BY <1>6, <2>4, <2>5 DEF RunClearFails, TypeOK, devices, udev
<1>7. CASE RunMount(p)
  <2> DEFINE f == Next1(todo[p])
  <2>1. /\ where' = [where EXCEPT ![f] = @ \cup {mapping[p][f]}]
        /\ todo' = [todo EXCEPT ![p] = @ \ {f}]
        /\ hot' \subseteq hot
    BY <1>7 DEF RunMount, Mounted
  <2>2. f \in Fs => mapping[p][f] \in Nat
    BY DEF TypeOK
  <2> HIDE DEF f
  <2>3. /\ todo' \in [Procs -> SUBSET Fs]
        /\ where' \in [Fs -> SUBSET Nat]
        /\ hot' \in SUBSET Disks
    BY <2>1, <2>2 DEF TypeOK
  <2>4. stale' \in [Procs -> BOOLEAN]
    BY <1>7, OvertakeTyped DEF RunMount
  <2> QED BY <1>7, <2>3, <2>4 DEF RunMount, Goto, TypeOK, devices, udev, RunPoints
<1>8. CASE RunMountFails(p)
  <2>1. todo' \in [Procs -> SUBSET Fs]
    BY <1>8 DEF RunMountFails, TypeOK
  <2> QED BY <1>8, <2>1
          DEF RunMountFails, Goto, TypeOK, devices, mounts, udev, history, RunPoints
<1>9. CASE RunStore(p)
  <2>1. persisted' \in [Fs -> Nat]
    BY <1>9 DEF RunStore, Merged, TypeOK
  <2>2. stale' \in [Procs -> BOOLEAN]
    BY <1>9, OvertakeTyped DEF RunStore
  <2>3. /\ pc' \in [Procs -> {"idle", "begin"} \cup RunPoints \cup FormatPoints]
        /\ pers' \in [Procs -> [Fs -> Nat]]
        /\ todo' \in [Procs -> SUBSET Fs]
        /\ mapping' \in [Procs -> [Fs -> Nat]]
        /\ target' \in [Procs -> Disks \cup {None}]
        /\ count' \in Int
    BY <1>9 DEF RunStore, Finish, Release, TypeOK, NoSlots
  <2>4. monitoring' \in BOOLEAN /\ trigger' \in BOOLEAN /\ timer' \in BOOLEAN
    BY <1>9, Zenon DEF RunStore, Finish, TypeOK
  <2> QED BY <1>9, <2>1, <2>2, <2>3, <2>4 DEF RunStore, TypeOK, devices, mounts
<1>10. CASE RunStoreFails(p)
  BY <1>10, FinishTyped DEF RunStoreFails, TypeOK
<1> QED BY <1>1, <1>2, <1>3, <1>4, <1>5, <1>6, <1>7, <1>8, <1>9, <1>10 DEF Run

(* The steps of a format request keep the types.                           *)
LEMMA FormatTyped ==
  ASSUME TypeOK, NEW p \in Procs, Format(p)
  PROVE  TypeOK'
<1> USE DEF TypeOK, Goto, devices, mounts, udev, locals, history, FormatPoints
<1>1. CASE \E d \in Disks : FormatStart(p, d)
  BY <1>1 DEF FormatStart
<1>2. CASE FormatUnmount(p)
  <2>1. where' \in [Fs -> SUBSET Nat]
    BY <1>2 DEF FormatUnmount
  <2>2. stale' \in [Procs -> BOOLEAN]
    BY <1>2, OvertakeTyped DEF FormatUnmount
  <2> QED BY <1>2, <2>1, <2>2 DEF FormatUnmount
<1>3. CASE FormatNotMounted(p)
  BY <1>3 DEF FormatNotMounted
<1>4. CASE FormatWipe(p)
  <2>1. disk' \in [Disks -> Fs \cup {None}]
    BY <1>4 DEF FormatWipe
  <2>2. {monitoring, trigger, timer}' \subseteq BOOLEAN
    BY <1>4, EventTyped DEF FormatWipe
  <2> QED BY <1>4, <2>1, <2>2 DEF FormatWipe
<1>5. CASE FormatMkfs(p)
  <2>1. disk' \in [Disks -> Fs \cup {None}] /\ made' \in SUBSET Fs
    BY <1>5 DEF FormatMkfs
  <2>2. {monitoring, trigger, timer}' \subseteq BOOLEAN
    BY <1>5, EventTyped DEF FormatMkfs
  <2> QED BY <1>5, <2>1, <2>2 DEF FormatMkfs
<1>6. CASE FormatFails(p)
  BY <1>6, FinishTyped DEF FormatFails
<1>7. CASE FormatRelease(p)
  BY <1>7 DEF FormatRelease
<1> QED BY <1>1, <1>2, <1>3, <1>4, <1>5, <1>6, <1>7 DEF Format

(* The steps of the watcher's debouncer keep the types.                    *)
LEMMA WatchTyped ==
  ASSUME TypeOK, Watch
  PROVE  TypeOK'
BY DEF Watch, TriggerReceived, TimerFires, TypeOK, Goto, devices, mounts, locals,
       history, Procs

(* What happens to disks and mounts outside PlainNAS keeps the types.      *)
LEMMA OutsideTyped ==
  ASSUME TypeOK, Outside
  PROVE  TypeOK'
<1> USE DEF TypeOK, devices, mounts, udev, locals, history
<1>1. CASE \E d \in Disks : Plug(d)
  <2>1. {monitoring, trigger, timer}' \subseteq BOOLEAN
    BY <1>1, EventTyped DEF Plug
  <2> QED BY <1>1, <2>1 DEF Plug
<1>2. CASE \E d \in Disks : Unplug(d)
  <2>1. PICK d \in Disks : Unplug(d)
    BY <1>2
  <2>2. {monitoring, trigger, timer}' \subseteq BOOLEAN
    BY <2>1, EventTyped DEF Unplug
  <2>3. where' \in [Fs -> SUBSET Nat]
    BY <2>1 DEF Unplug
  <2>4. MountedOn(d) \subseteq Nat
    BY DEF MountedOn
  <2>5. dead' \in SUBSET Nat /\ hot' \in SUBSET Disks /\ plugged' \in SUBSET Disks
    BY <2>1, <2>4 DEF Unplug
  <2> QED BY <2>1, <2>2, <2>3, <2>5 DEF Unplug
<1>3. CASE \E f \in Fs : \E s \in ManualSlots \cup {Elsewhere} : AdminMount(f, s)
  <2>1. PICK f \in Fs, s \in ManualSlots \cup {Elsewhere} : AdminMount(f, s)
    BY <1>3
  <2>2. s \in Nat
    BY ManualAssumption DEF Elsewhere
  <2>3. where' \in [Fs -> SUBSET Nat] /\ hot' \in SUBSET Disks
    BY <2>1, <2>2 DEF AdminMount, Mounted
  <2>4. stale' \in [Procs -> BOOLEAN]
    BY <2>1, OvertakeTyped DEF AdminMount
  <2> QED BY <2>1, <2>3, <2>4 DEF AdminMount
<1>4. CASE \E f \in Fs : \E s \in where[f] : AdminUnmount(f, s)
  <2>0. PICK f \in Fs : \E s \in where[f] : AdminUnmount(f, s)
    BY <1>4
  <2>1. PICK s \in where[f] : AdminUnmount(f, s)
    BY <2>0
  <2>2. where' \in [Fs -> SUBSET Nat]
    BY <2>1 DEF AdminUnmount
  <2>3. stale' \in [Procs -> BOOLEAN]
    BY <2>1, OvertakeTyped DEF AdminUnmount
  <2> QED BY <2>1, <2>2, <2>3 DEF AdminUnmount
<1> QED BY <1>1, <1>2, <1>3, <1>4 DEF Outside

(* Every variable keeps its type, the locals of runs and format requests   *)
(* included.                                                               *)
THEOREM TypeCorrect == Spec => []TypeOK
<1>1. Init => TypeOK
  <2> SUFFICES ASSUME Init PROVE TypeOK
    OBVIOUS
  <2>1. where \in [Fs -> SUBSET Nat] /\ dead \in SUBSET Nat /\ made \in SUBSET Fs
    BY DEF Init
  <2>2. /\ pc \in [Procs -> {"idle", "begin"} \cup RunPoints \cup FormatPoints]
        /\ target \in [Procs -> Disks \cup {None}]
        /\ stale \in [Procs -> BOOLEAN]
        /\ todo \in [Procs -> SUBSET Fs]
    BY DEF Init
  <2>3. /\ persisted \in [Fs -> Nat]
        /\ pers \in [Procs -> [Fs -> Nat]]
        /\ mapping \in [Procs -> [Fs -> Nat]]
    BY DEF Init, NoSlots
  <2>4. count \in Int /\ hot \in SUBSET Disks
    BY DEF Init
  <2>5. {monitoring, trigger, timer} \subseteq BOOLEAN
    BY DEF Init
  <2> QED BY <2>1, <2>2, <2>3, <2>4, <2>5 DEF Init, TypeOK
<1>2. TypeOK /\ [Next]_vars => TypeOK'
  <2> SUFFICES ASSUME TypeOK, [Next]_vars PROVE TypeOK'
    OBVIOUS
  <2>1. CASE \E p \in Procs : Run(p)
    BY <2>1, RunTyped
  <2>2. CASE \E p \in Formatters : Format(p)
    BY <2>2, FormatTyped DEF Procs
  <2>3. CASE Watch
    BY <2>3, WatchTyped
  <2>4. CASE Outside
    BY <2>4, OutsideTyped
  <2>5. CASE Restart
    <3>1. /\ pers' \in [Procs -> [Fs -> Nat]]
          /\ mapping' \in [Procs -> [Fs -> Nat]]
      BY <2>5 DEF Restart, NoSlots
    <3>2. /\ pc' \in [Procs -> {"idle", "begin"} \cup RunPoints \cup FormatPoints]
          /\ todo' \in [Procs -> SUBSET Fs]
          /\ target' \in [Procs -> Disks \cup {None}]
          /\ stale' \in [Procs -> BOOLEAN]
      BY <2>5 DEF Restart
    <3>3. monitoring' \in BOOLEAN /\ trigger' \in BOOLEAN /\ timer' \in BOOLEAN
      BY <2>5, Zenon DEF Restart
    <3>4. count' \in Int
      BY <2>5 DEF Restart
    <3> QED BY <2>5, <3>1, <3>2, <3>3, <3>4 DEF Restart, TypeOK, devices, mounts
  <2>6. CASE UNCHANGED vars
    BY <2>6 DEF vars, TypeOK
  <2> QED BY <2>1, <2>2, <2>3, <2>4, <2>5, <2>6 DEF Next
<1> QED BY <1>1, <1>2, PTL DEF Spec

(***************************************************************************)
(* A run of EnsureMountedUSBVolumes that was not overtaken evicts nothing, *)
(* stacks nothing and steals no reserved slot, for any number of disks,    *)
(* filesystems and format requests, with failures and restarts.            *)
(***************************************************************************)
(* Mounted filesystems stay on connected disks.                            *)
LEMMA MountsPresentStep ==
  ASSUME TypeOK, MountsPresent, [Next]_vars
  PROVE  MountsPresent'
<1> USE DEF MountsPresent, Present
<1>1. ASSUME NEW p \in Procs, Run(p) PROVE MountsPresent'
  <2>1. /\ UNCHANGED <<plugged, disk>>
        /\ \/ \A f \in Fs : where'[f] \subseteq where[f]
           \/ RunMount(p)
    <3>1. CASE RunClear(p)
      BY <3>1 DEF RunClear, Cleared, devices
    <3>2. CASE RunClearFails(p)
      BY <3>2 DEF RunClearFails, devices
    <3>3. CASE RunMount(p)
      BY <3>3 DEF RunMount, devices
    <3>4. CASE UNCHANGED <<devices, mounts>>
      BY <3>4 DEF devices, mounts
    <3> QED BY <1>1, <3>1, <3>2, <3>3, <3>4 DEF Run, RunBegin, RunInhibited, RunScan,
             RunScanFails, RunMountFails, RunStore, RunStoreFails
  <2>2. CASE \A f \in Fs : where'[f] \subseteq where[f]
    BY <2>1, <2>2
  <2>3. CASE RunMount(p)
    <3> DEFINE f == Next1(todo[p])
    <3>1. /\ \E d \in plugged : disk[d] = f
          /\ where' = [where EXCEPT ![f] = @ \cup {mapping[p][f]}]
      BY <2>3 DEF RunMount, Mountable
    <3> HIDE DEF f
    <3> QED BY <2>1, <3>1 DEF TypeOK
  <2> QED BY <2>1, <2>2, <2>3
<1>2. ASSUME NEW p \in Formatters, Format(p) PROVE MountsPresent'
  <2>1. CASE FormatUnmount(p)
    <3>1. \A f \in Fs : where'[f] \subseteq where[f]
      BY <2>1 DEF FormatUnmount, TypeOK
    <3> QED BY <2>1, <3>1 DEF FormatUnmount, devices
  <2>2. CASE FormatWipe(p) \/ FormatMkfs(p)
    <3>1. /\ UNCHANGED <<plugged, where>>
          /\ MountedOn(target[p]) = {}
          /\ \E c : disk' = [disk EXCEPT ![target[p]] = c]
      BY <2>2 DEF FormatWipe, FormatMkfs, mounts
    <3>2. ASSUME NEW f \in Fs, where'[f] # {} PROVE \E d \in plugged' : disk'[d] = f
      <4>1. PICK d \in plugged : disk[d] = f
        BY <3>1, <3>2
      <4>2. f # None
        BY NoneAssumption
      <4>3. d # target[p]
        BY <3>1, <3>2, <4>1, <4>2 DEF MountedOn
      <4> QED BY <3>1, <4>1, <4>3 DEF TypeOK
    <3> QED BY <3>2
  <2>3. CASE UNCHANGED <<devices, mounts>>
    BY <2>3 DEF devices, mounts
  <2> QED BY <1>2, <2>1, <2>2, <2>3 DEF Format, FormatStart, FormatNotMounted,
           FormatFails, FormatRelease
<1>3. CASE Outside
  <2>1. CASE \E d \in Disks : Plug(d)
    BY <2>1 DEF Plug, mounts
  <2>2. CASE \E d \in Disks : Unplug(d)
    BY <2>2 DEF Unplug, TypeOK
  <2>3. CASE \E f \in Fs : \E s \in ManualSlots \cup {Elsewhere} : AdminMount(f, s)
    <3>1. PICK f \in Fs, s \in ManualSlots \cup {Elsewhere} : AdminMount(f, s)
      BY <2>3
    <3> QED BY <3>1 DEF AdminMount, devices, TypeOK
  <2>4. CASE \E f \in Fs : \E s \in where[f] : AdminUnmount(f, s)
    <3>1. PICK f \in Fs : \E s \in where[f] : AdminUnmount(f, s)
      BY <2>4
    <3>2. \A g \in Fs : where'[g] \subseteq where[g]
      BY <3>1 DEF AdminUnmount, TypeOK
    <3> QED BY <3>1, <3>2 DEF AdminUnmount, devices
  <2> QED BY <1>3, <2>1, <2>2, <2>3, <2>4 DEF Outside
<1>4. CASE Watch \/ Restart \/ UNCHANGED vars
  BY <1>4 DEF Watch, TriggerReceived, TimerFires, Restart, vars, devices, mounts
<1> QED BY <1>1, <1>2, <1>3, <1>4 DEF Next

(* A process outside a run knows nothing that could be wrong.              *)
LEMMA NotRunning ==
  ASSUME NEW q \in Procs, pc'[q] \notin RunPoints
  PROVE  Informed(q)'
BY DEF Informed, SlotsKnown, MountsKnown, SlotReady, Running, Planning, RunPoints

(* What a run knows survives the steps of others that take its mounts away *)
(* or mark it as overtaken.                                                *)
LEMMA Unaffected ==
  ASSUME NEW q \in Procs, Informed(q),
         UNCHANGED <<pc[q], pers[q], todo[q], mapping[q]>>,
         \/ pc[q] \notin RunPoints
         \/ stale'[q]
         \/ /\ stale'[q] = stale[q]
            /\ persisted' = persisted
            /\ \A f \in Fs : where'[f] \in {where[f], {}}
            /\ \A s \in dead' : s \in dead \/ \E g \in Fs : s \in where[g]
  PROVE  Informed(q)'
<1>1. CASE pc[q] \notin RunPoints
  BY <1>1, NotRunning
<1>2. CASE stale'[q]
  BY <1>2 DEF Informed
<1>3. CASE /\ ~stale'[q]
           /\ stale'[q] = stale[q]
           /\ persisted' = persisted
           /\ \A f \in Fs : where'[f] \in {where[f], {}}
           /\ \A s \in dead' : s \in dead \/ \E g \in Fs : s \in where[g]
  <2>1. SlotsKnown(q)'
    BY <1>3 DEF Informed, SlotsKnown, Running
  <2>2. MountsKnown(q)'
    BY <1>3 DEF Informed, MountsKnown, Planning
  <2>3. SlotReady(q)'
    BY <1>3 DEF Informed, SlotReady, NextSlot, NextFs
  <2> QED BY <2>1, <2>2, <2>3 DEF Informed
<1> QED BY <1>1, <1>2, <1>3

(* A step of p that overtakes the others leaves them marked or idle.       *)
LEMMA OvertakenOrIdle ==
  ASSUME NEW p, Overtake(p), NEW q \in Procs, q # p
  PROVE  pc[q] \notin RunPoints \/ stale'[q]
BY DEF Overtake

-----------------------------------------------------------------------------
(* The steps of a run leave it informed.                                   *)

(* After the scan the run knows every mount.                               *)
LEMMA ScanInforms ==
  ASSUME TypeOK, MountsPresent, NEW p \in Procs, Informed(p), RunScan(p)
  PROVE  Informed(p)'
<1>1. /\ pc[p] = "scan" /\ pc'[p] = "plan"
      /\ UNCHANGED <<where, persisted, pers, stale>>
      /\ todo'[p] = {f \in Fs : Present(f) /\ where[f] = {}}
  BY DEF RunScan, Goto, mounts, history, TypeOK
<1>2. \A f \in Fs : Present(f) /\ where[f] # {} => mapping'[p][f] \in where[f]
  BY DEF RunScan, TypeOK
<1>3. SlotsKnown(p)' \/ stale'[p]
  BY <1>1 DEF Informed, SlotsKnown, Running, RunPoints
<1>4. MountsKnown(p)'
  BY <1>1, <1>2 DEF MountsKnown, MountsPresent
<1> QED BY <1>1, <1>3, <1>4 DEF Informed, SlotReady

(* Choosing and clearing a slot hits none of the mounts the run knows and  *)
(* leaves the slot ready.                                                  *)
LEMMA ClearInforms ==
  ASSUME TypeOK, NEW p \in Procs, Informed(p), RunClear(p)
  PROVE  Informed(p)'
<1> DEFINE f == Next1(todo[p])
           s == SlotFor(p, f)
<1>1. /\ pc[p] = "plan" /\ pc'[p] = "mount" /\ todo[p] # {}
      /\ mapping' = [mapping EXCEPT ![p][f] = s]
      /\ where' = [g \in Fs |-> where[g] \ {s}]
      /\ dead' = dead \ {s}
      /\ UNCHANGED <<persisted, pers, todo>>
  BY DEF RunClear, Goto, Cleared, TypeOK
<1>2. stale'[p] = stale[p]
  BY DEF RunClear, Overtake, TypeOK
<1>3. f \in Fs /\ f \in todo[p]
  BY <1>1, FirstOfScan DEF TypeOK
<1>4. /\ \A g \in Fs : mapping[p][g] # s
      /\ \A g \in Fs : pers[p][g] = s => pers[p][f] = s
  BY <1>3, SlotChosen DEF TypeOK
<1>5. NextFs(p)' = f
  BY <1>1 DEF NextFs
<1> HIDE DEF f, s
<1>6. /\ mapping'[p][f] = s
      /\ \A g \in Fs : g # f => mapping'[p][g] = mapping[p][g]
  BY <1>1, <1>3 DEF TypeOK
<1>7. NextSlot(p)' = s
  BY <1>5, <1>6 DEF NextSlot
<1>8. ASSUME ~stale'[p] PROVE SlotsKnown(p)' /\ MountsKnown(p)' /\ SlotReady(p)'
  <2>1. pers[p] = persisted
    BY <1>1, <1>2, <1>8 DEF Informed, SlotsKnown, Running, RunPoints
  <2>2. \A g \in Fs : /\ where[g] # {} => mapping[p][g] \in where[g]
                      /\ g \in todo[p] => where[g] = {}
    BY <1>1, <1>2, <1>8 DEF Informed, MountsKnown, Planning
  <2>3. SlotsKnown(p)'
    BY <1>1, <2>1 DEF SlotsKnown
  <2>4. MountsKnown(p)'
    BY <1>1, <1>3, <1>4, <1>6, <2>2 DEF MountsKnown
  <2>5. SlotReady(p)'
    BY <1>1, <1>4, <1>5, <1>7, <2>1 DEF SlotReady
  <2> QED BY <2>3, <2>4, <2>5
<1> QED BY <1>1, <1>8 DEF Informed

(* Neither does clearing a slot in part.                                   *)
LEMMA ClearFailsInforms ==
  ASSUME TypeOK, NEW p \in Procs, Informed(p), RunClearFails(p)
  PROVE  Informed(p)'
<1> DEFINE f == Next1(todo[p])
           s == SlotFor(p, f)
<1>1. /\ pc[p] = "plan" /\ pc' = pc /\ todo[p] # {}
      /\ mapping' = [mapping EXCEPT ![p][f] = s]
      /\ todo' = [todo EXCEPT ![p] = @ \ {f}]
      /\ UNCHANGED <<persisted, pers>>
  BY DEF RunClearFails
<1>2. stale'[p] = stale[p]
  BY DEF RunClearFails, Overtake, TypeOK
<1>3. f \in Fs /\ f \in todo[p]
  BY <1>1, FirstOfScan DEF TypeOK
<1>4. \A g \in Fs : mapping[p][g] # s
  BY <1>3, SlotChosen DEF TypeOK
<1>5. \A g \in Fs : where'[g] \in {where[g], where[g] \ {s}}
  BY DEF RunClearFails
<1> HIDE DEF f, s
<1>6. /\ \A g \in Fs : g # f => mapping'[p][g] = mapping[p][g]
      /\ todo'[p] \subseteq todo[p]
  BY <1>1, <1>3 DEF TypeOK
<1>7. ASSUME ~stale'[p] PROVE SlotsKnown(p)' /\ MountsKnown(p)'
  <2>1. pers[p] = persisted
    BY <1>1, <1>2, <1>7 DEF Informed, SlotsKnown, Running, RunPoints
  <2>2. \A g \in Fs : /\ where[g] # {} => mapping[p][g] \in where[g]
                      /\ g \in todo[p] => where[g] = {}
    BY <1>1, <1>2, <1>7 DEF Informed, MountsKnown, Planning
  <2>3. SlotsKnown(p)'
    BY <1>1, <2>1 DEF SlotsKnown
  <2>4. \A g \in Fs : /\ where'[g] # {} => mapping'[p][g] \in where'[g]
                      /\ g \in todo'[p] => where'[g] = {}
    BY <1>3, <1>4, <1>5, <1>6, <2>2
  <2> QED BY <2>3, <2>4 DEF MountsKnown
<1> QED BY <1>1, <1>7 DEF Informed, SlotReady

(* After the mount command, whether it worked or not, the run knows where  *)
(* the filesystem is.                                                      *)
LEMMA MountInforms ==
  ASSUME TypeOK, NEW p \in Procs, Informed(p), RunMount(p) \/ RunMountFails(p)
  PROVE  Informed(p)'
<1> DEFINE f == Next1(todo[p])
<1>1. /\ pc[p] = "mount" /\ pc'[p] = "plan"
      /\ todo' = [todo EXCEPT ![p] = @ \ {f}]
      /\ \/ where' = where
         \/ where' = [where EXCEPT ![f] = @ \cup {mapping[p][f]}]
      /\ UNCHANGED <<persisted, pers, mapping>>
  BY DEF RunMount, RunMountFails, Goto, mounts, TypeOK
<1>2. stale'[p] = stale[p]
  BY DEF RunMount, RunMountFails, Overtake, history, TypeOK
<1> HIDE DEF f
<1>3. ASSUME ~stale'[p] PROVE SlotsKnown(p)' /\ MountsKnown(p)'
  <2>1. pers[p] = persisted
    BY <1>1, <1>2, <1>3 DEF Informed, SlotsKnown, Running, RunPoints
  <2>2. \A g \in Fs : /\ where[g] # {} => mapping[p][g] \in where[g]
                      /\ g \in todo[p] => where[g] = {}
    BY <1>1, <1>2, <1>3 DEF Informed, MountsKnown, Planning
  <2>3. SlotsKnown(p)'
    BY <1>1, <2>1 DEF SlotsKnown
  <2>4. \A g \in Fs : /\ where'[g] # {} => mapping'[p][g] \in where'[g]
                      /\ g \in todo'[p] => where'[g] = {}
    BY <1>1, <2>2 DEF TypeOK
  <2> QED BY <2>3, <2>4 DEF MountsKnown
<1> QED BY <1>1, <1>3 DEF Informed, SlotReady

(* A step of a run leaves every process informed.                          *)
LEMMA RunKeepsInformed ==
  ASSUME TypeOK, MountsPresent, RunsInformed, NEW p \in Procs, Run(p),
         NEW q \in Procs
  PROVE  Informed(q)'
<1>1. Informed(p) /\ Informed(q)
  BY DEF RunsInformed
<1>2. CASE q = p
  <2>1. CASE RunBegin(p)
    <3>1. pc'[p] = "scan" /\ (pers'[p] = persisted' \/ stale'[p])
      BY <2>1 DEF RunBegin, Goto, TypeOK
    <3> QED BY <1>2, <3>1 DEF Informed, SlotsKnown, MountsKnown, SlotReady, Planning
  <2>2. CASE Finish(p)
    BY <1>2, <2>2, NotRunning DEF Finish, TypeOK, RunPoints
  <2> QED BY <1>1, <1>2, <2>1, <2>2, ScanInforms, ClearInforms, ClearFailsInforms,
             MountInforms
          DEF Run, RunInhibited, RunScanFails, RunStore, RunStoreFails
<1>3. CASE q # p
  <2>1. UNCHANGED <<pc[q], pers[q], todo[q], mapping[q]>>
    BY <1>3 DEF Run, RunBegin, RunInhibited, RunScan, RunScanFails, RunClear,
                RunClearFails, RunMount, RunMountFails, RunStore, RunStoreFails,
                Goto, Finish, TypeOK
  <2>2. CASE Overtake(p)
    BY <1>1, <1>3, <2>1, <2>2, OvertakenOrIdle, Unaffected
  <2>3. CASE /\ stale'[q] = stale[q]
             /\ UNCHANGED <<persisted, where>>
             /\ dead' \subseteq dead
    BY <1>1, <2>1, <2>3, Unaffected
  <2>4. \/ Overtake(p)
        \/ /\ stale'[q] = stale[q]
           /\ UNCHANGED <<persisted, where>>
           /\ dead' \subseteq dead
    BY <1>3 DEF Run, RunBegin, RunInhibited, RunScan, RunScanFails, RunClear, Cleared,
                RunClearFails, RunMount, RunMountFails, RunStore, RunStoreFails,
                mounts, history, TypeOK
  <2> QED BY <2>2, <2>3, <2>4
<1> QED BY <1>2, <1>3

(* So does a step of a format request,                                     *)
LEMMA FormatKeepsInformed ==
  ASSUME TypeOK, RunsInformed, NEW p \in Formatters, Format(p), NEW q \in Procs
  PROVE  Informed(q)'
<1>1. Informed(q) /\ p \in Procs
  BY DEF RunsInformed, Procs
<1>2. CASE q = p
  <2>1. pc'[p] \notin RunPoints
    BY <1>1 DEF Format, FormatStart, FormatUnmount, FormatNotMounted, FormatWipe,
             FormatMkfs, FormatFails, FormatRelease, Finish, Goto, TypeOK, RunPoints
  <2> QED BY <1>2, <2>1, NotRunning
<1>3. CASE q # p
  <2>1. UNCHANGED <<pc[q], pers[q], todo[q], mapping[q]>>
    BY <1>1, <1>3
       DEF Format, FormatStart, FormatUnmount, FormatNotMounted, FormatWipe,
           FormatMkfs, FormatFails, FormatRelease, Finish, Goto, TypeOK, locals
  <2>2. CASE Overtake(p)
    BY <1>1, <1>3, <2>1, <2>2, OvertakenOrIdle, Unaffected
  <2>3. CASE UNCHANGED <<stale, persisted, where, dead>>
    BY <1>1, <2>1, <2>3, Unaffected
  <2>4. Overtake(p) \/ UNCHANGED <<stale, persisted, where, dead>>
    BY DEF Format, FormatStart, FormatUnmount, FormatNotMounted, FormatWipe,
           FormatMkfs, FormatFails, FormatRelease, mounts, history
  <2> QED BY <2>2, <2>3, <2>4
<1> QED BY <1>2, <1>3

(* and so does everything else.                                            *)
LEMMA RestKeepsInformed ==
  ASSUME TypeOK, RunsInformed, Watch \/ Outside \/ Restart \/ UNCHANGED vars,
         NEW q \in Procs
  PROVE  Informed(q)'
<1>1. Informed(q)
  BY DEF RunsInformed
<1>2. CASE Watch
  <2>1. CASE q = Watcher
    BY <1>2, <2>1, NotRunning
       DEF Watch, TriggerReceived, TimerFires, Goto, TypeOK, RunPoints
  <2>2. CASE q # Watcher
    BY <1>1, <1>2, <2>2, Unaffected
       DEF Watch, TriggerReceived, TimerFires, Goto, TypeOK, locals, history, mounts
  <2> QED BY <2>1, <2>2
<1>3. CASE Restart
  BY <1>3, NotRunning DEF Restart, RunPoints
<1>4. CASE UNCHANGED vars
  BY <1>1, <1>4, Unaffected DEF vars
<1>5. CASE \E d \in Disks : Plug(d)
  BY <1>1, <1>5, Unaffected DEF Plug, locals, mounts
<1>6. CASE \E d \in Disks : Unplug(d)
  <2>1. PICK d \in Disks : Unplug(d)
    BY <1>6
  <2>2. \A f \in Fs : where'[f] \in {where[f], {}}
    BY <2>1 DEF Unplug
  <2>3. \A s \in dead' : s \in dead \/ \E g \in Fs : s \in where[g]
    BY <2>1 DEF Unplug, MountedOn, TypeOK
  <2> QED BY <1>1, <2>1, <2>2, <2>3, Unaffected DEF Unplug, locals
<1>7. CASE \/ \E f \in Fs : \E s \in ManualSlots \cup {Elsewhere} : AdminMount(f, s)
           \/ \E f \in Fs : \E s \in where[f] : AdminUnmount(f, s)
  <2>1. Overtake(None) /\ UNCHANGED <<pc, locals>>
    BY <1>7 DEF AdminMount, AdminUnmount
  <2>2. q # None
    BY NoneAssumption
  <2> QED BY <1>1, <2>1, <2>2, OvertakenOrIdle, Unaffected DEF locals
<1> QED BY <1>2, <1>3, <1>4, <1>5, <1>6, <1>7 DEF Outside

(* Every run of EnsureMountedUSBVolumes knows the mounts and slots it      *)
(* relies on, until another run or an administrator overtakes it; and what *)
(* is mounted is plugged in.                                               *)
THEOREM AlwaysInformed == Spec => [](RunsInformed /\ MountsPresent)
<1>1. Init => RunsInformed /\ MountsPresent
  BY DEF Init, RunsInformed, MountsPresent, Informed, SlotsKnown, MountsKnown,
         SlotReady, Running, Planning, RunPoints
<1>2. TypeOK /\ RunsInformed /\ MountsPresent /\ [Next]_vars
        => (RunsInformed /\ MountsPresent)'
  <2> SUFFICES ASSUME TypeOK, RunsInformed, MountsPresent, [Next]_vars
               PROVE  RunsInformed' /\ MountsPresent'
    OBVIOUS
  <2>1. ASSUME NEW q \in Procs PROVE Informed(q)'
    BY RunKeepsInformed, FormatKeepsInformed, RestKeepsInformed DEF Next
  <2>2. RunsInformed'
    BY <2>1 DEF RunsInformed, Procs
  <2> QED BY <2>2, MountsPresentStep
<1> QED BY <1>1, <1>2, TypeCorrect, PTL DEF Spec

-----------------------------------------------------------------------------
(* What follows for the steps of a run.                                    *)

(* Only a run's own step, or a restart, changes its mapping.               *)
LEMMA MappingChanges ==
  ASSUME TypeOK, [Next]_vars, NEW p \in Procs, pc[p] = "plan",
         mapping'[p] # mapping[p]
  PROVE  RunClear(p) \/ RunClearFails(p) \/ UNCHANGED where
<1>1. ASSUME NEW q \in Procs, Run(q)
      PROVE  q = p \/ mapping'[p] = mapping[p]
  BY <1>1 DEF Run, RunBegin, RunInhibited, RunScan, RunScanFails, RunClear,
              RunClearFails, RunMount, RunMountFails, RunStore, RunStoreFails,
              Goto, Finish, TypeOK
<1>2. Run(p) => RunClear(p) \/ RunClearFails(p) \/ UNCHANGED where
  BY DEF Run, RunBegin, RunInhibited, RunScan, RunScanFails, RunMount,
         RunMountFails, RunStore, RunStoreFails, Goto, mounts
<1>3. ASSUME NEW q \in Formatters, Format(q)
      PROVE  mapping'[p] = mapping[p] \/ UNCHANGED where
  BY <1>3 DEF Format, FormatStart, FormatUnmount, FormatNotMounted, FormatWipe,
              FormatMkfs, FormatFails, FormatRelease, locals, mounts
<1>4. Watch \/ Outside \/ UNCHANGED vars => mapping' = mapping
  BY DEF Watch, TriggerReceived, TimerFires, Outside, Plug, Unplug, AdminMount,
         AdminUnmount, locals, vars
<1>5. Restart => UNCHANGED where
  BY DEF Restart, mounts
<1> QED BY <1>1, <1>2, <1>3, <1>4, <1>5 DEF Next

(* A run that was not overtaken leaves no connected filesystem without a   *)
(* mount: the slots it clears hold only what unplugged disks left behind.  *)
THEOREM EvictsNothing == Spec => NoEviction
<1> DEFINE Kept == \A p \in Procs, f \in Fs :
                     /\ pc[p] = "plan" /\ mapping'[p] # mapping[p]
                     /\ where[f] # {} /\ ~stale[p]
                     => where'[f] # {}
<1>1. TypeOK /\ RunsInformed /\ [Next]_vars => [Kept]_vars
  <2> SUFFICES ASSUME TypeOK, RunsInformed, [Next]_vars,
                      NEW p \in Procs, NEW f \in Fs,
                      pc[p] = "plan", mapping'[p] # mapping[p],
                      where[f] # {}, ~stale[p]
               PROVE  where'[f] # {}
    OBVIOUS
  <2>1. mapping[p][f] \in where[f]
    BY DEF RunsInformed, Informed, MountsKnown, Planning
  <2>2. CASE RunClear(p) \/ RunClearFails(p)
    <3> DEFINE s == SlotFor(p, Next1(todo[p]))
    <3>1. todo[p] # {} /\ where'[f] \in {where[f], where[f] \ {s}}
      BY <2>2 DEF RunClear, RunClearFails, Cleared
    <3>2. Next1(todo[p]) \in Fs
      BY <3>1, FirstOfScan DEF TypeOK
    <3>3. mapping[p][f] # s
      BY <3>2, SlotChosen DEF TypeOK
    <3> HIDE DEF s
    <3> QED BY <2>1, <3>1, <3>3
  <2>3. CASE UNCHANGED where
    BY <2>3
  <2> QED BY <2>2, <2>3, MappingChanges
<1>2. NoEviction <=> [][Kept]_vars
  BY DEF NoEviction
<1> HIDE DEF Kept
<1>3. Spec => [][Kept]_vars
  BY <1>1, TypeCorrect, AlwaysInformed, PTL DEF Spec
<1> QED BY <1>2, <1>3, PTL

(* A mount appears at the end of a run's mount command only through it.    *)
LEMMA MountCommand ==
  ASSUME TypeOK, [Next]_vars, NEW p \in Procs, NEW f \in Fs,
         pc[p] = "mount", pc'[p] = "plan", NEW s \in where'[f] \ where[f]
  PROVE  f = NextFs(p) /\ s = NextSlot(p)
<1>1. ASSUME NEW q \in Procs, Run(q), q # p PROVE pc'[p] = pc[p]
  BY <1>1 DEF Run, RunBegin, RunInhibited, RunScan, RunScanFails, RunClear,
              RunClearFails, RunMount, RunMountFails, RunStore, RunStoreFails,
              Goto, Finish, TypeOK
<1>2. ASSUME NEW q \in Formatters, Format(q) PROVE pc'[p] # "plan"
  BY <1>2 DEF Format, FormatStart, FormatUnmount, FormatNotMounted, FormatWipe,
              FormatMkfs, FormatFails, FormatRelease, Goto, Finish, TypeOK, Procs
<1>3. Watch \/ Outside \/ UNCHANGED vars \/ Restart => pc'[p] # "plan"
  BY DEF Watch, TriggerReceived, TimerFires, Outside, Plug, Unplug, AdminMount,
         AdminUnmount, Goto, TypeOK, Restart, vars
<1>4. Run(p)
  BY <1>1, <1>2, <1>3 DEF Next
<1>5. RunMount(p) \/ UNCHANGED where
  BY <1>4 DEF Run, RunBegin, RunInhibited, RunScan, RunScanFails, RunClear,
              RunClearFails, RunMountFails, RunStore, RunStoreFails, Goto, mounts,
              TypeOK
<1>6. RunMount(p)
  BY <1>5
<1>7. where' = [where EXCEPT ![NextFs(p)] = @ \cup {NextSlot(p)}]
  BY <1>6 DEF RunMount, NextFs, NextSlot
<1> QED BY <1>7 DEF TypeOK

(* A run that was not overtaken mounts on an empty slot: what              *)
(* EnsureMountedUSBVolumes mounts never hides another filesystem.          *)
THEOREM StacksNothing == Spec => NoStacking
<1> DEFINE Empty == \A p \in Procs, f \in Fs : \A s \in where'[f] \ where[f] :
                      pc[p] = "mount" /\ pc'[p] = "plan" /\ ~stale[p]
                        => s \notin dead /\ \A g \in Fs : s \notin where[g]
<1>1. TypeOK /\ RunsInformed /\ [Next]_vars => [Empty]_vars
  <2> SUFFICES ASSUME TypeOK, RunsInformed, [Next]_vars,
                      NEW p \in Procs, NEW f \in Fs, NEW s \in where'[f] \ where[f],
                      pc[p] = "mount", pc'[p] = "plan", ~stale[p]
               PROVE  s \notin dead /\ \A g \in Fs : s \notin where[g]
    OBVIOUS
  <2>1. s = NextSlot(p)
    BY MountCommand
  <2> QED BY <2>1 DEF RunsInformed, Informed, SlotReady
<1>2. NoStacking <=> [][Empty]_vars
  BY DEF NoStacking
<1> HIDE DEF Empty
<1>3. Spec => [][Empty]_vars
  BY <1>1, TypeCorrect, AlwaysInformed, PTL DEF Spec
<1> QED BY <1>2, <1>3, PTL

(* A run that was not overtaken mounts nothing at a slot that is reserved  *)
(* for another filesystem alone.                                           *)
THEOREM StealsNothing == Spec => NoSteal
<1> DEFINE Fair == \A p \in Procs, f \in Fs : \A s \in where'[f] \ where[f] :
                     pc[p] = "mount" /\ pc'[p] = "plan" /\ ~stale[p]
                       => \A g \in Fs \ {f} : persisted[g] = s => persisted[f] = s
<1>1. TypeOK /\ RunsInformed /\ [Next]_vars => [Fair]_vars
  <2> SUFFICES ASSUME TypeOK, RunsInformed, [Next]_vars,
                      NEW p \in Procs, NEW f \in Fs, NEW s \in where'[f] \ where[f],
                      pc[p] = "mount", pc'[p] = "plan", ~stale[p],
                      NEW g \in Fs, persisted[g] = s
               PROVE  persisted[f] = s
    OBVIOUS
  <2>1. f = NextFs(p) /\ s = NextSlot(p)
    BY MountCommand
  <2> QED BY <2>1 DEF RunsInformed, Informed, SlotReady
<1>2. NoSteal <=> [][Fair]_vars
  BY DEF NoSteal
<1> HIDE DEF Fair
<1>3. Spec => [][Fair]_vars
  BY <1>1, TypeCorrect, AlwaysInformed, PTL DEF Spec
<1> QED BY <1>2, <1>3, PTL
=============================================================================
