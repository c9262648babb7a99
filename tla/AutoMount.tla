----------------------------- MODULE AutoMount -----------------------------
(***************************************************************************)
(* Mounting of filesystems into /mnt/usbX (internal/storage) and the       *)
(* formatting of a disk, which must keep it away (internal/graph).         *)
(*                                                                         *)
(* EnsureMountedUSBVolumes is run at startup, by the goroutine that        *)
(* listens to udev events, and at the end of a format request.  Runs of a  *)
(* format handler and of the watcher may overlap: nothing serialises them. *)
(* A run loads the persisted slots, lists the block devices, clears and    *)
(* mounts one slot after the other and stores the slots it chose.          *)
(*                                                                         *)
(* A disk holds at most one filesystem.  Mounts are kept per filesystem    *)
(* as the set of slots it is visible at; the order of stacked layers is    *)
(* not kept, nor is a device whose lsblk entry repeats another's UUID.     *)
(***************************************************************************)
EXTENDS Integers, FiniteSets

CONSTANTS
    Disks,
    MaxFs,          \* bound on the filesystem UUIDs
    Watcher,        \* startup, then the udev watcher
    Formatters,     \* format requests
    ManualSlots,    \* slots administrators mount at by hand
    Faults,         \* whether commands and database writes may fail
    Restarts,       \* whether the process may stop and start again
    None

(* UUIDs in the order in which scanFilesystems sorts them.                 *)
Fs == 1..MaxFs

Procs == Formatters \cup {Watcher}

(* A mountpoint that is not /mnt/usbX; also "no slot" in the slot maps.    *)
Elsewhere == 0
NoSlots == [f \in Fs |-> 0]

ASSUME WatcherAssumption == Watcher \notin Formatters
ASSUME MaxFsAssumption == MaxFs \in Nat
ASSUME ManualAssumption == ManualSlots \subseteq Nat \ {0}
ASSUME NoneAssumption == None \notin Fs \cup Disks \cup Procs
ASSUME SwitchAssumption == Faults \in BOOLEAN /\ Restarts \in BOOLEAN

VARIABLES
    plugged,    \* disks that are connected
    disk,       \* filesystem on each disk
    made,       \* UUIDs that exist or existed: mkfs draws a fresh one
    where,      \* slots at which each connected filesystem is mounted
    dead,       \* slots with a layer left behind by an unplugged disk
    persisted,  \* storage:fsuuid_slot, 0 for no entry
    count,      \* autoMountInhibitCount
    monitoring, \* the udev monitor is running
    trigger,    \* the one-place channel between monitor and debouncer
    timer,      \* the debouncer's timer is armed
    pc, pers, todo, mapping, target,    \* control points and locals
    stale,      \* history: the run's copy of mounts or slots is not right
    hot         \* history: disks plugged in, reported, and not mounted since

devices == <<plugged, disk, made>>
mounts == <<where, dead>>
udev == <<monitoring, trigger, timer>>
locals == <<pers, todo, mapping, target>>
history == <<stale, hot>>
vars == <<plugged, disk, made, where, dead, persisted, count, monitoring,
          trigger, timer, pc, pers, todo, mapping, target, stale, hot>>

FormatPoints == {"fUmount", "fRecheck", "fWipe", "fMkfs", "fRelease"}
RunPoints == {"scan", "plan", "mount"}

TypeOK ==
    /\ plugged \in SUBSET Disks
    /\ disk \in [Disks -> Fs \cup {None}]
    /\ made \in SUBSET Fs
    /\ where \in [Fs -> SUBSET Nat]
    /\ dead \in SUBSET Nat
    /\ persisted \in [Fs -> Nat]
    /\ count \in Int
    /\ {monitoring, trigger, timer} \subseteq BOOLEAN
    /\ pc \in [Procs -> {"idle", "begin"} \cup RunPoints \cup FormatPoints]
    /\ pers \in [Procs -> [Fs -> Nat]]
    /\ todo \in [Procs -> SUBSET Fs]
    /\ mapping \in [Procs -> [Fs -> Nat]]
    /\ target \in [Procs -> Disks \cup {None}]
    /\ stale \in [Procs -> BOOLEAN]
    /\ hot \in SUBSET Disks

Init ==
    /\ plugged \in SUBSET Disks
    /\ disk \in [Disks -> Fs \cup {None}]
    /\ \A d, e \in Disks : disk[d] = disk[e] /\ disk[d] # None => d = e
    /\ made = {f \in Fs : \E d \in Disks : disk[d] = f}
    /\ where = [f \in Fs |-> {}]
    /\ dead = {}
    /\ persisted = NoSlots
    /\ count = 0
    /\ monitoring = FALSE /\ trigger = FALSE /\ timer = FALSE
    /\ pc = [p \in Procs |-> IF p = Watcher THEN "begin" ELSE "idle"]
    /\ pers = [p \in Procs |-> NoSlots]
    /\ todo = [p \in Procs |-> {}]
    /\ mapping = [p \in Procs |-> NoSlots]
    /\ target = [p \in Procs |-> None]
    /\ stale = [p \in Procs |-> FALSE]
    /\ hot = {}

-----------------------------------------------------------------------------
Goto(p, from, to) == pc[p] = from /\ pc' = [pc EXCEPT ![p] = to]

Present(f) == \E d \in plugged : disk[d] = f

(* The next filesystem to mount: the loop follows the order of the scan.   *)
Next1(S) == CHOOSE f \in S : \A g \in S : f <= g

(* The runs of the other processes work on outdated knowledge from now on. *)
Overtake(p) ==
    stale' = [q \in Procs |-> stale[q] \/ (q # p /\ pc[q] \in RunPoints)]

(* shouldTriggerHotplug holds for adding, removing and rewriting a device; *)
(* the send to the channel is dropped when an event is waiting already.    *)
UnbufferedEvent ==
    /\ trigger' = (trigger \/ (monitoring /\ pc[Watcher] = "idle"))
    /\ UNCHANGED <<monitoring, timer>>
Event ==
    /\ trigger' = (trigger \/ monitoring)
    /\ UNCHANGED <<monitoring, timer>>

(* The process leaves EnsureMountedUSBVolumes or FormatDiskSinglePartition;*)
(* the latter's deferred release runs on every path.                       *)
Release(p) == count' = IF p = Watcher THEN count ELSE count - 1

Finish(p) ==
    /\ pc' = [pc EXCEPT ![p] = "idle"]
    /\ pers' = [pers EXCEPT ![p] = NoSlots]
    /\ todo' = [todo EXCEPT ![p] = {}]
    /\ mapping' = [mapping EXCEPT ![p] = NoSlots]
    /\ target' = [target EXCEPT ![p] = None]
    /\ monitoring' = (monitoring \/ p = Watcher)
    /\ Release(p)
    /\ UNCHANGED <<trigger, timer, hot>>

-----------------------------------------------------------------------------
(* EnsureMountedUSBVolumes.                                                *)

autoMountInhibited == count > 0

(* The check and the load of the persisted slots, which commutes with      *)
(* everything that changes the count.  A load that fails yields no slots.  *)
RunBegin(p) ==
    /\ Goto(p, "begin", "scan")
    /\ ~autoMountInhibited
    /\ \E found \in {persisted, NoSlots} :
         /\ Faults \/ found = persisted
         /\ pers' = [pers EXCEPT ![p] = found]
         /\ stale' = [stale EXCEPT ![p] = found # persisted]
    /\ UNCHANGED <<devices, mounts, persisted, count, udev, todo, mapping,
                   target, hot>>

RunInhibited(p) ==
    /\ pc[p] = "begin"
    /\ autoMountInhibited
    /\ Finish(p)
    /\ UNCHANGED <<devices, mounts, persisted, history>>

(* lsblk shows one mountpoint of each device.                              *)
RunScan(p) ==
    /\ Goto(p, "scan", "plan")
    /\ todo' = [todo EXCEPT ![p] = {f \in Fs : Present(f) /\ where[f] = {}}]
    /\ \E at \in [Fs -> {0} \cup UNION {where[f] : f \in Fs}] :
         /\ \A f \in Fs : IF Present(f) /\ where[f] # {}
                           THEN at[f] \in where[f]
                           ELSE at[f] = 0
         /\ mapping' = [mapping EXCEPT ![p] = at]
    /\ UNCHANGED <<devices, mounts, persisted, count, udev, pers, target,
                   history>>

RunScanFails(p) ==
    /\ Faults
    /\ pc[p] = "scan"
    /\ Finish(p)
    /\ UNCHANGED <<devices, mounts, persisted, history>>

(* The keys of occupiedSlots and of usedSlots.                             *)
Occupied(p) == {mapping[p][f] : f \in Fs} \ {0}
UsedSlots(p) == Occupied(p) \cup ({pers[p][f] : f \in Fs} \ {0})

nextFreeSlot(S) ==
    CHOOSE n \in 1..(Cardinality(S) + 1) : n \notin S /\ 1..(n - 1) \subseteq S

(* The persisted slot, unless another filesystem is on it.                 *)
PersistedAnyway(p, f) ==
    IF pers[p][f] # 0 THEN pers[p][f] ELSE nextFreeSlot(UsedSlots(p))
FreeOfMounts(p, f) ==
    IF pers[p][f] \notin Occupied(p) \cup {0} THEN pers[p][f]
                                              ELSE nextFreeSlot(Occupied(p))
SlotFor(p, f) ==
    IF pers[p][f] \notin Occupied(p) \cup {0} THEN pers[p][f]
                                              ELSE nextFreeSlot(UsedSlots(p))

(* Choose a slot and unmount whatever is there.                            *)
FirstLayerCleared(s) == where' = [g \in Fs |-> where[g] \ {s}] /\ dead' = dead
Cleared(s) == where' = [g \in Fs |-> where[g] \ {s}] /\ dead' = dead \ {s}

RunClear(p) ==
    /\ Goto(p, "plan", "mount")
    /\ todo[p] # {}
    /\ LET f == Next1(todo[p])
           s == SlotFor(p, f)
       IN /\ mapping' = [mapping EXCEPT ![p][f] = s]
          /\ Cleared(s)
    /\ IF where' = where THEN UNCHANGED stale ELSE Overtake(p)
    /\ UNCHANGED <<devices, persisted, count, udev, pers, todo, target, hot>>

(* The directory cannot be made or a layer cannot be unmounted; the slot   *)
(* stays assigned.                                                         *)
RunClearFails(p) ==
    /\ Faults
    /\ pc[p] = "plan"
    /\ todo[p] # {}
    /\ LET f == Next1(todo[p])
           s == SlotFor(p, f)
       IN /\ mapping' = [mapping EXCEPT ![p][f] = s]
          /\ todo' = [todo EXCEPT ![p] = @ \ {f}]
          /\ \E kept \in SUBSET Fs :
               where' = [g \in Fs |-> IF g \in kept THEN where[g]
                                                    ELSE where[g] \ {s}]
          /\ dead' \in {dead, dead \ {s}}
    /\ IF where' = where THEN UNCHANGED stale ELSE Overtake(p)
    /\ UNCHANGED <<devices, persisted, count, udev, pc, pers, target, hot>>

Mounted(f) == hot' = {d \in hot : disk[d] # f}

(* mount -U: the kernel refuses a second mount of a filesystem at the same *)
(* place.                                                                  *)
Mountable(f, s) == Present(f) /\ s \notin where[f]

RunMount(p) ==
    /\ Goto(p, "mount", "plan")
    /\ LET f == Next1(todo[p])
       IN /\ Mountable(f, mapping[p][f])
          /\ where' = [where EXCEPT ![f] = @ \cup {mapping[p][f]}]
          /\ todo' = [todo EXCEPT ![p] = @ \ {f}]
          /\ Mounted(f)
    /\ Overtake(p)
    /\ UNCHANGED <<devices, dead, persisted, count, udev, pers, mapping,
                   target>>

RunMountFails(p) ==
    /\ Goto(p, "mount", "plan")
    /\ LET f == Next1(todo[p])
       IN /\ Faults \/ ~Mountable(f, mapping[p][f])
          /\ todo' = [todo EXCEPT ![p] = @ \ {f}]
    /\ UNCHANGED <<devices, mounts, persisted, count, udev, pers, mapping,
                   target, history>>

(* The persisted slots as they were loaded, updated with those of the run. *)
MissingAsMinusOne(p) ==
    [f \in Fs |-> IF mapping[p][f] # 0 THEN mapping[p][f] ELSE pers[p][f] - 1]
Merged(p) ==
    [f \in Fs |-> IF mapping[p][f] # 0 THEN mapping[p][f] ELSE pers[p][f]]

RunStore(p) ==
    /\ pc[p] = "plan"
    /\ todo[p] = {}
    /\ persisted' = Merged(p)
    /\ Overtake(p)
    /\ Finish(p)
    /\ UNCHANGED <<devices, mounts, hot>>

RunStoreFails(p) ==
    /\ Faults
    /\ pc[p] = "plan"
    /\ todo[p] = {}
    /\ Finish(p)
    /\ UNCHANGED <<devices, mounts, persisted, history>>

-----------------------------------------------------------------------------
(* The udev watcher: debounceEnsure.                                       *)

TriggerReceived ==
    /\ pc[Watcher] = "idle"
    /\ trigger
    /\ trigger' = FALSE
    /\ timer' = TRUE
    /\ UNCHANGED <<devices, mounts, persisted, count, monitoring, pc, locals,
                   history>>

TimerFires ==
    /\ Goto(Watcher, "idle", "begin")
    /\ timer
    /\ timer' = FALSE
    /\ UNCHANGED <<devices, mounts, persisted, count, monitoring, trigger,
                   locals, history>>

-----------------------------------------------------------------------------
(* FormatDiskSinglePartition.                                              *)

(* InhibitAutoMount and the first lsblk; the API serves after startup.     *)
FormatStart(p, d) ==
    /\ Goto(p, "idle", "fUmount")
    /\ monitoring
    /\ d \in plugged
    /\ count' = count + 1
    /\ target' = [target EXCEPT ![p] = d]
    /\ UNCHANGED <<devices, mounts, persisted, udev, pers, todo, mapping,
                   history>>

MountedOn(d) == IF disk[d] = None THEN {} ELSE where[disk[d]]

(* umount takes the topmost layer at the mountpoint that lsblk showed.     *)
FormatUnmount(p) ==
    /\ Goto(p, "fUmount", "fRecheck")
    /\ target[p] \in plugged
    /\ \E s \in MountedOn(target[p]), g \in Fs :
         /\ s \in where[g]
         /\ s = Elsewhere => g = disk[target[p]]
         /\ where' = [where EXCEPT ![g] = @ \ {s}]
    /\ Overtake(p)
    /\ UNCHANGED <<devices, dead, persisted, count, udev, locals, hot>>

FormatNotMounted(p) ==
    /\ \/ Goto(p, "fUmount", "fWipe")
       \/ Goto(p, "fRecheck", "fWipe")
    /\ target[p] \in plugged
    /\ MountedOn(target[p]) = {}
    /\ UNCHANGED <<devices, mounts, persisted, count, udev, locals, history>>

(* wipefs and sfdisk, which fail on a disk in use.                         *)
FormatWipe(p) ==
    /\ Goto(p, "fWipe", "fMkfs")
    /\ target[p] \in plugged
    /\ MountedOn(target[p]) = {}
    /\ disk' = [disk EXCEPT ![target[p]] = None]
    /\ Event
    /\ UNCHANGED <<plugged, made, mounts, persisted, count, locals, history>>

FormatMkfs(p) ==
    /\ Goto(p, "fMkfs", "fRelease")
    /\ target[p] \in plugged
    /\ MountedOn(target[p]) = {}
    /\ \E f \in Fs \ made :
         /\ disk' = [disk EXCEPT ![target[p]] = f]
         /\ made' = made \cup {f}
    /\ Event
    /\ UNCHANGED <<plugged, mounts, persisted, count, locals, history>>

(* A tool fails, the disk is gone or it is still mounted.                  *)
FormatFails(p) ==
    /\ pc[p] \in FormatPoints \ {"fRelease"}
    /\ \/ Faults
       \/ target[p] \notin plugged
       \/ pc[p] # "fUmount" /\ MountedOn(target[p]) # {}
    /\ Finish(p)
    /\ UNCHANGED <<devices, mounts, persisted, history>>

(* The release before the final EnsureMountedUSBVolumes; the variable is   *)
(* cleared, but defer has evaluated it already.                            *)
FormatRelease(p) ==
    /\ Goto(p, "fRelease", "begin")
    /\ count' = count - 1
    /\ UNCHANGED <<devices, mounts, persisted, udev, locals, history>>

-----------------------------------------------------------------------------
(* Disks, administrators and the process itself.                           *)

Plug(d) ==
    /\ d \notin plugged
    /\ plugged' = plugged \cup {d}
    /\ hot' = IF monitoring THEN hot \cup {d} ELSE hot
    /\ Event
    /\ UNCHANGED <<disk, made, mounts, persisted, count, pc, locals, stale>>

(* The mounts of an unplugged disk stay behind as layers of no device.     *)
Unplug(d) ==
    /\ d \in plugged
    /\ plugged' = plugged \ {d}
    /\ hot' = hot \ {d}
    /\ where' = [f \in Fs |-> IF f = disk[d] THEN {} ELSE where[f]]
    /\ dead' = dead \cup (MountedOn(d) \ {Elsewhere})
    /\ Event
    /\ UNCHANGED <<disk, made, persisted, count, pc, locals, stale>>

AdminMount(f, s) ==
    /\ Present(f)
    /\ where[f] = {}
    /\ s = Elsewhere \/ (s \notin dead /\ \A g \in Fs : s \notin where[g])
    /\ where' = [where EXCEPT ![f] = {s}]
    /\ Mounted(f)
    /\ Overtake(None)
    /\ UNCHANGED <<devices, dead, persisted, count, udev, pc, locals>>

AdminUnmount(f, s) ==
    /\ s \in where[f]
    /\ where' = [where EXCEPT ![f] = @ \ {s}]
    /\ Overtake(None)
    /\ UNCHANGED <<devices, dead, persisted, count, udev, pc, locals, hot>>

Restart ==
    /\ Restarts
    /\ count' = 0
    /\ monitoring' = FALSE /\ trigger' = FALSE /\ timer' = FALSE
    /\ pc' = [p \in Procs |-> IF p = Watcher THEN "begin" ELSE "idle"]
    /\ pers' = [p \in Procs |-> NoSlots]
    /\ todo' = [p \in Procs |-> {}]
    /\ mapping' = [p \in Procs |-> NoSlots]
    /\ target' = [p \in Procs |-> None]
    /\ stale' = [p \in Procs |-> FALSE]
    /\ hot' = {}
    /\ UNCHANGED <<devices, mounts, persisted>>

-----------------------------------------------------------------------------
Run(p) == \/ RunBegin(p) \/ RunInhibited(p) \/ RunScan(p) \/ RunScanFails(p)
          \/ RunClear(p) \/ RunClearFails(p) \/ RunMount(p) \/ RunMountFails(p)
          \/ RunStore(p) \/ RunStoreFails(p)

Format(p) == \/ \E d \in Disks : FormatStart(p, d)
             \/ FormatUnmount(p) \/ FormatNotMounted(p) \/ FormatWipe(p)
             \/ FormatMkfs(p) \/ FormatFails(p) \/ FormatRelease(p)

Watch == TriggerReceived \/ TimerFires

Outside == \/ \E d \in Disks : Plug(d) \/ Unplug(d)
           \/ \E f \in Fs : \E s \in ManualSlots \cup {Elsewhere} :
                AdminMount(f, s)
           \/ \E f \in Fs : \E s \in where[f] : AdminUnmount(f, s)

Next == \/ \E p \in Procs : Run(p)
        \/ \E p \in Formatters : Format(p)
        \/ Watch
        \/ Outside
        \/ Restart

Spec == Init /\ [][Next]_vars

(* The watcher's goroutine is scheduled, its commands are cut off after    *)
(* 30 seconds, and bursts of events end, so that its timer fires.          *)
FairSpec == Spec /\ WF_vars(Run(Watcher)) /\ WF_vars(TriggerReceived)
                 /\ WF_vars(TimerFires)

-----------------------------------------------------------------------------
(* Properties.                                                             *)

(* Clearing a slot never leaves a connected filesystem without a mount,    *)
(* unless another run or an administrator changed the mounts or the slots  *)
(* since this run read them: unmountAllAt hits only what a disk left       *)
(* behind when it was unplugged.                                           *)
NoEviction ==
    [][\A p \in Procs, f \in Fs :
         /\ pc[p] = "plan" /\ mapping'[p] # mapping[p]
         /\ where[f] # {} /\ ~stale[p]
         => where'[f] # {}]_vars

(* What a run mounts is not stacked on anything: "Always clear /mnt/usbX   *)
(* before mounting a new filesystem there" (mounts.go).                    *)
NoStacking ==
    [][\A p \in Procs, f \in Fs : \A s \in where'[f] \ where[f] :
         pc[p] = "mount" /\ pc'[p] = "plan" /\ ~stale[p]
            => s \notin dead /\ \A g \in Fs : s \notin where[g]]_vars

(* "newly plugged devices can't steal historical /mnt/usbX slots"          *)
(* (mounts.go): a run mounts a filesystem at a slot that is reserved for   *)
(* another one only if the slot is reserved for both.                      *)
NoSteal ==
    [][\A p \in Procs, f \in Fs : \A s \in where'[f] \ where[f] :
         pc[p] = "mount" /\ pc'[p] = "plan" /\ ~stale[p]
            => \A g \in Fs \ {f} : persisted[g] = s => persisted[f] = s]_vars

(* The filesystem of a disk that is plugged in while the monitor runs is   *)
(* mounted in the end, whatever the debouncer coalesces and whenever the   *)
(* event comes, unless the disk is unplugged or a format request, which    *)
(* makes runs return without a retry, gets in the way.                     *)
HotplugMounted ==
    \A d \in Disks :
        d \in hot /\ disk[d] # None
           ~> d \notin hot \/ \E p \in Formatters : pc[p] # "idle"

(* InhibitAutoMount "temporarily disables EnsureMountedUSBVolumes"         *)
(* (automount_inhibit.go): no run begins while a format request holds it.  *)
InhibitHolds ==
    [][\A p \in Procs, q \in Formatters :
         pc[p] = "begin" /\ pc'[p] = "scan" => pc[q] \notin FormatPoints]_vars

(* "This intentionally keeps entries for currently-unplugged filesystems,  *)
(* to reserve their /mnt/usbX slot for when they return" (mounts.go): a    *)
(* slot, once reserved, is never without a reservation again.              *)
ReservationsSurvive ==
    [][\A f \in Fs : persisted[f] # 0 => persisted'[f] # 0]_vars
=============================================================================
