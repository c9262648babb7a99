---------------------------- MODULE AutoMountInv ----------------------------
(* What a run of EnsureMountedUSBVolumes knows between its steps, as long  *)
(* as nobody overtook it: the inductive invariant behind NoEviction,       *)
(* NoStacking and NoSteal.                                                 *)
EXTENDS AutoMount

Running(p) == pc[p] \in RunPoints
Planning(p) == pc[p] \in {"plan", "mount"}

(* The filesystem and the slot of the mount command about to be run.       *)
NextFs(p) == Next1(todo[p])
NextSlot(p) == mapping[p][NextFs(p)]

(* The copy of the persisted slots is up to date.                          *)
SlotsKnown(p) == Running(p) => pers[p] = persisted

(* Every mounted filesystem is in the mapping, at one of its mounts, and   *)
(* none of them is to be mounted.                                          *)
MountsKnown(p) ==
    Planning(p) => \A f \in Fs :
        /\ where[f] # {} => mapping[p][f] \in where[f]
        /\ f \in todo[p] => where[f] = {}

(* The chosen slot is empty and not reserved for another filesystem alone. *)
SlotReady(p) ==
    pc[p] = "mount" =>
        /\ NextSlot(p) \notin dead
        /\ \A g \in Fs : NextSlot(p) \notin where[g]
        /\ \A g \in Fs : persisted[g] = NextSlot(p)
                            => persisted[NextFs(p)] = NextSlot(p)

Informed(p) == /\ pc[p] = "mount" => todo[p] # {}
               /\ ~stale[p] => SlotsKnown(p) /\ MountsKnown(p) /\ SlotReady(p)

RunsInformed == \A p \in Procs : Informed(p)

(* What is mounted is on a connected disk: the layers of a disk that is    *)
(* gone are in dead.                                                       *)
MountsPresent == \A f \in Fs : where[f] # {} => Present(f)
=============================================================================
