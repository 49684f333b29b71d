-------------------------------- MODULE Kfs --------------------------------
(***************************************************************************)
(* KFS, the writer of the C: image (rom/kos/kfs.zig, kfs_ops.zig,          *)
(* kfs_file.zig): the host half of a cart's file requests on the page and  *)
(* in the native host.  A request is answered whole before the next one    *)
(* comes (the cart calls it, kos-cfile.js serves it), so what may happen   *)
(* between two of its sector writes is only that the power goes.           *)
(*                                                                         *)
(* Request(q) takes the request and computes the course of disks that its  *)
(* sector writes make; Write lets the device take the next of them; Reply  *)
(* answers it; Cut is the power cut.                                       *)
(***************************************************************************)
EXTENDS KfsServe

CONSTANTS
  Requests,   \* the requests a cart may send, their paths checked by kfs_path
  Disk0,      \* the disks the system may start with
  MaxGen,     \* bound: requests answered in one behaviour
  MaxCuts     \* bound: power cuts in one behaviour

VARIABLES
  disk,       \* the image as it is
  todo,       \* the disks still to come while a request is served
  served,     \* the request in service and its answer to come; after a cut,
              \* the one that was cut
  gen,        \* the C: generation
  powered,    \* FALSE from a cut to the repair at the next start
  cuts,       \* cuts so far
  files       \* (history) what the paths name; while a request is served, what
              \* they named when it came

vars == <<disk, todo, served, gen, powered, cuts, files>>

Honest(d) == d.fsinfo # Unknown => d.fsinfo = Cardinality({c \in Cluster : d.fat[1][c] = Free})

ASSUME RequestsAssumption == \A q \in Requests : IsRequest(q)
ASSUME BoundsAssumption == MaxGen \in Nat /\ MaxCuts \in Nat
\* It starts with a volume that fsck has nothing to say about.
ASSUME Disk0Assumption == \A d \in Disk0 : d \in Disk /\ CleanDisk(d) /\ Honest(d)

-----------------------------------------------------------------------------
Nobody == [q |-> [op |-> "none"], res |-> "none"]
Idle   == powered /\ served = Nobody

Init ==
  /\ disk \in Disk0
  /\ todo = << >>
  /\ served = Nobody
  /\ gen = 0
  /\ powered = TRUE
  /\ cuts = 0
  /\ files = View(disk)

\* A request comes.
Request(q) ==
  /\ Idle
  /\ gen < MaxGen
  /\ \E a \in {Serve(disk, q)} : todo' = Tail(a.course) /\ served' = [q |-> q, res |-> a.res]
  /\ UNCHANGED <<disk, gen, powered, cuts, files>>

\* The device takes the next sector.
Write ==
  /\ powered /\ todo # << >>
  /\ disk' = Head(todo)
  /\ todo' = Tail(todo)
  /\ UNCHANGED <<served, gen, powered, cuts, files>>

\* The answer goes to the cart, the generation stepped if it is "ok".
Reply ==
  /\ powered /\ served # Nobody /\ todo = << >>
  /\ gen' = IF served.res = "ok" THEN gen + 1 ELSE gen
  /\ files' = View(disk)
  /\ served' = Nobody
  /\ UNCHANGED <<disk, todo, powered, cuts>>

\* The power goes before a request is answered.
Cut ==
  /\ powered /\ served # Nobody
  /\ cuts < MaxCuts
  /\ cuts' = cuts + 1
  /\ powered' = FALSE
  /\ todo' = << >>
  /\ files' = View(disk)
  /\ UNCHANGED <<disk, served, gen>>

\* The check at the next start, where that repair is all the disk needs.
\* (The generation would count from 0 again; it goes on counting here, as the
\* bound on the behaviour.)
Fsck ==
  /\ ~powered
  /\ CleanDisk(Repaired(disk))
  /\ disk' = Repaired(disk)
  /\ files' = View(disk')
  /\ powered' = TRUE
  /\ served' = Nobody
  /\ UNCHANGED <<todo, gen, cuts>>

Next ==
  \/ \E q \in Requests : Request(q)
  \/ Write
  \/ Reply
  \/ Cut
  \/ Fsck

Spec == Init /\ [][Next]_vars

-----------------------------------------------------------------------------
\* TypeOK: the disk, what is still to be written to it and the bookkeeping
\* have their shapes (kf.Disk, kd.Slot and kfs.Server's state).
TypeOK ==
  /\ disk \in Disk
  /\ \A j \in DOMAIN todo : todo[j] \in Disk
  /\ gen \in 0 .. MaxGen /\ cuts \in 0 .. MaxCuts
  /\ powered \in BOOLEAN
  /\ served = Nobody \/ served.q \in Requests
  /\ (todo # << >> \/ ~powered) => served # Nobody
  /\ ~powered => todo = << >>

\* ChainsSound: after every sector write, so at every cut, each live entry's
\* chain stays inside the volume, meets no free cluster, ends, and is as long
\* as the entry's size says: data and FAT are written before the entry
\* (kfs_file.writeAt), an entry is deleted before its chain is freed
\* (kfs_ops.delete, dropTemp, rmdir, the commit of a save).
ChainsSound == ChainsSoundIn(disk)

\* RepairSuffices: what a power cut leaves, before any sector write of any
\* request or before its answer, is at worst lost clusters and FAT copies that
\* differ (kfs_fat.zig:8-10, docs/KOS_GEMDOS_WRITES.md section 5): with those
\* repaired the volume is clean.  A move between folders is the exception, see
\* RepairAlwaysSuffices.
Moves(q) == q.op = "rename" /\ Front(q.path) # Front(q.path2)
RepairSuffices == ~powered /\ ~Moves(served.q) => CleanDisk(Repaired(disk))

\* RepairAlwaysSuffices: what kfs_fat.zig:9-10 says of every request: "A cut in
\* between leaves at worst lost clusters or FAT copies that differ, both of
\* which fsck.fat repairs with no file damaged".  rename adds the new entry
\* before it deletes the old one (kfs_ops.zig:115-116).
RepairAlwaysSuffices == ~powered => CleanDisk(Repaired(disk))

\* CleanWhenIdle: between requests, answered or refused, the volume is clean:
\* chains sound, no cluster in two of them, FAT copies alike, no cluster
\* lost, no long name without its entry, no name twice in a folder, nothing
\* hidden behind a folder's end, every `..` its parent.
CleanWhenIdle == Idle => CleanDisk(disk)

\* FsinfoHonest: FAT32's FSInfo never states a count of free clusters that
\* the FAT does not bear out (Disk.forgetFsinfo runs before any FAT edit).
FsinfoHonest == Honest(disk)

\* Implements: the request served changes what the paths name as its answer
\* says, whole or not at all; a cut leaves them as FileStore allows for that
\* request and that answer; and the repair changes no file.
FS == INSTANCE FileStore
Implements == FS!Spec

=============================================================================
