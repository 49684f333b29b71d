------------------------------ MODULE KfsDisk ------------------------------
(***************************************************************************)
(* The FAT volume that KFS, the writer of the C: image, edits              *)
(* (rom/kos/fat.zig, kfs_fat.zig, kfs_dir.zig).  This module has no        *)
(* variables: a disk is a value, and an edit is a COURSE, the sequence of  *)
(* the disks that the edit passes through, one per sector write, with the  *)
(* disk it starts from at the head.  Each helper of the writer takes the   *)
(* course so far and returns it extended, so what a later helper reads is  *)
(* what the earlier ones wrote.                                            *)
(*                                                                         *)
(* A cluster is one sector (spc = 1) and a file's size is counted in       *)
(* clusters, so a write inside a sector is not told apart from a whole     *)
(* one.  A folder's cluster holds Per slots (16 in the code).              *)
(***************************************************************************)
EXTENDS Naturals, Sequences, FiniteSets, SequencesExt, FiniteSetsExt

CONSTANTS
  Clusters,      \* the volume's data clusters, numbered 2 .. Clusters + 1
  NFats,         \* the copies of the FAT
  WholeEntries,  \* TRUE: FAT32, an entry is set by one sector write;
                 \* FALSE: FAT12/16, by one for each of its two bytes
  Radix,         \* the values of a byte (256 in the code)
  Per,           \* directory slots in a cluster
  Blocks,        \* what a cluster of a file may hold
  Top            \* the first cluster of the volume's HD folder, C:\

ASSUME KfsDiskAssumption ==
  /\ Clusters \in Nat \ {0}
  /\ NFats \in {1, 2}
  /\ Radix \in Nat
  /\ WholeEntries \in BOOLEAN
  /\ Per \in Nat \ {0, 1}
  /\ Clusters + 1 < Radix * Radix - 2
  /\ Top \in 2 .. (Clusters + 1)

-----------------------------------------------------------------------------
\* The FAT.

Cluster   == 2 .. (Clusters + 1)
NoCluster == 0
Free      == 0
EndMark   == Radix * Radix - 1
FirstEnd  == EndMark - 1           \* the least value that ends a chain

\* The disk at the end of a course.
Now(course) == Last(course)

\* An entry with its low byte rewritten and its high byte not yet.
Torn(old, new) == (old \div Radix) * Radix + (new % Radix)

PutEntry(course, copy, c, v) ==
  Append(course, [Now(course) EXCEPT !.fat[copy][c] = v])

SetCopy(course, k, c, v) ==
  PutEntry(IF WholeEntries THEN course
             ELSE PutEntry(course, k, c, Torn(Now(course).fat[k][c], v)),
           k, c, v)

\* Mutant: the copies of FAT 1 left as they are.
SetOne(course, c, v) == SetCopy(course, 1, c, v)

\* Cluster c's entry := v, in FAT 1 and then in every copy.
Set(course, c, v) ==
  LET one == SetCopy(course, 1, c, v)
  IN  IF NFats = 1 THEN one ELSE SetCopy(one, 2, c, v)

\* The copies of the FAT do not differ.
Alike(d) == \A k \in 1 .. NFats : d.fat[k] = d.fat[1]

\* The clusters from c on, as far as FAT 1 leads (a loop: one too many).  On a
\* chain that meets a free cluster or leaves the volume, and in a loop, the code
\* fails with error.Corrupt (fat.zig Volume.next) where this just ends; a request
\* never meets one, because the volume is clean when it comes (CleanWhenIdle).
Chain(d, c) ==
  LET walk[n \in 0 .. Clusters] ==
        IF n = 0 THEN <<c>>
        ELSE LET w  == walk[n - 1]
                 nx == d.fat[1][Last(w)]
             IN  IF nx \in Cluster THEN Append(w, nx) ELSE w
  IN  IF c \in Cluster THEN walk[Clusters] ELSE << >>

\* A chain that ends, inside the volume, with no free cluster in it.
ChainEnds(d, c) ==
  LET w == Chain(d, c)
  IN  Len(w) \in 1 .. Clusters /\ d.fat[1][Last(w)] >= FirstEnd

\* The free clusters in the order in which a search from `from` on meets them.
FreeFrom(d, from) ==
  LET start  == IF from \in Cluster THEN from ELSE 2
      Nth(n) == 2 + ((start + n - 3) % Clusters)
      found[n \in 0 .. Clusters] ==
        IF n = 0 THEN << >>
        ELSE IF d.fat[1][Nth(n)] = Free THEN Append(found[n - 1], Nth(n)) ELSE found[n - 1]
  IN  found[Clusters]

\* Every cluster of the chain from c freed, first to last.
FreeChain(course, c) ==
  LET w == Chain(Now(course), c)
      freed[n \in 0 .. Len(w)] == IF n = 0 THEN course ELSE Set(freed[n - 1], w[n], Free)
  IN  freed[Len(w)]

Unknown == Clusters + 1

\* Mutants: the count left as it is; counted down by every request.
ForgetFsinfoNever(course) == course
ForgetFsinfoCounts(course) ==
  Append(course, [Now(course) EXCEPT !.fsinfo = @ - 1])

\* FAT32's FSInfo sector states how many clusters are free, or that it does
\* not know; the writer makes it say so before it writes anything else.
ForgetFsinfo(course) ==
  IF Now(course).fsinfo = Unknown THEN course
    ELSE Append(course, [Now(course) EXCEPT !.fsinfo = Unknown])

-----------------------------------------------------------------------------
\* Directories: 32-byte slots, numbered from 1 along the folder's chain.

ZeroSlot    == [kind |-> "zero"]     \* first byte 0: the folder ends here
DeadSlot    == [kind |-> "dead"]     \* first byte E5: deleted
LongSlot    == [kind |-> "long"]     \* part of the next short entry's long name
GarbageSlot == [kind |-> "garbage"]  \* file data met where slots should be
DotSlot     == [kind |-> "dot"]
DotDotSlot(c) == [kind |-> "dotdot", cluster |-> c]
ShortSlot(kind, name, ro, c, size) ==
  [kind |-> kind, name |-> name, ro |-> ro, cluster |-> c, size |-> size]

\* A well-formed disk: kf.Disk and the slots of kd.
ShortSlots == [kind : {"file", "dir"}, name : STRING, ro : BOOLEAN,
               cluster : {NoCluster} \cup Cluster, size : Nat]
Slot == {ZeroSlot, DeadSlot, LongSlot, GarbageSlot, DotSlot}
        \cup [kind : {"dotdot"}, cluster : Cluster] \cup ShortSlots
Disk == [fat    : [1 .. NFats -> [Cluster -> 0 .. EndMark]],
         data   : [Cluster -> Blocks \cup [1 .. Per -> Slot]],
         fsinfo : 0 .. Unknown]

SlotsIn(d, c) == IF d.data[c] \in Blocks THEN [i \in 1 .. Per |-> GarbageSlot]
                                         ELSE d.data[c]
SectorOf(i) == ((i - 1) \div Per) + 1
PlaceOf(i)  == ((i - 1) % Per) + 1

SlotsAlong(d, w) == [i \in 1 .. (Len(w) * Per) |-> SlotsIn(d, w[SectorOf(i)])[PlaceOf(i)]]
Slots(d, dir) == SlotsAlong(d, Chain(d, dir))

\* The slots a reader sees: none behind the first zero byte.
Seen(slots) == {i \in DOMAIN slots : \A j \in 1 .. i : slots[j].kind # "zero"}

\* The slot of the short entry `name`, 0 if there is none.
FindIn(s, name) ==
  LET hit == {i \in Seen(s) : s[i].kind \in {"file", "dir"} /\ s[i].name = name}
  IN  IF hit = {} THEN 0 ELSE Min(hit)
Find(d, dir, name) == FindIn(Slots(d, dir), name)

\* A slot as the code holds it (kd.Slot): which of the folder's it is, in which
\* sector, and what it holds.
NoSlot == [index |-> 0, sector |-> NoCluster, raw |-> DeadSlot]
ReadSlot(d, dir, i) == [index |-> i, sector |-> Chain(d, dir)[SectorOf(i)], raw |-> Slots(d, dir)[i]]
SlotOrNone(d, dir, i) == IF i = 0 THEN NoSlot ELSE ReadSlot(d, dir, i)
Found(d, dir, name) == SlotOrNone(d, dir, Find(d, dir, name))

\* Mutant: folders in it overlooked.
IsEmptyOfFiles(d, dir) ==
  LET s == Slots(d, dir)
  IN  \A i \in Seen(s) : s[i].kind \in {"dead", "dot", "dotdot", "dir"}

IsEmpty(d, dir) ==
  LET s == Slots(d, dir)
  IN  \A i \in Seen(s) : s[i].kind \in {"dead", "dot", "dotdot"}

WriteSlot(course, s) ==
  LET old == SlotsIn(Now(course), s.sector)
  IN  Append(course, [Now(course) EXCEPT !.data[s.sector] = [old EXCEPT ![PlaceOf(s.index)] = s.raw]])

ZeroCluster(course, c) ==
  Append(course, [Now(course) EXCEPT !.data[c] = [i \in 1 .. Per |-> ZeroSlot]])

\* `raw` in the folder's first free slot; a full folder grows by a zeroed
\* cluster that is linked last.  Without a free cluster there is no place.
Added(slot, course) == [there |-> TRUE, slot |-> slot, course |-> WriteSlot(course, slot)]
Add(course, dir, raw) ==
  LET s    == Slots(Now(course), dir)
      open == {i \in DOMAIN s : s[i].kind \in {"zero", "dead"}}
      tail == Last(Chain(Now(course), dir))
      new  == FreeFrom(Now(course), tail + 1)
      grow == Set(Set(ZeroCluster(course, Head(new)), Head(new), EndMark), tail, Head(new))
  IN  IF open # {} THEN Added([ReadSlot(Now(course), dir, Min(open)) EXCEPT !.raw = raw], course)
      ELSE IF new = << >> THEN [there |-> FALSE, slot |-> NoSlot, course |-> course]
      ELSE Added([index |-> Len(s) + 1, sector |-> Head(new), raw |-> raw], grow)

Dead(s) == [s EXCEPT !.raw = DeadSlot]

\* The long-name slots right in front of slot i deleted, the nearest first.
KillLongNames(course, dir, i) ==
  LET s   == Slots(Now(course), dir)
      run == {j \in 1 .. (i - 1) : \A k \in j .. (i - 1) : s[k].kind = "long"}
      killed[n \in 0 .. Cardinality(run)] ==
        IF n = 0 THEN course
        ELSE WriteSlot(killed[n - 1], Dead(ReadSlot(Now(killed[n - 1]), dir, i - n)))
  IN  killed[Cardinality(run)]

Kill(course, dir, s) == WriteSlot(KillLongNames(course, dir, s.index), Dead(s))

=============================================================================
