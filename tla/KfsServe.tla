------------------------------ MODULE KfsServe ------------------------------
(***************************************************************************)
(* What KFS, the writer of the C: image (rom/kos/kfs.zig, kfs_ops.zig,     *)
(* kfs_file.zig), makes of one request: the course of disks that its       *)
(* sector writes pass through, and the answer.  No variables: Kfs cuts the *)
(* courses by the power, GemdosRead lets a cart read between them.         *)
(***************************************************************************)
EXTENDS KfsDisk

CONSTANTS
  Paths,      \* the paths looked at, from C:\ down
  TempName,   \* the temporary file's name, by slot
  Handles,    \* the handles a cart has (0 .. 7)
  DataMax,    \* the most clusters of data a request carries
  MaxNames    \* names a path may have

ASSUME TempNameAssumption == \A h \in Handles : TempName[h] \in STRING

\* A request that kfs_path let through: its path has a name in it.
Path == Seq(STRING) \ {<< >>}
IsRequest(q) ==
  /\ q.path \in Path
  /\ \/ q.op = "write" /\ q.off \in Nat /\ q.data \in Seq(Blocks)
     \/ q.op = "rename" /\ q.path2 \in Path
     \/ q.op \in {"abort", "delete", "mkdir", "rmdir", "setattr"}

Answer(res, course) == [res |-> res, course |-> course]

-----------------------------------------------------------------------------
\* Names and folders.

\* The first cluster of the folder the names lead to, NoCluster if there is none.
FolderOf(d, names) ==
  LET at[n \in 0 .. Len(names)] ==
        IF n = 0 THEN Top
        ELSE LET s == IF at[n - 1] = NoCluster THEN NoSlot ELSE Found(d, at[n - 1], names[n])
             IN  IF s.raw.kind = "dir" THEN s.raw.cluster ELSE NoCluster
  IN  at[Len(names)]

ReadOnly(attr) == attr = "readonly"
Settable(attr) == attr # "label"

-----------------------------------------------------------------------------
\* A save.

\* `data` written to the clusters of `all` behind the first `off`.
PutData(course, all, off, data) ==
  LET put[n \in 0 .. Len(data)] ==
        IF n = 0 THEN course
        ELSE Append(put[n - 1], [Now(put[n - 1]) EXCEPT !.data[all[off + n]] = data[n]])
  IN  put[Len(data)]

\* The clusters of `fresh` made a chain.
LinkUp(course, fresh) ==
  LET last == Len(fresh)
      linked[n \in 0 .. last] ==
        IF n = 0 THEN course
        ELSE Set(linked[n - 1], fresh[n], IF n < last THEN fresh[n + 1] ELSE EndMark)
  IN  linked[last]

\* `data` laid at `off` of the file of slot s: the data first, into clusters
\* the FAT calls free, then the FAT, then the entry.
WriteAt(course, s, off, data) ==
  LET d      == Now(course)
      end    == Max({s.raw.size, off + Len(data)})
      own    == Chain(d, s.raw.cluster)
      need   == IF end > Len(own) THEN end - Len(own) ELSE 0
      spare  == FreeFrom(d, IF own = << >> THEN 1 ELSE Last(own) + 1)
      fresh  == SubSeq(spare, 1, need)
      linked == LinkUp(PutData(course, own \o fresh, off, data), fresh)
      hung   == IF need > 0 /\ own # << >> THEN Set(linked, Last(own), fresh[1]) ELSE linked
      slot   == [s EXCEPT !.raw.size = end,
                          !.raw.cluster = IF own = << >> /\ need > 0 THEN fresh[1] ELSE @]
  IN  IF need > Len(spare) THEN [full |-> TRUE, slot |-> s, course |-> course]
      ELSE [full |-> FALSE, slot |-> slot, course |-> WriteSlot(hung, slot)]

\* Mutant: the clusters freed before the entry goes.
DropFreesFirst(course, dir, name) ==
  LET s == Found(Now(course), dir, name)
  IN  IF s = NoSlot THEN course ELSE Kill(FreeChain(course, s.raw.cluster), dir, s)

\* The entry of slot s deleted, and its clusters freed.
Unlink(course, dir, s) == FreeChain(Kill(course, dir, s), s.raw.cluster)

\* The file named `name` deleted, if it is there.
Drop(course, dir, name) ==
  LET s == Found(Now(course), dir, name) IN IF s = NoSlot THEN course ELSE Unlink(course, dir, s)

\* The temporary file, slot t with its new name, put in place of the file of
\* slot `old` (NoSlot: none), which is as it was when the request came.
\* One write when both slots share a sector; else the old entry goes first.
Commit(course, dir, t, old) ==
  LET bare == KillLongNames(course, dir, old.index)
      was  == SlotsIn(Now(bare), t.sector)
      both == [was EXCEPT ![PlaceOf(old.index)] = DeadSlot, ![PlaceOf(t.index)] = t.raw]
      swap == IF old.sector = t.sector THEN Append(bare, [Now(bare) EXCEPT !.data[t.sector] = both])
                                       ELSE WriteSlot(WriteSlot(bare, Dead(old)), t)
  IN  IF old = NoSlot THEN WriteSlot(course, t) ELSE FreeChain(swap, old.raw.cluster)

\* A chunk laid in the temporary file, and after the last one the commit.
Laid(laid, dir, q, old) ==
  LET t == [laid.slot EXCEPT !.raw.name = Last(q.path), !.raw.ro = ReadOnly(q.attr)]
  IN  IF laid.full THEN Answer("EWRITF", laid.course)
      ELSE IF ~q.last THEN Answer("ok", laid.course)
      ELSE Answer("ok", Commit(laid.course, dir, t, old))

\* `temp` is the temporary file's slot, and the course that found or made it.
Lay(temp, dir, q, old) ==
  IF ~temp.there THEN Answer(IF q.first THEN "EACCDN" ELSE "EIHNDL", temp.course)
  ELSE IF q.off > temp.slot.raw.size THEN Answer("ERANGE", temp.course)
  ELSE Laid(WriteAt(temp.course, temp.slot, q.off, q.data), dir, q, old)

ServeWrite(course, dir, q) ==
  LET name == TempName[q.slot]
      old  == Found(Now(course), dir, Last(q.path))
      kept == Found(Now(course), dir, name)
      temp == IF q.first
                THEN Add(Drop(course, dir, name), dir, ShortSlot("file", name, FALSE, NoCluster, 0))
                ELSE [there |-> kept # NoSlot, slot |-> kept, course |-> course]
  IN  IF q.slot \notin Handles THEN Answer("EIHNDL", course)
      ELSE IF Len(q.data) > DataMax THEN Answer("ERANGE", course)
      ELSE IF old # NoSlot /\ (old.raw.kind = "dir" \/ old.raw.ro) THEN Answer("EACCDN", course)
      ELSE Lay(temp, dir, q, old)

ServeAbort(course, dir, q) ==
  IF q.slot \notin Handles THEN Answer("EIHNDL", course)
                          ELSE Answer("ok", Drop(course, dir, TempName[q.slot]))

-----------------------------------------------------------------------------
\* Files and folders.

\* Mutant: the clusters freed before the entry goes.
ServeDeleteFreesFirst(course, dir, q) ==
  LET s == Found(Now(course), dir, Last(q.path))
  IN  IF s = NoSlot \/ s.raw.kind = "dir" THEN Answer("EFILNF", course)
      ELSE IF s.raw.ro THEN Answer("EACCDN", course)
      ELSE Answer("ok", Kill(FreeChain(course, s.raw.cluster), dir, s))

ServeDelete(course, dir, q) ==
  LET s == Found(Now(course), dir, Last(q.path))
  IN  IF s = NoSlot \/ s.raw.kind = "dir" THEN Answer("EFILNF", course)
      ELSE IF s.raw.ro THEN Answer("EACCDN", course)
      ELSE Answer("ok", Unlink(course, dir, s))

ServeRmdir(course, dir, q) ==
  LET s == Found(Now(course), dir, Last(q.path))
  IN  IF s = NoSlot \/ s.raw.kind # "dir" THEN Answer("EPTHNF", course)
      ELSE IF ~IsEmpty(Now(course), s.raw.cluster) THEN Answer("EACCDN", course)
      ELSE Answer("ok", Unlink(course, dir, s))

ServeSetattr(course, dir, q) ==
  LET s == Found(Now(course), dir, Last(q.path))
  IN  IF s = NoSlot THEN Answer("EFILNF", course)
      ELSE IF ~Settable(q.attr) THEN Answer("EACCDN", course)
      ELSE Answer("ok", WriteSlot(course, [s EXCEPT !.raw.ro = ReadOnly(q.attr)]))

\* The folder's cluster (`.` and `..`) is written and linked before its entry.
ServeMkdir(course, dir, q) ==
  LET free  == FreeFrom(Now(course), 2)
      c     == Head(free)
      zero  == ZeroCluster(course, c)
      dots  == Append(zero, [Now(zero) EXCEPT !.data[c] =
                 [i \in 1 .. Per |-> IF i = 1 THEN DotSlot
                                     ELSE IF i = 2 THEN DotDotSlot(dir) ELSE ZeroSlot]])
      ended == Set(dots, c, EndMark)
      put   == Add(ended, dir, ShortSlot("dir", Last(q.path), FALSE, c, 0))
  IN  IF Len(q.path) >= MaxNames THEN Answer("EPTHNF", course)
      ELSE IF Find(Now(course), dir, Last(q.path)) # 0 THEN Answer("EACCDN", course)
      ELSE IF free = << >> THEN Answer("EWRITF", course)
      ELSE IF ~put.there THEN Answer("EACCDN", Set(put.course, c, Free))
      ELSE Answer("ok", put.course)

\* A folder moved into itself (Mutant: never).
IntoItselfNever(q) == FALSE
IntoItself(q) == IsPrefix(q.path, Front(q.path2))

\* In place within a folder; else a new entry first and the old one deleted
\* after, and a moved folder's `..` made to name its new parent.
ServeRename(course, dir, q) ==
  LET s     == Found(Now(course), dir, Last(q.path))
      to    == FolderOf(Now(course), Front(q.path2))
      moved == [s EXCEPT !.raw.name = Last(q.path2)]
      put   == Add(course, to, moved.raw)
      gone  == Kill(put.course, dir, s)
      up    == ReadSlot(Now(gone), s.raw.cluster, 2)
      upped == IF up.raw.kind = "dotdot" THEN WriteSlot(gone, [up EXCEPT !.raw = DotDotSlot(to)]) ELSE gone
  IN  IF to = NoCluster THEN Answer("EPTHNF", course)
      ELSE IF s = NoSlot THEN Answer("EFILNF", course)
      ELSE IF Find(Now(course), to, Last(q.path2)) # 0 THEN Answer("EACCDN", course)
      ELSE IF s.raw.kind = "dir" /\ IntoItself(q) THEN Answer("EACCDN", course)
      ELSE IF to = dir THEN Answer("ok", WriteSlot(KillLongNames(course, dir, s.index), moved))
      ELSE IF ~put.there THEN Answer("EACCDN", course)
      ELSE Answer("ok", IF s.raw.kind = "dir" THEN upped ELSE gone)

Serve(d, q) ==
  LET dir    == FolderOf(d, Front(q.path))
      course == ForgetFsinfo(<<d>>)
  IN  IF dir = NoCluster THEN Answer("EPTHNF", <<d>>)
      ELSE CASE q.op = "write"   -> ServeWrite(course, dir, q)
             [] q.op = "abort"   -> ServeAbort(course, dir, q)
             [] q.op = "delete"  -> ServeDelete(course, dir, q)
             [] q.op = "rename"  -> ServeRename(course, dir, q)
             [] q.op = "mkdir"   -> ServeMkdir(course, dir, q)
             [] q.op = "rmdir"   -> ServeRmdir(course, dir, q)
             [] q.op = "setattr" -> ServeSetattr(course, dir, q)

-----------------------------------------------------------------------------
\* What a reader finds.

NodeOf(d, s) ==
  LET w == Chain(d, s.cluster)
  IN  IF s.kind = "dir" THEN [kind |-> "dir", ro |-> s.ro]
      ELSE IF Len(w) < s.size THEN [kind |-> "damaged"]
      ELSE [kind |-> "file", ro |-> s.ro, data |-> [j \in 1 .. s.size |-> d.data[w[j]]]]

Named(d, p) ==
  LET dir == FolderOf(d, Front(p))
      i   == IF dir = NoCluster THEN 0 ELSE Find(d, dir, Last(p))
  IN  IF i = 0 THEN [kind |-> "none"] ELSE NodeOf(d, Slots(d, dir)[i])

View(d) == [p \in Paths |-> Named(d, p)]

-----------------------------------------------------------------------------
\* What fsck looks at.

\* The folders of the tree, by first cluster.
FoldersOf(d) ==
  LET Inside(f) == LET s == Slots(d, f)
                   IN  {s[i].cluster : i \in {j \in Seen(s) : s[j].kind = "dir"}}
      reach[n \in Nat] ==
        LET up == IF n = 0 THEN {} ELSE reach[n - 1]
        IN  {Top} \cup UNION {Inside(f) : f \in up}
  IN  reach[MaxNames + 1]

\* The live entries: folder, place and slot; C:\ itself has a place of its own.
EntriesOf(d) ==
  {[dir |-> NoCluster, at |-> 0, slot |-> ShortSlot("dir", "C:", FALSE, Top, 0)]}
  \cup UNION {LET s == Slots(d, f)
              IN  {[dir |-> f, at |-> i, slot |-> s[i]] :
                     i \in {j \in Seen(s) : s[j].kind \in {"file", "dir"}}} :
                f \in FoldersOf(d)}
Held(d, e) == ToSet(Chain(d, e.slot.cluster))

\* No live entry leads to a free cluster, out of the volume, round in a loop
\* or to less than its size.
ChainsSoundIn(d) ==
  \A e \in EntriesOf(d) :
    /\ e.slot.cluster # NoCluster => ChainEnds(d, e.slot.cluster)
    /\ e.slot.size <= Len(Chain(d, e.slot.cluster))

\* No two live entries hold one cluster: counted entry by entry, the clusters
\* held are no more than they are.
HeldIn(d) == UNION {Held(d, e) : e \in EntriesOf(d)}
NoCrossLinkIn(d) ==
  MapThenSumSet(LAMBDA e : Cardinality(Held(d, e)), EntriesOf(d)) = Cardinality(HeldIn(d))

Lost(d) == {c \in Cluster : d.fat[1][c] # Free} \ HeldIn(d)

\* fsck.fat -n has nothing to say.
CleanDisk(d) ==
  /\ ChainsSoundIn(d) /\ NoCrossLinkIn(d)
  /\ Alike(d)
  /\ Lost(d) = {}
  /\ \A f \in FoldersOf(d) :
       LET s == Slots(d, f)
       IN  /\ \A i \in DOMAIN s : s[i].kind # "garbage" /\ (s[i].kind # "zero" => i \in Seen(s))
           /\ \A i \in DOMAIN s : s[i].kind = "long" =>
                i + 1 \in DOMAIN s /\ s[i + 1].kind \in {"long", "file", "dir"}
           /\ \A i, j \in DOMAIN s : s[i].kind \in {"file", "dir"} /\ s[j].kind \in {"file", "dir"}
                /\ s[i].name = s[j].name => i = j
           /\ \A i \in DOMAIN s : s[i].kind = "dir" =>
                Slots(d, s[i].cluster)[2] = DotDotSlot(f)

\* The repair of lost clusters and of FAT copies that differ (external: fsck).
Repaired(d) ==
  LET lost == Lost(d)
      one  == [c \in Cluster |-> IF c \in lost THEN Free ELSE d.fat[1][c]]
  IN  [d EXCEPT !.fat = [k \in 1 .. NFats |-> one]]

=============================================================================
