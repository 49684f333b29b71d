----------------------------- MODULE GemdosRead -----------------------------
(***************************************************************************)
(* GEMDOS's read half in a cart (rom/kos/gemdos.zig, gemdos_io.zig,        *)
(* gemdos_file.zig, gemdos_search.zig, fat.zig, fat_dir.zig) over one      *)
(* drive (gemdos_drive.zig): a FAT volume whose last sector stays in the   *)
(* volume's buffer, and a cache of runs of sectors behind it.  The disk    *)
(* changes under both: C: by the program's own requests, which the host    *)
(* (KfsServe) carries out on the disk itself, A: when another is put in.   *)
(* A sector is a cluster; bytes are counted in sectors.                    *)
(***************************************************************************)
EXTENDS KfsServe, Integers

CONSTANTS
  Root,      \* the first cluster of the volume's root folder
  Run,       \* sectors in a run of the cache (RUN, 8)
  RunSlots,  \* runs it holds (SLOTS, 4)
  MaxRun,    \* the most sectors of one request (MAX_RUN, 64)
  Files,     \* Dos.files (1 .. MAX_FILES)
  Opens,     \* the paths the program opens: [abs, up, names]
  Seeks,     \* where it seeks
  Folders,   \* those it lists and makes its current folder
  Lists,     \* the kinds of entries it asks Fsfirst for: {"file"} or both
  Writes,    \* the calls of it that write: [op, path, path2], and a save's requests
  Disk0,     \* the disk that drive "A" starts with, and drive "C"
  MaxChanges  \* bound: requests to the host, disks put in, failures of the backend

\* A name is looked up as it is: the wildcard "*" is for a search.
Name  == STRING \ {"*"}
Given == [abs : BOOLEAN, up : Nat, names : Seq(Name)]

\* A disk whose folders are F: a look gets to the end of each; and a sound one,
\* as disks are handed to the machine: nothing is named twice in a folder, and
\* files are as long as they say.
FoldersEndIn(d, F) ==
  /\ F \subseteq Cluster /\ Root \in F
  /\ \A f \in F : /\ ChainEnds(d, f) /\ Len(Chain(d, f)) < Clusters
                  /\ \A i \in Seen(Slots(d, f)) : Slots(d, f)[i].kind = "dir" => Slots(d, f)[i].cluster \in F
FileWhole(d, s) == /\ s.cluster \in Cluster => ChainEnds(d, s.cluster)
                   /\ s.size <= Len(Chain(d, s.cluster))
SoundIn(d, F) ==
  /\ FoldersEndIn(d, F)
  /\ \A f \in F : \A i \in Seen(Slots(d, f)) :
       /\ Slots(d, f)[i].kind = "file" => FileWhole(d, Slots(d, f)[i])
       /\ \A j \in Seen(Slots(d, f)) :
            {Slots(d, f)[i].kind, Slots(d, f)[j].kind} \subseteq {"file", "dir"}
              /\ Slots(d, f)[i].name = Slots(d, f)[j].name => i = j

ASSUME LiteralsAssumption == {"", "HD"} \subseteq STRING
ASSUME GemdosReadAssumption ==
  /\ Root \in Cluster
  /\ Run \in Nat \ {0} /\ RunSlots \in Nat \ {0} /\ MaxRun \in Nat \ {0}
  /\ Files \subseteq Nat /\ Seeks \subseteq Nat
  /\ Opens \subseteq Given /\ Folders \subseteq Given
  /\ \A kinds \in Lists : kinds \subseteq {"file", "dir"}
  /\ MaxChanges \in Nat
ASSUME WritesAssumption ==
  \A w \in Writes :
    \/ w.op = "write" /\ IsRequest(w)
    \/ w \in [op : {"rename"}, path : Given, path2 : Given]
    \/ w \in [op : {"delete", "mkdir", "rmdir"}, path : Given]
ASSUME DisksAssumption ==
  \A x \in DOMAIN Disk0 :
    x \in {"A", "C"} /\ Disk0[x] \in Disk /\ Alike(Disk0[x]) /\ \E F \in SUBSET Cluster : SoundIn(Disk0[x], F)

VARIABLES
  drive,  \* which drive it is
  disk,   \* the disk in it
  up,     \* the backend answers
  state,  \* Drive.state
  top,    \* Drive.top
  mem,    \* Drive.cache and the volume's buffer
  cwd,    \* Drive.cwd
  file,   \* Dos.files
  dta,    \* the DTA's search: folder, slot, attributes
  orig,   \* history: what each open file held when it was opened, and whether it is still there
  seen,   \* history: what the search must find, and what it found
  new,    \* history: another disk is in and the program has not said so
  changes

hist == <<orig, seen, new>>
vars == <<drive, disk, up, state, top, mem, cwd, file, dta, orig, seen, new, changes>>

-----------------------------------------------------------------------------
(* Sectors. *)

FatSector == 1
DataStart == NFats + 1
ClusterSector(c) == DataStart + c - 2
LastSector == ClusterSector(Clusters + 1)
NoSector == LastSector + 1

Content(n) == IF n = 0 THEN "bpb" ELSE IF n < DataStart THEN disk.fat[n] ELSE disk.data[n - DataStart + 2]

NoRun == [first |-> 0, data |-> << >>]
NoMem == [sector |-> NoSector, buf |-> "none", runs |-> [i \in 1 .. RunSlots |-> NoRun], victim |-> 1, ok |-> TRUE]
Holds(run, n) == n \in run.first .. (run.first + Len(run.data) - 1)

\* What the backend answers: a run, near the disk's end one sector, or nothing.
Answered(n) == IF ~up THEN << >>
               ELSE [k \in 1 .. (IF n + Run - 1 <= LastSector THEN Run ELSE 1) |-> Content(n + k - 1)]

\* Volume.sector over Drive.readSector: from the buffer, from a run, or from the
\* backend.  After an error (ok FALSE) the call is over and nothing more is read.
Fill(m, n, got) ==
  [m EXCEPT !.victim = (@ % RunSlots) + 1,
            !.runs[m.victim] = IF got = << >> THEN NoRun ELSE [first |-> n, data |-> got],
            !.sector = IF got = << >> THEN NoSector ELSE n,
            !.buf = IF got = << >> THEN "none" ELSE got[1],
            !.ok = got # << >>]
Fetch(m, n) ==
  LET hit == {i \in 1 .. RunSlots : Holds(m.runs[i], n)}
      run == m.runs[Min(hit)]
  IN  IF ~m.ok \/ m.sector = n THEN m
      ELSE IF hit = {} THEN Fill(m, n, Answered(n))
      ELSE [m EXCEPT !.sector = n, !.buf = run.data[n - run.first + 1]]

Fail(m) == [m EXCEPT !.ok = FALSE]

\* Volume.next: the cluster after w.c, NoCluster at the chain's end.
Linked(m, v) ==
  IF ~m.ok \/ v >= FirstEnd THEN [m |-> m, c |-> NoCluster]
  ELSE IF v \notin Cluster THEN [m |-> Fail(m), c |-> NoCluster]
  ELSE [m |-> m, c |-> v]
LinkOf(m, c) == Linked(m, IF m.ok THEN m.buf[c] ELSE 0)
Follow(w) == IF w.c \notin Cluster THEN [m |-> Fail(w.m), c |-> NoCluster]
             ELSE LinkOf(Fetch(w.m, FatSector), w.c)

\* Volume.dirSector: the cluster with a folder's k-th slots.
Onward(w) == IF w.c = NoCluster THEN w ELSE Follow(w)
DirSector(m, dir, k) ==
  LET at[n \in 0 .. (k - 1)] == IF n = 0 THEN [m |-> m, c |-> dir] ELSE Onward(at[n - 1])
  IN  at[k - 1]

\* A slot read; past the folder's last cluster, and after an error, there is none.
NoEntry == [kind |-> "none"]
Entry(m, slot) == [m |-> m, slot |-> slot]
SlotsOf(data) == IF data \in Blocks THEN [i \in 1 .. Per |-> GarbageSlot] ELSE data
SlotIn(m, i) == Entry(m, IF m.ok THEN SlotsOf(m.buf)[PlaceOf(i)] ELSE NoEntry)
SlotAt(w, i) == IF w.c = NoCluster THEN Entry(w.m, NoEntry) ELSE SlotIn(Fetch(w.m, ClusterSector(w.c)), i)

\* fat_dir.next from slot i on, as find and search.next use it: the first
\* entry of `kinds` that `name` matches, and the slot behind it, or NoEntry.
MaxSlot == Clusters * Per
Judge(e, x, kinds, name) ==
  IF e.slot.kind \in {"none", "zero"} THEN [x EXCEPT !.m = e.m, !.over = TRUE]
  ELSE IF e.slot.kind \in kinds /\ name \in {"*", e.slot.name}
    THEN [m |-> e.m, at |-> x.at + 1, slot |-> e.slot, over |-> TRUE]
  ELSE [x EXCEPT !.m = e.m, !.at = @ + 1]
LookOn(x, dir, kinds, name) ==
  IF x.over THEN x
  ELSE IF x.at > MaxSlot THEN [x EXCEPT !.m = Fail(@), !.over = TRUE]
  ELSE Judge(SlotAt(DirSector(x.m, dir, SectorOf(x.at)), x.at), x, kinds, name)
NextEntry(m, dir, i, kinds, name) ==
  LET look[n \in 0 .. (MaxSlot + 1)] ==
        IF n = 0 THEN [m |-> m, at |-> i, slot |-> NoEntry, over |-> FALSE]
        ELSE LookOn(look[n - 1], dir, kinds, name)
  IN  look[MaxSlot + 1]

EntryNamed(m, dir, name) == NextEntry(m, dir, 1, {"file", "dir"}, name)

-----------------------------------------------------------------------------
(* The drive. *)

\* Drive.mount.  A disk that does not mount leaves the volume there was.
RootSlot(c) == ShortSlot("dir", "", FALSE, c, 0)
Bare == [mem EXCEPT !.runs = NoMem.runs]
Rooted(e) ==
  LET yes == e.m.ok /\ e.slot.kind = "dir" /\ e.slot.cluster # NoCluster
  IN  [m |-> [e.m EXCEPT !.ok = TRUE],
       state |-> IF yes THEN "mounted" ELSE "absent",
       top |-> IF yes THEN e.slot.cluster ELSE Root]
Probed(m) ==
  IF m.ok THEN Rooted(IF drive = "C" THEN EntryNamed(m, Root, "HD") ELSE Entry(m, RootSlot(Root)))
  ELSE [m |-> [Bare EXCEPT !.runs = m.runs, !.victim = m.victim], state |-> "absent", top |-> top]
Mount == Probed(Fetch([Bare EXCEPT !.sector = NoSector, !.buf = "none"], 0))

Ready == IF state = "unknown" THEN Mount ELSE [m |-> mem, state |-> state, top |-> top]

\* Drive.absolute.
Names(p) == IF p.abs THEN p.names
            ELSE SubSeq(cwd, 1, IF p.up > Len(cwd) THEN 0 ELSE Len(cwd) - p.up) \o p.names

\* Drive.walk: what the names lead to, NoEntry if one of them is missing or,
\* before the last, a file's.
Down(w, name) ==
  IF w.slot.kind = "dir" THEN EntryNamed(w.m, w.slot.cluster, name) ELSE Entry(w.m, NoEntry)
Walk(r, names) ==
  LET at[n \in 0 .. Len(names)] ==
        IF n = 0 THEN Entry(r.m, RootSlot(r.top)) ELSE Down(at[n - 1], names[n])
  IN  at[Len(names)]

\* Dos.entryOf: the drive after the look, the entry and the refusal.
Looked(r, m, slot, err) == [m |-> m, slot |-> slot, err |-> err, state |-> r.state, top |-> r.top]
Result(r, e, none) ==
  Looked(r, e.m, e.slot, IF ~e.m.ok THEN "EREADF" ELSE IF e.slot.kind = "none" THEN none ELSE "ok")
InFolder(r, w, name) ==
  IF w.m.ok /\ w.slot.kind = "dir" THEN Result(r, EntryNamed(w.m, w.slot.cluster, name), "EFILNF")
  ELSE Result(r, Entry(w.m, NoEntry), "EPTHNF")
EntryFrom(r, names) ==
  IF r.state # "mounted" THEN Looked(r, r.m, NoEntry, "EDRIVE")
  ELSE IF names = << >> THEN Looked(r, r.m, RootSlot(r.top), "ok")
  ELSE InFolder(r, Walk(r, Front(names)), Last(names))

EntryOf(names) == EntryFrom(Ready, names)

\* Dos.folderOf, as Dsetpath and Fsfirst call it.
FolderFrom(r, names) ==
  LET Folder(w) == Result(r, IF w.slot.kind = "dir" THEN w ELSE Entry(w.m, NoEntry), "EPTHNF")
  IN  IF r.state # "mounted" THEN Looked(r, r.m, NoEntry, "EDRIVE") ELSE Folder(Walk(r, names))

FolderAt(names) == FolderFrom(Ready, names)

\* What a look leaves in the drive.
Leaves(r) == /\ mem' = [r.m EXCEPT !.ok = TRUE]
             /\ state' = r.state
             /\ top' = r.top

Outside == UNCHANGED <<drive, disk, up, changes>>

-----------------------------------------------------------------------------
(* Files. *)

Closed == [used |-> FALSE, slot |-> NoEntry, pos |-> 0, cl |-> 0, index |-> 0]
Forgotten == [data |-> << >>, live |-> FALSE]

\* A file's sectors; whether it is still on the disk, under any name (of drive A a
\* program changes no disk, and another one is another disk's).
DataOf(s) == LET n == NodeOf(disk, s) IN IF n.kind = "file" THEN n.data ELSE << >>
Alive(d, s) == drive = "A" \/ \E e \in EntriesOf(d) : e.slot.kind = "file" /\ e.slot.cluster = s.cluster

Opened(slot) == [used |-> TRUE, slot |-> slot, pos |-> 0, cl |-> slot.cluster, index |-> 0]

\* Fopen's look is over before it looks for a handle; without one there is none.
Fopen(p) ==
  \E r \in {EntryOf(Names(p))} :
    LET free == {h \in Files : ~file[h].used}
    IN  /\ Leaves(r)
        /\ IF r.err = "ok" /\ r.slot.kind = "file" /\ free # {}
             THEN /\ file' = [file EXCEPT ![Min(free)] = Opened(r.slot)]
                  /\ orig' = [orig EXCEPT ![Min(free)] = [data |-> DataOf(r.slot),
                                                          live |-> ~new /\ Alive(disk, r.slot)]]
             ELSE UNCHANGED <<file, orig>>
        /\ UNCHANGED <<cwd, dta, seen, new>> /\ Outside

Fclose(h) ==
  /\ file[h].used
  /\ file' = [file EXCEPT ![h] = Closed]
  /\ orig' = [orig EXCEPT ![h] = Forgotten]
  /\ UNCHANGED <<state, top, mem, cwd, dta, seen, new>> /\ Outside

\* File.clusterAt: walked from the cluster remembered, or from the first.
Hop(v, x) == IF x.c = NoCluster THEN [v EXCEPT !.m = Fail(x.m)]
             ELSE [v EXCEPT !.m = x.m, !.f.cl = x.c, !.f.index = @ + 1]
NextHop(v) == IF v.m.ok THEN Hop(v, Follow([m |-> v.m, c |-> v.f.cl])) ELSE v
Walked(w) ==
  LET hops == IF w.f.index < w.f.pos THEN w.f.pos - w.f.index ELSE 0
      at[n \in 0 .. hops] == IF n = 0 THEN w ELSE NextHop(at[n - 1])
  IN  at[hops]
ClusterAtForward(w) == Walked(w) \* mutant: never goes back
ClusterAt(w) == Walked(IF w.f.pos < w.f.index THEN [w EXCEPT !.f.cl = w.f.slot.cluster, !.f.index = 0] ELSE w)

\* How many clusters, `most` at most, follow each other on the disk from s.c on,
\* as File.direct finds out.
Further(s, x) ==
  IF x.m.ok /\ x.c = s.c + 1 THEN [m |-> x.m, c |-> x.c, n |-> s.n + 1] ELSE [s EXCEPT !.m = x.m]
Straight(s, most) ==
  LET run[n \in 0 .. (most - 1)] ==
        IF n = 0 THEN s ELSE Further(run[n - 1], Follow([m |-> run[n - 1].m, c |-> run[n - 1].c]))
  IN  run[most - 1]

\* File.direct, over the s.n clusters that follow each other from w's on.
Direct(w, s) ==
  IF ~s.m.ok \/ ~up THEN [w EXCEPT !.m = Fail(s.m)]
  ELSE [w EXCEPT !.m = s.m,
                 !.f = [w.f EXCEPT !.cl = s.c, !.index = w.f.pos + s.n - 1, !.pos = w.f.pos + s.n],
                 !.want = w.want - s.n,
                 !.got = w.got \o [k \in 1 .. s.n |-> Content(ClusterSector(w.f.cl) + k - 1)]]

\* File.viaCache.
ViaCache(w, m) ==
  IF ~m.ok THEN [w EXCEPT !.m = m]
  ELSE [w EXCEPT !.m = m, !.f.pos = @ + 1, !.want = @ - 1, !.got = Append(@, m.buf)]

\* File.read: straight into the caller's buffer where a run or more is wanted
\* and it is aligned, else through the cache.
Piece(w, aligned) ==
  IF ~w.m.ok THEN w
  ELSE IF w.want >= Run /\ aligned THEN Direct(w, Straight([m |-> w.m, c |-> w.f.cl, n |-> 1], Min({w.want, MaxRun})))
  ELSE ViaCache(w, Fetch(w.m, ClusterSector(w.f.cl)))
NextPiece(w, aligned) == IF w.want = 0 \/ ~w.m.ok THEN w ELSE Piece(ClusterAt(w), aligned)
ReadOn(w, aligned) ==
  LET done[n \in 0 .. w.want] == IF n = 0 THEN w ELSE NextPiece(done[n - 1], aligned)
  IN  done[w.want]
Read(f, count, aligned) ==
  ReadOn([m |-> mem, f |-> f, want |-> Min({count, f.slot.size - f.pos}), got |-> << >>], aligned)

\* Fread does not look whether the drive is mounted.
Fread(h, count, aligned) ==
  /\ file[h].used
  /\ \E r \in {Read(file[h], count, aligned)} :
       /\ mem' = [r.m EXCEPT !.ok = TRUE]
       /\ file' = [file EXCEPT ![h] = r.f]
  /\ UNCHANGED <<state, top, cwd, dta, hist>> /\ Outside

Fseek(h, to) ==
  /\ file[h].used /\ to <= file[h].slot.size
  /\ file' = [file EXCEPT ![h].pos = to]
  /\ UNCHANGED <<state, top, mem, cwd, dta, hist>> /\ Outside

-----------------------------------------------------------------------------
(* Folders and searches. *)

Dsetpath(p) ==
  \E r \in {FolderAt(Names(p))} :
    /\ Leaves(r)
    /\ cwd' = IF r.err = "ok" THEN Names(p) ELSE cwd
    /\ UNCHANGED <<file, dta, hist>> /\ Outside

NoSearch == [dir |-> NoCluster, at |-> 0, kinds |-> {}]
NotSought == [must |-> {}, found |-> {}]

\* The names of a folder's entries of some kinds.
Listed(d, dir, kinds) == LET s == Slots(d, dir) IN {s[i].name : i \in {j \in Seen(s) : s[j].kind \in kinds}}

\* search.next over r's volume for what was sought so far: the DTA moves behind
\* what it finds.
MovedNot(r, t, sought, e) == \* mutant: the DTA keeps its slot
  [m |-> e.m, state |-> r.state, top |-> r.top, dta |-> t,
   name |-> IF e.slot.kind = "none" THEN {} ELSE {e.slot.name},
   seen |-> sought]
Moved(r, t, sought, e) ==
  [m |-> e.m, state |-> r.state, top |-> r.top, dta |-> [t EXCEPT !.at = e.at],
   name |-> IF e.slot.kind = "none" THEN {} ELSE {e.slot.name},
   seen |-> sought]
SearchOn(r, t, sought) == Moved(r, t, sought, NextEntry(r.m, t.dir, t.at, t.kinds, "*"))

\* A search that did not get there.
NotFound(r) == [m |-> r.m, state |-> r.state, top |-> r.top, dta |-> dta, name |-> {}, seen |-> seen]

FirstFound(r, kinds) ==
  IF r.err # "ok" THEN NotFound(r)
  ELSE SearchOn(r, [dir |-> r.slot.cluster, at |-> 1, kinds |-> kinds],
             [must |-> IF new THEN {} ELSE Listed(disk, r.slot.cluster, kinds), found |-> {}])
NextFound(r) == IF r.state = "mounted" THEN SearchOn(r, dta, seen) ELSE NotFound(r)

Searched(x) ==
  /\ Leaves(x)
  /\ dta' = x.dta
  /\ seen' = [x.seen EXCEPT !.found = @ \cup x.name]
  /\ UNCHANGED <<cwd, file, orig, new>> /\ Outside

Fsfirst(p, kinds) == \E x \in {FirstFound(FolderAt(Names(p)), kinds)} : Searched(x)
Fsnext == dta # NoSearch /\ \E x \in {NextFound(Ready)} : Searched(x)

-----------------------------------------------------------------------------
(* Requests to the host. *)

\* What of the histories outlives the change to disk d.
Stays(d, dir, n) == LET i == Find(disk, dir, n)
                    IN  i # 0 /\ i \in DOMAIN Slots(d, dir) /\ Slots(d, dir)[i] = Slots(disk, dir)[i]
Outlives(d, other) ==
  /\ orig' = [h \in Files |-> [orig[h] EXCEPT !.live = @ /\ ~other /\ Alive(d, file[h].slot)]]
  /\ seen' = [seen EXCEPT !.must = {n \in @ : ~other /\ Stays(d, dta.dir, n)}]

\* What a call of gemdos_wops finds before it asks: the drive after its looks,
\* and whether it asks at all.  A save's requests look at nothing; the new name
\* of a rename is looked up after the old one, whether that is there or not.
Checked(r, fine) == [r |-> r, fine |-> fine]
RenameChecked(w, r, r2) ==
  Checked(r2, r.err = "ok" /\ r2.err = "EFILNF"
              /\ ~(r.slot.kind = "dir" /\ IsPrefix(Names(w.path), Front(Names(w.path2)))))
OpChecked(w, r) ==
  IF w.op = "rename"
    THEN RenameChecked(w, r, IF r.err \in {"ok", "EFILNF"} THEN EntryFrom(r, Names(w.path2)) ELSE r)
  ELSE Checked(r, CASE w.op = "delete" -> r.err = "ok" /\ r.slot.kind = "file" /\ ~r.slot.ro
                    [] w.op = "mkdir"  -> r.err = "EFILNF"
                    [] w.op = "rmdir"  -> r.err = "ok" /\ r.slot.kind = "dir" /\ ~IsPrefix(Names(w.path), cwd))
Check(w) == IF w.op = "write" THEN Checked([m |-> mem, state |-> state, top |-> top], TRUE)
            ELSE OpChecked(w, EntryOf(Names(w.path)))

\* What the host is asked.
Asked(w) == CASE w.op = "write"  -> w
              [] w.op = "rename" -> [w EXCEPT !.path = Names(@), !.path2 = Names(@)]
              [] OTHER -> [w EXCEPT !.path = Names(@)]

\* Fdelete, Frename, Dcreate, Ddelete and a save's requests, over Drive.send and
\* Drive.forget.  Drive A takes none (EWRPRO, before it looks further than the
\* mount).
Write(w) ==
  /\ \E x \in {Check(w)} :
       IF drive = "C" /\ x.fine
         THEN /\ changes < MaxChanges
              /\ \E d \in {Now(Serve(disk, Asked(w)).course)} : disk' = d /\ Outlives(d, FALSE)
              /\ mem' = [x.r.m EXCEPT !.runs = NoMem.runs, !.ok = TRUE]
              /\ state' = "unknown" /\ top' = x.r.top
              /\ changes' = changes + 1
         ELSE Leaves(IF drive = "C" THEN x.r ELSE Ready) /\ UNCHANGED <<disk, changes, orig, seen>>
  /\ UNCHANGED <<drive, up, cwd, file, dta, new>>

-----------------------------------------------------------------------------
(* The drive's other side. *)

PutIn(d) ==
  /\ drive = "A" /\ changes < MaxChanges /\ d # disk
  /\ disk' = d
  /\ new' = TRUE
  /\ changes' = changes + 1
  /\ Outlives(d, TRUE)
  /\ UNCHANGED <<drive, up, state, top, mem, cwd, file, dta>>

MediaChangeEmpties == \* mutant: the cache is emptied, the volume kept
  /\ drive = "A" /\ new
  /\ cwd' = << >>
  /\ mem' = [mem EXCEPT !.runs = NoMem.runs]
  /\ new' = FALSE
  /\ UNCHANGED <<state, top, file, dta, orig, seen>> /\ Outside

\* mediaChangeA, Drive.reset: the program saw the media count move.
MediaChange ==
  /\ drive = "A" /\ new
  /\ state' = "unknown" /\ cwd' = << >>
  /\ mem' = [mem EXCEPT !.runs = NoMem.runs]
  /\ new' = FALSE
  /\ UNCHANGED <<top, file, dta, orig, seen>> /\ Outside

Break ==
  /\ up /\ changes < MaxChanges
  /\ up' = FALSE /\ changes' = changes + 1
  /\ UNCHANGED <<drive, disk, state, top, mem, cwd, file, dta, hist>>

Mend ==
  /\ ~up
  /\ up' = TRUE
  /\ UNCHANGED <<drive, disk, state, top, mem, cwd, file, dta, hist, changes>>

Init ==
  /\ drive \in DOMAIN Disk0 /\ disk = Disk0[drive] /\ up = TRUE
  /\ state = "unknown" /\ top = Root /\ mem = NoMem /\ cwd = << >>
  /\ file = [h \in Files |-> Closed]
  /\ dta = NoSearch
  /\ orig = [h \in Files |-> Forgotten] /\ seen = NotSought /\ new = FALSE
  /\ changes = 0

Counts == 1 .. Run
Reads ==
  \/ \E p \in Opens : Fopen(p)
  \/ \E h \in Files : \/ Fclose(h)
                      \/ \E n \in Counts, a \in BOOLEAN : Fread(h, n, a)
                      \/ \E to \in Seeks : Fseek(h, to)
  \/ \E p \in Folders : Dsetpath(p) \/ \E kinds \in Lists : Fsfirst(p, kinds)
  \/ Fsnext
Next == Reads \/ (\E w \in Writes : Write(w)) \/ (\E d \in Range(Disk0) : PutIn(d)) \/ MediaChange \/ Break \/ Mend

Spec == Init /\ [][Next]_vars

-----------------------------------------------------------------------------
(* Properties. *)

\* What a path names on the disk as it is.
EntryIn(s, name) ==
  IF s.kind = "dir" /\ Find(disk, s.cluster, name) # 0
    THEN Slots(disk, s.cluster)[Find(disk, s.cluster, name)] ELSE NoEntry
TopNow == IF drive = "C" THEN EntryIn(RootSlot(Root), "HD").cluster ELSE Root
There(names) ==
  LET at[n \in 0 .. Len(names)] == IF n = 0 THEN RootSlot(TopNow) ELSE EntryIn(at[n - 1], names[n])
  IN  at[Len(names)]

\* LooksAfresh: whatever the program opens next is looked up on the disk as it
\* is, after its own requests and after a media change it has told of: no entry
\* from a run, a buffer, a mount of before (docs/KOS_GEMDOS_WRITES.md,
\* "Coherence"); and the look fails only with the backend.
LooksAfresh ==
  ~new => \A p \in Opens : \A r \in {EntryOf(Names(p))} :
    /\ r.err = "ok" => r.slot = There(Names(p))
    /\ r.err \in {"EFILNF", "EPTHNF"} => There(Names(p)) = NoEntry
    /\ r.err = "EREADF" => ~up

\* HandleReads: Fread answers the bytes the file had when it was opened, from
\* the position on, as long as the file is there, renamed or not, whatever was
\* saved and deleted around it since and although the volume's buffer may be
\* older than that; and it fails only with the backend.
HandleReads ==
  \A h \in Files, n \in Counts, aligned \in BOOLEAN : \A f \in {file[h]} :
    orig[h].live =>
      \A r \in {Read(f, n, aligned)} :
        IF r.m.ok THEN r.got = SubSeq(orig[h].data, f.pos + 1, Min({f.pos + n, Len(orig[h].data)})) ELSE ~up

\* SearchFinds: Fsnext finds each entry of the folder that stays where it is,
\* once, whatever the program deletes, renames and saves between: it does not
\* end before it has found them all, and does not find one twice.
SearchFinds ==
  dta # NoSearch => \A x \in {NextFound(Ready)} :
    /\ x.name = {} /\ x.m.ok /\ x.state = "mounted" => seen.must \subseteq seen.found
    /\ x.name \cap seen.must \cap seen.found = {}

=============================================================================
