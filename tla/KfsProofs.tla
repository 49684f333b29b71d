------------------------------ MODULE KfsProofs ------------------------------
(***************************************************************************)
(* Theorems of Kfs: what its writes keep of a volume's shape, of FSInfo's  *)
(* count and of the copies of the FAT, whatever the volume, the requests   *)
(* and the power cuts.  What a request's course keeps is KfsServeProofs'.  *)
(***************************************************************************)
EXTENDS Kfs, KfsServeProofs

-----------------------------------------------------------------------------
(* The inductive invariant. *)

\* CopiesClose: at every cut the copies of the FAT differ in one cluster's
\* entry at most, and between requests in none (kf.Disk.set).
Differ(d) == {c \in Cluster : \E k \in 1 .. NFats : d.fat[k][c] # d.fat[1][c]}
CopiesClose == Cardinality(Differ(disk)) <= (IF Idle THEN 0 ELSE 1)

\* The image has its shape and a FAT whose copies are close; it states a count
\* of free clusters only while it is as clean as a volume that none has written.
DiskInv ==
  /\ disk \in Disk
  /\ \E c \in Cluster : DifferAt(disk, c)
  /\ powered /\ todo = << >> => Alike(disk)
  /\ disk.fsinfo # Unknown => CleanDisk(disk) /\ Honest(disk)

\* What is still to be written has its shape too, states nothing, and ends alike.
TodoInv ==
  /\ todo \in Seq(Disk)
  /\ \A j \in 1 .. Len(todo) : todo[j].fsinfo = Unknown /\ \E c \in Cluster : DifferAt(todo[j], c)
  /\ todo # << >> => Alike(todo[Len(todo)]) /\ powered /\ served # Nobody

\* Whom it serves, within the bounds; a volume that a served request has
\* nothing more to write to is alike.
CountInv ==
  /\ gen \in 0 .. MaxGen /\ cuts \in 0 .. MaxCuts /\ powered \in BOOLEAN
  /\ served = Nobody \/ served.q \in Requests
  /\ powered /\ served # Nobody => gen < MaxGen
  /\ ~powered => served # Nobody

KInv == DiskInv /\ TodoInv /\ CountInv

LEMMA AlikeDiffers ==
  ASSUME NEW d, Alike(d)
  PROVE  \E c \in Cluster : DifferAt(d, c)
BY ConstantsAre DEF Alike, DifferAt

LEMMA InitInv == Init => KInv
<1> SUFFICES ASSUME Init PROVE KInv
  OBVIOUS
<1>1. disk \in Disk /\ CleanDisk(disk) /\ Honest(disk)
  BY Disk0Assumption DEF Init
<1>2. Alike(disk)
  BY <1>1 DEF CleanDisk, Alike
<1>3. DiskInv
  BY <1>1, <1>2, AlikeDiffers DEF DiskInv
<1>4. TodoInv
  BY DEF Init, TodoInv
<1>5. CountInv
  BY BoundsAssumption DEF Init, CountInv
<1> QED BY <1>3, <1>4, <1>5 DEF KInv

\* What is left of a course behind its first disk is fit to be written.
LEMMA TailIs ==
  ASSUME NEW cs, Course(cs), NEW t, t = Tail(cs)
  PROVE  /\ t \in Seq(Disk) /\ Len(t) = Len(cs) - 1
         /\ \A j \in 1 .. Len(t) : t[j].fsinfo = Unknown /\ \E c \in Cluster : DifferAt(t[j], c)
         /\ t # << >> => t[Len(t)] = Now(cs)
<1>1. cs \in Seq(Disk) /\ cs # << >> /\ Len(cs) \in Nat \ {0} /\ Now(cs) = cs[Len(cs)]
  BY NowIs DEF Course
<1>2. t \in Seq(Disk) /\ Len(t) = Len(cs) - 1 /\ \A j \in 1 .. Len(t) : t[j] = cs[j + 1]
  BY <1>1
<1>3. ASSUME NEW j \in 1 .. Len(t)
      PROVE  t[j].fsinfo = Unknown /\ \E c \in Cluster : DifferAt(t[j], c)
  <2>1. j + 1 \in 2 .. Len(cs) /\ t[j] = cs[j + 1]
    BY <1>1, <1>2
  <2> QED BY <2>1 DEF Course
<1>4. ASSUME t # << >> PROVE t[Len(t)] = Now(cs)
  <2>1. Len(t) \in 1 .. Len(t) /\ Len(t) + 1 = Len(cs)
    BY <1>1, <1>2, <1>4
  <2> QED BY <1>1, <1>2, <2>1
<1> QED BY <1>2, <1>3, <1>4

\* No request is the one that stands for none: it is of another kind.
LEMMA SomebodyServed ==
  ASSUME NEW q \in Requests, NEW res
  PROVE  [q |-> q, res |-> res] # Nobody
<1>1. q # [op |-> "none"]
  <2>1. q.op # "none"
    BY RequestsAssumption DEF IsRequest
  <2> QED BY <2>1
<1>2. [q |-> q, res |-> res].q # Nobody.q
  BY <1>1 DEF Nobody
<1> QED BY <1>2

LEMMA RequestInv ==
  ASSUME KInv, NEW q \in Requests, Request(q)
  PROVE  KInv'
<1> DEFINE a == Serve(disk, q)
<1>1. /\ Idle /\ gen < MaxGen /\ todo' = Tail(a.course) /\ served' = [q |-> q, res |-> a.res]
      /\ UNCHANGED << disk, gen, powered, cuts >>
  BY DEF Request
<1>2. served' # Nobody /\ served'.q \in Requests
  BY <1>1, SomebodyServed
<1>3. a.course = << disk >> \/ Rest(a.course)
  <2>1. disk \in Disk /\ Alike(disk) /\ IsRequest(q)
    BY <1>1, RequestsAssumption DEF KInv, DiskInv, Idle, TodoInv
  <2> QED BY <2>1, ServeRest
<1> HIDE DEF a
<1>4. TodoInv'
  <2>1. CASE a.course = << disk >>
    <3>1. todo' = << >>
      BY <1>1, <2>1
    <3> QED BY <3>1 DEF TodoInv
  <2>2. CASE Rest(a.course)
    <3>1. /\ todo' \in Seq(Disk) /\ Len(todo') = Len(a.course) - 1
          /\ \A j \in 1 .. Len(todo') : todo'[j].fsinfo = Unknown /\ \E c \in Cluster : DifferAt(todo'[j], c)
          /\ todo' # << >> => todo'[Len(todo')] = Now(a.course)
      BY <1>1, <2>2, TailIs DEF Rest
    <3>2. todo' # << >> => Alike(todo'[Len(todo')])
      BY <3>1, <2>2 DEF Rest
    <3>3. powered' /\ served' # Nobody'
      BY <1>1, <1>2 DEF Idle, Nobody
    <3> QED BY <3>1, <3>2, <3>3 DEF TodoInv
  <2> QED BY <1>3, <2>1, <2>2
<1>5. DiskInv'
  <2>1. Alike(disk)
    BY <1>1 DEF KInv, DiskInv, Idle, TodoInv
  <2> QED BY <1>1, <2>1 DEF KInv, DiskInv, Alike, DifferAt
<1>6. CountInv'
  BY <1>1, <1>2 DEF KInv, CountInv, Idle, Nobody
<1> QED BY <1>4, <1>5, <1>6 DEF KInv

LEMMA WriteInv ==
  ASSUME KInv, Write
  PROVE  KInv'
<1>1. /\ powered /\ todo # << >> /\ disk' = Head(todo) /\ todo' = Tail(todo)
      /\ UNCHANGED << served, gen, powered, cuts >>
  BY DEF Write
<1>2. /\ todo \in Seq(Disk) /\ served # Nobody /\ Alike(todo[Len(todo)])
      /\ \A j \in 1 .. Len(todo) : todo[j].fsinfo = Unknown /\ \E c \in Cluster : DifferAt(todo[j], c)
  BY <1>1 DEF KInv, TodoInv
<1>3. /\ Len(todo) \in Nat \ {0} /\ 1 \in 1 .. Len(todo) /\ disk' = todo[1] /\ disk' \in Disk
      /\ todo' \in Seq(Disk) /\ Len(todo') = Len(todo) - 1
      /\ \A j \in 1 .. Len(todo') : todo'[j] = todo[j + 1] /\ j + 1 \in 1 .. Len(todo)
  BY <1>1, <1>2
<1>4. DiskInv'
  <2>1. disk'.fsinfo = Unknown /\ \E c \in Cluster : DifferAt(disk', c)
    BY <1>2, <1>3
  <2>2. todo' = << >> => Alike(disk')
    <3>1. todo' = << >> => Len(todo) = 1
      BY <1>3
    <3> QED BY <3>1, <1>2, <1>3
  <2> QED BY <1>3, <2>1, <2>2 DEF DiskInv
<1>5. TodoInv'
  <2>1. \A j \in 1 .. Len(todo') : todo'[j].fsinfo = Unknown /\ \E c \in Cluster : DifferAt(todo'[j], c)
    BY <1>2, <1>3
  <2>2. todo' # << >> => Len(todo') \in 1 .. Len(todo') /\ Len(todo') + 1 = Len(todo)
    BY <1>3
  <2>3. todo' # << >> => Alike(todo'[Len(todo')])
    BY <1>1, <1>2, <1>3, <2>2
  <2>4. powered' /\ served' # Nobody'
    BY <1>1, <1>2 DEF Nobody
  <2> QED BY <1>3, <2>1, <2>3, <2>4 DEF TodoInv
<1>6. CountInv'
  BY <1>1 DEF KInv, CountInv, Nobody
<1> QED BY <1>4, <1>5, <1>6 DEF KInv

LEMMA ReplyInv ==
  ASSUME KInv, Reply
  PROVE  KInv'
<1>1. /\ powered /\ served # Nobody /\ todo = << >> /\ served' = Nobody
      /\ gen' = (IF served.res = "ok" THEN gen + 1 ELSE gen)
      /\ UNCHANGED << disk, todo, powered, cuts >>
  BY DEF Reply
<1>2. DiskInv'
  BY <1>1 DEF KInv, DiskInv, Alike, DifferAt
<1>3. TodoInv'
  BY <1>1 DEF KInv, TodoInv
<1>4. CountInv'
  <2>1. gen \in 0 .. MaxGen /\ gen < MaxGen
    BY <1>1 DEF KInv, CountInv
  <2>2. gen' \in 0 .. MaxGen
    BY <1>1, <2>1, BoundsAssumption
  <2>3. served' = Nobody'
    BY <1>1 DEF Nobody
  <2> QED BY <1>1, <2>2, <2>3 DEF KInv, CountInv
<1> QED BY <1>2, <1>3, <1>4 DEF KInv

LEMMA CutInv ==
  ASSUME KInv, Cut
  PROVE  KInv'
<1>1. /\ served # Nobody /\ todo' = << >> /\ powered' = FALSE /\ cuts < MaxCuts /\ cuts' = cuts + 1
      /\ UNCHANGED << disk, served, gen >>
  BY DEF Cut
<1>2. DiskInv'
  BY <1>1 DEF KInv, DiskInv, DifferAt
<1>3. TodoInv'
  BY <1>1 DEF TodoInv
<1>4. CountInv'
  <2>1. gen' \in 0 .. MaxGen /\ cuts' \in 0 .. MaxCuts
    BY <1>1, BoundsAssumption DEF KInv, CountInv
  <2>2. served' # Nobody' /\ (served' = Nobody' \/ served'.q \in Requests)
    BY <1>1 DEF KInv, CountInv, Nobody
  <2> QED BY <1>1, <2>1, <2>2 DEF CountInv
<1> QED BY <1>2, <1>3, <1>4 DEF KInv

\* A repaired volume has its shape and copies that are alike.
LEMMA RepairedIs ==
  ASSUME NEW d \in Disk
  PROVE  /\ Repaired(d) \in Disk /\ Alike(Repaired(d)) /\ Repaired(d).fsinfo = d.fsinfo
         /\ CleanDisk(d) => Repaired(d).fat[1] = d.fat[1]
<1> DEFINE lost == Lost(d)
           one  == [c \in Cluster |-> IF c \in lost THEN Free ELSE d.fat[1][c]]
           fat  == [k \in 1 .. NFats |-> one]
<1>1. 1 \in 1 .. NFats /\ Free \in 0 .. EndMark
  BY ConstantsAre
<1>2. d.fat[1] \in [Cluster -> 0 .. EndMark]
  BY <1>1 DEF Disk
<1>3. CleanDisk(d) => lost = {}
  BY DEF CleanDisk
<1>4. Repaired(d) = [d EXCEPT !.fat = fat]
  BY DEF Repaired
<1> HIDE DEF lost
<1>5. one \in [Cluster -> 0 .. EndMark]
  BY <1>1, <1>2
<1>6. CleanDisk(d) => one = d.fat[1]
  BY <1>2, <1>3
<1> HIDE DEF one
<1>7. fat \in [1 .. NFats -> [Cluster -> 0 .. EndMark]] /\ \A k \in 1 .. NFats : fat[k] = one
  BY <1>5
<1> HIDE DEF fat
<1>8. Repaired(d) \in Disk /\ Repaired(d).fat = fat /\ Repaired(d).fsinfo = d.fsinfo
  BY <1>4, <1>7 DEF Disk
<1> QED BY <1>1, <1>6, <1>7, <1>8 DEF Alike

LEMMA FsckInv ==
  ASSUME KInv, Fsck
  PROVE  KInv'
<1> DEFINE r == Repaired(disk)
<1>1. /\ ~powered /\ CleanDisk(r) /\ disk' = r /\ powered' = TRUE /\ served' = Nobody
      /\ UNCHANGED << todo, gen, cuts >>
  BY DEF Fsck
<1>2. r \in Disk /\ Alike(r) /\ r.fsinfo = disk.fsinfo /\ (CleanDisk(disk) => r.fat[1] = disk.fat[1])
  BY RepairedIs DEF KInv, DiskInv
<1> HIDE DEF r
<1>3. r.fsinfo # Unknown => Honest(r)
  BY <1>2 DEF KInv, DiskInv, Honest
<1>4. DiskInv'
  BY <1>1, <1>2, <1>3, AlikeDiffers DEF DiskInv
<1>5. TodoInv'
  <2>1. todo = << >>
    BY <1>1 DEF KInv, TodoInv
  <2> QED BY <1>1, <2>1 DEF TodoInv
<1>6. CountInv'
  BY <1>1 DEF KInv, CountInv, Nobody
<1> QED BY <1>4, <1>5, <1>6 DEF KInv

LEMMA NextInv == KInv /\ [Next]_vars => KInv'
<1> SUFFICES ASSUME KInv, [Next]_vars PROVE KInv'
  OBVIOUS
<1>1. CASE UNCHANGED vars
  BY <1>1 DEF vars, KInv, DiskInv, TodoInv, CountInv, Nobody
<1>2. CASE Next
  BY <1>2, RequestInv, WriteInv, ReplyInv, CutInv, FsckInv DEF Next
<1> QED BY <1>1, <1>2

-----------------------------------------------------------------------------
(* The theorems. *)

\* Invariant: the inductive invariant holds, whatever the constants.
THEOREM Invariant == Spec => []KInv
BY InitInv, NextInv, PTL DEF Spec

\* TypeCorrect: whatever the requests, every disk that is or will be written is
\* a well-formed volume: FAT entries of the FAT's width, every folder's slots
\* of the kinds that a reader knows, every cluster number in the volume
\* (kfs_fat.Disk.set, kfs_dir.write, kfs_file.writeAt).
THEOREM TypeCorrect == Spec => []TypeOK
<1>1. KInv => TypeOK
  <2> SUFFICES ASSUME KInv PROVE TypeOK
    OBVIOUS
  <2>1. \A j \in DOMAIN todo : todo[j] \in Disk
    BY DEF KInv, TodoInv
  <2>2. (~powered => todo = << >>) /\ ((todo # << >> \/ ~powered) => served # Nobody)
    BY DEF KInv, TodoInv, CountInv
  <2> QED BY <2>1, <2>2 DEF KInv, DiskInv, CountInv, TypeOK
<1> QED BY <1>1, Invariant, PTL

\* FsinfoStaysHonest: FSInfo never states a count of free clusters that the FAT
\* does not bear out, at any sector write and after any cut and repair: every
\* course that writes at all makes it state none first (Disk.forgetFsinfo).
THEOREM FsinfoStaysHonest == Spec => []FsinfoHonest
<1>1. KInv => FsinfoHonest
  BY DEF KInv, DiskInv, FsinfoHonest, Honest
<1> QED BY <1>1, Invariant, PTL

\* CopiesStayClose: wherever the power goes, the copies of the FAT differ in one
\* cluster's entry at most, and between two requests in none, so that fsck's
\* choice of a copy decides one entry and no more (Disk.set sets every copy of
\* an entry before anything else is written).
THEOREM CopiesStayClose == Spec => []CopiesClose
<1>1. KInv => CopiesClose
  <2> SUFFICES ASSUME KInv PROVE CopiesClose
    OBVIOUS
  <2>1. CASE Idle
    <3>1. Differ(disk) = {}
      BY <2>1 DEF KInv, DiskInv, TodoInv, Alike, Differ, Idle
    <3> QED BY <3>1, <2>1, FS_EmptySet DEF CopiesClose
  <2>2. CASE ~Idle
    <3>1. PICK c \in Cluster : DifferAt(disk, c)
      BY DEF KInv, DiskInv
    <3>2. Differ(disk) \subseteq {c}
      BY <3>1 DEF Differ, DifferAt
    <3>3. IsFiniteSet({c}) /\ Cardinality({c}) = 1
      BY FS_Singleton
    <3>4. Cardinality(Differ(disk)) <= 1
      BY <3>2, <3>3, FS_Subset
    <3> QED BY <3>4, <2>2 DEF CopiesClose
  <2> QED BY <2>1, <2>2
<1> QED BY <1>1, Invariant, PTL

=============================================================================
