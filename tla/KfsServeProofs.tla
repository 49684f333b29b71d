--------------------------- MODULE KfsServeProofs ---------------------------
(***************************************************************************)
(* What the courses of KfsServe keep, whatever the volume and the request: *)
(* Rest(course) says that a course is one of well-formed disks and could   *)
(* end here; each helper of the writer takes a course at rest to one at    *)
(* rest.  A helper that loops is a function defined by recursion on how    *)
(* often it has gone round: that there is such a function, and that it     *)
(* stays at rest, are both shown by looking at the first round at which    *)
(* they would fail.                                                        *)
(***************************************************************************)
EXTENDS KfsServe, FiniteSetTheorems, WellFoundedInduction, TLAPS

Data == Blocks \cup [1 .. Per -> Slot]

\* The copies of the FAT differ in cluster c's entry at most.
DifferAt(d, c) == \A k \in 1 .. NFats, x \in Cluster : x # c => d.fat[k][x] = d.fat[1][x]

\* Well-formed disks; behind the first, FSInfo states nothing and the copies
\* of the FAT differ in one entry at most.
Course(cs) ==
  /\ cs \in Seq(Disk) /\ cs # << >>
  /\ \A j \in 2 .. Len(cs) : cs[j].fsinfo = Unknown /\ \E c \in Cluster : DifferAt(cs[j], c)

\* A course in which cluster c's entry is being set, and one between two edits.
Setting(cs, c) == Course(cs) /\ Now(cs).fsinfo = Unknown /\ DifferAt(Now(cs), c)
Rest(cs) == Course(cs) /\ Now(cs).fsinfo = Unknown /\ Alike(Now(cs))

-----------------------------------------------------------------------------
(* Numbers and sequences. *)

\* A set of numbers that is not empty has a least member.
LEMMA LeastOf ==
  ASSUME NEW S \in SUBSET Nat, S # {}
  PROVE  \E m \in S : \A n \in S : m <= n
<1>1. PICK m \in S : \A n \in S : ~(n < m)
  <2>1. IsWellFoundedOn(OpToRel(<, Nat), Nat)
    BY NatLessThanWellFounded
  <2>2. PICK m \in S : \A n \in S : ~(<<n, m>> \in OpToRel(<, Nat))
    BY <2>1, WFMin
  <2> QED BY <2>2 DEF OpToRel
<1> QED BY <1>1

\* Induction over a set: what holds of 0 and passes on holds as far as N.
LEMMA Rounds ==
  ASSUME NEW N \in Nat, NEW G, 0 \in G, \A n \in 1 .. N : n - 1 \in G => n \in G
  PROVE  \A n \in 0 .. N : n \in G
<1> DEFINE Bad == {n \in 0 .. N : n \notin G}
<1>1. SUFFICES ASSUME Bad # {} PROVE FALSE
  OBVIOUS
<1>2. Bad \in SUBSET Nat
  OBVIOUS
<1>3. PICK m \in Bad : \A n \in Bad : m <= n
  BY <1>1, <1>2, LeastOf
<1>4. m \in 1 .. N
  OBVIOUS
<1>5. m - 1 \in 0 .. N /\ ~(m <= m - 1)
  BY <1>4
<1>6. m - 1 \in G
  BY <1>3, <1>5
<1> QED BY <1>4, <1>6

\* The same of the last round alone.
LEMMA LastRound ==
  ASSUME NEW N \in Nat, NEW G, 0 \in G, \A n \in 1 .. N : n - 1 \in G => n \in G
  PROVE  N \in G
BY Rounds

LEMMA MinIs ==
  ASSUME NEW S \in SUBSET Nat, S # {}
  PROVE  Min(S) \in S
BY LeastOf DEF Min

LEMMA MaxOfTwo ==
  ASSUME NEW a \in Nat, NEW b \in Nat
  PROVE  Max({a, b}) \in {a, b} /\ Max({a, b}) >= a /\ Max({a, b}) >= b
<1>1. \E x \in {a, b} : \A y \in {a, b} : x >= y
  <2>1. CASE a >= b
    BY <2>1
  <2>2. CASE b >= a
    BY <2>2
  <2> QED BY <2>1, <2>2
<1> QED BY <1>1 DEF Max

\* The last of a sequence, and a sequence made longer by one.
LEMMA LastOf ==
  ASSUME NEW S, NEW s \in Seq(S), s # << >>
  PROVE  Last(s) = s[Len(s)] /\ Last(s) \in S /\ Len(s) \in Nat \ {0} /\ Len(s) \in DOMAIN s
BY DEF Last

LEMMA AppendIs ==
  ASSUME NEW S, NEW s \in Seq(S), NEW e \in S
  PROVE  /\ Append(s, e) \in Seq(S) /\ Append(s, e) # << >> /\ Len(Append(s, e)) = Len(s) + 1
         /\ Append(s, e)[Len(s) + 1] = e /\ Last(Append(s, e)) = e
         /\ \A j \in 1 .. Len(s) : Append(s, e)[j] = s[j]
<1>1. /\ Append(s, e) \in Seq(S) /\ Len(Append(s, e)) = Len(s) + 1 /\ Len(s) \in Nat
      /\ Append(s, e)[Len(s) + 1] = e /\ \A j \in 1 .. Len(s) : Append(s, e)[j] = s[j]
  OBVIOUS
<1>2. Append(s, e) # << >>
  BY <1>1
<1> QED BY <1>1, <1>2, LastOf

LEMMA ConstantsAre ==
  /\ Clusters \in Nat \ {0} /\ NFats \in {1, 2} /\ Per \in Nat \ {0, 1} /\ Radix \in Nat
  /\ EndMark \in Nat /\ Clusters + 1 < EndMark - 1 /\ Top \in Cluster
  /\ Cluster \subseteq Nat \ {0, 1} /\ Cluster \subseteq 0 .. EndMark /\ Free \in 0 .. EndMark
<1> DEFINE r == Radix * Radix
<1>1. r \in Nat
  BY KfsDiskAssumption
<1>2. Clusters + 1 < r - 2 /\ EndMark = r - 1
  BY KfsDiskAssumption DEF EndMark
<1> HIDE DEF r
<1> QED BY <1>1, <1>2, KfsDiskAssumption DEF Cluster, Free

-----------------------------------------------------------------------------
(* Courses. *)

LEMMA NowIs ==
  ASSUME NEW cs, Course(cs)
  PROVE  /\ Now(cs) \in Disk /\ Now(cs) = cs[Len(cs)] /\ Len(cs) \in Nat \ {0}
         /\ Now(cs).fat \in [1 .. NFats -> [Cluster -> 0 .. EndMark]]
         /\ Now(cs).data \in [Cluster -> Data]
<1>1. Now(cs) \in Disk /\ Now(cs) = cs[Len(cs)] /\ Len(cs) \in Nat \ {0}
  BY LastOf DEF Course, Now
<1> QED BY <1>1 DEF Disk, Data

\* A course goes on with any disk that states no count and whose copies are close.
LEMMA GoesOn ==
  ASSUME NEW cs, Course(cs), NEW d \in Disk, d.fsinfo = Unknown, NEW c \in Cluster, DifferAt(d, c)
  PROVE  Setting(Append(cs, d), c) /\ Now(Append(cs, d)) = d
<1>1. cs \in Seq(Disk) /\ Len(cs) \in Nat
  BY DEF Course
<1>2. /\ Append(cs, d) \in Seq(Disk) /\ Append(cs, d) # << >> /\ Len(Append(cs, d)) = Len(cs) + 1
      /\ Append(cs, d)[Len(cs) + 1] = d /\ Now(Append(cs, d)) = d
      /\ \A j \in 1 .. Len(cs) : Append(cs, d)[j] = cs[j]
  BY <1>1, AppendIs DEF Now
<1>3. ASSUME NEW j \in 2 .. Len(Append(cs, d))
      PROVE  Append(cs, d)[j].fsinfo = Unknown /\ \E x \in Cluster : DifferAt(Append(cs, d)[j], x)
  <2>1. CASE j = Len(cs) + 1
    BY <2>1, <1>2
  <2>2. CASE j # Len(cs) + 1
    <3>1. j \in 2 .. Len(cs) /\ Append(cs, d)[j] = cs[j]
      BY <2>2, <1>1, <1>2
    <3> QED BY <3>1 DEF Course
  <2> QED BY <2>1, <2>2
<1> QED BY <1>2, <1>3 DEF Setting, Course

LEMMA RestSets ==
  ASSUME NEW cs, Rest(cs), NEW c
  PROVE  Setting(cs, c)
BY DEF Rest, Setting, Alike, DifferAt

\* A cluster's data written.
LEMMA DataRest ==
  ASSUME NEW cs, Rest(cs), NEW c, NEW x, c \in Cluster => x \in Data
  PROVE  Rest(Append(cs, [Now(cs) EXCEPT !.data[c] = x]))
<1> DEFINE d == [Now(cs) EXCEPT !.data[c] = x]
<1>1. Now(cs) \in Disk /\ Now(cs).data \in [Cluster -> Data]
  BY NowIs DEF Rest
<1>2. d \in Disk /\ d.fat = Now(cs).fat /\ d.fsinfo = Now(cs).fsinfo
  BY <1>1 DEF Disk, Data
<1>3. Alike(d) /\ d.fsinfo = Unknown /\ DifferAt(d, Top) /\ Top \in Cluster
  BY <1>2, ConstantsAre DEF Rest, Alike, DifferAt
<1> HIDE DEF d
<1>4. Setting(Append(cs, d), Top) /\ Now(Append(cs, d)) = d
  BY <1>2, <1>3, GoesOn DEF Rest
<1>5. Rest(Append(cs, d))
  BY <1>3, <1>4 DEF Rest, Setting
<1> QED BY <1>5 DEF d

\* One copy's entry written.
LEMMA EntrySets ==
  ASSUME NEW cs, NEW c \in Cluster, Setting(cs, c), NEW k \in 1 .. NFats, NEW v \in 0 .. EndMark
  PROVE  /\ Setting(PutEntry(cs, k, c, v), c)
         /\ Now(PutEntry(cs, k, c, v)).fat[k][c] = v
         /\ \A j \in 1 .. NFats : j # k => Now(PutEntry(cs, k, c, v)).fat[j] = Now(cs).fat[j]
<1> DEFINE d == [Now(cs) EXCEPT !.fat[k][c] = v]
<1>1. Now(cs) \in Disk /\ Now(cs).fat \in [1 .. NFats -> [Cluster -> 0 .. EndMark]]
  BY NowIs DEF Setting
<1>2. /\ d \in Disk /\ d.fsinfo = Now(cs).fsinfo /\ d.fat[k] = [Now(cs).fat[k] EXCEPT ![c] = v]
      /\ \A j \in 1 .. NFats : j # k => d.fat[j] = Now(cs).fat[j]
  BY <1>1 DEF Disk
<1> HIDE DEF d
<1>3. d.fat[k][c] = v /\ \A x \in Cluster : x # c => d.fat[k][x] = Now(cs).fat[k][x]
  <2>1. Now(cs).fat[k] \in [Cluster -> 0 .. EndMark]
    BY <1>1
  <2> QED BY <2>1, <1>2
<1>4. \A j \in 1 .. NFats, x \in Cluster : x # c => d.fat[j][x] = Now(cs).fat[j][x]
  BY <1>2, <1>3
<1>5. DifferAt(d, c) /\ d.fsinfo = Unknown
  <2>1. 1 \in 1 .. NFats
    BY ConstantsAre
  <2> QED BY <1>2, <1>4, <2>1 DEF Setting, DifferAt
<1>6. Setting(Append(cs, d), c) /\ Now(Append(cs, d)) = d
  BY <1>2, <1>5, GoesOn DEF Setting
<1>7. PutEntry(cs, k, c, v) = Append(cs, d)
  BY DEF PutEntry, d
<1> QED BY <1>2, <1>3, <1>6, <1>7

LEMMA TornIs ==
  ASSUME NEW old \in 0 .. EndMark, NEW new \in 0 .. EndMark
  PROVE  Torn(old, new) \in 0 .. EndMark
<1> DEFINE r == Radix
           q == old \div r
           m == new % r
           o == old % r
<1>1. r \in Nat \ {0} /\ EndMark = r * r - 1 /\ old \in Nat /\ new \in Nat
  BY ConstantsAre DEF EndMark
<1>2. q \in Nat /\ m \in 0 .. (r - 1) /\ old = q * r + o /\ o \in 0 .. (r - 1)
  BY <1>1
<1>3. Torn(old, new) = q * r + m
  BY DEF Torn
<1>4. old <= r * r - 1
  BY <1>1
<1> HIDE DEF r, q, m, o
<1>5. q < r
  <2>1. SUFFICES ASSUME q >= r PROVE FALSE
    BY <1>1, <1>2
  <2>2. q * r >= r * r
    BY <2>1, <1>1, <1>2
  <2> QED BY <2>2, <1>1, <1>2, <1>4
<1>6. q * r <= (r - 1) * r
  BY <1>1, <1>2, <1>5
<1>7. q * r + m <= r * r - 1 /\ q * r + m \in Nat
  BY <1>1, <1>2, <1>6
<1> QED BY <1>1, <1>3, <1>7

\* The entry in one copy set, in one write or in two.
LEMMA CopySets ==
  ASSUME NEW cs, NEW c \in Cluster, Setting(cs, c), NEW k \in 1 .. NFats, NEW v \in 0 .. EndMark
  PROVE  /\ Setting(SetCopy(cs, k, c, v), c)
         /\ Now(SetCopy(cs, k, c, v)).fat[k][c] = v
         /\ \A j \in 1 .. NFats : j # k => Now(SetCopy(cs, k, c, v)).fat[j] = Now(cs).fat[j]
<1>1. CASE WholeEntries
  BY <1>1, EntrySets DEF SetCopy
<1>2. CASE ~WholeEntries
  <2> DEFINE t == Torn(Now(cs).fat[k][c], v)
             torn == PutEntry(cs, k, c, t)
  <2>1. t \in 0 .. EndMark
    <3>1. Now(cs).fat \in [1 .. NFats -> [Cluster -> 0 .. EndMark]]
      BY NowIs DEF Setting, Disk
    <3>2. Now(cs).fat[k][c] \in 0 .. EndMark
      BY <3>1
    <3> QED BY <3>2, TornIs
  <2> HIDE DEF t
  <2>2. Setting(torn, c) /\ \A j \in 1 .. NFats : j # k => Now(torn).fat[j] = Now(cs).fat[j]
    BY <2>1, EntrySets
  <2>3. SetCopy(cs, k, c, v) = PutEntry(torn, k, c, v)
    BY <1>2 DEF SetCopy, t
  <2> HIDE DEF torn
  <2> QED BY <2>2, <2>3, EntrySets
<1> QED BY <1>1, <1>2

\* The entry set in every copy.
LEMMA SetRest ==
  ASSUME NEW cs, Rest(cs), NEW c \in Cluster, NEW v \in 0 .. EndMark
  PROVE  Rest(Set(cs, c, v))
<1> DEFINE one == SetCopy(cs, 1, c, v)
           all == Set(cs, c, v)
<1>1. 1 \in 1 .. NFats /\ (NFats # 1 => NFats = 2 /\ 2 \in 1 .. NFats)
  BY ConstantsAre
<1>2. Setting(one, c) /\ Now(one).fat[1][c] = v
  BY <1>1, RestSets, CopySets
<1>3. Setting(all, c) /\ \A k \in 1 .. NFats : Now(all).fat[k][c] = v
  <2>1. CASE NFats = 1
    BY <2>1, <1>2 DEF Set
  <2>2. CASE NFats # 1
    <3>1. all = SetCopy(one, 2, c, v)
      BY <2>2 DEF Set
    <3> HIDE DEF one
    <3>2. Setting(all, c) /\ Now(all).fat[2][c] = v /\ Now(all).fat[1] = Now(one).fat[1]
      BY <1>1, <1>2, <2>2, <3>1, CopySets
    <3> QED BY <1>1, <1>2, <2>2, <3>2
  <2> QED BY <2>1, <2>2
<1> HIDE DEF all
<1>4. ASSUME NEW k \in 1 .. NFats
      PROVE  Now(all).fat[k] = Now(all).fat[1]
  <2>1. Now(all).fat[k] \in [Cluster -> 0 .. EndMark] /\ Now(all).fat[1] \in [Cluster -> 0 .. EndMark]
    BY <1>1, <1>3, NowIs DEF Setting
  <2>2. \A x \in Cluster : Now(all).fat[k][x] = Now(all).fat[1][x]
    BY <1>1, <1>3 DEF Setting, DifferAt
  <2> QED BY <2>1, <2>2
<1> QED BY <1>3, <1>4 DEF Rest, Setting, Alike, all

-----------------------------------------------------------------------------
(* What is read of a disk. *)

LEMMA ChainIs ==
  ASSUME NEW d \in Disk, NEW c
  PROVE  /\ Chain(d, c) \in Seq(Cluster)
         /\ c \in Cluster <=> Chain(d, c) # << >>
<1>1. CASE c \notin Cluster
  BY <1>1 DEF Chain
<1>2. CASE c \in Cluster
  <2> DEFINE next(w) == LET nx == d.fat[1][Last(w)] IN IF nx \in Cluster THEN Append(w, nx) ELSE w
             Is(f, m) == f = [n \in 0 .. m |-> IF n = 0 THEN << c >> ELSE next(f[n - 1])]
             walk[n \in 0 .. Clusters] == IF n = 0 THEN << c >> ELSE next(walk[n - 1])
  <2> HIDE DEF next
  <2>0. Clusters \in Nat
    BY ConstantsAre
  <2>1. \E f : Is(f, Clusters)
    <3> DEFINE G == {m \in 0 .. Clusters : \E f : Is(f, m)}
    <3>1. 0 \in G
      <4>1. Is([n \in 0 .. 0 |-> << c >>], 0)
        OBVIOUS
      <4> HIDE DEF Is
      <4>2. \E f : Is(f, 0)
        BY <4>1
      <4> QED BY <4>2, <2>0
    <3>2. ASSUME NEW m \in 1 .. Clusters, m - 1 \in G PROVE m \in G
      <4>1. PICK f : Is(f, m - 1)
        BY <3>2
      <4> DEFINE g == [n \in 0 .. m |-> IF n = m THEN next(f[m - 1]) ELSE f[n]]
      <4>2. \A n \in 0 .. m : g[n] = IF n = 0 THEN << c >> ELSE next(g[n - 1])
        BY <4>1
      <4>3. Is(g, m)
        BY <4>2
      <4> HIDE DEF Is
      <4>4. \E h : Is(h, m)
        BY <4>3
      <4> QED BY <4>4
    <3> HIDE DEF G
    <3>3. Clusters \in G
      BY <2>0, <3>1, <3>2, Rounds
    <3> QED BY <3>3 DEF G
  <2>2. Is(walk, Clusters)
    BY <2>1
  <2>3. Chain(d, c) = walk[Clusters]
    BY <1>2 DEF Chain, next
  <2> HIDE DEF walk
  <2>4. \A n \in 0 .. Clusters : walk[n] = IF n = 0 THEN << c >> ELSE next(walk[n - 1])
    BY <2>2
  <2> DEFINE Whole == Seq(Cluster) \ {<< >>}
  <2>5. ASSUME NEW w \in Whole PROVE next(w) \in Whole
    <3>1. CASE d.fat[1][Last(w)] \in Cluster
      BY <3>1, AppendIs DEF next
    <3> QED BY <3>1 DEF next
  <2> HIDE DEF Whole
  <2>6. Clusters \in {n \in 0 .. Clusters : walk[n] \in Whole}
    <3> DEFINE G == {n \in 0 .. Clusters : walk[n] \in Whole}
    <3>1. 0 \in G
      <4>1. << c >> \in Seq(Cluster) /\ << c >> # << >>
        BY <1>2
      <4>2. << c >> \in Whole
        BY <4>1 DEF Whole
      <4>3. walk[0] = << c >> /\ 0 \in 0 .. Clusters
        BY <2>0, <2>4
      <4> QED BY <4>2, <4>3
    <3>2. ASSUME NEW n \in 1 .. Clusters, n - 1 \in G PROVE n \in G
      BY <3>2, <2>4, <2>5
    <3> HIDE DEF G
    <3>3. Clusters \in G
      BY <2>0, <3>1, <3>2, Rounds
    <3> QED BY <3>3 DEF G
  <2> QED BY <1>2, <2>0, <2>3, <2>6 DEF Whole
<1> QED BY <1>1, <1>2

\* The clusters a search finds free are clusters.
LEMMA FreeIs ==
  ASSUME NEW d \in Disk, NEW from
  PROVE  FreeFrom(d, from) \in Seq(Cluster)
<1> DEFINE start  == IF from \in Cluster THEN from ELSE 2
           nth(n) == 2 + ((start + n - 3) % Clusters)
           next(s, n) == IF d.fat[1][nth(n)] = Free THEN Append(s, nth(n)) ELSE s
           Is(f, m) == f = [n \in 0 .. m |-> IF n = 0 THEN << >> ELSE next(f[n - 1], n)]
           found[n \in 0 .. Clusters] == IF n = 0 THEN << >> ELSE next(found[n - 1], n)
<1>1. Clusters \in Nat \ {0} /\ start \in Nat \ {0, 1}
  <2>1. Clusters \in Nat \ {0} /\ \A c \in Cluster : c \in Nat \ {0, 1}
    BY ConstantsAre
  <2> QED BY <2>1
<1>2. \A n \in 1 .. Clusters : nth(n) \in Cluster
  <2> HIDE DEF start
  <2>1. ASSUME NEW n \in 1 .. Clusters PROVE (start + n - 3) % Clusters \in 0 .. (Clusters - 1)
    <3> DEFINE a == start + n - 3
    <3>1. a \in Nat
      BY <1>1
    <3> HIDE DEF a
    <3>2. a % Clusters \in 0 .. (Clusters - 1)
      BY <3>1, <1>1
    <3> QED BY <3>2 DEF a
  <2> QED BY <2>1, <1>1 DEF Cluster
<1> HIDE DEF nth, start
<1>3. FreeFrom(d, from) = found[Clusters]
  BY DEF FreeFrom, nth, start
<1>4. ASSUME NEW s \in Seq(Cluster), NEW n \in 1 .. Clusters
      PROVE  next(s, n) \in Seq(Cluster)
  BY <1>2
<1> HIDE DEF next
<1>5. \E f : Is(f, Clusters)
  <2> DEFINE G == {m \in 0 .. Clusters : \E f : Is(f, m)}
  <2>1. 0 \in G
    <3>1. Is([n \in 0 .. 0 |-> << >>], 0)
      OBVIOUS
    <3> HIDE DEF Is
    <3>2. \E f : Is(f, 0)
      BY <3>1
    <3> QED BY <3>2, <1>1
  <2>2. ASSUME NEW m \in 1 .. Clusters, m - 1 \in G PROVE m \in G
    <3>1. PICK f : Is(f, m - 1)
      BY <2>2
    <3> DEFINE g == [n \in 0 .. m |-> IF n = m THEN next(f[m - 1], m) ELSE f[n]]
    <3>2. \A n \in 0 .. m : g[n] = IF n = 0 THEN << >> ELSE next(g[n - 1], n)
      BY <3>1
    <3>3. Is(g, m)
      BY <3>2
    <3> HIDE DEF Is
    <3>4. \E h : Is(h, m)
      BY <3>3
    <3> QED BY <3>4
  <2> HIDE DEF G
  <2>3. Clusters \in G
    <3>1. Clusters \in Nat
      BY <1>1
    <3>2. \A n \in 1 .. Clusters : n - 1 \in G => n \in G
      BY <2>2
    <3> QED BY ONLY <2>1, <3>1, <3>2, LastRound
  <2> QED BY <2>3 DEF G
<1>6. Is(found, Clusters)
  BY <1>5
<1> HIDE DEF found
<1>7. \A n \in 0 .. Clusters : found[n] = IF n = 0 THEN << >> ELSE next(found[n - 1], n)
  BY <1>6
<1>8. found[Clusters] \in Seq(Cluster)
  <2> DEFINE G == {n \in 0 .. Clusters : found[n] \in Seq(Cluster)}
  <2>1. 0 \in G
    <3>1. found[0] = << >> /\ 0 \in 0 .. Clusters
      BY <1>1, <1>7
    <3>2. << >> \in Seq(Cluster)
      OBVIOUS
    <3> QED BY <3>1, <3>2
  <2>2. ASSUME NEW n \in 1 .. Clusters, n - 1 \in G PROVE n \in G
    BY <2>2, <1>4, <1>7
  <2> HIDE DEF G
  <2>3. Clusters \in G
    <3>1. Clusters \in Nat
      BY <1>1
    <3>2. \A n \in 1 .. Clusters : n - 1 \in G => n \in G
      BY <2>2
    <3> QED BY ONLY <2>1, <3>1, <3>2, LastRound
  <2> QED BY <2>3 DEF G
<1> QED BY <1>3, <1>8

\* A cluster's slots, whether it holds slots or a file's data.
LEMMA SlotsInIs ==
  ASSUME NEW d \in Disk, NEW c \in Cluster
  PROVE  SlotsIn(d, c) \in [1 .. Per -> Slot]
<1>1. d.data[c] \in Blocks \cup [1 .. Per -> Slot]
  BY DEF Disk
<1>2. GarbageSlot \in Slot
  BY DEF Slot
<1> QED BY <1>1, <1>2 DEF SlotsIn

\* A slot's sector and its place in it are there.
LEMMA PlaceIs ==
  ASSUME NEW n \in Nat, NEW i \in 1 .. (n * Per)
  PROVE  SectorOf(i) \in 1 .. n /\ PlaceOf(i) \in 1 .. Per
<1> DEFINE a == i - 1
           p == Per
           q == a \div p
           r == a % p
<1>1. p \in Nat \ {0} /\ n * p \in Nat /\ a \in Nat /\ a < n * p
  BY ConstantsAre
<1>2. SectorOf(i) = q + 1 /\ PlaceOf(i) = r + 1
  BY DEF SectorOf, PlaceOf
<1> HIDE DEF a, p
<1>3. q \in Nat /\ r \in 0 .. (p - 1) /\ a = q * p + r
  BY <1>1
<1> HIDE DEF q, r
<1>4. q < n
  <2>1. SUFFICES ASSUME q >= n PROVE FALSE
    BY <1>3
  <2>2. q * p >= n * p
    BY <2>1, <1>1, <1>3
  <2>3. q * p \in Nat
    BY <1>1, <1>3
  <2> QED BY <2>2, <2>3, <1>1, <1>3
<1> QED BY <1>1, <1>2, <1>3, <1>4 DEF p

LEMMA SlotsIs ==
  ASSUME NEW d \in Disk, NEW dir
  PROVE  /\ Slots(d, dir) \in Seq(Slot)
         /\ \A i \in DOMAIN Slots(d, dir) : i \in Nat \ {0} /\ Slots(d, dir)[i] \in Slot
<1> DEFINE w == Chain(d, dir)
           m == Len(w) * Per
           s == Slots(d, dir)
<1>1. w \in Seq(Cluster) /\ Len(w) \in Nat /\ m \in Nat
  BY ChainIs, ConstantsAre
<1>2. ASSUME NEW i \in 1 .. m PROVE SlotsIn(d, w[SectorOf(i)])[PlaceOf(i)] \in Slot
  <2>1. SectorOf(i) \in 1 .. Len(w) /\ PlaceOf(i) \in 1 .. Per
    BY <1>1, PlaceIs
  <2>2. w[SectorOf(i)] \in Cluster
    BY <1>1, <2>1
  <2> QED BY <2>1, <2>2, SlotsInIs
<1>3. s = [i \in 1 .. m |-> SlotsIn(d, w[SectorOf(i)])[PlaceOf(i)]]
  BY DEF Slots, SlotsAlong
<1> HIDE DEF s, w, m
<1>4. s \in [1 .. m -> Slot]
  BY <1>2, <1>3
<1>5. s \in Seq(Slot) /\ DOMAIN s = 1 .. m
  BY <1>1, <1>4
<1> QED BY <1>1, <1>4, <1>5 DEF s

\* A live entry is a short one.
LEMMA LiveIs ==
  ASSUME NEW s \in Slot, s.kind \in {"file", "dir"}
  PROVE  s \in ShortSlots
BY DEF Slot, ZeroSlot, DeadSlot, LongSlot, GarbageSlot, DotSlot

LEMMA FindIs ==
  ASSUME NEW d \in Disk, NEW dir, NEW name, Find(d, dir, name) # 0
  PROVE  /\ Find(d, dir, name) \in Nat \ {0} /\ Find(d, dir, name) \in DOMAIN Slots(d, dir)
         /\ Slots(d, dir)[Find(d, dir, name)] \in ShortSlots
<1> DEFINE s   == Slots(d, dir)
           hit == {i \in Seen(s) : s[i].kind \in {"file", "dir"} /\ s[i].name = name}
<1>1. \A i \in DOMAIN s : i \in Nat \ {0} /\ s[i] \in Slot
  BY SlotsIs
<1>2. hit \in SUBSET Nat /\ hit \subseteq DOMAIN s
  BY <1>1 DEF Seen
<1>3. Find(d, dir, name) = IF hit = {} THEN 0 ELSE Min(hit)
  BY DEF Find, FindIn
<1>4. Find(d, dir, name) \in hit
  BY <1>2, <1>3, MinIs
<1>5. Find(d, dir, name) \in DOMAIN s /\ s[Find(d, dir, name)].kind \in {"file", "dir"}
  BY <1>2, <1>4
<1> QED BY <1>1, <1>5, LiveIs

\* A slot in the writer's hands (kd.Slot).
InHand(s) == s = [index |-> s.index, sector |-> s.sector, raw |-> s.raw] /\ s.index \in Nat

\* What is found is a short entry.
LEMMA FoundIs ==
  ASSUME NEW d \in Disk, NEW dir, NEW name
  PROVE  /\ Found(d, dir, name) # NoSlot => Found(d, dir, name).raw \in ShortSlots
         /\ Found(d, dir, name).raw \in Slot
         /\ InHand(Found(d, dir, name))
<1>1. CASE Find(d, dir, name) = 0
  BY <1>1 DEF Found, SlotOrNone, NoSlot, Slot, InHand
<1>2. CASE Find(d, dir, name) # 0
  BY <1>2, FindIs DEF Found, SlotOrNone, ReadSlot, Slot, InHand
<1> QED BY <1>1, <1>2

\* Names lead to a folder's cluster or to none.
LEMMA FolderIs ==
  ASSUME NEW d \in Disk, NEW S, NEW names \in Seq(S)
  PROVE  FolderOf(d, names) \in {NoCluster} \cup Cluster
<1> DEFINE N == Len(names)
           slot(c, n) == IF c = NoCluster THEN NoSlot ELSE Found(d, c, names[n])
           next(c, n) == IF slot(c, n).raw.kind = "dir" THEN slot(c, n).raw.cluster ELSE NoCluster
           Is(f, m) == f = [n \in 0 .. m |-> IF n = 0 THEN Top ELSE next(f[n - 1], n)]
           at[n \in 0 .. N] == IF n = 0 THEN Top ELSE next(at[n - 1], n)
           Place == {NoCluster} \cup Cluster
<1>1. N \in Nat /\ Top \in Place
  BY ConstantsAre
<1>2. FolderOf(d, names) = at[N]
  BY DEF FolderOf
<1>3. ASSUME NEW c, NEW n PROVE next(c, n) \in Place
  <2>1. slot(c, n).raw \in Slot
    BY FoundIs DEF NoSlot, Slot
  <2> HIDE DEF slot
  <2>2. slot(c, n).raw.kind = "dir" => slot(c, n).raw \in ShortSlots
    BY <2>1, LiveIs
  <2> QED BY <2>2 DEF ShortSlots
<1> HIDE DEF next, N
<1>5. \E f : Is(f, N)
  <2> DEFINE G == {m \in 0 .. N : \E f : Is(f, m)}
  <2>1. 0 \in G
    <3>1. Is([n \in 0 .. 0 |-> Top], 0)
      OBVIOUS
    <3> HIDE DEF Is
    <3>2. \E f : Is(f, 0)
      BY <3>1
    <3> QED BY <3>2, <1>1
  <2>2. ASSUME NEW m \in 1 .. N, m - 1 \in G PROVE m \in G
    <3>1. PICK f : Is(f, m - 1)
      BY <2>2
    <3> DEFINE g == [n \in 0 .. m |-> IF n = m THEN next(f[m - 1], m) ELSE f[n]]
    <3>2. \A n \in 0 .. m : g[n] = IF n = 0 THEN Top ELSE next(g[n - 1], n)
      BY <3>1, <1>1
    <3>3. Is(g, m)
      BY <3>2
    <3> HIDE DEF Is
    <3>4. \E h : Is(h, m)
      BY <3>3
    <3> QED BY <3>4
  <2> HIDE DEF G
  <2>3. N \in G
    <3>1. N \in Nat
      BY <1>1
    <3>2. \A n \in 1 .. N : n - 1 \in G => n \in G
      BY <2>2
    <3> QED BY ONLY <2>1, <3>1, <3>2, LastRound
  <2> QED BY <2>3 DEF G
<1>6. Is(at, N)
  BY <1>5
<1> HIDE DEF at
<1>7. at[N] = IF N = 0 THEN Top ELSE next(at[N - 1], N)
  BY <1>1, <1>6
<1> QED BY <1>1, <1>2, <1>3, <1>7

-----------------------------------------------------------------------------
(* Edits, from a course at rest to one at rest. *)

LEMMA SlotRest ==
  ASSUME NEW cs, Rest(cs), NEW s, s.raw \in Slot
  PROVE  Rest(WriteSlot(cs, s))
<1> DEFINE old == SlotsIn(Now(cs), s.sector)
           x   == [old EXCEPT ![PlaceOf(s.index)] = s.raw]
<1>1. s.sector \in Cluster => x \in Data
  <2>1. SUFFICES ASSUME s.sector \in Cluster PROVE x \in Data
    OBVIOUS
  <2>2. old \in [1 .. Per -> Slot]
    BY <2>1, SlotsInIs, NowIs DEF Rest
  <2> QED BY <2>2 DEF Data
<1> HIDE DEF x
<1>2. Rest(Append(cs, [Now(cs) EXCEPT !.data[s.sector] = x]))
  BY <1>1, DataRest
<1> QED BY <1>2 DEF WriteSlot, x

LEMMA ZeroRest ==
  ASSUME NEW cs, Rest(cs), NEW c
  PROVE  Rest(ZeroCluster(cs, c))
<1>1. [i \in 1 .. Per |-> ZeroSlot] \in Data
  BY DEF Data, Slot
<1> QED BY <1>1, DataRest DEF ZeroCluster

\* A loop over courses: round n makes step(f[n - 1], n) of what the rounds before made.
\* Here it frees one cluster of a chain after the other.
LEMMA FreeChainRest ==
  ASSUME NEW cs, Rest(cs), NEW c
  PROVE  Rest(FreeChain(cs, c))
<1> DEFINE w == Chain(Now(cs), c)
           N == Len(w)
           next(v, n) == Set(v, w[n], Free)
           Is(f, m) == f = [n \in 0 .. m |-> IF n = 0 THEN cs ELSE next(f[n - 1], n)]
           freed[n \in 0 .. N] == IF n = 0 THEN cs ELSE next(freed[n - 1], n)
<1>1. w \in Seq(Cluster) /\ N \in Nat
  BY ChainIs, NowIs DEF Rest
<1>2. FreeChain(cs, c) = freed[N]
  BY DEF FreeChain
<1>3. ASSUME NEW v, Rest(v), NEW n \in 1 .. N PROVE Rest(next(v, n))
  <2>1. w[n] \in Cluster /\ Free \in 0 .. EndMark
    BY <1>1, ConstantsAre
  <2> QED BY <1>3, <2>1, SetRest
<1> HIDE DEF next, N, w
<1>4. \E f : Is(f, N)
  <2> DEFINE G == {m \in 0 .. N : \E f : Is(f, m)}
  <2>1. 0 \in G
    <3>1. Is([n \in 0 .. 0 |-> cs], 0)
      OBVIOUS
    <3> HIDE DEF Is
    <3>2. \E f : Is(f, 0)
      BY <3>1
    <3> QED BY <3>2, <1>1
  <2>2. ASSUME NEW m \in 1 .. N, m - 1 \in G PROVE m \in G
    <3>1. PICK f : Is(f, m - 1)
      BY <2>2
    <3> DEFINE g == [n \in 0 .. m |-> IF n = m THEN next(f[m - 1], m) ELSE f[n]]
    <3>2. \A n \in 0 .. m : g[n] = IF n = 0 THEN cs ELSE next(g[n - 1], n)
      BY <3>1, <1>1
    <3>3. Is(g, m)
      BY <3>2
    <3> HIDE DEF Is
    <3>4. \E h : Is(h, m)
      BY <3>3
    <3> QED BY <3>4
  <2> HIDE DEF G
  <2>3. N \in G
    <3>1. N \in Nat
      BY <1>1
    <3>2. \A n \in 1 .. N : n - 1 \in G => n \in G
      BY <2>2
    <3> QED BY ONLY <2>1, <3>1, <3>2, LastRound
  <2> QED BY <2>3 DEF G
<1>5. Is(freed, N)
  BY <1>4
<1> HIDE DEF freed
<1>6. \A n \in 0 .. N : freed[n] = IF n = 0 THEN cs ELSE next(freed[n - 1], n)
  BY <1>5
<1>7. Rest(freed[N])
  <2> DEFINE G == {n \in 0 .. N : Rest(freed[n])}
  <2>1. 0 \in G
    <3>1. freed[0] = cs /\ 0 \in 0 .. N
      BY <1>1, <1>6
    <3> QED BY <3>1
  <2>2. ASSUME NEW n \in 1 .. N, n - 1 \in G PROVE n \in G
    <3>1. Rest(freed[n - 1]) /\ n \in 0 .. N /\ n # 0
      BY <2>2, <1>1
    <3>2. freed[n] = next(freed[n - 1], n)
      BY <3>1, <1>6
    <3>3. Rest(next(freed[n - 1], n))
      BY <3>1, <1>3
    <3> QED BY <3>1, <3>2, <3>3
  <2> HIDE DEF G
  <2>3. N \in G
    <3>1. N \in Nat
      BY <1>1
    <3>2. \A n \in 1 .. N : n - 1 \in G => n \in G
      BY <2>2
    <3> QED BY ONLY <2>1, <3>1, <3>2, LastRound
  <2> QED BY <2>3 DEF G
<1> QED BY <1>2, <1>7

LEMMA DeadIs ==
  ASSUME NEW s, InHand(s)
  PROVE  Dead(s).raw = DeadSlot /\ Dead(s).raw \in Slot
<1>1. [s EXCEPT !.raw = DeadSlot].raw = DeadSlot
  BY DEF InHand
<1> QED BY <1>1 DEF Dead, Slot

\* The long-name slots in front of an entry deleted.
LEMMA KillLongRest ==
  ASSUME NEW cs, Rest(cs), NEW dir, NEW i \in Nat
  PROVE  Rest(KillLongNames(cs, dir, i))
<1> DEFINE s   == Slots(Now(cs), dir)
           run == {j \in 1 .. (i - 1) : \A k \in j .. (i - 1) : s[k].kind = "long"}
           N   == Cardinality(run)
           next(v, n) == WriteSlot(v, Dead(ReadSlot(Now(v), dir, i - n)))
           Is(f, m) == f = [n \in 0 .. m |-> IF n = 0 THEN cs ELSE next(f[n - 1], n)]
           killed[n \in 0 .. N] == IF n = 0 THEN cs ELSE next(killed[n - 1], n)
<1>1. N \in Nat
  <2>1. IsFiniteSet(1 .. (i - 1)) /\ run \subseteq 1 .. (i - 1)
    BY FS_Interval
  <2>2. IsFiniteSet(run)
    BY <2>1, FS_Subset
  <2> QED BY <2>2, FS_CardinalityType
<1>2. KillLongNames(cs, dir, i) = killed[N]
  BY DEF KillLongNames
<1>3. ASSUME NEW v, Rest(v), NEW n PROVE Rest(next(v, n))
  <2>1. [ReadSlot(Now(v), dir, i - n) EXCEPT !.raw = DeadSlot].raw = DeadSlot
    BY DEF ReadSlot
  <2>2. Dead(ReadSlot(Now(v), dir, i - n)).raw \in Slot
    BY <2>1 DEF Dead, Slot
  <2> QED BY <1>3, <2>2, SlotRest
<1> HIDE DEF next, N
<1>4. \E f : Is(f, N)
  <2> DEFINE G == {m \in 0 .. N : \E f : Is(f, m)}
  <2>1. 0 \in G
    <3>1. Is([n \in 0 .. 0 |-> cs], 0)
      OBVIOUS
    <3> HIDE DEF Is
    <3>2. \E f : Is(f, 0)
      BY <3>1
    <3> QED BY <3>2, <1>1
  <2>2. ASSUME NEW m \in 1 .. N, m - 1 \in G PROVE m \in G
    <3>1. PICK f : Is(f, m - 1)
      BY <2>2
    <3> DEFINE g == [n \in 0 .. m |-> IF n = m THEN next(f[m - 1], m) ELSE f[n]]
    <3>2. \A n \in 0 .. m : g[n] = IF n = 0 THEN cs ELSE next(g[n - 1], n)
      BY <3>1, <1>1
    <3>3. Is(g, m)
      BY <3>2
    <3> HIDE DEF Is
    <3>4. \E h : Is(h, m)
      BY <3>3
    <3> QED BY <3>4
  <2> HIDE DEF G
  <2>3. N \in G
    <3>1. N \in Nat
      BY <1>1
    <3>2. \A n \in 1 .. N : n - 1 \in G => n \in G
      BY <2>2
    <3> QED BY ONLY <2>1, <3>1, <3>2, LastRound
  <2> QED BY <2>3 DEF G
<1>5. Is(killed, N)
  BY <1>4
<1> HIDE DEF killed
<1>6. \A n \in 0 .. N : killed[n] = IF n = 0 THEN cs ELSE next(killed[n - 1], n)
  BY <1>5
<1>7. Rest(killed[N])
  <2> DEFINE G == {n \in 0 .. N : Rest(killed[n])}
  <2>1. 0 \in G
    <3>1. killed[0] = cs /\ 0 \in 0 .. N
      BY <1>1, <1>6
    <3> QED BY <3>1
  <2>2. ASSUME NEW n \in 1 .. N, n - 1 \in G PROVE n \in G
    <3>1. Rest(killed[n - 1]) /\ n \in 0 .. N /\ n # 0
      BY <2>2, <1>1
    <3>2. killed[n] = next(killed[n - 1], n)
      BY <3>1, <1>6
    <3>3. Rest(next(killed[n - 1], n))
      BY <3>1, <1>3
    <3> QED BY <3>1, <3>2, <3>3
  <2> HIDE DEF G
  <2>3. N \in G
    <3>1. N \in Nat
      BY <1>1
    <3>2. \A n \in 1 .. N : n - 1 \in G => n \in G
      BY <2>2
    <3> QED BY ONLY <2>1, <3>1, <3>2, LastRound
  <2> QED BY <2>3 DEF G
<1> QED BY <1>2, <1>7

LEMMA KillRest ==
  ASSUME NEW cs, Rest(cs), NEW dir, NEW s, InHand(s)
  PROVE  Rest(Kill(cs, dir, s))
BY KillLongRest, DeadIs, SlotRest DEF Kill, InHand

\* A slot added to a folder.
LEMMA AddRest ==
  ASSUME NEW cs, Rest(cs), NEW dir \in Cluster, NEW raw \in Slot
  PROVE  /\ Rest(Add(cs, dir, raw).course)
         /\ Add(cs, dir, raw).there => InHand(Add(cs, dir, raw).slot) /\ Add(cs, dir, raw).slot.raw = raw
<1> DEFINE s    == Slots(Now(cs), dir)
           open == {i \in DOMAIN s : s[i].kind \in {"zero", "dead"}}
           tail == Last(Chain(Now(cs), dir))
           new  == FreeFrom(Now(cs), tail + 1)
           grow == Set(Set(ZeroCluster(cs, Head(new)), Head(new), EndMark), tail, Head(new))
           here == [ReadSlot(Now(cs), dir, Min(open)) EXCEPT !.raw = raw]
           next == [index |-> Len(s) + 1, sector |-> Head(new), raw |-> raw]
<1>1. Now(cs) \in Disk
  BY NowIs DEF Rest
<1>2. ASSUME NEW t, NEW v, Rest(v), InHand(t), t.raw = raw, Add(cs, dir, raw) = Added(t, v)
      PROVE  /\ Rest(Add(cs, dir, raw).course)
             /\ Add(cs, dir, raw).there => InHand(Add(cs, dir, raw).slot) /\ Add(cs, dir, raw).slot.raw = raw
  <2>1. Rest(WriteSlot(v, t))
    BY <1>2, SlotRest
  <2> QED BY <2>1, <1>2 DEF Added
<1>3. CASE open # {}
  <2>1. Min(open) \in Nat
    BY <1>1, <1>3, SlotsIs, MinIs
  <2> HIDE DEF open
  <2>2. InHand(here) /\ here.raw = raw
    BY <2>1 DEF InHand, ReadSlot
  <2>3. Add(cs, dir, raw) = Added(here, cs)
    BY <1>3 DEF Add, open
  <2> HIDE DEF here
  <2> QED BY <1>2, <2>2, <2>3
<1>4. CASE open = {} /\ new = << >>
  BY <1>4 DEF Add
<1>5. CASE open = {} /\ new # << >>
  <2>1. tail \in Cluster
    BY <1>1, ChainIs, LastOf
  <2>2. Head(new) \in Cluster
    <3>1. new \in Seq(Cluster)
      BY <1>1, FreeIs
    <3> QED BY <3>1, <1>5
  <2>3. EndMark \in 0 .. EndMark /\ Head(new) \in 0 .. EndMark
    <3>1. \A c \in Cluster : c \in 0 .. EndMark
      BY ConstantsAre
    <3>2. EndMark \in 0 .. EndMark
      BY ConstantsAre
    <3> QED BY <3>1, <3>2, <2>2, Zenon
  <2>4. Len(s) \in Nat
    BY <1>1, SlotsIs
  <2>5. Add(cs, dir, raw) = Added(next, grow)
    BY <1>5 DEF Add
  <2> HIDE DEF tail, new, s
  <2>6. Rest(grow)
    BY <2>1, <2>2, <2>3, ZeroRest, SetRest
  <2>7. InHand(next) /\ next.raw = raw
    BY <2>4 DEF InHand
  <2> HIDE DEF grow, next
  <2> QED BY <1>2, <2>5, <2>6, <2>7
<1> QED BY <1>3, <1>4, <1>5

\* A file's data written, cluster by cluster.
LEMMA PutRest ==
  ASSUME NEW cs, Rest(cs), NEW data \in Seq(Blocks), NEW all, NEW off
  PROVE  Rest(PutData(cs, all, off, data))
<1> DEFINE N == Len(data)
           next(v, n) == Append(v, [Now(v) EXCEPT !.data[all[off + n]] = data[n]])
           Is(f, m) == f = [n \in 0 .. m |-> IF n = 0 THEN cs ELSE next(f[n - 1], n)]
           put[n \in 0 .. N] == IF n = 0 THEN cs ELSE next(put[n - 1], n)
<1>1. N \in Nat
  OBVIOUS
<1>2. PutData(cs, all, off, data) = put[N]
  BY DEF PutData
<1>3. ASSUME NEW v, Rest(v), NEW n \in 1 .. N PROVE Rest(next(v, n))
  <2>1. data[n] \in Data
    BY DEF Data
  <2> QED BY <1>3, <2>1, DataRest
<1> HIDE DEF next, N
<1>5. \E f : Is(f, N)
  <2> DEFINE G == {m \in 0 .. N : \E f : Is(f, m)}
  <2>1. 0 \in G
    <3>1. Is([n \in 0 .. 0 |-> cs], 0)
      OBVIOUS
    <3> HIDE DEF Is
    <3>2. \E f : Is(f, 0)
      BY <3>1
    <3> QED BY <3>2, <1>1
  <2>2. ASSUME NEW m \in 1 .. N, m - 1 \in G PROVE m \in G
    <3>1. PICK f : Is(f, m - 1)
      BY <2>2
    <3> DEFINE g == [n \in 0 .. m |-> IF n = m THEN next(f[m - 1], m) ELSE f[n]]
    <3>2. \A n \in 0 .. m : g[n] = IF n = 0 THEN cs ELSE next(g[n - 1], n)
      BY <3>1, <1>1
    <3>3. Is(g, m)
      BY <3>2
    <3> HIDE DEF Is
    <3>4. \E h : Is(h, m)
      BY <3>3
    <3> QED BY <3>4
  <2> HIDE DEF G
  <2>3. N \in G
    <3>1. N \in Nat /\ 0 \in G /\ \A n \in 1 .. N : n - 1 \in G => n \in G
      BY <1>1, <2>1, <2>2
    <3>2. \A n \in 0 .. N : n \in G
      BY <3>1, Rounds
    <3> QED BY <3>1, <3>2
  <2> QED BY <2>3 DEF G
<1>6. Is(put, N)
  BY <1>5
<1> HIDE DEF put
<1>7. \A n \in 0 .. N : put[n] = IF n = 0 THEN cs ELSE next(put[n - 1], n)
  BY <1>6
<1>8. Rest(put[N])
  <2> DEFINE G == {n \in 0 .. N : Rest(put[n])}
  <2>1. 0 \in G
    <3>1. put[0] = cs /\ 0 \in 0 .. N
      BY <1>1, <1>7
    <3> QED BY <3>1
  <2>2. ASSUME NEW n \in 1 .. N, n - 1 \in G PROVE n \in G
    <3>1. Rest(put[n - 1]) /\ n \in 0 .. N /\ n # 0
      BY <2>2, <1>1
    <3>2. put[n] = next(put[n - 1], n)
      BY <3>1, <1>7
    <3>3. Rest(next(put[n - 1], n))
      BY <3>1, <1>3
    <3> QED BY <3>1, <3>2, <3>3
  <2> HIDE DEF G
  <2>3. N \in G
    <3>1. N \in Nat /\ 0 \in G /\ \A n \in 1 .. N : n - 1 \in G => n \in G
      BY <1>1, <2>1, <2>2
    <3>2. \A n \in 0 .. N : n \in G
      BY <3>1, Rounds
    <3> QED BY <3>1, <3>2
  <2> QED BY <2>3 DEF G
<1> QED BY <1>2, <1>8

\* Clusters made a all.
LEMMA LinkRest ==
  ASSUME NEW cs, Rest(cs), NEW fresh \in Seq(Cluster)
  PROVE  Rest(LinkUp(cs, fresh))
<1> DEFINE N == Len(fresh)
           next(v, n) == Set(v, fresh[n], IF n < N THEN fresh[n + 1] ELSE EndMark)
           Is(f, m) == f = [n \in 0 .. m |-> IF n = 0 THEN cs ELSE next(f[n - 1], n)]
           linked[n \in 0 .. N] == IF n = 0 THEN cs ELSE next(linked[n - 1], n)
<1>1. N \in Nat
  OBVIOUS
<1>2. LinkUp(cs, fresh) = linked[N]
  BY DEF LinkUp
<1>3. ASSUME NEW v, Rest(v), NEW n \in 1 .. N PROVE Rest(next(v, n))
  <2>1. fresh[n] \in Cluster /\ (n < N => fresh[n + 1] \in Cluster)
    OBVIOUS
  <2>2. EndMark \in 0 .. EndMark /\ \A c \in Cluster : c \in 0 .. EndMark
    BY ConstantsAre
  <2>3. (IF n < N THEN fresh[n + 1] ELSE EndMark) \in 0 .. EndMark
    BY <2>1, <2>2
  <2> QED BY <1>3, <2>1, <2>3, SetRest
<1> HIDE DEF next, N
<1>5. \E f : Is(f, N)
  <2> DEFINE G == {m \in 0 .. N : \E f : Is(f, m)}
  <2>1. 0 \in G
    <3>1. Is([n \in 0 .. 0 |-> cs], 0)
      OBVIOUS
    <3> HIDE DEF Is
    <3>2. \E f : Is(f, 0)
      BY <3>1
    <3> QED BY <3>2, <1>1
  <2>2. ASSUME NEW m \in 1 .. N, m - 1 \in G PROVE m \in G
    <3>1. PICK f : Is(f, m - 1)
      BY <2>2
    <3> DEFINE g == [n \in 0 .. m |-> IF n = m THEN next(f[m - 1], m) ELSE f[n]]
    <3>2. \A n \in 0 .. m : g[n] = IF n = 0 THEN cs ELSE next(g[n - 1], n)
      BY <3>1, <1>1
    <3>3. Is(g, m)
      BY <3>2
    <3> HIDE DEF Is
    <3>4. \E h : Is(h, m)
      BY <3>3
    <3> QED BY <3>4
  <2> HIDE DEF G
  <2>3. N \in G
    <3>1. N \in Nat
      BY <1>1
    <3>2. \A n \in 1 .. N : n - 1 \in G => n \in G
      BY <2>2
    <3> QED BY ONLY <2>1, <3>1, <3>2, LastRound
  <2> QED BY <2>3 DEF G
<1>6. Is(linked, N)
  BY <1>5
<1> HIDE DEF linked
<1>7. \A n \in 0 .. N : linked[n] = IF n = 0 THEN cs ELSE next(linked[n - 1], n)
  BY <1>6
<1>8. Rest(linked[N])
  <2> DEFINE G == {n \in 0 .. N : Rest(linked[n])}
  <2>1. 0 \in G
    <3>1. linked[0] = cs /\ 0 \in 0 .. N
      BY <1>1, <1>7
    <3> QED BY <3>1
  <2>2. ASSUME NEW n \in 1 .. N, n - 1 \in G PROVE n \in G
    <3>1. Rest(linked[n - 1]) /\ n \in 0 .. N /\ n # 0
      BY <2>2, <1>1
    <3>2. linked[n] = next(linked[n - 1], n)
      BY <3>1, <1>7
    <3>3. Rest(next(linked[n - 1], n))
      BY <3>1, <1>3
    <3> QED BY <3>1, <3>2, <3>3
  <2> HIDE DEF G
  <2>3. N \in G
    <3>1. N \in Nat
      BY <1>1
    <3>2. \A n \in 1 .. N : n - 1 \in G => n \in G
      BY <2>2
    <3> QED BY ONLY <2>1, <3>1, <3>2, LastRound
  <2> QED BY <2>3 DEF G
<1> QED BY <1>2, <1>8

-----------------------------------------------------------------------------
(* Requests. *)

LEMMA ShortIs ==
  ASSUME NEW raw \in ShortSlots
  PROVE  raw \in Slot /\ raw.cluster \in {NoCluster} \cup Cluster /\ raw.size \in Nat
BY DEF ShortSlots, Slot

\* A short entry with another name, flag, size or cluster is one.
LEMMA RenamedIs ==
  ASSUME NEW s, InHand(s), s.raw \in ShortSlots, NEW n \in STRING
  PROVE  InHand([s EXCEPT !.raw.name = n]) /\ [s EXCEPT !.raw.name = n].raw \in ShortSlots
<1> DEFINE raw == s.raw
           new == [raw EXCEPT !.name = n]
<1>1. new \in ShortSlots
  BY DEF ShortSlots
<1>2. [s EXCEPT !.raw.name = n] = [index |-> s.index, sector |-> s.sector, raw |-> new]
  BY DEF InHand
<1> HIDE DEF new
<1> QED BY <1>1, <1>2 DEF InHand

LEMMA FlaggedIs ==
  ASSUME NEW s, InHand(s), s.raw \in ShortSlots, NEW b \in BOOLEAN
  PROVE  InHand([s EXCEPT !.raw.ro = b]) /\ [s EXCEPT !.raw.ro = b].raw \in ShortSlots
<1> DEFINE raw == s.raw
           new == [raw EXCEPT !.ro = b]
<1>1. new \in ShortSlots
  BY DEF ShortSlots
<1>2. [s EXCEPT !.raw.ro = b] = [index |-> s.index, sector |-> s.sector, raw |-> new]
  BY DEF InHand
<1> HIDE DEF new
<1> QED BY <1>1, <1>2 DEF InHand

LEMMA GrownIs ==
  ASSUME NEW s, InHand(s), s.raw \in ShortSlots, NEW size \in Nat, NEW c \in {NoCluster} \cup Cluster
  PROVE  /\ InHand([s EXCEPT !.raw.size = size, !.raw.cluster = c])
         /\ [s EXCEPT !.raw.size = size, !.raw.cluster = c].raw \in ShortSlots
<1> DEFINE raw  == s.raw
           grew == [raw EXCEPT !.size = size]
           t    == [s EXCEPT !.raw.size = size]
           new  == [grew EXCEPT !.cluster = c]
<1>1. grew \in ShortSlots
  BY DEF ShortSlots
<1>2. t = [index |-> s.index, sector |-> s.sector, raw |-> grew]
  BY DEF InHand
<1>3. [s EXCEPT !.raw.size = size, !.raw.cluster = c] = [t EXCEPT !.raw.cluster = c]
  OBVIOUS
<1> HIDE DEF grew, t
<1>4. new \in ShortSlots
  BY <1>1 DEF ShortSlots
<1>5. [t EXCEPT !.raw.cluster = c] = [index |-> s.index, sector |-> s.sector, raw |-> new]
  BY <1>2
<1> HIDE DEF new
<1> QED BY <1>3, <1>4, <1>5 DEF InHand

\* A chunk laid in a file.
LEMMA WriteAtRest ==
  ASSUME NEW cs, Rest(cs), NEW s, InHand(s), s.raw \in ShortSlots,
         NEW off \in Nat, NEW data \in Seq(Blocks)
  PROVE  LET r == WriteAt(cs, s, off, data)
         IN  Rest(r.course) /\ InHand(r.slot) /\ r.slot.raw \in ShortSlots
<1> DEFINE d      == Now(cs)
           end    == Max({s.raw.size, off + Len(data)})
           own    == Chain(d, s.raw.cluster)
           need   == IF end > Len(own) THEN end - Len(own) ELSE 0
           spare  == FreeFrom(d, IF own = << >> THEN 1 ELSE Last(own) + 1)
           fresh  == SubSeq(spare, 1, need)
           linked == LinkUp(PutData(cs, own \o fresh, off, data), fresh)
           hung   == IF need > 0 /\ own # << >> THEN Set(linked, Last(own), fresh[1]) ELSE linked
           first  == IF own = << >> /\ need > 0 THEN fresh[1] ELSE s.raw.cluster
           slot   == [s EXCEPT !.raw.size = end, !.raw.cluster = first]
           r      == WriteAt(cs, s, off, data)
<1>1. d \in Disk /\ own \in Seq(Cluster) /\ spare \in Seq(Cluster)
  <2>1. d \in Disk
    BY NowIs DEF Rest
  <2> QED BY <2>1, ChainIs, FreeIs
<1>2. end \in Nat
  <2>1. s.raw.size \in Nat /\ off + Len(data) \in Nat
    BY ShortIs
  <2> QED BY <2>1, MaxOfTwo
<1>3. r = IF need > Len(spare) THEN [full |-> TRUE, slot |-> s, course |-> cs]
          ELSE [full |-> FALSE, slot |-> slot, course |-> WriteSlot(hung, slot)]
  <2>1. slot = [s EXCEPT !.raw.size = end, !.raw.cluster = IF own = << >> /\ need > 0 THEN fresh[1] ELSE @]
    BY DEF InHand
  <2> QED BY <2>1 DEF WriteAt
<1> HIDE DEF r, d, end, own, spare
<1>4. need \in Nat
  BY <1>1, <1>2
<1>5. CASE need > Len(spare)
  BY <1>3, <1>5 DEF r
<1>6. CASE ~(need > Len(spare))
  <2>1. fresh \in Seq(Cluster) /\ Len(fresh) = need
    BY <1>1, <1>4, <1>6
  <2> HIDE DEF fresh, need
  <2>2. need > 0 => fresh[1] \in Cluster
    BY <2>1, <1>4
  <2>3. Rest(linked)
    BY <2>1, PutRest, LinkRest
  <2> HIDE DEF linked
  <2>4. Rest(hung)
    <3>1. CASE need > 0 /\ own # << >>
      <4>1. Last(own) \in Cluster
        BY <3>1, <1>1, LastOf
      <4>2. fresh[1] \in 0 .. EndMark
        BY <3>1, <2>2, ConstantsAre
      <4> QED BY <3>1, <4>1, <4>2, <2>3, SetRest
    <3>2. CASE ~(need > 0 /\ own # << >>)
      BY <3>2, <2>3
    <3> QED BY <3>1, <3>2
  <2> HIDE DEF hung
  <2>5. first \in {NoCluster} \cup Cluster
    BY <2>2, ShortIs
  <2> HIDE DEF first
  <2>6. InHand(slot) /\ slot.raw \in ShortSlots
    BY <2>5, <1>2, GrownIs
  <2> HIDE DEF slot
  <2>7. Rest(WriteSlot(hung, slot))
    BY <2>4, <2>6, ShortIs, SlotRest
  <2>8. r = [full |-> FALSE, slot |-> slot, course |-> WriteSlot(hung, slot)]
    BY <1>3, <1>6 DEF need
  <2> QED BY <2>6, <2>7, <2>8 DEF r
<1> QED BY <1>5, <1>6

\* An entry deleted and its clusters freed.
LEMMA UnlinkRest ==
  ASSUME NEW cs, Rest(cs), NEW dir, NEW s, InHand(s)
  PROVE  Rest(Unlink(cs, dir, s))
BY KillRest, FreeChainRest DEF Unlink

LEMMA DropRest ==
  ASSUME NEW cs, Rest(cs), NEW dir, NEW name
  PROVE  Rest(Drop(cs, dir, name))
<1>1. InHand(Found(Now(cs), dir, name))
  BY NowIs, FoundIs DEF Rest
<1> QED BY <1>1, UnlinkRest DEF Drop

\* The commit of a save.
LEMMA CommitRest ==
  ASSUME NEW cs, Rest(cs), NEW dir, NEW t, t.raw \in Slot, NEW old, InHand(old)
  PROVE  Rest(Commit(cs, dir, t, old))
<1> DEFINE bare == KillLongNames(cs, dir, old.index)
           was  == SlotsIn(Now(bare), t.sector)
           both == [was EXCEPT ![PlaceOf(old.index)] = DeadSlot, ![PlaceOf(t.index)] = t.raw]
           swap == IF old.sector = t.sector THEN Append(bare, [Now(bare) EXCEPT !.data[t.sector] = both])
                                            ELSE WriteSlot(WriteSlot(bare, Dead(old)), t)
<1>1. Commit(cs, dir, t, old) = IF old = NoSlot THEN WriteSlot(cs, t) ELSE FreeChain(swap, old.raw.cluster)
  BY DEF Commit
<1>2. Rest(bare)
  BY KillLongRest DEF InHand
<1> HIDE DEF bare
<1>3. t.sector \in Cluster => both \in Data
  <2>1. SUFFICES ASSUME t.sector \in Cluster PROVE both \in Data
    OBVIOUS
  <2>2. was \in [1 .. Per -> Slot]
    BY <1>2, <2>1, SlotsInIs, NowIs DEF Rest
  <2>3. DeadSlot \in Slot
    BY DEF Slot
  <2> HIDE DEF was
  <2> QED BY <2>2, <2>3 DEF Data
<1> HIDE DEF both
<1>4. Rest(swap)
  <2>1. Rest(Append(bare, [Now(bare) EXCEPT !.data[t.sector] = both]))
    BY <1>2, <1>3, DataRest
  <2>2. Rest(WriteSlot(WriteSlot(bare, Dead(old)), t))
    BY <1>2, DeadIs, SlotRest
  <2> QED BY <2>1, <2>2
<1> HIDE DEF swap
<1>5. Rest(WriteSlot(cs, t)) /\ Rest(FreeChain(swap, old.raw.cluster))
  BY <1>4, SlotRest, FreeChainRest
<1> QED BY <1>1, <1>5

LEMMA PathIs ==
  ASSUME NEW p \in Path
  PROVE  Last(p) \in STRING /\ Front(p) \in Seq(STRING)
<1>1. p \in Seq(STRING) /\ p # << >>
  BY DEF Path
<1>2. SubSeq(p, 1, Len(p) - 1) \in Seq(STRING)
  BY <1>1
<1> QED BY <1>1, <1>2, LastOf DEF Front

\* A chunk laid, and the commit behind the last one.
LEMMA LaidRest ==
  ASSUME NEW laid, Rest(laid.course), InHand(laid.slot), laid.slot.raw \in ShortSlots,
         NEW dir, NEW q, q.path \in Path, NEW old, InHand(old)
  PROVE  Rest(Laid(laid, dir, q, old).course)
<1> DEFINE s == laid.slot
           n == Last(q.path)
           b == ReadOnly(q.attr)
           u == [s EXCEPT !.raw.name = n]
           t == [s EXCEPT !.raw.name = n, !.raw.ro = b]
<1>1. n \in STRING /\ b \in BOOLEAN
  BY PathIs DEF ReadOnly
<1> HIDE DEF n, b, s
<1>2. InHand(u) /\ u.raw \in ShortSlots
  BY <1>1, RenamedIs DEF s
<1>3. t = [u EXCEPT !.raw.ro = b]
  OBVIOUS
<1> HIDE DEF u
<1>4. t.raw \in ShortSlots
  BY <1>1, <1>2, <1>3, FlaggedIs
<1>5. Laid(laid, dir, q, old) = IF laid.full THEN Answer("EWRITF", laid.course)
                                ELSE IF ~q.last THEN Answer("ok", laid.course)
                                ELSE Answer("ok", Commit(laid.course, dir, t, old))
  BY DEF Laid, s, n, b
<1> HIDE DEF t
<1>6. Rest(Commit(laid.course, dir, t, old))
  BY <1>4, ShortIs, CommitRest
<1> QED BY <1>5, <1>6 DEF Answer

LEMMA LayRest ==
  ASSUME NEW temp, Rest(temp.course), temp.there => InHand(temp.slot) /\ temp.slot.raw \in ShortSlots,
         NEW dir, NEW q, q.path \in Path, q.off \in Nat, q.data \in Seq(Blocks), NEW old, InHand(old)
  PROVE  Rest(Lay(temp, dir, q, old).course)
<1> DEFINE laid == WriteAt(temp.course, temp.slot, q.off, q.data)
<1>1. CASE ~temp.there \/ q.off > temp.slot.raw.size
  BY <1>1 DEF Lay, Answer
<1>2. CASE temp.there /\ ~(q.off > temp.slot.raw.size)
  <2>1. Rest(laid.course) /\ InHand(laid.slot) /\ laid.slot.raw \in ShortSlots
    BY <1>2, WriteAtRest
  <2>2. Lay(temp, dir, q, old) = Laid(laid, dir, q, old)
    BY <1>2 DEF Lay
  <2> HIDE DEF laid
  <2> QED BY <2>1, <2>2, LaidRest
<1> QED BY <1>1, <1>2

LEMMA ServeWriteRest ==
  ASSUME NEW cs, Rest(cs), NEW dir \in Cluster, NEW q,
         q.path \in Path, q.off \in Nat, q.data \in Seq(Blocks)
  PROVE  Rest(ServeWrite(cs, dir, q).course)
<1> DEFINE name == TempName[q.slot]
           old  == Found(Now(cs), dir, Last(q.path))
           kept == Found(Now(cs), dir, name)
           raw  == ShortSlot("file", name, FALSE, NoCluster, 0)
           made == Add(Drop(cs, dir, name), dir, raw)
           temp == IF q.first THEN made ELSE [there |-> kept # NoSlot, slot |-> kept, course |-> cs]
<1>1. ServeWrite(cs, dir, q) =
        IF q.slot \notin Handles THEN Answer("EIHNDL", cs)
        ELSE IF Len(q.data) > DataMax THEN Answer("ERANGE", cs)
        ELSE IF old # NoSlot /\ (old.raw.kind = "dir" \/ old.raw.ro) THEN Answer("EACCDN", cs)
        ELSE Lay(temp, dir, q, old)
  BY DEF ServeWrite
<1>2. InHand(old) /\ InHand(kept) /\ (kept # NoSlot => kept.raw \in ShortSlots)
  BY NowIs, FoundIs DEF Rest
<1>3. q.slot \in Handles => raw \in ShortSlots
  BY TempNameAssumption DEF ShortSlots, ShortSlot
<1> HIDE DEF old, kept, raw, name
<1>4. q.slot \in Handles => Rest(Lay(temp, dir, q, old).course)
  <2>1. SUFFICES ASSUME q.slot \in Handles PROVE Rest(Lay(temp, dir, q, old).course)
    OBVIOUS
  <2>2. raw \in ShortSlots /\ raw \in Slot
    BY <1>3, <2>1, ShortIs
  <2>3. Rest(made.course) /\ (made.there => InHand(made.slot) /\ made.slot.raw \in ShortSlots)
    BY <2>2, DropRest, AddRest
  <2> HIDE DEF made
  <2>4. Rest(temp.course) /\ (temp.there => InHand(temp.slot) /\ temp.slot.raw \in ShortSlots)
    BY <2>3, <1>2
  <2> HIDE DEF temp
  <2> QED BY <1>2, <2>4, LayRest
<1> HIDE DEF temp
<1> QED BY <1>1, <1>4 DEF Answer

LEMMA ServeAbortRest ==
  ASSUME NEW cs, Rest(cs), NEW dir, NEW q
  PROVE  Rest(ServeAbort(cs, dir, q).course)
BY DropRest DEF ServeAbort, Answer

LEMMA ServeDeleteRest ==
  ASSUME NEW cs, Rest(cs), NEW dir, NEW q
  PROVE  Rest(ServeDelete(cs, dir, q).course)
<1> DEFINE s == Found(Now(cs), dir, Last(q.path))
<1>1. InHand(s)
  BY NowIs, FoundIs DEF Rest
<1>2. Rest(Unlink(cs, dir, s))
  BY <1>1, UnlinkRest
<1> QED BY <1>2 DEF ServeDelete, Answer

LEMMA ServeRmdirRest ==
  ASSUME NEW cs, Rest(cs), NEW dir, NEW q
  PROVE  Rest(ServeRmdir(cs, dir, q).course)
<1> DEFINE s == Found(Now(cs), dir, Last(q.path))
<1>1. InHand(s)
  BY NowIs, FoundIs DEF Rest
<1>2. Rest(Unlink(cs, dir, s))
  BY <1>1, UnlinkRest
<1> QED BY <1>2 DEF ServeRmdir, Answer

LEMMA ServeSetattrRest ==
  ASSUME NEW cs, Rest(cs), NEW dir, NEW q
  PROVE  Rest(ServeSetattr(cs, dir, q).course)
<1> DEFINE s == Found(Now(cs), dir, Last(q.path))
           b == ReadOnly(q.attr)
           t == [s EXCEPT !.raw.ro = b]
<1>1. InHand(s) /\ (s # NoSlot => s.raw \in ShortSlots) /\ b \in BOOLEAN
  BY NowIs, FoundIs DEF Rest, ReadOnly
<1>2. ServeSetattr(cs, dir, q) = IF s = NoSlot THEN Answer("EFILNF", cs)
                                 ELSE IF ~Settable(q.attr) THEN Answer("EACCDN", cs)
                                 ELSE Answer("ok", WriteSlot(cs, t))
  BY DEF ServeSetattr
<1> HIDE DEF s, b
<1>3. s # NoSlot => t.raw \in Slot
  BY <1>1, FlaggedIs, ShortIs
<1> HIDE DEF t
<1>4. s # NoSlot => Rest(WriteSlot(cs, t))
  BY <1>3, SlotRest
<1> QED BY <1>2, <1>4 DEF Answer

LEMMA ServeMkdirRest ==
  ASSUME NEW cs, Rest(cs), NEW dir \in Cluster, NEW q, q.path \in Path
  PROVE  Rest(ServeMkdir(cs, dir, q).course)
<1> DEFINE free  == FreeFrom(Now(cs), 2)
           c     == Head(free)
           zero  == ZeroCluster(cs, c)
           slots == [i \in 1 .. Per |-> IF i = 1 THEN DotSlot ELSE IF i = 2 THEN DotDotSlot(dir) ELSE ZeroSlot]
           dots  == Append(zero, [Now(zero) EXCEPT !.data[c] = slots])
           ended == Set(dots, c, EndMark)
           raw   == ShortSlot("dir", Last(q.path), FALSE, c, 0)
           put   == Add(ended, dir, raw)
<1>1. ServeMkdir(cs, dir, q) =
        IF Len(q.path) >= MaxNames THEN Answer("EPTHNF", cs)
        ELSE IF Find(Now(cs), dir, Last(q.path)) # 0 THEN Answer("EACCDN", cs)
        ELSE IF free = << >> THEN Answer("EWRITF", cs)
        ELSE IF ~put.there THEN Answer("EACCDN", Set(put.course, c, Free))
        ELSE Answer("ok", put.course)
  BY DEF ServeMkdir
<1>2. free # << >> => c \in Cluster
  <2>1. free \in Seq(Cluster)
    BY NowIs, FreeIs DEF Rest
  <2> QED BY <2>1
<1>3. slots \in Data
  <2>1. \A i \in 1 .. Per : slots[i] \in Slot
    BY DEF Slot, DotDotSlot
  <2> QED BY <2>1 DEF Data
<1>4. EndMark \in 0 .. EndMark /\ Free \in 0 .. EndMark
  BY ConstantsAre
<1>5. c \in Cluster => raw \in Slot
  <2>1. c \in Cluster => raw \in ShortSlots
    BY PathIs DEF ShortSlots, ShortSlot
  <2> QED BY <2>1, ShortIs
<1> HIDE DEF c, slots, raw
<1>6. Rest(dots)
  <2>1. Rest(zero)
    BY ZeroRest
  <2> HIDE DEF zero
  <2> QED BY <2>1, <1>3, DataRest
<1> HIDE DEF dots
<1>7. c \in Cluster => Rest(ended)
  BY <1>4, <1>6, SetRest
<1> HIDE DEF ended
<1>8. c \in Cluster => Rest(put.course)
  BY <1>5, <1>7, AddRest
<1> HIDE DEF put
<1>9. c \in Cluster => Rest(Set(put.course, c, Free))
  BY <1>4, <1>8, SetRest
<1> HIDE DEF free
<1> QED BY <1>1, <1>2, <1>8, <1>9 DEF Answer

LEMMA ServeRenameRest ==
  ASSUME NEW cs, Rest(cs), NEW dir, NEW q, q.path \in Path, q.path2 \in Path
  PROVE  Rest(ServeRename(cs, dir, q).course)
<1> DEFINE s     == Found(Now(cs), dir, Last(q.path))
           to    == FolderOf(Now(cs), Front(q.path2))
           name  == Last(q.path2)
           moved == [s EXCEPT !.raw.name = name]
           put   == Add(cs, to, moved.raw)
           gone  == Kill(put.course, dir, s)
           up    == ReadSlot(Now(gone), s.raw.cluster, 2)
           upper == [up EXCEPT !.raw = DotDotSlot(to)]
           upped == IF up.raw.kind = "dotdot" THEN WriteSlot(gone, upper) ELSE gone
           here  == WriteSlot(KillLongNames(cs, dir, s.index), moved)
<1>1. ServeRename(cs, dir, q) =
        IF to = NoCluster THEN Answer("EPTHNF", cs)
        ELSE IF s = NoSlot THEN Answer("EFILNF", cs)
        ELSE IF Find(Now(cs), to, Last(q.path2)) # 0 THEN Answer("EACCDN", cs)
        ELSE IF s.raw.kind = "dir" /\ IntoItself(q) THEN Answer("EACCDN", cs)
        ELSE IF to = dir THEN Answer("ok", here)
        ELSE IF ~put.there THEN Answer("EACCDN", cs)
        ELSE Answer("ok", IF s.raw.kind = "dir" THEN upped ELSE gone)
  BY DEF ServeRename
<1>2. Now(cs) \in Disk
  BY NowIs DEF Rest
<1>3. InHand(s) /\ (s # NoSlot => s.raw \in ShortSlots) /\ s.index \in Nat
  BY <1>2, FoundIs DEF InHand
<1>4. to # NoCluster => to \in Cluster
  BY <1>2, PathIs, FolderIs
<1>5. upper.raw = DotDotSlot(to)
  BY DEF ReadSlot
<1> HIDE DEF s, to, up
<1>6. s # NoSlot => moved.raw \in Slot
  BY <1>3, PathIs, RenamedIs, ShortIs
<1> HIDE DEF moved, upper
<1>7. s # NoSlot => Rest(here)
  BY <1>3, <1>6, KillLongRest, SlotRest
<1> HIDE DEF here
<1>8. ASSUME to # NoCluster, s # NoSlot
      PROVE  Rest(gone) /\ Rest(upped)
  <2>1. Rest(put.course)
    BY <1>4, <1>6, <1>8, AddRest
  <2> HIDE DEF put
  <2>2. Rest(gone)
    BY <2>1, <1>3, KillRest
  <2> HIDE DEF gone
  <2>3. upper.raw \in Slot
    BY <1>4, <1>5, <1>8 DEF Slot, DotDotSlot
  <2>4. Rest(WriteSlot(gone, upper))
    BY <2>2, <2>3, SlotRest
  <2> QED BY <2>2, <2>4
<1> HIDE DEF gone, upped, put
<1> QED BY <1>1, <1>7, <1>8 DEF Answer

LEMMA ForgetRest ==
  ASSUME NEW d \in Disk, Alike(d)
  PROVE  Rest(ForgetFsinfo(<< d >>))
<1> DEFINE cs == << d >>
           e  == [d EXCEPT !.fsinfo = Unknown]
<1>1. cs \in Seq(Disk) /\ cs # << >> /\ Len(cs) = 1 /\ Now(cs) = d
  <2>1. cs \in Seq(Disk) /\ Len(cs) = 1 /\ cs[1] = d
    OBVIOUS
  <2> QED BY <2>1, LastOf DEF Now
<1>2. Course(cs)
  BY <1>1 DEF Course
<1>3. e \in Disk /\ e.fsinfo = Unknown /\ Alike(e)
  <2>1. Unknown \in 0 .. Unknown
    BY ConstantsAre DEF Unknown
  <2> QED BY <2>1 DEF Disk, Alike
<1>4. ForgetFsinfo(cs) = IF d.fsinfo = Unknown THEN cs ELSE Append(cs, e)
  BY <1>1 DEF ForgetFsinfo
<1> HIDE DEF cs, e
<1>5. Setting(Append(cs, e), Top) /\ Now(Append(cs, e)) = e
  <2>1. DifferAt(e, Top) /\ Top \in Cluster
    BY <1>3, ConstantsAre DEF Alike, DifferAt
  <2> QED BY <1>2, <1>3, <2>1, GoesOn
<1>6. Rest(Append(cs, e))
  BY <1>3, <1>5 DEF Rest, Setting
<1>7. d.fsinfo = Unknown => Rest(cs)
  BY <1>1, <1>2 DEF Rest
<1> QED BY <1>4, <1>6, <1>7 DEF cs

\* The course of any request is at rest, unless the request changes nothing.
LEMMA ServeRest ==
  ASSUME NEW d \in Disk, Alike(d), NEW q, IsRequest(q)
  PROVE  Serve(d, q).course = << d >> \/ Rest(Serve(d, q).course)
<1> DEFINE dir == FolderOf(d, Front(q.path))
           cs  == ForgetFsinfo(<< d >>)
<1>1. Rest(cs)
  BY ForgetRest
<1>2. q.path \in Path /\ dir \in {NoCluster} \cup Cluster
  <2>1. q.path \in Path
    BY DEF IsRequest
  <2> QED BY <2>1, PathIs, FolderIs
<1>3. CASE dir = NoCluster
  BY <1>3 DEF Serve, Answer
<1>4. CASE dir # NoCluster
  <2>1. dir \in Cluster
    BY <1>2, <1>4
  <2>2. Serve(d, q) = CASE q.op = "write"   -> ServeWrite(cs, dir, q)
                        [] q.op = "abort"   -> ServeAbort(cs, dir, q)
                        [] q.op = "delete"  -> ServeDelete(cs, dir, q)
                        [] q.op = "rename"  -> ServeRename(cs, dir, q)
                        [] q.op = "mkdir"   -> ServeMkdir(cs, dir, q)
                        [] q.op = "rmdir"   -> ServeRmdir(cs, dir, q)
                        [] q.op = "setattr" -> ServeSetattr(cs, dir, q)
    BY <1>4 DEF Serve
  <2> HIDE DEF dir, cs
  <2>3. CASE q.op = "write" /\ q.off \in Nat /\ q.data \in Seq(Blocks)
    <3>1. Serve(d, q) = ServeWrite(cs, dir, q)
      BY <2>2, <2>3
    <3> QED BY <3>1, <1>1, <1>2, <2>1, <2>3, ServeWriteRest
  <2>4. CASE q.op = "rename" /\ q.path2 \in Path
    <3>1. Serve(d, q) = ServeRename(cs, dir, q)
      BY <2>2, <2>4
    <3> QED BY <3>1, <1>1, <1>2, <2>4, ServeRenameRest
  <2>5. CASE q.op = "abort"
    <3>1. Serve(d, q) = ServeAbort(cs, dir, q)
      BY <2>2, <2>5
    <3> QED BY <3>1, <1>1, ServeAbortRest
  <2>6. CASE q.op = "delete"
    <3>1. Serve(d, q) = ServeDelete(cs, dir, q)
      BY <2>2, <2>6
    <3> QED BY <3>1, <1>1, ServeDeleteRest
  <2>7. CASE q.op = "mkdir"
    <3>1. Serve(d, q) = ServeMkdir(cs, dir, q)
      BY <2>2, <2>7
    <3> QED BY <3>1, <1>1, <1>2, <2>1, ServeMkdirRest
  <2>8. CASE q.op = "rmdir"
    <3>1. Serve(d, q) = ServeRmdir(cs, dir, q)
      BY <2>2, <2>8
    <3> QED BY <3>1, <1>1, ServeRmdirRest
  <2>9. CASE q.op = "setattr"
    <3>1. Serve(d, q) = ServeSetattr(cs, dir, q)
      BY <2>2, <2>9
    <3> QED BY <3>1, <1>1, ServeSetattrRest
  <2> QED BY <2>3, <2>4, <2>5, <2>6, <2>7, <2>8, <2>9 DEF IsRequest
<1> QED BY <1>3, <1>4

=============================================================================
