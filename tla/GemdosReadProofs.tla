--------------------------- MODULE GemdosReadProofs ---------------------------
(***************************************************************************)
(* Theorems of GemdosRead: what a cart finds is what is on the disk, and   *)
(* not what was there when a run, the volume's buffer or the mount were    *)
(* read.                                                                   *)
(*                                                                         *)
(* The argument is about sectors known by pairs of their number and what   *)
(* they hold.  Within(m, B, R) says that the buffer of m is one of the     *)
(* pairs in B and that its runs are made of pairs in R; every look keeps   *)
(* that for any B and R that what is on the disk now (Current) belongs to. *)
(* Pairs that some disk may have (Sectors) give the shapes, and Current    *)
(* itself gives the freshness.                                             *)
(***************************************************************************)
EXTENDS GemdosRead, KfsServeProofs

FatValue == [Cluster -> 0 .. EndMark]
Value    == {"bpb"} \cup FatValue \cup Data

\* The sectors as they may be, and as they are.
Fits(n, v) == (n \in 1 .. NFats => v \in FatValue) /\ (n >= DataStart => v \in Data)
Sectors == {x \in (0 .. LastSector) \X Value : Fits(x[1], x[2])}
Current == {<<n, Content(n)>> : n \in 0 .. LastSector}

Mem == [sector : Nat, buf : Value \cup {"none"}, runs : [1 .. RunSlots -> [first : Nat, data : Seq(Value)]],
        victim : 1 .. RunSlots, ok : BOOLEAN]

RunWithin(run, R) == \A k \in 1 .. Len(run.data) : <<run.first + k - 1, run.data[k]>> \in R
Within(m, B, R) ==
  /\ m \in Mem
  /\ m.sector # NoSector => <<m.sector, m.buf>> \in B
  /\ \A i \in 1 .. RunSlots : RunWithin(m.runs[i], R)

\* A look may rely on B and R.
Trusted(B, R) == disk \in Disk /\ up \in BOOLEAN /\ Current \subseteq R /\ R \subseteq B /\ B \subseteq Sectors

-----------------------------------------------------------------------------
(* Sectors. *)

\* Where the FATs, the boot sector and the data lie.
LEMMA SectorsAre ==
  /\ FatSector \in 0 .. LastSector /\ FatSector \in 1 .. NFats
  /\ DataStart = NFats + 1 /\ LastSector = NFats + Clusters /\ LastSector \in Nat
  /\ NoSector \in Nat /\ NoSector \notin 0 .. LastSector
  /\ \A c \in Cluster : /\ ClusterSector(c) \in 0 .. LastSector /\ ClusterSector(c) >= DataStart
                        /\ ClusterSector(c) = NFats + c - 1
<1>1. NFats \in {1, 2} /\ Clusters \in Nat
  BY KfsDiskAssumption
<1> QED BY <1>1 DEF FatSector, DataStart, LastSector, NoSector, ClusterSector, Cluster

\* What is on the disk now is a sector of some disk, and what it holds a value.
LEMMA ContentIs ==
  ASSUME disk \in Disk
  PROVE  /\ Current \subseteq Sectors
         /\ \A n \in 0 .. LastSector : Content(n) \in Value
         /\ Content(FatSector) = disk.fat[1]
         /\ \A c \in Cluster : Content(ClusterSector(c)) = disk.data[c]
<1>1. NFats \in {1, 2} /\ Clusters \in Nat
  BY KfsDiskAssumption
<1>2. /\ \A n \in 1 .. NFats : disk.fat[n] \in FatValue
      /\ \A c \in Cluster : disk.data[c] \in Data
  BY DEF Disk, FatValue, Data
<1>3. ASSUME NEW n \in 0 .. LastSector PROVE Content(n) \in Value /\ Fits(n, Content(n))
  <2>1. CASE n = 0
    BY <1>1, <2>1, SectorsAre DEF Content, Value, Fits
  <2>2. CASE n \in 1 .. NFats
    <3>1. Content(n) = disk.fat[n]
      BY <1>1, <2>2, SectorsAre DEF Content
    <3> QED BY <1>1, <1>2, <2>2, <3>1, SectorsAre DEF Value, Fits
  <2>3. CASE n > NFats
    <3>1. n - DataStart + 2 \in Cluster /\ n \notin 1 .. NFats /\ n # 0
      BY <1>1, <2>3, SectorsAre DEF Cluster
    <3>2. Content(n) = disk.data[n - DataStart + 2]
      BY <1>1, <2>3, SectorsAre DEF Content
    <3> QED BY <1>2, <3>1, <3>2 DEF Value, Fits
  <2> QED BY <1>1, <2>1, <2>2, <2>3
<1>4. Content(FatSector) = disk.fat[1]
  BY <1>1 DEF Content, FatSector, DataStart
<1>5. ASSUME NEW c \in Cluster PROVE Content(ClusterSector(c)) = disk.data[c]
  <2>1. ClusterSector(c) = NFats + c - 1 /\ c \in Nat /\ c >= 2 /\ DataStart = NFats + 1
    BY SectorsAre DEF Cluster
  <2>2. ClusterSector(c) # 0 /\ ~(ClusterSector(c) < DataStart) /\ ClusterSector(c) - DataStart + 2 = c
    BY <1>1, <2>1
  <2> QED BY <2>2 DEF Content
<1>6. Current \subseteq Sectors
  BY <1>3 DEF Current, Sectors
<1> QED BY <1>3, <1>4, <1>5, <1>6

\* The three bounds that the proofs use are ones that a read keeps.
LEMMA TrustedIs ==
  ASSUME disk \in Disk, up \in BOOLEAN
  PROVE  Trusted(Sectors, Sectors) /\ Trusted(Current, Current) /\ Trusted(Sectors, Current)
BY ContentIs DEF Trusted

\* What is within tighter bounds is within wider ones.
LEMMA Wider ==
  ASSUME NEW B, NEW R, NEW B2, NEW R2, B \subseteq B2, R \subseteq R2, NEW m, Within(m, B, R)
  PROVE  Within(m, B2, R2)
BY DEF Within, RunWithin

\* What the backend answers is on the disk.
LEMMA AnsweredIs ==
  ASSUME disk \in Disk, up \in BOOLEAN, NEW n \in 0 .. LastSector
  PROVE  /\ Answered(n) \in Seq(Value) /\ (Answered(n) = << >> <=> ~up)
         /\ \A k \in 1 .. Len(Answered(n)) : Answered(n)[k] = Content(n + k - 1) /\ n + k - 1 \in 0 .. LastSector
<1>1. CASE ~up
  <2>1. Answered(n) = << >>
    BY <1>1 DEF Answered
  <2> QED BY <1>1, <2>1
<1>2. CASE up
  <2> DEFINE l == IF n + Run - 1 <= LastSector THEN Run ELSE 1
             s == [k \in 1 .. l |-> Content(n + k - 1)]
  <2>1. Answered(n) = s
    BY <1>2 DEF Answered
  <2>2. l \in Nat \ {0} /\ \A k \in 1 .. l : n + k - 1 \in 0 .. LastSector
    BY GemdosReadAssumption, SectorsAre
  <2> HIDE DEF l
  <2>3. \A k \in 1 .. l : Content(n + k - 1) \in Value
    BY <2>2, ContentIs
  <2>4. s \in Seq(Value) /\ Len(s) = l /\ \A k \in 1 .. l : s[k] = Content(n + k - 1)
    BY <2>2, <2>3
  <2>5. s # << >>
    BY <2>2, <2>4, LastOf
  <2> QED BY <1>2, <2>1, <2>2, <2>4, <2>5
<1> QED BY <1>1, <1>2

\* A sector read: it is in the buffer, or the backend is down.
LEMMA FetchIs ==
  ASSUME NEW B, NEW R, Trusted(B, R), NEW m, Within(m, B, R), NEW n \in 0 .. LastSector
  PROVE  /\ Within(Fetch(m, n), B, R)
         /\ Fetch(m, n).ok => m.ok /\ Fetch(m, n).sector = n /\ <<n, Fetch(m, n).buf>> \in B
         /\ m.ok /\ up => Fetch(m, n).ok
<1> DEFINE hit == {i \in 1 .. RunSlots : Holds(m.runs[i], n)}
           run == m.runs[Min(hit)]
           got == Answered(n)
<1>0. RunSlots \in Nat \ {0} /\ n # NoSector /\ n \in Nat
  BY GemdosReadAssumption, SectorsAre
<1>1. CASE ~m.ok \/ m.sector = n
  <2>1. Fetch(m, n) = m
    BY <1>1 DEF Fetch
  <2> QED BY <1>0, <1>1, <2>1 DEF Within
<1>2. CASE m.ok /\ m.sector # n /\ hit = {}
  <2> DEFINE new2 == IF got = << >> THEN NoRun ELSE [first |-> n, data |-> got]
             f == [sector |-> IF got = << >> THEN NoSector ELSE n,
                   buf |-> IF got = << >> THEN "none" ELSE got[1],
                   runs |-> [m.runs EXCEPT ![m.victim] = new2],
                   victim |-> (m.victim % RunSlots) + 1,
                   ok |-> got # << >>]
  <2>1. Fetch(m, n) = f
    <3>1. Fetch(m, n) = Fill(m, n, got)
      BY <1>2 DEF Fetch
    <3>2. m \in Mem
      BY DEF Within
    <3> QED BY <3>1, <3>2 DEF Fill, Mem
  <2>2. got \in Seq(Value) /\ (got = << >> <=> ~up)
        /\ \A k \in 1 .. Len(got) : got[k] = Content(n + k - 1) /\ n + k - 1 \in 0 .. LastSector
    BY AnsweredIs DEF Trusted
  <2> HIDE DEF got
  <2>3. got # << >> => 1 \in 1 .. Len(got) /\ got[1] \in Value /\ <<n, got[1]>> \in R
    <3>1. SUFFICES ASSUME got # << >> PROVE 1 \in 1 .. Len(got) /\ got[1] \in Value /\ <<n, got[1]>> \in R
      OBVIOUS
    <3>2. 1 \in 1 .. Len(got) /\ got[1] \in Value
      BY <2>2, <3>1
    <3>3. got[1] = Content(n + 1 - 1) /\ n + 1 - 1 = n
      BY <2>2, <3>2, <1>0
    <3>4. <<n, Content(n)>> \in Current
      BY DEF Current
    <3> QED BY <3>2, <3>3, <3>4 DEF Trusted
  <2>4. new2 \in [first : Nat, data : Seq(Value)] /\ RunWithin(new2, R)
    <3>1. CASE got = << >>
      <4>1. new2 = [first |-> 0, data |-> << >>]
        BY <3>1 DEF NoRun
      <4>2. new2.data = << >> /\ new2.first = 0 /\ << >> \in Seq(Value) /\ 0 \in Nat
        BY <4>1
      <4>3. RunWithin(new2, R)
        BY <4>2 DEF RunWithin
      <4> QED BY <4>1, <4>2, <4>3
    <3>2. CASE got # << >>
      <4>1. new2 = [first |-> n, data |-> got]
        BY <3>2
      <4>2. ASSUME NEW k \in 1 .. Len(got) PROVE <<n + k - 1, got[k]>> \in R
        BY <2>2 DEF Trusted, Current
      <4> QED BY <2>2, <4>1, <4>2, <1>0 DEF RunWithin
    <3> QED BY <3>1, <3>2
  <2> HIDE DEF new2
  <2>5. m \in Mem
    BY DEF Within
  <2>6. f.victim \in 1 .. RunSlots
    BY <2>5, <1>0 DEF Mem
  <2>7. f.runs \in [1 .. RunSlots -> [first : Nat, data : Seq(Value)]]
    BY <2>5, <2>4 DEF Mem
  <2>8. f.sector \in Nat /\ f.buf \in Value \cup {"none"} /\ f.ok \in BOOLEAN
    BY <2>5, <2>3, <1>0, SectorsAre DEF Mem
  <2>9. f \in Mem
    BY <2>6, <2>7, <2>8 DEF Mem
  <2>10. \A i \in 1 .. RunSlots : f.runs[i] = IF i = m.victim THEN new2 ELSE m.runs[i]
    BY <2>5 DEF Mem
  <2>11. f.sector = (IF got = << >> THEN NoSector ELSE n) /\ f.buf = (IF got = << >> THEN "none" ELSE got[1])
         /\ f.ok = (got # << >>)
    BY <2>5 DEF Mem
  <2> HIDE DEF f
  <2>12. \A i \in 1 .. RunSlots : RunWithin(f.runs[i], R)
    BY <2>4, <2>10 DEF Within
  <2>13. Within(f, B, R)
    BY <2>3, <2>9, <2>11, <2>12 DEF Within, Trusted
  <2> QED BY <1>2, <2>1, <2>2, <2>3, <2>11, <2>13 DEF Trusted
<1>3. CASE m.ok /\ m.sector # n /\ hit # {}
  <2> DEFINE k == n - run.first + 1
             f == [m EXCEPT !.sector = n, !.buf = run.data[k]]
  <2>1. Fetch(m, n) = f
    BY <1>3 DEF Fetch
  <2>2. Min(hit) \in hit
    <3>1. hit \in SUBSET Nat
      BY <1>0
    <3> QED BY <1>3, <3>1, MinIs
  <2>3. Min(hit) \in 1 .. RunSlots /\ Holds(run, n)
    BY <2>2
  <2> HIDE DEF hit
  <2>4. m \in Mem /\ run \in [first : Nat, data : Seq(Value)] /\ RunWithin(run, R)
    BY <2>3 DEF Within, Mem
  <2> HIDE DEF run
  <2>5. n \in run.first .. (run.first + Len(run.data) - 1) /\ Len(run.data) \in Nat /\ run.first \in Nat
    BY <2>3, <2>4 DEF Holds
  <2>6. k \in 1 .. Len(run.data) /\ run.first + k - 1 = n
    BY <2>5, <1>0
  <2> HIDE DEF k
  <2>7. <<n, run.data[k]>> \in R /\ run.data[k] \in Value
    BY <2>4, <2>6 DEF RunWithin
  <2>8. f \in Mem /\ f.sector = n /\ f.buf = run.data[k] /\ f.runs = m.runs /\ f.ok = m.ok
    BY <2>4, <2>7, <1>0 DEF Mem
  <2> HIDE DEF f
  <2>9. Within(f, B, R)
    BY <2>7, <2>8 DEF Within, Trusted
  <2> QED BY <1>3, <2>1, <2>7, <2>8, <2>9 DEF Trusted
<1>4. m.ok \in BOOLEAN
  BY DEF Within, Mem
<1> QED BY <1>1, <1>2, <1>3, <1>4

-----------------------------------------------------------------------------
(* Loops.  A function defined by recursion on the number of rounds exists  *)
(* when its step is one from a set to itself, and stays in that set.       *)

Runs(f, N, X, a, step) ==
  f \in [0 .. N -> X] /\ f[0] = a /\ \A n \in 1 .. N : f[n] = step[n][f[n - 1]]

\* There is a function that goes round N times, from a, by any N steps.
LEMMA Loop ==
  ASSUME NEW N \in Nat, NEW X, NEW a \in X, NEW step \in [1 .. N -> [X -> X]]
  PROVE  \E f : Runs(f, N, X, a, step)
<1> DEFINE Is(f, m) == f \in [0 .. m -> X] /\ f[0] = a /\ \A n \in 1 .. m : f[n] = step[n][f[n - 1]]
           G == {m \in 0 .. N : \E f : Is(f, m)}
<1>1. 0 \in G
  <2>1. Is([n \in 0 .. 0 |-> a], 0)
    OBVIOUS
  <2> HIDE DEF Is
  <2>2. \E f : Is(f, 0)
    BY <2>1
  <2> QED BY <2>2
<1>2. ASSUME NEW m \in 1 .. N, m - 1 \in G PROVE m \in G
  <2>1. PICK f : Is(f, m - 1)
    BY <1>2
  <2> DEFINE x == step[m][f[m - 1]]
             g == [n \in 0 .. m |-> IF n = m THEN x ELSE f[n]]
  <2>2. x \in X /\ \A n \in 0 .. (m - 1) : f[n] \in X
    BY <2>1
  <2>3. g \in [0 .. m -> X] /\ g[m] = x /\ \A n \in 0 .. (m - 1) : g[n] = f[n]
    <3> HIDE DEF x
    <3> QED BY <2>2
  <2> HIDE DEF g
  <2>4. g[0] = a /\ g[m] = step[m][g[m - 1]]
    BY <2>1, <2>3
  <2>5. ASSUME NEW n \in 1 .. m PROVE g[n] = step[n][g[n - 1]]
    <3>1. CASE n = m
      BY <2>4, <3>1
    <3>2. CASE n # m
      <4>1. n \in 1 .. (m - 1) /\ g[n] = f[n] /\ g[n - 1] = f[n - 1]
        BY <2>3, <3>2
      <4> QED BY <2>1, <4>1
    <3> QED BY <3>1, <3>2
  <2>6. Is(g, m)
    BY <2>3, <2>4, <2>5
  <2> HIDE DEF Is
  <2>7. \E h : Is(h, m)
    BY <2>6
  <2> QED BY <2>7
<1> HIDE DEF G
<1>3. N \in G
  <2>1. \A m \in 1 .. N : m - 1 \in G => m \in G
    BY <1>2
  <2> QED BY ONLY <1>1, <2>1, LastRound, N \in Nat
<1> QED BY <1>3 DEF G, Runs

\* A chain: it starts where it is said to, each cluster is the one the FAT names
\* behind the one before, and one that is not cut off ends with a mark.
LEMMA ChainRuns ==
  ASSUME NEW d \in Disk, NEW c \in Cluster
  PROVE  /\ Len(Chain(d, c)) \in 1 .. (Clusters + 1) /\ Chain(d, c)[1] = c
         /\ \A n \in 1 .. Len(Chain(d, c)) : Chain(d, c)[n] \in Cluster
         /\ \A n \in 1 .. (Len(Chain(d, c)) - 1) : Chain(d, c)[n + 1] = d.fat[1][Chain(d, c)[n]]
         /\ Len(Chain(d, c)) <= Clusters => d.fat[1][Chain(d, c)[Len(Chain(d, c))]] \notin Cluster
<1> DEFINE fat == d.fat[1]
           X == Seq(Cluster) \ {<< >>}
           one == << c >>
           next(w) == LET nx == fat[Last(w)] IN IF nx \in Cluster THEN Append(w, nx) ELSE w
           step == [n \in 1 .. Clusters |-> [w \in X |-> next(w)]]
           walk[n \in 0 .. Clusters] == IF n = 0 THEN one ELSE next(walk[n - 1])
           Strung(w) == /\ Len(w) >= 1 /\ w[1] = c
                        /\ \A n \in 1 .. (Len(w) - 1) : w[n + 1] = fat[w[n]]
           Full(w, n) == Len(w) = n + 1 \/ (Len(w) <= n /\ fat[w[Len(w)]] \notin Cluster)
           G == {n \in 0 .. Clusters : walk[n] \in X /\ Strung(walk[n]) /\ Full(walk[n], n)}
<1>0. Clusters \in Nat /\ one \in X
  BY ConstantsAre
<1>1. ASSUME NEW w \in X
      PROVE  /\ next(w) \in X /\ (Strung(w) => Strung(next(w)))
             /\ \A n \in Nat \ {0} : Full(w, n - 1) => Full(next(w), n)
  <2>1. w \in Seq(Cluster) /\ Last(w) = w[Len(w)] /\ Len(w) \in Nat \ {0}
    BY LastOf
  <2>2. CASE fat[Last(w)] \notin Cluster
    <3>1. next(w) = w
      BY <2>2
    <3> HIDE DEF next
    <3> QED BY <2>1, <2>2, <3>1
  <2>3. CASE fat[Last(w)] \in Cluster
    <3> DEFINE nx == fat[Last(w)]
    <3>1. next(w) = Append(w, nx)
      BY <2>3
    <3>2. nx \in Cluster /\ nx = fat[w[Len(w)]]
      BY <2>1, <2>3
    <3> HIDE DEF nx, next, fat
    <3>3. /\ Append(w, nx) \in Seq(Cluster) /\ Append(w, nx) # << >> /\ Len(Append(w, nx)) = Len(w) + 1
          /\ Append(w, nx)[Len(w) + 1] = nx /\ \A j \in 1 .. Len(w) : Append(w, nx)[j] = w[j]
      BY <2>1, <3>2, AppendIs
    <3>4. Strung(w) => Strung(next(w))
      <4>1. SUFFICES ASSUME Strung(w), NEW n \in 1 .. Len(w)
                     PROVE  next(w)[n + 1] = fat[next(w)[n]]
        BY <2>1, <3>1, <3>3
      <4>2. CASE n = Len(w)
        BY <2>1, <3>1, <3>2, <3>3, <4>2
      <4>3. CASE n # Len(w)
        <5>1. n \in 1 .. (Len(w) - 1) /\ n + 1 \in 1 .. Len(w)
          BY <2>1, <4>3
        <5> QED BY <3>1, <3>3, <4>1, <5>1
      <4> QED BY <4>2, <4>3
    <3>5. ASSUME NEW n \in Nat \ {0}, Full(w, n - 1) PROVE Full(next(w), n)
      <4>1. Len(w) = n
        BY <2>1, <2>3, <3>2, <3>5 DEF nx
      <4>2. Len(next(w)) = n + 1
        BY <4>1, <3>1, <3>3
      <4> QED BY <4>2
    <3> QED BY <3>1, <3>3, <3>4, <3>5
  <2> QED BY <2>2, <2>3
<1>2. step \in [1 .. Clusters -> [X -> X]]
  BY <1>1
<1>3. PICK f : Runs(f, Clusters, X, one, step)
  <2> HIDE DEF step, X, one
  <2>1. Clusters \in Nat
    BY <1>0
  <2> QED BY ONLY <2>1, <1>0, <1>2, Loop
<1> HIDE DEF next, X, one
<1>4. f = [n \in 0 .. Clusters |-> IF n = 0 THEN one ELSE next(f[n - 1])]
  <2>1. \A n \in 1 .. Clusters : f[n - 1] \in X /\ step[n][f[n - 1]] = next(f[n - 1])
    BY <1>0, <1>3 DEF Runs
  <2>2. \A n \in 0 .. Clusters : f[n] = IF n = 0 THEN one ELSE next(f[n - 1])
    <3>1. \A n \in 1 .. Clusters : f[n] = next(f[n - 1])
      BY <1>3, <2>1 DEF Runs
    <3>2. f[0] = one /\ \A n \in 0 .. Clusters : n # 0 => n \in 1 .. Clusters
      BY <1>3, <1>0 DEF Runs
    <3> QED BY <3>1, <3>2
  <2> QED BY <1>3, <2>2 DEF Runs
<1>5. walk = [n \in 0 .. Clusters |-> IF n = 0 THEN one ELSE next(walk[n - 1])]
  BY <1>4
<1>6. Chain(d, c) = walk[Clusters]
  BY DEF Chain, next, one
<1> HIDE DEF walk, fat
<1>7. 0 \in G
  <2>1. walk[0] = one /\ 0 \in 0 .. Clusters
    BY <1>0, <1>5
  <2>2. one = << c >> /\ Len(one) = 1 /\ one[1] = c
    BY DEF one
  <2>3. Strung(one) /\ Full(one, 0)
    BY <2>2
  <2> HIDE DEF Strung, Full, one
  <2> QED BY <1>0, <2>1, <2>3
<1>8. \A n \in 1 .. Clusters : n - 1 \in G => n \in G
  <2>1. SUFFICES ASSUME NEW n \in 1 .. Clusters, n - 1 \in G PROVE n \in G
    OBVIOUS
  <2>2. walk[n] = next(walk[n - 1]) /\ n \in Nat \ {0}
    BY <1>0, <1>5
  <2>3. walk[n - 1] \in X /\ Strung(walk[n - 1]) /\ Full(walk[n - 1], n - 1)
    BY <2>1
  <2> HIDE DEF Strung, Full
  <2> QED BY <2>2, <2>3, <1>1
<1>9. Clusters \in G
  <2> HIDE DEF G
  <2> QED BY ONLY <1>0, <1>7, <1>8, LastRound
<1>10. Chain(d, c) \in Seq(Cluster) /\ Strung(Chain(d, c)) /\ Full(Chain(d, c), Clusters)
  BY <1>6, <1>9 DEF X
<1> QED BY <1>0, <1>10 DEF fat

-----------------------------------------------------------------------------
(* The FAT and the folders, through the buffer. *)

\* What a chain's links are, and looks that have read no more than B and R allow.
Links == {NoCluster} \cup Cluster
Cursors(B, R) == {w \in [m : Mem, c : Links] : Within(w.m, B, R)}
Entries(B, R) == {e \in [m : Mem, slot : Slot \cup {NoEntry}] : Within(e.m, B, R)}

\* What the FAT on the disk says comes behind a cluster, and whether it says so.
Behind(c) == IF disk.fat[1][c] \in Cluster THEN disk.fat[1][c] ELSE NoCluster
Marked(c) == disk.fat[1][c] \in Cluster \/ disk.fat[1][c] >= FirstEnd

\* A link is a cluster or none; every cluster is below the marks of a chain's end.
LEMMA LinksAre ==
  /\ NoCluster \in Links /\ Cluster \subseteq Links /\ Links \subseteq Nat /\ NoCluster \notin Cluster
  /\ \A c \in Cluster : c < FirstEnd
BY ConstantsAre DEF Links, NoCluster, Cluster, FirstEnd

\* A look that fails keeps what it has read (fat.Volume.failed).
LEMMA FailIs ==
  ASSUME NEW B, NEW R, NEW m, Within(m, B, R)
  PROVE  Within(Fail(m), B, R) /\ ~Fail(m).ok /\ m.ok \in BOOLEAN
<1> DEFINE f == Fail(m)
<1>1. f = [m EXCEPT !.ok = FALSE]
  BY DEF Fail
<1>2. m \in Mem
  BY DEF Within
<1> HIDE DEF f
<1>3. f \in Mem /\ f.sector = m.sector /\ f.buf = m.buf /\ f.runs = m.runs /\ ~f.ok /\ m.ok \in BOOLEAN
  BY <1>1, <1>2 DEF Mem
<1>4. Within(f, B, R)
  BY <1>3 DEF Within
<1> QED BY <1>3, <1>4 DEF f

\* An entry of the FAT: it leads into the volume, or it ends the chain, or it is
\* refused.
LEMMA LinkedIs ==
  ASSUME NEW B, NEW R, NEW m, Within(m, B, R), NEW v \in 0 .. EndMark
  PROVE  /\ Linked(m, v) \in Cursors(B, R)
         /\ Linked(m, v).m.ok => m.ok /\ Linked(m, v).c = IF v \in Cluster THEN v ELSE NoCluster
         /\ m.ok /\ (v \in Cluster \/ v >= FirstEnd) => Linked(m, v).m.ok
<1>1. m \in Mem /\ Fail(m) \in Mem /\ Within(Fail(m), B, R) /\ ~Fail(m).ok /\ m.ok \in BOOLEAN
  BY FailIs DEF Within
<1>2. CASE ~m.ok \/ v >= FirstEnd
  <2>1. Linked(m, v) = [m |-> m, c |-> NoCluster]
    BY <1>2 DEF Linked
  <2>2. v >= FirstEnd => v \notin Cluster
    BY LinksAre, ConstantsAre DEF FirstEnd
  <2> QED BY <1>1, <1>2, <2>1, <2>2, LinksAre DEF Cursors
<1>3. CASE m.ok /\ ~(v >= FirstEnd) /\ v \notin Cluster
  <2>1. Linked(m, v) = [m |-> Fail(m), c |-> NoCluster]
    BY <1>3 DEF Linked
  <2> QED BY <1>1, <1>3, <2>1, LinksAre DEF Cursors
<1>4. CASE m.ok /\ ~(v >= FirstEnd) /\ v \in Cluster
  <2>1. Linked(m, v) = [m |-> m, c |-> v]
    BY <1>4 DEF Linked
  <2> QED BY <1>1, <1>4, <2>1, LinksAre DEF Cursors
<1> QED BY <1>2, <1>3, <1>4

\* A step down a chain (fat.Volume.follow): what it has read, and where it gets to.
LEMMA FollowIs ==
  ASSUME NEW B, NEW R, Trusted(B, R), NEW w \in Cursors(B, R)
  PROVE  /\ Follow(w) \in Cursors(B, R)
         /\ Follow(w).m.ok => w.m.ok /\ w.c \in Cluster
         /\ B = Current /\ Follow(w).m.ok => Follow(w).c = Behind(w.c)
         /\ B = Current /\ up /\ w.m.ok /\ w.c \in Cluster /\ Marked(w.c) => Follow(w).m.ok
<1>1. Within(w.m, B, R) /\ w.c \in Links /\ w.m.ok \in BOOLEAN
  BY FailIs DEF Cursors
<1>2. CASE w.c \notin Cluster
  <2>1. Follow(w) = [m |-> Fail(w.m), c |-> NoCluster]
    BY <1>2 DEF Follow
  <2>2. Fail(w.m) \in Mem /\ Within(Fail(w.m), B, R) /\ ~Fail(w.m).ok
    BY <1>1, FailIs DEF Within
  <2> QED BY <1>2, <2>1, <2>2, LinksAre DEF Cursors
<1>3. CASE w.c \in Cluster
  <2> DEFINE f == Fetch(w.m, FatSector)
             v == IF f.ok THEN f.buf[w.c] ELSE 0
  <2>1. /\ Within(f, B, R) /\ (f.ok => w.m.ok /\ <<FatSector, f.buf>> \in B)
        /\ (w.m.ok /\ up => f.ok) /\ f.ok \in BOOLEAN
    <3>1. Within(f, B, R)
      BY <1>1, SectorsAre, FetchIs
    <3> QED BY <1>1, <3>1, SectorsAre, FetchIs, FailIs
  <2>2. Follow(w) = Linked(f, v)
    BY <1>3 DEF Follow, LinkOf
  <2> HIDE DEF f
  <2>3. f.ok => f.buf \in FatValue
    BY <2>1, SectorsAre DEF Trusted, Sectors, Fits
  <2>4. v \in 0 .. EndMark
    BY <1>3, <2>1, <2>3, ConstantsAre DEF FatValue
  <2>5. B = Current /\ f.ok => v = disk.fat[1][w.c]
    <3>1. SUFFICES ASSUME B = Current, f.ok PROVE f.buf = disk.fat[1]
      OBVIOUS
    <3>2. f.buf = Content(FatSector)
      BY <2>1, <3>1 DEF Current
    <3> QED BY <3>2, ContentIs DEF Trusted
  <2> HIDE DEF v
  <2>6. /\ Linked(f, v) \in Cursors(B, R)
        /\ Linked(f, v).m.ok => f.ok /\ Linked(f, v).c = IF v \in Cluster THEN v ELSE NoCluster
        /\ f.ok /\ (v \in Cluster \/ v >= FirstEnd) => Linked(f, v).m.ok
    BY <2>1, <2>4, LinkedIs
  <2> QED BY <1>3, <2>1, <2>2, <2>5, <2>6 DEF Behind, Marked
<1> QED BY <1>2, <1>3

\* A slot read from the cluster that it is in.
LEMMA SlotInIs ==
  ASSUME NEW m, NEW i \in Nat \ {0}, m.ok => m.buf \in Data
  PROVE  /\ SlotIn(m, i).m = m /\ SlotIn(m, i).slot \in Slot \cup {NoEntry}
         /\ m.ok => SlotIn(m, i).slot = SlotsOf(m.buf)[PlaceOf(i)]
         /\ ~m.ok => SlotIn(m, i).slot = NoEntry
<1>1. PlaceOf(i) \in 1 .. Per
  BY ConstantsAre DEF PlaceOf
<1>2. m.ok => SlotsOf(m.buf) \in [1 .. Per -> Slot]
  BY DEF SlotsOf, Data, Slot
<1> QED BY <1>1, <1>2 DEF SlotIn, Entry

\* The slot that fat_dir reads of a folder's sector, if it could read it.
LEMMA SlotAtIs ==
  ASSUME NEW B, NEW R, Trusted(B, R), NEW w \in Cursors(B, R), NEW i \in Nat \ {0}
  PROVE  /\ SlotAt(w, i) \in Entries(B, R)
         /\ SlotAt(w, i).m.ok => w.m.ok
         /\ ~SlotAt(w, i).m.ok => SlotAt(w, i).slot = NoEntry
         /\ w.c = NoCluster => SlotAt(w, i).slot = NoEntry
         /\ B = Current /\ SlotAt(w, i).m.ok /\ w.c \in Cluster =>
              SlotAt(w, i).slot = SlotsIn(disk, w.c)[PlaceOf(i)]
         /\ up /\ w.m.ok => SlotAt(w, i).m.ok
<1>1. w.m \in Mem /\ Within(w.m, B, R) /\ w.c \in Links /\ w.m.ok \in BOOLEAN
  BY FailIs DEF Cursors
<1>2. CASE w.c = NoCluster
  <2>1. SlotAt(w, i) = [m |-> w.m, slot |-> NoEntry]
    BY <1>2 DEF SlotAt, Entry
  <2> QED BY <1>1, <1>2, <2>1, LinksAre DEF Entries
<1>3. CASE w.c # NoCluster
  <2> DEFINE f == Fetch(w.m, ClusterSector(w.c))
  <2>0. w.c \in Cluster /\ ClusterSector(w.c) \in 0 .. LastSector /\ ClusterSector(w.c) >= DataStart
    BY <1>1, <1>3, SectorsAre DEF Links
  <2>1. /\ Within(f, B, R) /\ (f.ok => w.m.ok /\ <<ClusterSector(w.c), f.buf>> \in B)
        /\ (w.m.ok /\ up => f.ok) /\ f.ok \in BOOLEAN
    <3>1. Within(f, B, R)
      BY <1>1, <2>0, FetchIs
    <3> QED BY <1>1, <2>0, <3>1, FetchIs, FailIs
  <2>2. SlotAt(w, i) = SlotIn(f, i)
    BY <1>3 DEF SlotAt
  <2> HIDE DEF f
  <2>3. f.ok => f.buf \in Data
    BY <2>0, <2>1 DEF Trusted, Sectors, Fits
  <2>4. /\ SlotIn(f, i).m = f /\ SlotIn(f, i).slot \in Slot \cup {NoEntry}
        /\ f.ok => SlotIn(f, i).slot = SlotsOf(f.buf)[PlaceOf(i)]
        /\ ~f.ok => SlotIn(f, i).slot = NoEntry
    BY <2>3, SlotInIs
  <2>5. SlotIn(f, i) \in [m : Mem, slot : Slot \cup {NoEntry}]
    BY <2>1, <2>4 DEF SlotIn, Entry, Within
  <2>6. B = Current /\ f.ok => SlotsOf(f.buf) = SlotsIn(disk, w.c)
    <3>1. SUFFICES ASSUME B = Current, f.ok PROVE f.buf = disk.data[w.c]
      BY DEF SlotsOf, SlotsIn
    <3>2. f.buf = Content(ClusterSector(w.c))
      BY <2>1, <3>1 DEF Current
    <3> QED BY <2>0, <3>2, ContentIs DEF Trusted
  <2> QED BY <1>3, <2>1, <2>2, <2>4, <2>5, <2>6 DEF Entries
<1> QED BY <1>2, <1>3

\* The n-th cluster of a folder, and that the folder's chain ends.
Nth(dir, n) == IF n <= Len(Chain(disk, dir)) THEN Chain(disk, dir)[n] ELSE NoCluster
Whole(dir) == dir \in Cluster => ChainEnds(disk, dir)

\* The clusters of a folder, one by one: the first, what is behind each, the last.
LEMMA NthIs ==
  ASSUME disk \in Disk, NEW dir \in Links
  PROVE  /\ Nth(dir, 1) = dir
         /\ \A n \in 1 .. Clusters :
              /\ Nth(dir, n) \in Links
              /\ Nth(dir, n) = NoCluster => Nth(dir, n + 1) = NoCluster
              /\ Nth(dir, n) \in Cluster => Nth(dir, n + 1) = Behind(Nth(dir, n))
              /\ Nth(dir, n) \in Cluster /\ Whole(dir) => Marked(Nth(dir, n))
<1>1. CASE dir = NoCluster
  <2>1. Chain(disk, dir) = << >> /\ Len(<< >>) = 0
    BY <1>1, LinksAre DEF Chain
  <2>2. \A n \in Nat \ {0} : Nth(dir, n) = NoCluster
    BY <2>1 DEF Nth
  <2>3. Clusters \in Nat
    BY ConstantsAre
  <2> QED BY <1>1, <2>2, <2>3, LinksAre
<1>2. CASE dir # NoCluster
  <2> DEFINE w == Chain(disk, dir)
             l == Len(w)
  <2>1. dir \in Cluster /\ Clusters \in Nat
    BY <1>2, ConstantsAre DEF Links
  <2>2. /\ l \in 1 .. (Clusters + 1) /\ w[1] = dir /\ \A n \in 1 .. l : w[n] \in Cluster
        /\ \A n \in 1 .. (l - 1) : w[n + 1] = disk.fat[1][w[n]]
        /\ l <= Clusters => disk.fat[1][w[l]] \notin Cluster
    BY <2>1, ChainRuns
  <2>3. Whole(dir) => disk.fat[1][w[l]] >= FirstEnd
    <3>1. SUFFICES ASSUME ChainEnds(disk, dir) PROVE disk.fat[1][w[l]] >= FirstEnd
      BY <2>1 DEF Whole
    <3>2. Last(w) = w[l]
      BY DEF Last
    <3> QED BY <3>1, <3>2 DEF ChainEnds
  <2>4. \A n : Nth(dir, n) = IF n <= l THEN w[n] ELSE NoCluster
    BY DEF Nth
  <2> HIDE DEF w, l
  <2>5. ASSUME NEW n \in 1 .. Clusters
        PROVE  /\ Nth(dir, n) \in Links
               /\ Nth(dir, n) = NoCluster => Nth(dir, n + 1) = NoCluster
               /\ Nth(dir, n) \in Cluster => Nth(dir, n + 1) = Behind(Nth(dir, n))
               /\ Nth(dir, n) \in Cluster /\ Whole(dir) => Marked(Nth(dir, n))
    <3>1. CASE n < l
      <4>1. n \in 1 .. (l - 1) /\ n \in 1 .. l /\ n + 1 \in 1 .. l /\ n <= l /\ n + 1 <= l
        BY <2>1, <2>2, <3>1
      <4>2. Nth(dir, n) = w[n] /\ Nth(dir, n + 1) = w[n + 1] /\ w[n] \in Cluster /\ w[n + 1] \in Cluster
        BY <2>2, <2>4, <4>1
      <4>3. w[n + 1] = disk.fat[1][w[n]]
        BY <2>2, <4>1
      <4> QED BY <4>2, <4>3, LinksAre DEF Behind, Marked
    <3>2. CASE n = l
      <4>1. Nth(dir, n) = w[l] /\ w[l] \in Cluster /\ Nth(dir, n + 1) = NoCluster /\ l <= Clusters
        BY <2>1, <2>2, <2>4, <3>2
      <4> QED BY <2>2, <2>3, <4>1, LinksAre DEF Behind, Marked
    <3>3. CASE n > l
      <4>1. Nth(dir, n) = NoCluster /\ Nth(dir, n + 1) = NoCluster
        BY <2>1, <2>2, <2>4, <3>3
      <4> QED BY <4>1, LinksAre
    <3> QED BY <2>2, <3>1, <3>2, <3>3
  <2>6. Nth(dir, 1) = dir
    BY <2>2, <2>4
  <2> QED BY <2>5, <2>6
<1> QED BY <1>1, <1>2

\* Onward goes on only from a look that did not fail.
LEMMA OnwardIs ==
  ASSUME NEW B, NEW R, Trusted(B, R), NEW w \in Cursors(B, R)
  PROVE  Onward(w) \in Cursors(B, R) /\ (Onward(w).m.ok => w.m.ok)
<1>1. CASE w.c = NoCluster
  BY <1>1 DEF Onward
<1>2. CASE w.c # NoCluster
  BY <1>2, FollowIs DEF Onward
<1> QED BY <1>1, <1>2

\* The k-th sector of a folder is reached by k - 1 steps down its chain (fat.Volume.dirSector).
LEMMA DirSectorIs ==
  ASSUME NEW B, NEW R, Trusted(B, R), NEW m, Within(m, B, R), NEW dir \in Links, NEW k \in 1 .. Clusters
  PROVE  /\ DirSector(m, dir, k) \in Cursors(B, R)
         /\ DirSector(m, dir, k).m.ok => m.ok
         /\ B = Current /\ DirSector(m, dir, k).m.ok => DirSector(m, dir, k).c = Nth(dir, k)
         /\ B = Current /\ up /\ m.ok /\ Whole(dir) => DirSector(m, dir, k).m.ok
<1> DEFINE N == k - 1
           X == Cursors(B, R)
           a == [m |-> m, c |-> dir]
           step == [n \in 1 .. N |-> [w \in X |-> Onward(w)]]
           at[n \in 0 .. (k - 1)] == IF n = 0 THEN a ELSE Onward(at[n - 1])
           Good(w, n) == /\ w.m.ok => m.ok
                         /\ B = Current /\ w.m.ok => w.c = Nth(dir, n + 1)
                         /\ B = Current /\ up /\ m.ok /\ Whole(dir) => w.m.ok
           G == {n \in 0 .. N : at[n] \in X /\ Good(at[n], n)}
<1>0. N \in Nat /\ \A n \in 1 .. N : n \in 1 .. Clusters
  BY ConstantsAre
<1>1. a \in X
  BY DEF Cursors, Within
<1>2. step \in [1 .. N -> [X -> X]]
  BY OnwardIs
<1>3. PICK f : Runs(f, N, X, a, step)
  <2> HIDE DEF step, X, a, N
  <2>1. N \in Nat
    BY <1>0
  <2> QED BY ONLY <2>1, <1>1, <1>2, Loop
<1>4. f = [n \in 0 .. (k - 1) |-> IF n = 0 THEN a ELSE Onward(f[n - 1])]
  <2> HIDE DEF X, a, N
  <2>1. ASSUME NEW n \in 1 .. N PROVE f[n] = Onward(f[n - 1])
    <3>1. n - 1 \in 0 .. N
      BY <1>0
    <3>2. f[n - 1] \in X /\ f[n] = step[n][f[n - 1]]
      BY <1>3, <3>1 DEF Runs
    <3> QED BY <3>2
  <2>2. \A n \in 0 .. N : n # 0 => n \in 1 .. N
    BY <1>0
  <2>3. \A n \in 0 .. N : f[n] = IF n = 0 THEN a ELSE Onward(f[n - 1])
    BY <1>3, <2>1, <2>2 DEF Runs
  <2> QED BY <1>3, <2>3 DEF N, Runs
<1>5. at = [n \in 0 .. (k - 1) |-> IF n = 0 THEN a ELSE Onward(at[n - 1])]
  BY <1>4
<1>6. DirSector(m, dir, k) = at[N]
  BY DEF DirSector
<1> HIDE DEF at
<1>7. 0 \in G
  <2>1. at[0] = a
    BY <1>0, <1>5
  <2>2. Good(a, 0)
    BY NthIs DEF Trusted
  <2> HIDE DEF a, X, Good
  <2> QED BY <1>0, <1>1, <2>1, <2>2
<1>8. ASSUME NEW n \in 1 .. N, n - 1 \in G PROVE n \in G
  <2> DEFINE w == at[n - 1]
  <2>1. at[n] = Onward(w) /\ w \in X /\ Good(w, n - 1) /\ n \in 1 .. Clusters
    BY <1>0, <1>5, <1>8
  <2> HIDE DEF w
  <2>2. Onward(w) \in X /\ (Onward(w).m.ok => w.m.ok)
    BY <2>1, OnwardIs
  <2>3. n - 1 + 1 = n
    BY <1>0
  <2>4. /\ Nth(dir, n) = NoCluster => Nth(dir, n + 1) = NoCluster
        /\ Nth(dir, n) \in Cluster => Nth(dir, n + 1) = Behind(Nth(dir, n))
        /\ Nth(dir, n) \in Cluster /\ Whole(dir) => Marked(Nth(dir, n))
    BY <2>1, NthIs DEF Trusted
  <2>5. CASE w.c = NoCluster
    <3>1. Onward(w) = w
      BY <2>5 DEF Onward
    <3>2. Good(Onward(w), n)
      BY <2>1, <2>3, <2>4, <2>5, <3>1
    <3> QED BY <2>1, <2>2, <3>2
  <2>6. CASE w.c # NoCluster
    <3>1. Onward(w) = Follow(w) /\ w.c \in Cluster
      BY <2>1, <2>6 DEF Onward, Cursors, Links
    <3>2. /\ B = Current /\ Follow(w).m.ok => Follow(w).c = Behind(w.c)
          /\ B = Current /\ up /\ w.m.ok /\ w.c \in Cluster /\ Marked(w.c) => Follow(w).m.ok
      BY <2>1, FollowIs
    <3>3. Good(Onward(w), n)
      BY <2>1, <2>2, <2>3, <2>4, <3>1, <3>2
    <3> QED BY <2>1, <2>2, <3>3
  <2> QED BY <2>5, <2>6
<1>9. N \in G
  <2> HIDE DEF G, N
  <2>1. \A n \in 1 .. N : n - 1 \in G => n \in G
    BY <1>8
  <2> QED BY ONLY <1>0, <1>7, <2>1, LastRound
<1>10. at[N] \in X /\ Good(at[N], N) /\ N + 1 = k
  BY <1>9, ConstantsAre
<1> QED BY <1>6, <1>10

-----------------------------------------------------------------------------
(* Entries of a folder. *)

\* The folder's i-th slot, and that a look through all of them meets its end.
SlotNow(dir, i) == IF i \in DOMAIN Slots(disk, dir) THEN Slots(disk, dir)[i] ELSE NoEntry
Ended(dir) == Whole(dir) /\ Len(Chain(disk, dir)) < Clusters

\* The sector of a slot, by the slots in front of it.
LEMMA SectorIs ==
  ASSUME NEW n \in Nat, NEW i \in Nat \ {0}
  PROVE  SectorOf(i) \in Nat \ {0} /\ (SectorOf(i) <= n <=> i <= n * Per)
<1> DEFINE a == i - 1
           p == Per
           q == a \div p
           r == a % p
<1>1. p \in Nat \ {0} /\ n * p \in Nat /\ a \in Nat /\ i = a + 1
  BY ConstantsAre
<1>2. SectorOf(i) = q + 1
  BY DEF SectorOf
<1> HIDE DEF a, p
<1>3. q \in Nat /\ r \in 0 .. (p - 1) /\ a = q * p + r
  BY <1>1
<1> HIDE DEF q, r
<1>4. q * p \in Nat /\ (q + 1) * p = q * p + p
  BY <1>1, <1>3
<1>5. CASE q < n
  <2>1. (q + 1) * p <= n * p
    BY <1>1, <1>3, <1>5
  <2>2. i <= q * p + p
    BY <1>1, <1>3, <1>4
  <2>3. i <= n * p
    BY <2>1, <2>2, <1>1, <1>4
  <2> QED BY <2>3, <1>2, <1>3, <1>5 DEF p
<1>6. CASE q >= n
  <2>1. q * p >= n * p
    BY <1>1, <1>3, <1>6
  <2>2. ~(i <= n * p)
    BY <2>1, <1>1, <1>3, <1>4
  <2> QED BY <2>2, <1>2, <1>3, <1>6 DEF p
<1> QED BY <1>3, <1>5, <1>6

\* The slots are those of the folder's clusters.
LEMMA SlotNowIs ==
  ASSUME disk \in Disk, NEW dir \in Links, NEW i \in 1 .. MaxSlot
  PROVE  /\ SectorOf(i) \in 1 .. Clusters
         /\ Nth(dir, SectorOf(i)) = NoCluster => SlotNow(dir, i) = NoEntry
         /\ Nth(dir, SectorOf(i)) \in Cluster =>
              SlotNow(dir, i) = SlotsIn(disk, Nth(dir, SectorOf(i)))[PlaceOf(i)]
<1> DEFINE w == Chain(disk, dir)
           k == SectorOf(i)
<1>1. Clusters \in Nat /\ Per \in Nat /\ i \in Nat \ {0} /\ MaxSlot = Clusters * Per
  BY ConstantsAre DEF MaxSlot
<1>2. k \in 1 .. Clusters
  BY <1>1, PlaceIs
<1>3. w \in Seq(Cluster) /\ Len(w) \in Nat
  BY ChainIs
<1>4. k <= Len(w) <=> i <= Len(w) * Per
  BY <1>1, <1>3, SectorIs
<1>5. Slots(disk, dir) = [j \in 1 .. (Len(w) * Per) |-> SlotsIn(disk, w[SectorOf(j)])[PlaceOf(j)]]
  BY DEF Slots, SlotsAlong
<1>6. i \in DOMAIN Slots(disk, dir) <=> k <= Len(w)
  <2>1. Len(w) * Per \in Nat
    BY <1>1, <1>3
  <2> HIDE DEF w
  <2> QED BY <1>1, <1>4, <1>5, <2>1
<1>7. k <= Len(w) => w[k] \in Cluster /\ SlotNow(dir, i) = SlotsIn(disk, w[k])[PlaceOf(i)]
  BY <1>2, <1>3, <1>5, <1>6 DEF SlotNow
<1>8. ~(k <= Len(w)) => SlotNow(dir, i) = NoEntry
  BY <1>6 DEF SlotNow
<1>9. Nth(dir, k) = IF k <= Len(w) THEN w[k] ELSE NoCluster
  BY DEF Nth
<1> HIDE DEF k, w
<1> QED BY <1>2, <1>7, <1>8, <1>9, LinksAre DEF k

\* The i-th slot of a folder as fat_dir reads it is the one on the disk.
LEMMA SlotReadIs ==
  ASSUME NEW B, NEW R, Trusted(B, R), NEW m, Within(m, B, R), NEW dir \in Links, NEW i \in 1 .. MaxSlot,
         NEW e, e = SlotAt(DirSector(m, dir, SectorOf(i)), i)
  PROVE  /\ e \in Entries(B, R)
         /\ e.m.ok => m.ok
         /\ ~e.m.ok => e.slot = NoEntry
         /\ B = Current /\ e.m.ok => e.slot = SlotNow(dir, i)
         /\ B = Current /\ up /\ m.ok /\ Whole(dir) => e.m.ok
<1> DEFINE w == DirSector(m, dir, SectorOf(i))
<1>0. disk \in Disk /\ i \in Nat \ {0}
  BY DEF Trusted
<1>1. /\ SectorOf(i) \in 1 .. Clusters
      /\ Nth(dir, SectorOf(i)) = NoCluster => SlotNow(dir, i) = NoEntry
      /\ Nth(dir, SectorOf(i)) \in Cluster =>
           SlotNow(dir, i) = SlotsIn(disk, Nth(dir, SectorOf(i)))[PlaceOf(i)]
  BY <1>0, SlotNowIs
<1>2. /\ w \in Cursors(B, R)
      /\ w.m.ok => m.ok
      /\ B = Current /\ w.m.ok => w.c = Nth(dir, SectorOf(i))
      /\ B = Current /\ up /\ m.ok /\ Whole(dir) => w.m.ok
  BY <1>1, DirSectorIs
<1> HIDE DEF w
<1>3. /\ SlotAt(w, i) \in Entries(B, R)
      /\ SlotAt(w, i).m.ok => w.m.ok
      /\ ~SlotAt(w, i).m.ok => SlotAt(w, i).slot = NoEntry
      /\ w.c = NoCluster => SlotAt(w, i).slot = NoEntry
      /\ B = Current /\ SlotAt(w, i).m.ok /\ w.c \in Cluster =>
           SlotAt(w, i).slot = SlotsIn(disk, w.c)[PlaceOf(i)]
      /\ up /\ w.m.ok => SlotAt(w, i).m.ok
  BY <1>0, <1>2, SlotAtIs
<1>4. w.c = NoCluster \/ w.c \in Cluster
  BY <1>2 DEF Cursors, Links
<1> QED BY <1>1, <1>2, <1>3, <1>4 DEF w

\* What a look wants, and that none of the slots before j is it or ends the folder.
Stop(s) == s.kind \in {"none", "zero"}
Wanted(s, kinds, name) == s.kind \in kinds /\ name \in {"*", s.name}
Passed(dir, kinds, name, i, j) ==
  \A p \in i .. (j - 1) : ~Stop(SlotNow(dir, p)) /\ ~Wanted(SlotNow(dir, p), kinds, name)

\* Where a look from slot i on stands after n slots, and what it has seen when
\* it is over.
Looks(B, R) ==
  {x \in [m : Mem, at : Nat \ {0}, slot : ShortSlots \cup {NoEntry}, over : BOOLEAN] : Within(x.m, B, R)}
Missed(x, dir, kinds, name, i) ==
  x.slot = NoEntry /\ Stop(SlotNow(dir, x.at)) /\ Passed(dir, kinds, name, i, x.at)
Met(x, dir, kinds, name, i) ==
  /\ x.at - 1 >= i /\ x.slot \in ShortSlots /\ x.slot = SlotNow(dir, x.at - 1)
  /\ Wanted(x.slot, kinds, name) /\ Passed(dir, kinds, name, i, x.at - 1)
Truly(x, dir, kinds, name, i) ==
  x.at >= i /\ (Missed(x, dir, kinds, name, i) \/ Met(x, dir, kinds, name, i))
Cut(x, dir, kinds, name, i) == x.slot = NoEntry /\ x.at >= i /\ Passed(dir, kinds, name, i, x.at)

\* A slot on the disk is one of its folder, or none.
LEMMA SlotNowTyped ==
  ASSUME disk \in Disk, NEW dir, NEW i
  PROVE  /\ SlotNow(dir, i) \in Slot \cup {NoEntry}
         /\ i \in DOMAIN Slots(disk, dir) => SlotNow(dir, i) \in Slot
         /\ SlotNow(dir, i).kind = "none" <=> i \notin DOMAIN Slots(disk, dir)
<1>1. i \in DOMAIN Slots(disk, dir) => SlotNow(dir, i) \in Slot
  BY SlotsIs DEF SlotNow
<1>2. \A s \in Slot : s.kind # "none"
  BY DEF Slot, ZeroSlot, DeadSlot, LongSlot, GarbageSlot, DotSlot, ShortSlots
<1>3. i \notin DOMAIN Slots(disk, dir) => SlotNow(dir, i) = NoEntry /\ NoEntry.kind = "none"
  BY DEF SlotNow, NoEntry
<1> QED BY <1>1, <1>2, <1>3

\* One slot judged.
LEMMA JudgeIs ==
  ASSUME NEW B, NEW R, NEW x \in Looks(B, R), NEW e \in Entries(B, R),
         NEW kinds \in SUBSET {"file", "dir"}, NEW name
  PROVE  /\ Judge(e, x, kinds, name) \in Looks(B, R) /\ Judge(e, x, kinds, name).m = e.m
         /\ Stop(e.slot) => Judge(e, x, kinds, name).over /\ Judge(e, x, kinds, name).slot = x.slot
                            /\ Judge(e, x, kinds, name).at = x.at
         /\ ~Stop(e.slot) => Judge(e, x, kinds, name).at = x.at + 1
         /\ ~Stop(e.slot) /\ Wanted(e.slot, kinds, name) =>
              Judge(e, x, kinds, name).over /\ Judge(e, x, kinds, name).slot = e.slot /\ e.slot \in ShortSlots
         /\ ~Stop(e.slot) /\ ~Wanted(e.slot, kinds, name) =>
              Judge(e, x, kinds, name).over = x.over /\ Judge(e, x, kinds, name).slot = x.slot
<1> DEFINE j == Judge(e, x, kinds, name)
<1>1. e.m \in Mem /\ Within(e.m, B, R) /\ e.slot \in Slot \cup {NoEntry}
  BY DEF Entries
<1>2. x = [m |-> x.m, at |-> x.at, slot |-> x.slot, over |-> x.over]
      /\ x.at \in Nat \ {0} /\ x.slot \in ShortSlots \cup {NoEntry} /\ x.over \in BOOLEAN
  BY DEF Looks
<1>3. CASE Stop(e.slot)
  <2>1. j = [m |-> e.m, at |-> x.at, slot |-> x.slot, over |-> TRUE]
    BY <1>2, <1>3 DEF Judge, Stop
  <2> QED BY <1>1, <1>2, <1>3, <2>1 DEF Looks
<1>4. CASE ~Stop(e.slot) /\ Wanted(e.slot, kinds, name)
  <2>1. j = [m |-> e.m, at |-> x.at + 1, slot |-> e.slot, over |-> TRUE]
    BY <1>4 DEF Judge, Stop, Wanted
  <2>2. e.slot \in ShortSlots
    <3>1. e.slot.kind \in {"file", "dir"}
      BY <1>4 DEF Wanted
    <3>2. e.slot \in Slot
      BY <1>1, <1>4 DEF Stop, NoEntry
    <3> QED BY <3>1, <3>2, LiveIs
  <2> QED BY <1>1, <1>2, <1>4, <2>1, <2>2 DEF Looks
<1>5. CASE ~Stop(e.slot) /\ ~Wanted(e.slot, kinds, name)
  <2>1. j = [m |-> e.m, at |-> x.at + 1, slot |-> x.slot, over |-> x.over]
    BY <1>2, <1>5 DEF Judge, Stop, Wanted
  <2> QED BY <1>1, <1>2, <1>5, <2>1 DEF Looks
<1> QED BY <1>3, <1>4, <1>5

\* One round of a look.
LEMMA LookOnIs ==
  ASSUME NEW B, NEW R, Trusted(B, R), NEW x \in Looks(B, R), NEW dir \in Links,
         NEW kinds \in SUBSET {"file", "dir"}, NEW name
  PROVE  LookOn(x, dir, kinds, name) \in Looks(B, R) /\ (LookOn(x, dir, kinds, name).m.ok => x.m.ok)
<1> DEFINE e == SlotAt(DirSector(x.m, dir, SectorOf(x.at)), x.at)
<1>1. x = [m |-> x.m, at |-> x.at, slot |-> x.slot, over |-> x.over] /\ Within(x.m, B, R)
      /\ x.at \in Nat \ {0} /\ x.slot \in ShortSlots \cup {NoEntry}
  BY DEF Looks
<1>2. CASE x.over
  BY <1>2 DEF LookOn
<1>3. CASE ~x.over /\ x.at > MaxSlot
  <2>1. LookOn(x, dir, kinds, name) = [m |-> Fail(x.m), at |-> x.at, slot |-> x.slot, over |-> TRUE]
    BY <1>1, <1>3 DEF LookOn
  <2>2. Within(Fail(x.m), B, R) /\ ~Fail(x.m).ok /\ Fail(x.m) \in Mem
    BY <1>1, FailIs DEF Within
  <2> QED BY <1>1, <2>1, <2>2 DEF Looks
<1>4. CASE ~x.over /\ ~(x.at > MaxSlot)
  <2>1. x.at \in 1 .. MaxSlot
    BY <1>1, <1>4, ConstantsAre DEF MaxSlot
  <2>2. e \in Entries(B, R) /\ (e.m.ok => x.m.ok)
    BY <1>1, <2>1, SlotReadIs
  <2>3. LookOn(x, dir, kinds, name) = Judge(e, x, kinds, name)
    BY <1>4 DEF LookOn
  <2> HIDE DEF e
  <2>4. Judge(e, x, kinds, name) \in Looks(B, R) /\ Judge(e, x, kinds, name).m = e.m
    BY <2>2, JudgeIs
  <2> QED BY <2>2, <2>3, <2>4
<1> QED BY <1>2, <1>3, <1>4

\* What a look has seen so far, on a volume that is read as it is.
Sofar(x, m, dir, kinds, name, i) ==
  /\ ~x.over => Passed(dir, kinds, name, i, x.at)
  /\ x.over => IF x.m.ok THEN Truly(x, dir, kinds, name, i) ELSE Cut(x, dir, kinds, name, i)
  /\ up /\ m.ok /\ Ended(dir) /\ i <= MaxSlot => x.m.ok
\* Where a look is that has gone round n times from slot i.
Ahead(x, n, m, i) ==
  /\ x.m.ok => m.ok
  /\ ~x.over => x.slot = NoEntry /\ x.at = i + n /\ (n > 0 => x.at <= MaxSlot + 1)

\* Once more round, a look that is not over stands one slot further on.
LEMMA LookAhead ==
  ASSUME NEW B, NEW R, Trusted(B, R), NEW x \in Looks(B, R), NEW dir \in Links,
         NEW kinds \in SUBSET {"file", "dir"}, NEW name,
         NEW m, NEW i \in Nat \ {0}, NEW n \in Nat \ {0}, Ahead(x, n - 1, m, i)
  PROVE  Ahead(LookOn(x, dir, kinds, name), n, m, i)
<1> DEFINE e == SlotAt(DirSector(x.m, dir, SectorOf(x.at)), x.at)
           y == LookOn(x, dir, kinds, name)
<1>0. Within(x.m, B, R) /\ x.at \in Nat \ {0} /\ x.slot \in ShortSlots \cup {NoEntry} /\ MaxSlot \in Nat
      /\ x = [m |-> x.m, at |-> x.at, slot |-> x.slot, over |-> x.over]
  BY ConstantsAre DEF Looks, MaxSlot
<1>1. y.m.ok => m.ok
  BY LookOnIs DEF Ahead
<1>2. SUFFICES ASSUME ~y.over PROVE y.slot = NoEntry /\ y.at = i + n /\ y.at <= MaxSlot + 1
  BY <1>1 DEF Ahead
<1>3. ~x.over
  BY <1>2 DEF LookOn
<1>4. ~(x.at > MaxSlot)
  BY <1>0, <1>2, <1>3 DEF LookOn
<1>5. x.at \in 1 .. MaxSlot
  BY <1>0, <1>4
<1>6. e \in Entries(B, R)
  BY <1>0, <1>5, SlotReadIs
<1>7. y = Judge(e, x, kinds, name)
  BY <1>3, <1>4 DEF LookOn
<1> HIDE DEF e
<1>8. /\ Stop(e.slot) => Judge(e, x, kinds, name).over
      /\ ~Stop(e.slot) => Judge(e, x, kinds, name).at = x.at + 1
      /\ ~Stop(e.slot) /\ Wanted(e.slot, kinds, name) => Judge(e, x, kinds, name).over
      /\ ~Stop(e.slot) /\ ~Wanted(e.slot, kinds, name) => Judge(e, x, kinds, name).slot = x.slot
  BY <1>6, JudgeIs
<1>9. ~Stop(e.slot) /\ ~Wanted(e.slot, kinds, name)
  BY <1>2, <1>7, <1>8
<1>10. y.at = x.at + 1 /\ y.slot = x.slot
  BY <1>7, <1>9, <1>8
<1> QED BY <1>0, <1>3, <1>5, <1>10 DEF Ahead

\* Once more round, what a look has seen of the folder on the disk is still so.
LEMMA LookSofar ==
  ASSUME NEW R, Trusted(Current, R), NEW x \in Looks(Current, R), NEW dir \in Links,
         NEW kinds \in SUBSET {"file", "dir"}, NEW name,
         NEW m, NEW i \in Nat \ {0}, NEW n \in Nat \ {0},
         Ahead(x, n - 1, m, i), Sofar(x, m, dir, kinds, name, i)
  PROVE  Sofar(LookOn(x, dir, kinds, name), m, dir, kinds, name, i)
<1> DEFINE e == SlotAt(DirSector(x.m, dir, SectorOf(x.at)), x.at)
           y == LookOn(x, dir, kinds, name)
<1>0. Within(x.m, Current, R) /\ x.at \in Nat \ {0} /\ MaxSlot \in Nat /\ disk \in Disk
      /\ x = [m |-> x.m, at |-> x.at, slot |-> x.slot, over |-> x.over]
  BY ConstantsAre DEF Looks, MaxSlot, Trusted
<1>1. CASE x.over
  <2>1. y = x
    BY <1>1 DEF LookOn
  <2> QED BY <1>1, <2>1
<1>2. CASE ~x.over /\ x.at > MaxSlot
  <2>1. y = [m |-> Fail(x.m), at |-> x.at, slot |-> x.slot, over |-> TRUE]
    BY <1>0, <1>2 DEF LookOn
  <2>2. ~Fail(x.m).ok
    BY <1>0, FailIs
  <2>3. ~(up /\ m.ok /\ Ended(dir) /\ i <= MaxSlot)
    <3>1. SUFFICES ASSUME up, m.ok, Ended(dir), i <= MaxSlot PROVE FALSE
      OBVIOUS
    <3>2. x.m.ok /\ Passed(dir, kinds, name, i, x.at)
      BY <1>2, <3>1 DEF Sofar
    <3>3. MaxSlot \in i .. (x.at - 1) /\ MaxSlot \in Nat \ {0}
      BY <1>0, <1>2, <3>1
    <3>4. ~Stop(SlotNow(dir, MaxSlot))
      BY <3>2, <3>3 DEF Passed
    <3>5. MaxSlot \in DOMAIN Slots(disk, dir)
      BY <1>0, <3>4, SlotNowTyped DEF Stop
    <3>6. DOMAIN Slots(disk, dir) = 1 .. (Len(Chain(disk, dir)) * Per)
      BY DEF Slots, SlotsAlong
    <3>7. Len(Chain(disk, dir)) \in Nat /\ Len(Chain(disk, dir)) < Clusters
      BY <1>0, <3>1, ChainIs DEF Ended
    <3> DEFINE l == Len(Chain(disk, dir))
    <3> HIDE DEF l
    <3>8. l * Per < Clusters * Per /\ MaxSlot <= l * Per
      <4>1. l \in Nat /\ l < Clusters /\ Per \in Nat \ {0} /\ Clusters \in Nat
        BY <3>7, ConstantsAre DEF l
      <4> QED BY <3>5, <3>6, <4>1 DEF l
    <3> QED BY <3>8, <1>0, ConstantsAre DEF MaxSlot, l
  <2>4. Cut(y, dir, kinds, name, i) /\ y.over
    BY <1>0, <1>2, <2>1 DEF Sofar, Ahead, Cut, Passed
  <2>5. Sofar(y, m, dir, kinds, name, i)
    BY <2>1, <2>2, <2>3, <2>4 DEF Sofar
  <2> QED BY <2>5 DEF y
<1>3. CASE ~x.over /\ ~(x.at > MaxSlot)
  <2>1. x.at \in 1 .. MaxSlot
    BY <1>0, <1>3
  <2>2. /\ e \in Entries(Current, R)
        /\ e.m.ok => x.m.ok
        /\ ~e.m.ok => e.slot = NoEntry
        /\ e.m.ok => e.slot = SlotNow(dir, x.at)
        /\ up /\ x.m.ok /\ Whole(dir) => e.m.ok
    BY <1>0, <2>1, SlotReadIs
  <2>3. y = Judge(e, x, kinds, name)
    BY <1>3 DEF LookOn
  <2> HIDE DEF e
  <2>4. /\ y.m = e.m /\ y.m.ok \in BOOLEAN
        /\ Stop(e.slot) => y.over /\ y.slot = x.slot /\ y.at = x.at
        /\ ~Stop(e.slot) => y.at = x.at + 1
        /\ ~Stop(e.slot) /\ Wanted(e.slot, kinds, name) => y.over /\ y.slot = e.slot /\ e.slot \in ShortSlots
        /\ ~Stop(e.slot) /\ ~Wanted(e.slot, kinds, name) => y.over = x.over
    <3>1. Within(e.m, Current, R)
      BY <2>2 DEF Entries
    <3>2. e.m.ok \in BOOLEAN
      BY <3>1, FailIs
    <3> QED BY <2>2, <2>3, <3>2, JudgeIs
  <2> HIDE DEF y
  <2>10. x.at >= i /\ x.slot = NoEntry
    BY <1>0, <1>3 DEF Ahead
  <2>5. up /\ m.ok /\ Ended(dir) /\ i <= MaxSlot => y.m.ok
    BY <2>2, <2>4 DEF Sofar, Ended
  <2>6. Passed(dir, kinds, name, i, x.at)
    BY <1>3 DEF Sofar
  <2>7. CASE Stop(e.slot)
    <3>1. y.over /\ y.slot = x.slot /\ y.at = x.at
      BY <2>4, <2>7
    <3>2. y.m.ok => Missed(y, dir, kinds, name, i)
      BY <2>2, <2>4, <2>6, <2>7, <2>10, <3>1 DEF Missed
    <3>3. Cut(y, dir, kinds, name, i)
      BY <2>6, <2>10, <3>1 DEF Cut
    <3>4. Sofar(y, m, dir, kinds, name, i)
      BY <2>5, <2>10, <3>1, <3>2, <3>3 DEF Sofar, Truly
    <3> QED BY <3>4 DEF y
  <2>8. CASE ~Stop(e.slot) /\ Wanted(e.slot, kinds, name)
    <3>1. y.over /\ y.slot = e.slot /\ y.at = x.at + 1 /\ e.slot \in ShortSlots
      BY <2>4, <2>8
    <3>2. y.at - 1 = x.at /\ y.at >= i
      BY <1>0, <2>10, <3>1
    <3>3. y.m.ok => Met(y, dir, kinds, name, i)
      BY <2>2, <2>4, <2>6, <2>8, <2>10, <3>1, <3>2 DEF Met
    <3>4. e.m.ok
      BY <2>2, <2>8 DEF Stop, NoEntry
    <3>5. Sofar(y, m, dir, kinds, name, i)
      BY <2>4, <2>5, <3>1, <3>2, <3>3, <3>4 DEF Sofar, Truly
    <3> QED BY <3>5 DEF y
  <2>9. CASE ~Stop(e.slot) /\ ~Wanted(e.slot, kinds, name)
    <3>1. y.over = x.over /\ y.at = x.at + 1
      BY <2>4, <2>9
    <3>0. e.m.ok
      BY <2>2, <2>9 DEF Stop, NoEntry
    <3>2. ASSUME NEW p \in i .. (y.at - 1)
          PROVE  ~Stop(SlotNow(dir, p)) /\ ~Wanted(SlotNow(dir, p), kinds, name)
      <4>1. CASE p = x.at
        BY <2>2, <2>9, <3>0, <4>1
      <4>2. CASE p # x.at
        <5>1. p \in i .. (x.at - 1)
          BY <1>0, <3>1, <4>2
        <5> QED BY <2>6, <5>1 DEF Passed
      <4> QED BY <4>1, <4>2
    <3>3. Passed(dir, kinds, name, i, y.at)
      BY <3>2 DEF Passed
    <3>4. Sofar(y, m, dir, kinds, name, i)
      BY <1>3, <2>5, <3>1, <3>3 DEF Sofar
    <3> QED BY <3>4 DEF y
  <2> QED BY <2>7, <2>8, <2>9
<1> QED BY <1>1, <1>2, <1>3

\* fat_dir.next and fat_dir.find: what a look through a folder finds and what it has read.
LEMMA NextEntryIs ==
  ASSUME NEW B, NEW R, Trusted(B, R), NEW m, Within(m, B, R), NEW dir \in Links, NEW i \in Nat \ {0},
         NEW kinds \in SUBSET {"file", "dir"}, NEW name
  PROVE  /\ NextEntry(m, dir, i, kinds, name) \in Looks(B, R)
         /\ NextEntry(m, dir, i, kinds, name).m.ok => m.ok
         /\ B = Current /\ NextEntry(m, dir, i, kinds, name).m.ok =>
              Truly(NextEntry(m, dir, i, kinds, name), dir, kinds, name, i)
         /\ B = Current /\ ~NextEntry(m, dir, i, kinds, name).m.ok =>
              Cut(NextEntry(m, dir, i, kinds, name), dir, kinds, name, i)
         /\ B = Current /\ up /\ m.ok /\ Ended(dir) /\ i <= MaxSlot => NextEntry(m, dir, i, kinds, name).m.ok
<1> DEFINE N == MaxSlot + 1
           X == Looks(B, R)
           a == [m |-> m, at |-> i, slot |-> NoEntry, over |-> FALSE]
           on(x) == LookOn(x, dir, kinds, name)
           step == [n \in 1 .. N |-> [x \in X |-> on(x)]]
           look[n \in 0 .. (MaxSlot + 1)] == IF n = 0 THEN a ELSE on(look[n - 1])
           Good(x, n) == Ahead(x, n, m, i) /\ (B = Current => Sofar(x, m, dir, kinds, name, i))
           G == {n \in 0 .. N : look[n] \in X /\ Good(look[n], n)}
<1>0. MaxSlot \in Nat /\ N \in Nat
  BY ConstantsAre DEF MaxSlot
<1>1. a \in X /\ Good(a, 0)
  BY DEF Looks, Within, Ahead, Sofar, Passed
<1>2. ASSUME NEW x \in X PROVE on(x) \in X /\ \A n \in Nat \ {0} : Good(x, n - 1) => Good(on(x), n)
  <2>1. on(x) \in X
    BY LookOnIs
  <2>2. ASSUME NEW n \in Nat \ {0}, Good(x, n - 1) PROVE Good(on(x), n)
    <3>1. Ahead(on(x), n, m, i)
      BY <2>2, LookAhead
    <3>2. ASSUME B = Current PROVE Sofar(on(x), m, dir, kinds, name, i)
      BY <2>2, <3>2, LookSofar
    <3> QED BY <3>1, <3>2
  <2> QED BY <2>1, <2>2
<1> HIDE DEF on, N, X, a, Good
<1>3. step \in [1 .. N -> [X -> X]]
  BY <1>2
<1>4. PICK f : Runs(f, N, X, a, step)
  <2> HIDE DEF step
  <2>1. N \in Nat /\ a \in X
    BY <1>0, <1>1
  <2> QED BY ONLY <2>1, <1>3, Loop
<1>5. f = [n \in 0 .. (MaxSlot + 1) |-> IF n = 0 THEN a ELSE on(f[n - 1])]
  <2>1. ASSUME NEW n \in 1 .. N PROVE f[n] = on(f[n - 1])
    <3>1. n - 1 \in 0 .. N
      BY <1>0
    <3>2. f[n - 1] \in X /\ f[n] = step[n][f[n - 1]]
      BY <1>4, <3>1 DEF Runs
    <3> QED BY <3>2
  <2>2. \A n \in 0 .. N : n # 0 => n \in 1 .. N
    BY <1>0
  <2>3. \A n \in 0 .. N : f[n] = IF n = 0 THEN a ELSE on(f[n - 1])
    BY <1>4, <2>1, <2>2 DEF Runs
  <2> QED BY <1>4, <2>3 DEF N, Runs
<1>6. look = [n \in 0 .. (MaxSlot + 1) |-> IF n = 0 THEN a ELSE on(look[n - 1])]
  BY <1>5
<1>7. NextEntry(m, dir, i, kinds, name) = look[N]
  BY DEF NextEntry, N, on, a
<1> HIDE DEF look, step
<1>8. 0 \in G
  BY <1>0, <1>1, <1>6 DEF N
<1>9. ASSUME NEW n \in 1 .. N, n - 1 \in G PROVE n \in G
  <2>1. look[n] = on(look[n - 1]) /\ n \in Nat \ {0} /\ n \in 0 .. N
    BY <1>0, <1>6 DEF N
  <2>2. look[n - 1] \in X /\ Good(look[n - 1], n - 1)
    BY <1>9
  <2> QED BY <1>2, <2>1, <2>2
<1>10. N \in G
  <2> HIDE DEF G
  <2>1. \A n \in 1 .. N : n - 1 \in G => n \in G
    BY <1>9
  <2> QED BY ONLY <1>0, <1>8, <2>1, LastRound
<1>11. look[N] \in X /\ Good(look[N], N)
  BY <1>10
<1>12. look[N].over
  <2>1. look[N].at \in Nat
    BY <1>11 DEF X, Looks
  <2> QED BY <1>0, <1>11, <2>1 DEF Good, Ahead, N
<1> QED BY <1>7, <1>11, <1>12 DEF Good, Ahead, Sofar, X

\* The entry of a name, as Find has it.
EntryAt(dir, name) ==
  IF Find(disk, dir, name) # 0 THEN Slots(disk, dir)[Find(disk, dir, name)] ELSE NoEntry

\* The one entry that a true look for a name may find is the disk's.
LEMMA TrulyNamed ==
  ASSUME disk \in Disk, NEW dir, NEW name \in Name, NEW x, x.at \in Nat \ {0},
         Truly(x, dir, {"file", "dir"}, name, 1)
  PROVE  x.slot = EntryAt(dir, name)
<1> DEFINE s   == Slots(disk, dir)
           hit == {i \in Seen(s) : s[i].kind \in {"file", "dir"} /\ s[i].name = name}
           kinds == {"file", "dir"}
<1>0. name # "*"
  BY DEF Name
<1>1. Find(disk, dir, name) = IF hit = {} THEN 0 ELSE Min(hit)
  BY DEF Find, FindIn
<1>2. \A i \in DOMAIN s : i \in Nat \ {0} /\ s[i] \in Slot /\ SlotNow(dir, i) = s[i] /\ s[i].kind # "none"
  BY SlotsIs, SlotNowTyped DEF SlotNow
<1>3. DOMAIN s = 1 .. (Len(Chain(disk, dir)) * Per)
  BY DEF Slots, SlotsAlong
<1>4. Len(Chain(disk, dir)) * Per \in Nat
  BY ChainIs, ConstantsAre
<1>5. ASSUME NEW j \in Nat, Passed(dir, kinds, name, 1, j), NEW p \in hit
      PROVE  ~(p < j)
  <2>1. SUFFICES ASSUME p < j PROVE FALSE
    OBVIOUS
  <2>2. p \in DOMAIN s /\ s[p].kind \in kinds /\ s[p].name = name
    BY DEF Seen
  <2>3. p \in 1 .. (j - 1)
    BY <1>2, <1>5, <2>1, <2>2
  <2> QED BY <1>2, <1>5, <2>2, <2>3 DEF Passed, Wanted
<1>6. CASE Missed(x, dir, kinds, name, 1)
  <2>1. ASSUME NEW p \in hit PROVE FALSE
    <3>1. p \in DOMAIN s /\ \A j \in 1 .. p : s[j].kind # "zero"
      BY DEF Seen
    <3>2. ~(p < x.at)
      BY <1>5, <1>6 DEF Missed
    <3>3. x.at \in 1 .. p /\ x.at \in DOMAIN s
      BY <1>2, <1>3, <1>4, <3>1, <3>2
    <3> QED BY <1>2, <1>6, <3>1, <3>3 DEF Missed, Stop
  <2>2. hit = {}
    BY <2>1
  <2> QED BY <1>1, <1>6, <2>2 DEF EntryAt, Missed
<1>7. CASE Met(x, dir, kinds, name, 1)
  <2> DEFINE q == x.at - 1
  <2>1. /\ q >= 1 /\ x.slot \in ShortSlots /\ x.slot = SlotNow(dir, q) /\ q \in Nat
        /\ Wanted(x.slot, kinds, name) /\ Passed(dir, kinds, name, 1, q)
    BY <1>7 DEF Met
  <2> HIDE DEF q
  <2>2. q \in DOMAIN s
    <3>1. x.slot # NoEntry
      BY <2>1 DEF ShortSlots, NoEntry
    <3> QED BY <2>1, <3>1 DEF SlotNow
  <2>3. s[q] = x.slot /\ s[q].kind \in kinds /\ s[q].name = name
    BY <1>0, <1>2, <2>1, <2>2 DEF Wanted
  <2>4. ASSUME NEW j \in 1 .. q PROVE s[j].kind # "zero"
    <3>1. CASE j = q
      BY <2>3, <3>1
    <3>2. CASE j # q
      <4>1. j \in 1 .. (q - 1) /\ j \in DOMAIN s
        BY <2>1, <2>2, <3>2, <1>3, <1>4
      <4> QED BY <2>1, <4>1, <1>2 DEF Passed, Stop
    <3> QED BY <3>1, <3>2
  <2>5. q \in hit
    BY <2>2, <2>3, <2>4 DEF Seen
  <2>6. hit \in SUBSET Nat
    BY <1>2 DEF Seen
  <2>7. \A p \in hit : q <= p
    BY <1>5, <2>1, <2>6
  <2>8. Min(hit) = q
    <3> HIDE DEF hit
    <3>1. ASSUME NEW y \in hit, \A p \in hit : y <= p PROVE y = q
      <4>1. y <= q /\ q <= y /\ y \in Nat
        BY <2>5, <2>6, <2>7, <3>1
      <4> QED BY <2>1, <4>1
    <3> QED BY <2>5, <2>7, <3>1 DEF Min
  <2>9. Find(disk, dir, name) = q
    BY <1>1, <2>5, <2>8
  <2> QED BY <2>1, <2>3, <2>9 DEF EntryAt
<1> QED BY <1>6, <1>7 DEF Truly

\* find: the entry of the name, or none.
LEMMA EntryNamedIs ==
  ASSUME NEW B, NEW R, Trusted(B, R), NEW m, Within(m, B, R), NEW dir \in Links, NEW name \in Name
  PROVE  /\ EntryNamed(m, dir, name) \in Looks(B, R)
         /\ EntryNamed(m, dir, name).m.ok => m.ok
         /\ B = Current /\ EntryNamed(m, dir, name).m.ok => EntryNamed(m, dir, name).slot = EntryAt(dir, name)
         /\ B = Current /\ up /\ m.ok /\ Ended(dir) => EntryNamed(m, dir, name).m.ok
<1> DEFINE kinds == {"file", "dir"}
           x == NextEntry(m, dir, 1, kinds, name)
<1>1. EntryNamed(m, dir, name) = x
  BY DEF EntryNamed
<1>2. 1 <= MaxSlot /\ 1 \in Nat \ {0} /\ kinds \in SUBSET {"file", "dir"}
  <2>1. Clusters \in Nat \ {0} /\ Per \in Nat \ {0}
    BY ConstantsAre
  <2> QED BY <2>1 DEF MaxSlot
<1> HIDE DEF kinds
<1>3. /\ x \in Looks(B, R) /\ (x.m.ok => m.ok)
      /\ B = Current /\ x.m.ok => Truly(x, dir, kinds, name, 1)
      /\ B = Current /\ up /\ m.ok /\ Ended(dir) => x.m.ok
  BY <1>2, NextEntryIs
<1> HIDE DEF x
<1>4. B = Current /\ x.m.ok => x.slot = EntryAt(dir, name)
  <2>1. x.at \in Nat \ {0} /\ disk \in Disk
    BY <1>3 DEF Looks, Trusted
  <2> QED BY <1>3, <2>1, TrulyNamed DEF kinds
<1> QED BY <1>1, <1>3, <1>4

-----------------------------------------------------------------------------
(* The drive. *)

Answers(B, R) ==
  Looks(B, R) \cup {e \in [m : Mem, slot : ShortSlots \cup {NoEntry}] : Within(e.m, B, R)}

\* The slot of the drive's top folder on the disk as it is.
TopSlot == IF drive = "C" THEN EntryIn(RootSlot(Root), "HD") ELSE RootSlot(Root)

\* What a drive keeps that has the memory m, is in the state st and mounted the
\* top folder tp: nothing but sectors as some disk may have them; and, where it
\* is fresh, runs of what is on the disk now, and when it is mounted the buffer
\* and the top folder too.
Known(fresh) == IF fresh THEN Current ELSE Sectors
Bound(st, fresh) == IF st = "mounted" THEN Known(fresh) ELSE Sectors
Kept(m, st, tp, fresh) ==
  /\ Within(m, Bound(st, fresh), Known(fresh)) /\ tp \in Cluster
  /\ fresh /\ st = "mounted" => TopSlot.kind = "dir" /\ tp = TopNow

\* Folders that a look gets to the end of, each inside one of them.
EndsIn(F) == FoldersEndIn(disk, F)
FoldersEnd == \E F \in SUBSET Cluster : EndsIn(F)

\* What an invariant's bound allows is trusted.
LEMMA KnownIs ==
  ASSUME disk \in Disk, up \in BOOLEAN, NEW st, NEW fresh \in BOOLEAN
  PROVE  /\ Trusted(Bound(st, fresh), Known(fresh))
         /\ Bound(st, fresh) \subseteq Sectors /\ Known(fresh) \subseteq Sectors
         /\ fresh /\ st = "mounted" => Bound(st, fresh) = Current
         /\ st # "mounted" => Bound(st, fresh) = Sectors
         /\ Current \subseteq Known(fresh)
BY TrustedIs, ContentIs DEF Bound, Known, Trusted

\* A drive that is coherent is also one of some disk.
LEMMA KeptIs ==
  ASSUME disk \in Disk, up \in BOOLEAN, NEW m, NEW st, NEW tp, NEW fresh \in BOOLEAN, Kept(m, st, tp, fresh)
  PROVE  Kept(m, st, tp, FALSE) /\ Within(m, Sectors, Sectors) /\ m \in Mem /\ m.ok \in BOOLEAN
<1>1. Within(m, Sectors, Sectors)
  BY KnownIs, Wider DEF Kept
<1> QED BY <1>1, FailIs DEF Kept, Bound, Known, Within

\* An entry found in a folder.
LEMMA EntryInIs ==
  ASSUME disk \in Disk, NEW s \in ShortSlots \cup {NoEntry}, NEW name
  PROVE  /\ EntryIn(s, name) \in ShortSlots \cup {NoEntry}
         /\ s.kind = "dir" => EntryIn(s, name) = EntryAt(s.cluster, name)
         /\ s.kind # "dir" => EntryIn(s, name) = NoEntry
<1>1. Find(disk, s.cluster, name) # 0 =>
        Slots(disk, s.cluster)[Find(disk, s.cluster, name)] \in ShortSlots
  BY FindIs
<1> QED BY <1>1 DEF EntryIn, EntryAt

\* A slot that is none has that kind, and no other has.
LEMMA KindIs ==
  ASSUME NEW s \in ShortSlots \cup {NoEntry}
  PROVE  /\ s.kind = "none" <=> s = NoEntry
         /\ s.kind \in {"file", "dir"} <=> s \in ShortSlots
         /\ s # NoEntry => s.cluster \in Links
BY DEF ShortSlots, NoEntry, Links

\* A folder in a folder of F is of F, and a look gets to the end of both.
LEMMA InsideIs ==
  ASSUME disk \in Disk, NEW F, EndsIn(F), NEW s \in ShortSlots \cup {NoEntry}, s.kind = "dir" => s.cluster \in F,
         NEW name
  PROVE  /\ EntryIn(s, name).kind = "dir" => EntryIn(s, name).cluster \in F
         /\ s.kind = "dir" => Ended(s.cluster)
<1>1. s.kind = "dir" => Ended(s.cluster)
  BY DEF EndsIn, FoldersEndIn, Ended, Whole
<1>2. SUFFICES ASSUME EntryIn(s, name).kind = "dir" PROVE EntryIn(s, name).cluster \in F
  BY <1>1
<1> DEFINE d == s.cluster
           t == Slots(disk, d)
           hit == {i \in Seen(t) : t[i].kind \in {"file", "dir"} /\ t[i].name = name}
           i == Find(disk, d, name)
<1>3. s.kind = "dir" /\ i # 0 /\ EntryIn(s, name) = t[i]
  BY <1>2 DEF EntryIn, NoEntry
<1>4. i = IF hit = {} THEN 0 ELSE Min(hit)
  BY DEF Find, FindIn
<1>5. hit \in SUBSET Nat
  BY SlotsIs DEF Seen
<1>6. i \in hit
  <2> HIDE DEF hit, i
  <2> QED BY <1>3, <1>4, <1>5, MinIs
<1>7. i \in Seen(t) /\ d \in F
  BY <1>3, <1>6
<1> HIDE DEF i
<1> QED BY <1>2, <1>3, <1>7 DEF EndsIn, FoldersEndIn

\* Drive.mount: whatever the drive had, it goes by the disk as it is.
LEMMA MountIs ==
  ASSUME disk \in Disk, up \in BOOLEAN, top \in Cluster, Within(mem, Sectors, Sectors), mem.ok
  PROVE  /\ Mount.m.ok /\ Mount.state \in {"mounted", "absent"}
         /\ \A fresh \in BOOLEAN : Kept(Mount.m, Mount.state, Mount.top, fresh)
<1> DEFINE clear == [Bare EXCEPT !.sector = NoSector, !.buf = "none"]
           f == Fetch(clear, 0)
<1>0. mem \in Mem /\ RunSlots \in Nat \ {0} /\ 0 \in 0 .. LastSector /\ NoSector \in Nat
  BY GemdosReadAssumption, SectorsAre DEF Within
<1>1. /\ NoMem.runs \in [1 .. RunSlots -> [first : Nat, data : Seq(Value)]]
      /\ \A R : \A i \in 1 .. RunSlots : RunWithin(NoMem.runs[i], R)
  <2>1. << >> \in Seq(Value) /\ NoRun = [first |-> 0, data |-> << >>]
    BY DEF NoRun
  <2>2. \A R : RunWithin(NoRun, R)
    BY <2>1 DEF RunWithin
  <2>3. NoMem.runs = [i \in 1 .. RunSlots |-> NoRun]
    BY DEF NoMem
  <2> QED BY <2>1, <2>2, <2>3
<1>2. Bare \in Mem /\ Bare.sector = mem.sector /\ Bare.buf = mem.buf /\ Bare.ok = mem.ok
  BY <1>0, <1>1 DEF Bare, Mem
<1>3. clear \in Mem /\ clear.sector = NoSector /\ clear.runs = NoMem.runs /\ clear.ok
  BY <1>0, <1>1 DEF Bare, Mem
<1> HIDE DEF clear
<1>4. Within(clear, Current, Current) /\ clear.ok
  BY <1>0, <1>1, <1>3 DEF Within, Mem
<1>5. Within(f, Current, Current) /\ Trusted(Current, Current)
  BY <1>0, <1>4, TrustedIs, FetchIs
<1> HIDE DEF f
<1>6. Mount = Probed(f)
  BY DEF Mount, f, clear
<1>7. CASE ~f.ok
  <2> DEFINE g == [Bare EXCEPT !.runs = f.runs, !.victim = f.victim]
  <2>1. Mount = [m |-> g, state |-> "absent", top |-> top]
    BY <1>6, <1>7 DEF Probed
  <2>2. f \in Mem /\ \A i \in 1 .. RunSlots : RunWithin(f.runs[i], Current)
    BY <1>5 DEF Within
  <2>3. g \in Mem /\ g.sector = mem.sector /\ g.buf = mem.buf /\ g.runs = f.runs /\ g.ok
    BY <1>2, <2>2 DEF Mem
  <2> HIDE DEF g
  <2>4. Within(g, Sectors, Current)
    BY <2>2, <2>3 DEF Within
  <2>5. Within(g, Sectors, Sectors)
    BY <2>4, ContentIs, Wider
  <2> QED BY <2>1, <2>3, <2>4, <2>5 DEF Kept, Bound, Known
<1>8. CASE f.ok
  <2> DEFINE e == IF drive = "C" THEN EntryNamed(f, Root, "HD") ELSE Entry(f, RootSlot(Root))
             g == [e.m EXCEPT !.ok = TRUE]
             yes == e.m.ok /\ e.slot.kind = "dir" /\ e.slot.cluster # NoCluster
  <2>1. Mount = [m |-> g, state |-> IF yes THEN "mounted" ELSE "absent", top |-> IF yes THEN e.slot.cluster ELSE Root]
    BY <1>6, <1>8 DEF Probed, Rooted
  <2>2. Root \in Cluster /\ Root \in Links
    BY GemdosReadAssumption DEF Links
  <2>3. /\ Within(e.m, Current, Current) /\ e.slot \in ShortSlots \cup {NoEntry}
        /\ e.m.ok => e.slot = TopSlot
    <3>1. CASE drive = "C"
      <4>1. "HD" \in Name
        BY LiteralsAssumption DEF Name
      <4>2. /\ EntryNamed(f, Root, "HD") \in Looks(Current, Current)
            /\ EntryNamed(f, Root, "HD").m.ok => EntryNamed(f, Root, "HD").slot = EntryAt(Root, "HD")
        BY <1>5, <2>2, <4>1, EntryNamedIs
      <4>3. TopSlot = EntryAt(Root, "HD")
        BY <3>1 DEF TopSlot, EntryIn, EntryAt, RootSlot, ShortSlot
      <4> QED BY <3>1, <4>2, <4>3 DEF Looks
    <3>2. CASE drive # "C"
      <4>1. e.m = f /\ e.slot = RootSlot(Root) /\ TopSlot = RootSlot(Root)
        BY <3>2 DEF Entry, TopSlot
      <4>2. RootSlot(Root) \in ShortSlots
        BY <2>2, LiteralsAssumption DEF RootSlot, ShortSlot, ShortSlots
      <4> QED BY <1>5, <4>1, <4>2
    <3> QED BY <3>1, <3>2
  <2> HIDE DEF e
  <2>4. e.m \in Mem
    BY <2>3 DEF Within
  <2>5. g \in Mem /\ g.sector = e.m.sector /\ g.buf = e.m.buf /\ g.runs = e.m.runs /\ g.ok
    BY <2>4 DEF Mem
  <2> HIDE DEF g
  <2>6. Within(g, Current, Current)
    BY <2>3, <2>5 DEF Within
  <2>7. \A fresh \in BOOLEAN : Within(g, Bound(Mount.state, fresh), Known(fresh))
    BY <2>6, KnownIs, Wider DEF Bound, Known
  <2>8. yes => e.slot.cluster \in Cluster /\ TopSlot.kind = "dir" /\ e.slot.cluster = TopNow
    <3>1. SUFFICES ASSUME yes PROVE e.slot.cluster \in Cluster /\ e.slot.cluster = TopNow
      BY <2>3
    <3>2. e.slot.cluster \in Cluster
      BY <2>3, <3>1, KindIs DEF Links
    <3>3. TopSlot.cluster = TopNow
      BY DEF TopSlot, TopNow, RootSlot, ShortSlot
    <3> QED BY <2>3, <3>1, <3>2, <3>3
  <2> HIDE DEF yes
  <2> QED BY <2>1, <2>2, <2>5, <2>7, <2>8 DEF Kept
<1> QED BY <1>7, <1>8

\* What the drive is after it made sure that it is mounted.
LEMMA ReadyIs ==
  ASSUME disk \in Disk, up \in BOOLEAN, NEW fresh \in BOOLEAN, Kept(mem, state, top, fresh), mem.ok,
         state \in {"unknown", "mounted", "absent"}
  PROVE  /\ Ready.m.ok /\ Ready.state \in {"mounted", "absent"}
         /\ Kept(Ready.m, Ready.state, Ready.top, fresh)
<1>1. Within(mem, Sectors, Sectors) /\ top \in Cluster
  BY KeptIs DEF Kept
<1> QED BY <1>1, MountIs DEF Ready

\* What names lead to, one after the other.
LEMMA ThereIs ==
  ASSUME disk \in Disk, TopNow \in Cluster, NEW names \in Seq(Name)
  PROVE  \E f \in [0 .. Len(names) -> ShortSlots \cup {NoEntry}] :
           /\ f[0] = RootSlot(TopNow) /\ f[Len(names)] = There(names)
           /\ \A n \in 1 .. Len(names) : f[n] = EntryIn(f[n - 1], names[n])
<1> DEFINE N == Len(names)
           X == ShortSlots \cup {NoEntry}
           a == RootSlot(TopNow)
           next(s, n) == EntryIn(s, names[n])
           step == [n \in 1 .. N |-> [s \in X |-> next(s, n)]]
           at[n \in 0 .. Len(names)] == IF n = 0 THEN a ELSE next(at[n - 1], n)
           G == {n \in 0 .. N : at[n] \in X}
<1>0. N \in Nat
  OBVIOUS
<1>1. a \in X
  BY LiteralsAssumption DEF RootSlot, ShortSlot, ShortSlots
<1>2. \A n \in 1 .. N : \A s \in X : next(s, n) \in X
  BY EntryInIs
<1> HIDE DEF next, X, a, N
<1>3. step \in [1 .. N -> [X -> X]]
  BY <1>2
<1>4. PICK f : Runs(f, N, X, a, step)
  <2> HIDE DEF step, at, G
  <2>1. N \in Nat
    BY <1>0 DEF N
  <2> QED BY ONLY <2>1, <1>1, <1>3, Loop
<1>5. f = [n \in 0 .. Len(names) |-> IF n = 0 THEN a ELSE next(f[n - 1], n)]
  <2>1. ASSUME NEW n \in 1 .. N PROVE f[n] = next(f[n - 1], n)
    <3>1. n - 1 \in 0 .. N
      BY <1>0
    <3>2. f[n - 1] \in X /\ f[n] = step[n][f[n - 1]]
      BY <1>4, <3>1 DEF Runs
    <3> QED BY <3>2
  <2>2. \A n \in 0 .. N : n # 0 => n \in 1 .. N
    BY <1>0
  <2>3. \A n \in 0 .. N : f[n] = IF n = 0 THEN a ELSE next(f[n - 1], n)
    BY <1>4, <2>1, <2>2 DEF Runs
  <2> QED BY <1>4, <2>3 DEF N, Runs
<1>6. at = [n \in 0 .. Len(names) |-> IF n = 0 THEN a ELSE next(at[n - 1], n)]
  BY <1>5
<1>7. There(names) = at[N]
  BY DEF There, N, next, a
<1> HIDE DEF at, step
<1>8. 0 \in G
  BY <1>0, <1>1, <1>6 DEF N
<1>9. ASSUME NEW n \in 1 .. N, n - 1 \in G PROVE n \in G
  <2>1. at[n] = next(at[n - 1], n) /\ n \in 0 .. N
    BY <1>0, <1>6 DEF N
  <2> QED BY <1>2, <1>9, <2>1
<1>10. \A n \in 0 .. N : n \in G
  <2> HIDE DEF G
  <2>1. \A n \in 1 .. N : n - 1 \in G => n \in G
    BY <1>9
  <2> QED BY ONLY <1>0, <1>8, <2>1, Rounds
<1>11. at \in [0 .. N -> X] /\ at[0] = a /\ \A n \in 1 .. N : at[n] = next(at[n - 1], n)
  BY <1>0, <1>6, <1>10 DEF N
<1> QED BY <1>7, <1>11 DEF N, X, a, next

\* The entry of a path lies in the folder of the path but its last name.
LEMMA ThereStep ==
  ASSUME disk \in Disk, TopNow \in Cluster, NEW names \in Seq(Name), names # << >>
  PROVE  /\ Front(names) \in Seq(Name) /\ Last(names) \in Name
         /\ There(names) = EntryIn(There(Front(names)), Last(names))
<1> DEFINE N == Len(names)
           fore == Front(names)
<1>0. N \in Nat \ {0} /\ Last(names) = names[N] /\ Last(names) \in Name
  BY LastOf
<1>1. fore \in Seq(Name) /\ Len(fore) = N - 1 /\ \A n \in 1 .. (N - 1) : fore[n] = names[n]
  <2>1. fore = SubSeq(names, 1, N - 1)
    BY DEF Front
  <2>2. /\ SubSeq(names, 1, N - 1) \in Seq(Name) /\ Len(SubSeq(names, 1, N - 1)) = N - 1
        /\ \A n \in 1 .. (N - 1) : SubSeq(names, 1, N - 1)[n] = names[n]
    <3> DEFINE l == N - 1
    <3>1. l \in Nat /\ l <= Len(names)
      BY <1>0
    <3> HIDE DEF l, N
    <3>2. SubSeq(names, 1, l) \in Seq(Name)
      BY <3>1
    <3>3. Len(SubSeq(names, 1, l)) = l
      BY <3>1
    <3>4. \A n \in 1 .. l : SubSeq(names, 1, l)[n] = names[n]
      BY <3>1
    <3> QED BY <3>2, <3>3, <3>4 DEF l
  <2> QED BY <2>1, <2>2
<1>2. PICK f \in [0 .. N -> ShortSlots \cup {NoEntry}] :
        f[0] = RootSlot(TopNow) /\ f[N] = There(names) /\ \A n \in 1 .. N : f[n] = EntryIn(f[n - 1], names[n])
  BY ThereIs
<1>3. PICK g \in [0 .. Len(fore) -> ShortSlots \cup {NoEntry}] :
        /\ g[0] = RootSlot(TopNow) /\ g[Len(fore)] = There(fore)
        /\ \A n \in 1 .. Len(fore) : g[n] = EntryIn(g[n - 1], fore[n])
  BY <1>1, ThereIs
<1> HIDE DEF N, fore
<1> DEFINE G == {n \in 0 .. (N - 1) : f[n] = g[n]}
<1>4. 0 \in G
  BY <1>0, <1>2, <1>3
<1>5. ASSUME NEW n \in 1 .. (N - 1), n - 1 \in G PROVE n \in G
  <2>1. n \in 1 .. N /\ n \in 1 .. Len(fore) /\ fore[n] = names[n] /\ f[n - 1] = g[n - 1]
    BY <1>0, <1>1, <1>5
  <2> QED BY <1>0, <1>2, <1>3, <2>1
<1>6. N - 1 \in G
  <2> HIDE DEF G
  <2>1. N - 1 \in Nat /\ \A n \in 1 .. (N - 1) : n - 1 \in G => n \in G
    BY <1>0, <1>5
  <2> QED BY ONLY <1>4, <2>1, LastRound
<1>7. f[N - 1] = There(fore)
  BY <1>0, <1>1, <1>3, <1>6
<1>8. There(names) = EntryIn(f[N - 1], names[N])
  BY <1>0, <1>2
<1> QED BY <1>0, <1>1, <1>7, <1>8 DEF fore

\* The parts of an answer.
LEMMA AnswersAre ==
  ASSUME NEW B, NEW R, NEW w \in Answers(B, R)
  PROVE  Within(w.m, B, R) /\ w.m \in Mem /\ w.m.ok \in BOOLEAN /\ w.slot \in ShortSlots \cup {NoEntry}
<1>1. Within(w.m, B, R) /\ w.slot \in ShortSlots \cup {NoEntry}
  BY DEF Answers, Looks
<1> QED BY <1>1, FailIs DEF Within

\* An entry is an answer.
LEMMA EntryIsOne ==
  ASSUME NEW B, NEW R, NEW m, Within(m, B, R), NEW s \in ShortSlots \cup {NoEntry}
  PROVE  Entry(m, s) \in Answers(B, R) /\ Entry(m, s).m = m /\ Entry(m, s).slot = s
BY DEF Entry, Answers, Within

\* One name down a path (gemdos_drive.walk).
LEMMA DownIs ==
  ASSUME NEW B, NEW R, Trusted(B, R), NEW w \in Answers(B, R), NEW name \in Name
  PROVE  /\ Down(w, name) \in Answers(B, R)
         /\ Down(w, name).m.ok => w.m.ok
         /\ B = Current /\ Down(w, name).m.ok => Down(w, name).slot = EntryIn(w.slot, name)
         /\ B = Current /\ up /\ w.m.ok /\ (w.slot.kind = "dir" => Ended(w.slot.cluster)) => Down(w, name).m.ok
<1>1. Within(w.m, B, R) /\ w.slot \in ShortSlots \cup {NoEntry} /\ disk \in Disk
  BY AnswersAre DEF Trusted
<1>2. CASE w.slot.kind = "dir"
  <2> DEFINE x == EntryNamed(w.m, w.slot.cluster, name)
  <2>1. w.slot.cluster \in Links
    BY <1>1, <1>2, KindIs
  <2>2. /\ x \in Looks(B, R) /\ (x.m.ok => w.m.ok)
        /\ B = Current /\ x.m.ok => x.slot = EntryAt(w.slot.cluster, name)
        /\ B = Current /\ up /\ w.m.ok /\ Ended(w.slot.cluster) => x.m.ok
    BY <1>1, <2>1, EntryNamedIs
  <2>3. Down(w, name) = x
    BY <1>2 DEF Down
  <2>4. EntryIn(w.slot, name) = EntryAt(w.slot.cluster, name)
    BY <1>1, <1>2, EntryInIs
  <2> QED BY <1>2, <2>2, <2>3, <2>4 DEF Answers
<1>3. CASE w.slot.kind # "dir"
  <2>1. Down(w, name) = Entry(w.m, NoEntry)
    BY <1>3 DEF Down
  <2>2. EntryIn(w.slot, name) = NoEntry
    BY <1>1, <1>3, EntryInIs
  <2> QED BY <1>1, <2>1, <2>2, EntryIsOne
<1> QED BY <1>2, <1>3

\* Drive.walk, name by name.
LEMMA WalkRuns ==
  ASSUME NEW B, NEW R, Trusted(B, R), NEW r, Within(r.m, B, R), r.top \in Cluster, NEW names \in Seq(Name)
  PROVE  \E f \in [0 .. Len(names) -> Answers(B, R)] :
           /\ f[0] = Entry(r.m, RootSlot(r.top)) /\ f[Len(names)] = Walk(r, names)
           /\ \A n \in 1 .. Len(names) : f[n] = Down(f[n - 1], names[n])
<1> DEFINE N == Len(names)
           X == Answers(B, R)
           a == Entry(r.m, RootSlot(r.top))
           next(w, n) == Down(w, names[n])
           step == [n \in 1 .. N |-> [w \in X |-> next(w, n)]]
           at[n \in 0 .. Len(names)] == IF n = 0 THEN a ELSE next(at[n - 1], n)
           G == {n \in 0 .. N : at[n] \in X}
<1>0. N \in Nat
  OBVIOUS
<1>1. a \in X
  <2>1. RootSlot(r.top) \in ShortSlots
    BY LiteralsAssumption DEF RootSlot, ShortSlot, ShortSlots
  <2> QED BY <2>1, EntryIsOne
<1>2. \A n \in 1 .. N : \A w \in X : next(w, n) \in X
  BY DownIs
<1> HIDE DEF next, X, a, N
<1>3. step \in [1 .. N -> [X -> X]]
  BY <1>2
<1>4. PICK f : Runs(f, N, X, a, step)
  <2> HIDE DEF step, at, G
  <2>1. N \in Nat
    BY <1>0 DEF N
  <2> QED BY ONLY <2>1, <1>1, <1>3, Loop
<1>5. f = [n \in 0 .. Len(names) |-> IF n = 0 THEN a ELSE next(f[n - 1], n)]
  <2>1. ASSUME NEW n \in 1 .. N PROVE f[n] = next(f[n - 1], n)
    <3>1. n - 1 \in 0 .. N
      BY <1>0
    <3>2. f[n - 1] \in X /\ f[n] = step[n][f[n - 1]]
      BY <1>4, <3>1 DEF Runs
    <3> QED BY <3>2
  <2>2. \A n \in 0 .. N : n # 0 => n \in 1 .. N
    BY <1>0
  <2>3. \A n \in 0 .. N : f[n] = IF n = 0 THEN a ELSE next(f[n - 1], n)
    BY <1>4, <2>1, <2>2 DEF Runs
  <2> QED BY <1>4, <2>3 DEF N, Runs
<1>6. at = [n \in 0 .. Len(names) |-> IF n = 0 THEN a ELSE next(at[n - 1], n)]
  BY <1>5
<1>7. Walk(r, names) = at[N]
  BY DEF Walk, N, next, a
<1> HIDE DEF at, step
<1>8. 0 \in G
  BY <1>0, <1>1, <1>6 DEF N
<1>9. ASSUME NEW n \in 1 .. N, n - 1 \in G PROVE n \in G
  <2>1. at[n] = next(at[n - 1], n) /\ n \in 0 .. N
    BY <1>0, <1>6 DEF N
  <2> QED BY <1>2, <1>9, <2>1
<1>10. \A n \in 0 .. N : n \in G
  <2> HIDE DEF G
  <2>1. \A n \in 1 .. N : n - 1 \in G => n \in G
    BY <1>9
  <2> QED BY ONLY <1>0, <1>8, <2>1, Rounds
<1>11. at \in [0 .. N -> X] /\ at[0] = a /\ \A n \in 1 .. N : at[n] = next(at[n - 1], n)
  BY <1>0, <1>6, <1>10 DEF N
<1> QED BY <1>7, <1>11 DEF N, X, a, next

\* All names of a path (gemdos_drive.walk): what it has read, and what it finds.
LEMMA WalkIs ==
  ASSUME NEW B, NEW R, Trusted(B, R), NEW r, Within(r.m, B, R), r.top \in Cluster, NEW names \in Seq(Name)
  PROVE  Walk(r, names) \in Answers(B, R) /\ (Walk(r, names).m.ok => r.m.ok)
<1> DEFINE N == Len(names)
<1>1. PICK f \in [0 .. N -> Answers(B, R)] :
        /\ f[0] = Entry(r.m, RootSlot(r.top)) /\ f[N] = Walk(r, names)
        /\ \A n \in 1 .. N : f[n] = Down(f[n - 1], names[n])
  BY WalkRuns
<1>2. N \in Nat /\ \A n \in 1 .. N : names[n] \in Name
  OBVIOUS
<1> DEFINE G == {n \in 0 .. N : f[n].m.ok => r.m.ok}
<1> HIDE DEF N
<1>3. 0 \in G
  BY <1>1, <1>2 DEF Entry
<1>4. ASSUME NEW n \in 1 .. N, n - 1 \in G PROVE n \in G
  <2>1. f[n - 1] \in Answers(B, R) /\ f[n] = Down(f[n - 1], names[n]) /\ n \in 0 .. N
    BY <1>1, <1>2
  <2>2. f[n].m.ok => f[n - 1].m.ok
    BY <1>2, <2>1, DownIs
  <2> QED BY <1>4, <2>1, <2>2
<1>5. N \in G
  <2> HIDE DEF G
  <2>1. \A n \in 1 .. N : n - 1 \in G => n \in G
    BY <1>4
  <2> QED BY ONLY <1>2, <1>3, <2>1, LastRound
<1> QED BY <1>1, <1>2, <1>5

\* Where the names lead on the disk as it is; and the look gets there when the
\* folders end.
LEMMA WalkFresh ==
  ASSUME NEW R, Trusted(Current, R), NEW r, Within(r.m, Current, R), r.top \in Cluster, r.top = TopNow,
         NEW names \in Seq(Name), NEW F
  PROVE  /\ Walk(r, names).m.ok => Walk(r, names).slot = There(names)
         /\ EndsIn(F) /\ TopNow \in F /\ up /\ r.m.ok =>
              Walk(r, names).m.ok /\ (There(names).kind = "dir" => There(names).cluster \in F)
<1> DEFINE N == Len(names)
           Fine == EndsIn(F) /\ TopNow \in F /\ up /\ r.m.ok
<1>0. disk \in Disk /\ N \in Nat /\ \A n \in 1 .. N : names[n] \in Name
  BY DEF Trusted
<1>1. PICK f \in [0 .. N -> Answers(Current, R)] :
        /\ f[0] = Entry(r.m, RootSlot(r.top)) /\ f[N] = Walk(r, names)
        /\ \A n \in 1 .. N : f[n] = Down(f[n - 1], names[n])
  BY WalkRuns
<1>2. PICK g \in [0 .. N -> ShortSlots \cup {NoEntry}] :
        /\ g[0] = RootSlot(TopNow) /\ g[N] = There(names)
        /\ \A n \in 1 .. N : g[n] = EntryIn(g[n - 1], names[n])
  BY <1>0, ThereIs
<1> HIDE DEF N
<1> DEFINE Good(n) == /\ f[n].m.ok => f[n].slot = g[n]
                      /\ Fine => f[n].m.ok /\ (g[n].kind = "dir" => g[n].cluster \in F)
           G == {n \in 0 .. N : Good(n)}
<1>3. 0 \in G
  <2>1. f[0].m = r.m /\ f[0].slot = g[0] /\ g[0].cluster = TopNow
    <3>1. f[0] = Entry(r.m, RootSlot(TopNow)) /\ g[0] = RootSlot(TopNow)
      BY <1>1, <1>2
    <3>2. RootSlot(TopNow).cluster = TopNow
      BY DEF RootSlot, ShortSlot
    <3> QED BY <3>1, <3>2 DEF Entry
  <2> QED BY <1>0, <2>1
<1> HIDE DEF Fine
<1>4. ASSUME NEW n \in 1 .. N, n - 1 \in G PROVE n \in G
  <2> DEFINE w == f[n - 1]
             s == g[n - 1]
  <2>1. /\ w \in Answers(Current, R) /\ s \in ShortSlots \cup {NoEntry} /\ names[n] \in Name /\ n \in 0 .. N
        /\ f[n] = Down(w, names[n]) /\ g[n] = EntryIn(s, names[n])
    BY <1>0, <1>1, <1>2
  <2>2. Good(n - 1)
    BY <1>4
  <2>3. (w.m.ok => w.slot = s) /\ (Fine => w.m.ok /\ (s.kind = "dir" => s.cluster \in F))
    BY <2>2
  <2> HIDE DEF w, s
  <2>4. /\ f[n].m.ok => w.m.ok
        /\ f[n].m.ok => f[n].slot = EntryIn(w.slot, names[n])
        /\ up /\ w.m.ok /\ (w.slot.kind = "dir" => Ended(w.slot.cluster)) => f[n].m.ok
    BY <2>1, DownIs
  <2>5. Fine => /\ g[n].kind = "dir" => g[n].cluster \in F
                /\ s.kind = "dir" => Ended(s.cluster)
    BY <1>0, <2>1, <2>3, InsideIs DEF Fine
  <2>6. f[n].m.ok => f[n].slot = g[n]
    BY <2>1, <2>3, <2>4
  <2>7. Fine => f[n].m.ok
    BY <2>3, <2>4, <2>5 DEF Fine
  <2> QED BY <2>1, <2>5, <2>6, <2>7
<1>5. N \in G
  <2> HIDE DEF G
  <2>1. \A n \in 1 .. N : n - 1 \in G => n \in G
    BY <1>4
  <2> QED BY ONLY <1>0, <1>3, <2>1, LastRound
<1>6. Good(N)
  BY <1>5
<1> QED BY <1>1, <1>2, <1>6 DEF Fine

\* A path but its last name, and that name.
LEMMA FrontIs ==
  ASSUME NEW names \in Seq(Name), names # << >>
  PROVE  Front(names) \in Seq(Name) /\ Last(names) \in Name
<1>1. SubSeq(names, 1, Len(names) - 1) \in Seq(Name)
  OBVIOUS
<1> QED BY <1>1, LastOf DEF Front

\* What an answer of entryOf and folderOf is made of.
LEMMA ResultIs ==
  ASSUME NEW B, NEW R, NEW e \in Answers(B, R), NEW r, NEW none \in {"EFILNF", "EPTHNF"}
  PROVE  /\ Result(r, e, none).m = e.m /\ Result(r, e, none).slot = e.slot
         /\ Result(r, e, none).state = r.state /\ Result(r, e, none).top = r.top
         /\ Result(r, e, none).err = "ok" => e.m.ok /\ e.slot \in ShortSlots
         /\ Result(r, e, none).err \in {"EFILNF", "EPTHNF"} => e.m.ok /\ e.slot = NoEntry
         /\ Result(r, e, none).err = "EREADF" => ~e.m.ok
<1>1. e.slot \in ShortSlots \cup {NoEntry} /\ (e.slot.kind = "none" <=> e.slot = NoEntry)
  BY AnswersAre, KindIs
<1> QED BY <1>1 DEF Result, Looked

\* entryOf of a mounted drive keeps what the drive is known by.
LEMMA EntryFromIs ==
  ASSUME disk \in Disk, up \in BOOLEAN, NEW fresh \in BOOLEAN,
         NEW r, Kept(r.m, r.state, r.top, fresh), NEW names \in Seq(Name)
  PROVE  LET x == EntryFrom(r, names)
         IN  /\ x.state = r.state /\ x.top = r.top /\ Kept(x.m, x.state, x.top, fresh)
             /\ x.slot \in ShortSlots \cup {NoEntry} /\ (x.err = "ok" => x.slot \in ShortSlots)
<1> DEFINE x == EntryFrom(r, names)
           K == Known(fresh)
<1>0. /\ Trusted(Bound(r.state, fresh), K) /\ Within(r.m, Bound(r.state, fresh), K) /\ r.top \in Cluster
      /\ r.state = "mounted" => Bound(r.state, fresh) = K
  BY KnownIs DEF Kept, Bound
<1>1. CASE r.state # "mounted"
  BY <1>1 DEF EntryFrom, Looked
<1>2. CASE r.state = "mounted" /\ names = << >>
  <2>1. RootSlot(r.top) \in ShortSlots
    BY <1>0, LiteralsAssumption DEF RootSlot, ShortSlot, ShortSlots
  <2> QED BY <1>2, <2>1 DEF EntryFrom, Looked
<1>3. CASE r.state = "mounted" /\ names # << >>
  <2> DEFINE w == Walk(r, Front(names))
             e == IF w.m.ok /\ w.slot.kind = "dir" THEN EntryNamed(w.m, w.slot.cluster, Last(names)) ELSE Entry(w.m, NoEntry)
             none == IF w.m.ok /\ w.slot.kind = "dir" THEN "EFILNF" ELSE "EPTHNF"
  <2>0. Front(names) \in Seq(Name) /\ Last(names) \in Name
    BY <1>3, FrontIs
  <2>1. w \in Answers(K, K) /\ Trusted(K, K)
    BY <1>0, <1>3, <2>0, WalkIs
  <2>2. x = Result(r, e, none)
    BY <1>3 DEF EntryFrom, InFolder
  <2> HIDE DEF w
  <2>3. e \in Answers(K, K)
    <3>1. Within(w.m, K, K) /\ w.slot \in ShortSlots \cup {NoEntry}
      BY <2>1, AnswersAre
    <3>2. w.slot.kind = "dir" => w.slot.cluster \in Links
      BY <3>1, KindIs
    <3>3. w.slot.kind = "dir" => EntryNamed(w.m, w.slot.cluster, Last(names)) \in Looks(K, K)
      BY <2>0, <2>1, <3>1, <3>2, EntryNamedIs
    <3> QED BY <3>1, <3>3, EntryIsOne DEF Answers
  <2>4. none \in {"EFILNF", "EPTHNF"}
    OBVIOUS
  <2> HIDE DEF e, none
  <2>5. /\ x.m = e.m /\ x.slot = e.slot /\ x.state = r.state /\ x.top = r.top
        /\ x.err = "ok" => e.slot \in ShortSlots
    BY <2>2, <2>3, <2>4, ResultIs
  <2>6. Within(e.m, K, K) /\ e.slot \in ShortSlots \cup {NoEntry}
    BY <2>3, AnswersAre
  <2> HIDE DEF x
  <2>7. Kept(x.m, x.state, x.top, fresh)
    BY <1>0, <1>3, <2>5, <2>6 DEF Kept
  <2> QED BY <2>5, <2>6, <2>7 DEF x
<1> QED BY <1>1, <1>2, <1>3

\* And of a fresh one it is what is on the disk.
LEMMA EntryFromAfresh ==
  ASSUME disk \in Disk, up \in BOOLEAN, NEW r, Kept(r.m, r.state, r.top, TRUE), NEW names \in Seq(Name)
  PROVE  LET x == EntryFrom(r, names)
         IN  /\ x.err = "ok" => x.slot = There(names)
             /\ x.err \in {"EFILNF", "EPTHNF"} => There(names) = NoEntry
             /\ x.err = "EREADF" /\ r.m.ok /\ FoldersEnd => ~up
<1> DEFINE x == EntryFrom(r, names)
<1>1. CASE r.state # "mounted"
  BY <1>1 DEF EntryFrom, Looked
<1>2. CASE r.state = "mounted"
  <2>0. /\ Trusted(Current, Current) /\ Within(r.m, Current, Current) /\ r.top \in Cluster
        /\ TopSlot.kind = "dir" /\ r.top = TopNow
    BY <1>2, TrustedIs DEF Kept, Bound, Known
  <2>1. CASE names = << >>
    <3>1. x.err = "ok" /\ x.slot = RootSlot(r.top)
      BY <1>2, <2>1 DEF EntryFrom, Looked
    <3>2. There(names) = RootSlot(TopNow)
      <4>1. PICK f \in [0 .. Len(names) -> ShortSlots \cup {NoEntry}] :
              f[0] = RootSlot(TopNow) /\ f[Len(names)] = There(names)
        BY <2>0, ThereIs
      <4>2. Len(names) = 0
        BY <2>1
      <4> QED BY <4>1, <4>2
    <3> QED BY <2>0, <3>1, <3>2
  <2>2. CASE names # << >>
    <3> DEFINE w == Walk(r, Front(names))
               t == There(Front(names))
               dir == w.m.ok /\ w.slot.kind = "dir"
               found == EntryNamed(w.m, w.slot.cluster, Last(names))
               e == IF dir THEN found ELSE Entry(w.m, NoEntry)
               none == IF dir THEN "EFILNF" ELSE "EPTHNF"
    <3>0. Front(names) \in Seq(Name) /\ Last(names) \in Name /\ There(names) = EntryIn(t, Last(names))
      BY <2>0, <2>2, ThereStep
    <3>1. w \in Answers(Current, Current) /\ (w.m.ok => w.slot = t)
      BY <2>0, <3>0, WalkIs, WalkFresh
    <3>2. FoldersEnd /\ up /\ r.m.ok => w.m.ok /\ (t.kind = "dir" => Ended(t.cluster))
      <4>1. SUFFICES ASSUME FoldersEnd, up, r.m.ok PROVE w.m.ok /\ (t.kind = "dir" => Ended(t.cluster))
        OBVIOUS
      <4>2. PICK F : EndsIn(F)
        BY <4>1 DEF FoldersEnd
      <4>3. RootSlot(Root) \in ShortSlots /\ RootSlot(Root).cluster = Root /\ Root \in F
        BY <4>2, GemdosReadAssumption, LiteralsAssumption DEF EndsIn, FoldersEndIn, RootSlot, ShortSlot, ShortSlots, Links
      <4>4. TopNow \in F
        <5>1. CASE drive = "C"
          <6>1. TopSlot = EntryIn(RootSlot(Root), "HD") /\ TopNow = TopSlot.cluster
            BY <5>1 DEF TopSlot, TopNow
          <6> QED BY <2>0, <4>2, <4>3, <6>1, InsideIs
        <5>2. CASE drive # "C"
          BY <4>3, <5>2 DEF TopNow
        <5> QED BY <5>1, <5>2
      <4>5. w.m.ok /\ (t.kind = "dir" => t.cluster \in F)
        BY <2>0, <3>0, <4>1, <4>2, <4>4, WalkFresh
      <4> HIDE DEF t, w
      <4> QED BY <4>2, <4>5 DEF EndsIn, FoldersEndIn, Ended, Whole
    <3>3. x = Result(r, e, none)
      BY <1>2, <2>2 DEF EntryFrom, InFolder
    <3> HIDE DEF w, t, x
    <3>4. Within(w.m, Current, Current) /\ w.slot \in ShortSlots \cup {NoEntry} /\ w.m.ok \in BOOLEAN
      BY <3>1, AnswersAre
    <3>5. CASE dir
      <4>1. w.slot.cluster \in Links /\ w.slot = t
        BY <3>1, <3>4, <3>5, KindIs
      <4>2. /\ found \in Answers(Current, Current)
            /\ found.m.ok => found.slot = EntryAt(w.slot.cluster, Last(names))
            /\ up /\ w.m.ok /\ Ended(w.slot.cluster) => found.m.ok
        BY <2>0, <3>0, <3>4, <4>1, EntryNamedIs DEF Answers
      <4>3. x = Result(r, found, "EFILNF")
        BY <3>3, <3>5
      <4>4. There(names) = EntryAt(w.slot.cluster, Last(names))
        BY <2>0, <3>0, <3>4, <3>5, <4>1, EntryInIs
      <4> HIDE DEF found
      <4>5. /\ x.slot = found.slot
            /\ x.err = "ok" => found.m.ok
            /\ x.err \in {"EFILNF", "EPTHNF"} => found.m.ok /\ found.slot = NoEntry
            /\ x.err = "EREADF" => ~found.m.ok
        BY <4>2, <4>3, ResultIs
      <4> QED BY <3>2, <3>5, <4>1, <4>2, <4>4, <4>5 DEF x
    <3>6. CASE ~dir
      <4> DEFINE o == Entry(w.m, NoEntry)
      <4>1. o \in Answers(Current, Current) /\ o.m = w.m /\ o.slot = NoEntry
        BY <3>4, EntryIsOne
      <4>2. x = Result(r, o, "EPTHNF")
        BY <3>3, <3>6
      <4> HIDE DEF o
      <4>3. /\ x.err = "ok" => o.slot \in ShortSlots
            /\ x.err \in {"EFILNF", "EPTHNF"} => o.m.ok
            /\ x.err = "EREADF" => ~o.m.ok
        BY <4>1, <4>2, ResultIs
      <4>4. w.m.ok => There(names) = NoEntry
        BY <2>0, <3>0, <3>1, <3>4, <3>6, EntryInIs
      <4>5. NoEntry \notin ShortSlots
        BY DEF NoEntry, ShortSlots
      <4> QED BY <3>2, <4>1, <4>3, <4>4, <4>5 DEF x
    <3> QED BY <3>5, <3>6
  <2> QED BY <2>1, <2>2
<1> QED BY <1>1, <1>2

\* The folder of a path, from a drive that is ready.
LEMMA FolderFromIs ==
  ASSUME disk \in Disk, up \in BOOLEAN, NEW fresh \in BOOLEAN,
         NEW r, Kept(r.m, r.state, r.top, fresh), NEW names \in Seq(Name)
  PROVE  LET x == FolderFrom(r, names)
         IN  /\ x.state = r.state /\ x.top = r.top /\ Kept(x.m, x.state, x.top, fresh)
             /\ x.slot \in ShortSlots \cup {NoEntry} /\ (x.err = "ok" => x.slot \in ShortSlots)
<1> DEFINE x == FolderFrom(r, names)
           K == Known(fresh)
<1>0. /\ Trusted(Bound(r.state, fresh), K) /\ Within(r.m, Bound(r.state, fresh), K) /\ r.top \in Cluster
      /\ r.state = "mounted" => Bound(r.state, fresh) = K
  BY KnownIs DEF Kept, Bound
<1>1. CASE r.state # "mounted"
  BY <1>1 DEF FolderFrom, Looked
<1>2. CASE r.state = "mounted"
  <2> DEFINE w == Walk(r, names)
             e == IF w.slot.kind = "dir" THEN w ELSE Entry(w.m, NoEntry)
  <2>1. w \in Answers(K, K)
    BY <1>0, <1>2, WalkIs
  <2>2. x = Result(r, e, "EPTHNF")
    BY <1>2 DEF FolderFrom
  <2> HIDE DEF w
  <2>3. e \in Answers(K, K)
    <3>1. Within(w.m, K, K)
      BY <2>1, AnswersAre
    <3> QED BY <2>1, <3>1, EntryIsOne
  <2> HIDE DEF e
  <2>5. /\ x.m = e.m /\ x.slot = e.slot /\ x.state = r.state /\ x.top = r.top
        /\ x.err = "ok" => e.slot \in ShortSlots
    BY <2>2, <2>3, ResultIs
  <2>6. Within(e.m, K, K) /\ e.slot \in ShortSlots \cup {NoEntry}
    BY <2>3, AnswersAre
  <2> HIDE DEF x
  <2>7. Kept(x.m, x.state, x.top, fresh)
    BY <1>0, <1>2, <2>5, <2>6 DEF Kept
  <2> QED BY <2>5, <2>6, <2>7 DEF x
<1> QED BY <1>1, <1>2

\* The names that a path of the program comes to.
LEMMA NamesAre ==
  ASSUME NEW p \in Given, cwd \in Seq(Name)
  PROVE  Names(p) \in Seq(Name)
<1>1. p.abs \in BOOLEAN /\ p.up \in Nat /\ p.names \in Seq(Name)
  BY DEF Given
<1> DEFINE l == IF p.up > Len(cwd) THEN 0 ELSE Len(cwd) - p.up
<1>2. l \in Nat /\ l <= Len(cwd)
  BY <1>1
<1> HIDE DEF l
<1>3. SubSeq(cwd, 1, l) \in Seq(Name)
  BY <1>2
<1>4. SubSeq(cwd, 1, l) \o p.names \in Seq(Name)
  BY <1>1, <1>3
<1> QED BY <1>1, <1>4 DEF Names, l

-----------------------------------------------------------------------------
(* Files. *)

\* An open file, and a read under way.
OpenFile == [used : BOOLEAN, slot : ShortSlots, pos : Nat, cl : Links, index : Nat]
Reading(B, R) == {w \in [m : Mem, f : OpenFile, want : Nat, got : Seq(Value)] : Within(w.m, B, R)}

\* The cluster that a file remembers is its index-th; and all that a file has
\* left to read is in its chain.
On(f) == f.cl = Nth(f.slot.cluster, f.index + 1)
Whence(w) == On(w.f) /\ Whole(w.f.slot.cluster) /\ w.f.pos + w.want <= Len(Chain(disk, w.f.slot.cluster))

\* The same read, further on or not.
Same(v, w) == v.f.used = w.f.used /\ v.f.slot = w.f.slot /\ v.f.pos = w.f.pos /\ v.want = w.want /\ v.got = w.got

\* The parts of a read under way.
LEMMA ReadingIs ==
  ASSUME NEW B, NEW R, NEW w \in Reading(B, R)
  PROVE  /\ w.m \in Mem /\ Within(w.m, B, R) /\ w.m.ok \in BOOLEAN /\ w.want \in Nat /\ w.got \in Seq(Value)
         /\ w.f.slot \in ShortSlots /\ w.f.slot.cluster \in Links /\ w.f.pos \in Nat /\ w.f.cl \in Links
         /\ w.f.index \in Nat /\ w.f.used \in BOOLEAN
BY FailIs DEF Reading, OpenFile, ShortSlots, Links

\* The clusters of a chain, by number.
LEMMA NthOf ==
  ASSUME disk \in Disk, NEW dir \in Links
  PROVE  /\ Len(Chain(disk, dir)) \in 0 .. (Clusters + 1)
         /\ \A n \in 1 .. Len(Chain(disk, dir)) : Nth(dir, n) = Chain(disk, dir)[n] /\ Nth(dir, n) \in Cluster
         /\ Whole(dir) => Len(Chain(disk, dir)) <= Clusters
<1>0. Clusters \in Nat
  BY ConstantsAre
<1>1. CASE dir = NoCluster
  <2>1. Chain(disk, dir) = << >> /\ Len(<< >>) = 0
    BY <1>1, LinksAre DEF Chain
  <2> QED BY <1>0, <2>1
<1>2. CASE dir # NoCluster
  <2>1. dir \in Cluster
    BY <1>2 DEF Links
  <2>2. /\ Len(Chain(disk, dir)) \in 1 .. (Clusters + 1)
        /\ \A n \in 1 .. Len(Chain(disk, dir)) : Chain(disk, dir)[n] \in Cluster
    BY <2>1, ChainRuns
  <2>3. Whole(dir) => Len(Chain(disk, dir)) \in 1 .. Clusters
    BY <2>1 DEF Whole, ChainEnds
  <2> QED BY <1>0, <2>2, <2>3 DEF Nth
<1> QED BY <1>1, <1>2

\* One cluster on.
LEMMA HopIs ==
  ASSUME NEW B, NEW R, Trusted(B, R), NEW v \in Reading(B, R)
  PROVE  /\ NextHop(v) \in Reading(B, R) /\ Same(NextHop(v), v)
         /\ NextHop(v).m.ok => v.m.ok /\ NextHop(v).f.index = v.f.index + 1
         /\ ~NextHop(v).m.ok => NextHop(v).f.cl = v.f.cl /\ NextHop(v).f.index = v.f.index
         /\ B = Current /\ NextHop(v).m.ok => NextHop(v).f.cl = Behind(v.f.cl)
         /\ B = Current /\ up /\ v.m.ok /\ v.f.cl \in Cluster /\ Behind(v.f.cl) \in Cluster => NextHop(v).m.ok
<1> DEFINE x == Follow([m |-> v.m, c |-> v.f.cl])
<1>0. /\ v.m \in Mem /\ Within(v.m, B, R) /\ v.m.ok \in BOOLEAN /\ v.f.cl \in Links /\ v.f.index \in Nat
      /\ v \in [m : Mem, f : OpenFile, want : Nat, got : Seq(Value)]
  BY ReadingIs DEF Reading
<1>1. CASE ~v.m.ok
  <2>1. NextHop(v) = v
    BY <1>1 DEF NextHop
  <2> QED BY <1>1, <2>1 DEF Same
<1>2. CASE v.m.ok
  <2> DEFINE w == [m |-> v.m, c |-> v.f.cl]
  <2>1. w \in Cursors(B, R) /\ w.m = v.m /\ w.c = v.f.cl
    BY <1>0 DEF Cursors
  <2>2. x = Follow(w) /\ NextHop(v) = Hop(v, x)
    BY <1>2 DEF NextHop
  <2> HIDE DEF w, x
  <2>3. /\ x \in Cursors(B, R)
        /\ B = Current /\ x.m.ok => x.c = Behind(v.f.cl)
        /\ B = Current /\ up /\ v.f.cl \in Cluster /\ Marked(v.f.cl) => x.m.ok
    BY <1>2, <2>1, <2>2, FollowIs
  <2>4. x.m \in Mem /\ Within(x.m, B, R) /\ x.m.ok \in BOOLEAN /\ x.c \in Links
    BY <2>3, FailIs DEF Cursors
  <2>5. Behind(v.f.cl) \in Cluster => Marked(v.f.cl)
    BY LinksAre DEF Behind, Marked
  <2>6. CASE x.c = NoCluster
    <3> DEFINE h == [v EXCEPT !.m = Fail(x.m)]
    <3>1. Hop(v, x) = h
      BY <2>6 DEF Hop
    <3>2. Fail(x.m) \in Mem /\ Within(Fail(x.m), B, R) /\ ~Fail(x.m).ok
      BY <2>4, FailIs DEF Within
    <3>3. h \in [m : Mem, f : OpenFile, want : Nat, got : Seq(Value)] /\ h.m = Fail(x.m) /\ h.f = v.f
          /\ h.want = v.want /\ h.got = v.got
      BY <1>0, <3>2
    <3> HIDE DEF h
    <3>4. h \in Reading(B, R) /\ Same(h, v)
      BY <3>2, <3>3 DEF Reading, Same
    <3>5. ~(up /\ B = Current /\ v.f.cl \in Cluster /\ Behind(v.f.cl) \in Cluster)
      BY <2>3, <2>5, <2>6, LinksAre
    <3> QED BY <2>2, <3>1, <3>2, <3>3, <3>4, <3>5
  <2>7. CASE x.c # NoCluster
    <3> DEFINE h == [v EXCEPT !.m = x.m, !.f.cl = x.c, !.f.index = @ + 1]
               ff == [v.f EXCEPT !.cl = x.c, !.index = v.f.index + 1]
    <3>1. Hop(v, x) = h
      BY <2>7 DEF Hop
    <3>0. v.f \in OpenFile
      BY <1>0
    <3>2. /\ ff \in OpenFile /\ ff.cl = x.c /\ ff.index = v.f.index + 1 /\ ff.used = v.f.used /\ ff.slot = v.f.slot
          /\ ff.pos = v.f.pos
      <4> DEFINE i == v.f.index + 1
      <4>1. i \in Nat
        BY <1>0
      <4> HIDE DEF i
      <4>2. v.f \in OpenFile => [v.f EXCEPT !.cl = x.c, !.index = i] \in OpenFile
        BY <2>4, <4>1 DEF OpenFile
      <4> QED BY <3>0, <4>1, <4>2 DEF OpenFile, i
    <3>3. h = [[v EXCEPT !.m = x.m] EXCEPT !.f = ff]
      BY <1>0, <3>0 DEF OpenFile
    <3> HIDE DEF ff
    <3>4. /\ h.m = x.m /\ h.f = ff /\ h.want = v.want /\ h.got = v.got
          /\ h \in [m : Mem, f : OpenFile, want : Nat, got : Seq(Value)]
      BY <1>0, <2>4, <3>2, <3>3
    <3> HIDE DEF h
    <3>5. h \in Reading(B, R) /\ Same(h, v)
      BY <2>4, <3>2, <3>4 DEF Reading, Same
    <3>6. x.m.ok
      <4>1. x.c # NoCluster => x.m.ok
        BY <2>1, <2>2, <2>4 DEF Follow, LinkOf, Linked, Fail
      <4> QED BY <2>7, <4>1
    <3> QED BY <1>2, <2>2, <2>3, <3>1, <3>2, <3>4, <3>5, <3>6
  <2> QED BY <2>6, <2>7
<1> QED BY <1>0, <1>1, <1>2

\* So many clusters on, as far as the chain goes.
LEMMA WalkedIs ==
  ASSUME NEW B, NEW R, Trusted(B, R), NEW w \in Reading(B, R), w.f.index <= w.f.pos
  PROVE  /\ Walked(w) \in Reading(B, R) /\ Same(Walked(w), w)
         /\ Walked(w).m.ok => w.m.ok /\ Walked(w).f.index = w.f.pos
         /\ B = Current /\ Whence(w) /\ w.want > 0 => On(Walked(w).f) /\ (up /\ w.m.ok => Walked(w).m.ok)
<1> DEFINE N == IF w.f.index < w.f.pos THEN w.f.pos - w.f.index ELSE 0
           X == Reading(B, R)
           dir == w.f.slot.cluster
           Fine == B = Current /\ Whence(w) /\ w.want > 0
           step == [n \in 1 .. N |-> [v \in X |-> NextHop(v)]]
           at[n \in 0 .. N] == IF n = 0 THEN w ELSE NextHop(at[n - 1])
           Good(v, n) == /\ Same(v, w)
                         /\ v.m.ok => w.m.ok /\ v.f.index = w.f.index + n
                         /\ Fine => On(v.f) /\ (up /\ w.m.ok => v.m.ok)
           G == {n \in 0 .. N : at[n] \in X /\ Good(at[n], n)}
<1>0. /\ N \in Nat /\ w.f.pos \in Nat /\ w.f.index \in Nat /\ w.f.index + N = w.f.pos /\ w.want \in Nat
      /\ dir \in Links /\ disk \in Disk
  BY ReadingIs DEF Trusted
<1>1. step \in [1 .. N -> [X -> X]]
  BY HopIs
<1>2. PICK f : Runs(f, N, X, w, step)
  <2> HIDE DEF step, X, N, at
  <2>1. N \in Nat /\ w \in X
    BY <1>0 DEF X
  <2> QED BY ONLY <2>1, <1>1, Loop
<1>3. f = [n \in 0 .. N |-> IF n = 0 THEN w ELSE NextHop(f[n - 1])]
  <2> HIDE DEF X, N
  <2>1. ASSUME NEW n \in 1 .. N PROVE f[n] = NextHop(f[n - 1])
    <3>1. n - 1 \in 0 .. N
      BY <1>0
    <3>2. f[n - 1] \in X /\ f[n] = step[n][f[n - 1]]
      BY <1>2, <3>1 DEF Runs
    <3> QED BY <3>2
  <2>2. \A n \in 0 .. N : n # 0 => n \in 1 .. N
    BY <1>0
  <2>3. \A n \in 0 .. N : f[n] = IF n = 0 THEN w ELSE NextHop(f[n - 1])
    BY <1>2, <2>1, <2>2 DEF Runs
  <2> QED BY <1>2, <2>3 DEF Runs
<1>4. at = [n \in 0 .. N |-> IF n = 0 THEN w ELSE NextHop(at[n - 1])]
  BY <1>3
<1>5. Walked(w) = at[N]
  BY DEF Walked
<1> HIDE DEF at, N, step
<1>6. 0 \in G
  <2>1. at[0] = w
    BY <1>0, <1>4
  <2>2. Good(w, 0)
    BY <1>0 DEF Same, Whence
  <2> HIDE DEF Good
  <2> QED BY <1>0, <2>1, <2>2
<1>7. Fine => /\ Len(Chain(disk, dir)) \in Nat /\ Len(Chain(disk, dir)) <= Clusters /\ Clusters \in Nat
              /\ \A n \in 1 .. Len(Chain(disk, dir)) : Nth(dir, n) \in Cluster
              /\ w.f.pos < Len(Chain(disk, dir))
  BY <1>0, NthOf, ConstantsAre DEF Whence
<1>8. ASSUME NEW n \in 1 .. N, n - 1 \in G PROVE n \in G
  <2> DEFINE v == at[n - 1]
             h == NextHop(v)
  <2>1. at[n] = h /\ v \in X /\ Good(v, n - 1)
    BY <1>0, <1>4, <1>8
  <2> HIDE DEF v, h
  <2>2. /\ h \in X /\ Same(h, v)
        /\ h.m.ok => v.m.ok /\ h.f.index = v.f.index + 1
        /\ ~h.m.ok => h.f.cl = v.f.cl /\ h.f.index = v.f.index
        /\ B = Current /\ h.m.ok => h.f.cl = Behind(v.f.cl)
        /\ B = Current /\ up /\ v.m.ok /\ v.f.cl \in Cluster /\ Behind(v.f.cl) \in Cluster => h.m.ok
    BY <2>1, HopIs DEF h
  <2>3. Same(h, w)
    BY <2>1, <2>2 DEF Same
  <2>4. h.m.ok => w.m.ok /\ h.f.index = w.f.index + n
    BY <1>0, <2>1, <2>2
  <2>5. ASSUME Fine PROVE On(h.f) /\ (up /\ w.m.ok => h.m.ok)
    <3>1. v.f.slot = w.f.slot /\ h.f.slot = w.f.slot /\ On(v.f) /\ (up /\ w.m.ok => v.m.ok)
      BY <2>1, <2>3, <2>5 DEF Same
    <3>2. v.f.cl = Nth(dir, v.f.index + 1)
      BY <3>1 DEF On
    <3>3. v.m.ok => /\ v.f.index + 1 \in 1 .. Clusters
                    /\ Nth(dir, v.f.index + 1) \in Cluster /\ Nth(dir, v.f.index + 2) \in Cluster
      <4>1. SUFFICES ASSUME v.m.ok
                     PROVE  /\ v.f.index + 1 \in 1 .. Clusters
                            /\ Nth(dir, v.f.index + 1) \in Cluster /\ Nth(dir, v.f.index + 2) \in Cluster
        OBVIOUS
      <4>2. v.f.index = w.f.index + (n - 1)
        BY <2>1, <4>1
      <4>3. v.f.index + 1 \in 1 .. Len(Chain(disk, dir)) /\ v.f.index + 2 \in 1 .. Len(Chain(disk, dir))
        BY <1>0, <1>7, <2>5, <4>2
      <4>4. v.f.index + 1 \in 1 .. Clusters
        BY <1>7, <2>5, <4>3
      <4> QED BY <1>7, <2>5, <4>3, <4>4
    <3>4. v.m.ok => v.f.cl \in Cluster /\ Behind(v.f.cl) = Nth(dir, v.f.index + 2)
      <4>1. SUFFICES ASSUME v.m.ok PROVE v.f.cl \in Cluster /\ Behind(v.f.cl) = Nth(dir, v.f.index + 2)
        OBVIOUS
      <4> DEFINE k == v.f.index + 1
      <4>2. k \in 1 .. Clusters /\ k + 1 = v.f.index + 2 /\ Nth(dir, k) \in Cluster /\ v.f.cl = Nth(dir, k)
        BY <3>2, <3>3, <4>1, <2>1, ReadingIs
      <4> HIDE DEF k
      <4>3. Nth(dir, k + 1) = Behind(Nth(dir, k))
        BY <1>0, <4>2, NthIs
      <4> QED BY <4>2, <4>3
    <3>5. On(h.f)
      <4>1. CASE h.m.ok
        <5>1. h.f.cl = Nth(dir, v.f.index + 2) /\ h.f.index + 1 = v.f.index + 2
          BY <2>1, <2>2, <2>5, <3>4, <4>1, ReadingIs
        <5> QED BY <3>1, <5>1 DEF On
      <4>2. CASE ~h.m.ok
        BY <2>2, <3>1, <4>2 DEF On
      <4> QED BY <4>1, <4>2
    <3> QED BY <2>2, <2>5, <3>1, <3>3, <3>4, <3>5
  <2>6. Good(h, n)
    BY <2>3, <2>4, <2>5
  <2> HIDE DEF Good
  <2> QED BY <1>0, <2>1, <2>2, <2>6
<1>9. N \in G
  <2> HIDE DEF G
  <2>1. \A n \in 1 .. N : n - 1 \in G => n \in G
    BY <1>8
  <2> QED BY ONLY <1>0, <1>6, <2>1, LastRound
<1>10. at[N] \in X /\ Good(at[N], N)
  BY <1>9
<1> QED BY <1>0, <1>5, <1>10

\* File.clusterAt.
LEMMA ClusterAtIs ==
  ASSUME NEW B, NEW R, Trusted(B, R), NEW w \in Reading(B, R)
  PROVE  /\ ClusterAt(w) \in Reading(B, R) /\ Same(ClusterAt(w), w)
         /\ ClusterAt(w).m.ok => w.m.ok /\ ClusterAt(w).f.index = w.f.pos
         /\ B = Current /\ Whence(w) /\ w.want > 0 => On(ClusterAt(w).f) /\ (up /\ w.m.ok => ClusterAt(w).m.ok)
<1>0. /\ w.f.pos \in Nat /\ w.f.index \in Nat /\ w.f \in OpenFile
      /\ w \in [m : Mem, f : OpenFile, want : Nat, got : Seq(Value)] /\ Within(w.m, B, R) /\ disk \in Disk
      /\ w.f.slot.cluster \in Links
  BY ReadingIs DEF Reading, Trusted
<1>1. CASE w.f.pos < w.f.index
  <2> DEFINE c == w.f.slot.cluster
             ff == [w.f EXCEPT !.cl = c, !.index = 0]
             v == [w EXCEPT !.f.cl = c, !.f.index = 0]
  <2>1. ClusterAt(w) = Walked(v)
    BY <1>1 DEF ClusterAt
  <2>2. /\ ff \in OpenFile /\ ff.cl = c /\ ff.index = 0 /\ ff.used = w.f.used /\ ff.slot = w.f.slot
        /\ ff.pos = w.f.pos
    BY <1>0 DEF OpenFile
  <2>3. v = [w EXCEPT !.f = ff]
    BY <1>0 DEF OpenFile
  <2> HIDE DEF ff
  <2>4. /\ v.m = w.m /\ v.f = ff /\ v.want = w.want /\ v.got = w.got
        /\ v \in [m : Mem, f : OpenFile, want : Nat, got : Seq(Value)]
    BY <1>0, <2>2, <2>3
  <2> HIDE DEF v
  <2>5. v \in Reading(B, R) /\ Same(v, w) /\ v.f.index <= v.f.pos
    BY <1>0, <2>2, <2>4 DEF Reading, Same
  <2>6. On(v.f)
    <3>1. Nth(c, 1) = c /\ 0 + 1 = 1
      BY <1>0, NthIs
    <3> QED BY <2>2, <2>4, <3>1 DEF On
  <2>7. Whence(w) => Whence(v)
    BY <2>2, <2>4, <2>6 DEF Whence
  <2>8. /\ Walked(v) \in Reading(B, R) /\ Same(Walked(v), v)
        /\ Walked(v).m.ok => v.m.ok /\ Walked(v).f.index = v.f.pos
        /\ B = Current /\ Whence(v) /\ v.want > 0 => On(Walked(v).f) /\ (up /\ v.m.ok => Walked(v).m.ok)
    BY <2>5, WalkedIs
  <2>9. Same(Walked(v), w)
    BY <2>5, <2>8 DEF Same
  <2> QED BY <2>1, <2>2, <2>4, <2>7, <2>8, <2>9
<1>2. CASE ~(w.f.pos < w.f.index)
  <2>1. ClusterAt(w) = Walked(w) /\ w.f.index <= w.f.pos
    BY <1>0, <1>2 DEF ClusterAt
  <2> QED BY <2>1, WalkedIs
<1> QED BY <1>1, <1>2

\* Clusters that follow each other on the disk.
Straights(B, R) == {s \in [m : Mem, c : Links, n : Nat \ {0}] : Within(s.m, B, R)}
Row(x, c) == x.c = c + x.n - 1 /\ (x.n > 1 => \A j \in 1 .. x.n : c + j - 1 \in Cluster)
RowOf(x, c, dir, p) == \A j \in 1 .. x.n : Nth(dir, p + j) = c + j - 1

\* One cluster more of a straight run (gemdos_file.direct).
LEMMA FurtherIs ==
  ASSUME NEW B, NEW R, Trusted(B, R), NEW x \in Straights(B, R), NEW c \in Links, Row(x, c),
         NEW y, y = Further(x, Follow([m |-> x.m, c |-> x.c]))
  PROVE  /\ y \in Straights(B, R) /\ Row(y, c) /\ (y.m.ok => x.m.ok)
         /\ y.n = x.n \/ (y.n = x.n + 1 /\ (B = Current => y.c = Behind(x.c)) /\ x.c \in Cluster)
         /\ B = Current /\ up /\ x.m.ok /\ x.c \in Cluster /\ Marked(x.c) => y.m.ok
<1> DEFINE w == [m |-> x.m, c |-> x.c]
           z == Follow(w)
<1>0. x.m \in Mem /\ x.c \in Links /\ x.n \in Nat \ {0} /\ Within(x.m, B, R) /\ c \in Nat
      /\ x \in [m : Mem, c : Links, n : Nat \ {0}] /\ x.m.ok \in BOOLEAN
  BY LinksAre, FailIs DEF Straights
<1>1. w \in Cursors(B, R) /\ w.m = x.m /\ w.c = x.c
  BY <1>0 DEF Cursors
<1>2. y = Further(x, z)
  OBVIOUS
<1> HIDE DEF w
<1>3. /\ z \in Cursors(B, R)
      /\ z.m.ok => x.m.ok /\ x.c \in Cluster
      /\ B = Current /\ z.m.ok => z.c = Behind(x.c)
      /\ B = Current /\ up /\ x.m.ok /\ x.c \in Cluster /\ Marked(x.c) => z.m.ok
  BY <1>1, FollowIs
<1> HIDE DEF z
<1>4. z.m \in Mem /\ Within(z.m, B, R) /\ z.c \in Links
  BY <1>3 DEF Cursors
<1>5. CASE z.m.ok /\ z.c = x.c + 1
  <2>1. y = [m |-> z.m, c |-> z.c, n |-> x.n + 1]
    BY <1>2, <1>5 DEF Further
  <2>2. y.m = z.m /\ y.c = x.c + 1 /\ y.n = x.n + 1 /\ y.c \in Cluster /\ x.c \in Cluster
    BY <1>0, <1>3, <1>4, <1>5, <2>1, LinksAre DEF Links, NoCluster
  <2>3. y \in Straights(B, R)
    BY <1>0, <1>4, <2>1 DEF Straights
  <2>4. Row(y, c)
    <3>1. y.c = c + y.n - 1
      BY <1>0, <2>2 DEF Row
    <3>2. ASSUME NEW j \in 1 .. y.n PROVE c + j - 1 \in Cluster
      <4>1. CASE j = y.n
        BY <2>2, <3>1, <4>1
      <4>2. CASE j # y.n /\ x.n > 1
        <5>1. j \in 1 .. x.n
          BY <1>0, <2>2, <4>2
        <5> QED BY <4>2, <5>1 DEF Row
      <4>3. CASE j # y.n /\ ~(x.n > 1)
        <5>1. j = 1 /\ x.n = 1 /\ x.c = c
          BY <1>0, <2>2, <4>3 DEF Row
        <5>2. c + j - 1 = c
          BY <1>0, <5>1
        <5> QED BY <2>2, <5>1, <5>2
      <4> QED BY <4>1, <4>2, <4>3
    <3> QED BY <3>1, <3>2 DEF Row
  <2> QED BY <1>3, <1>5, <2>1, <2>2, <2>3, <2>4
<1>6. CASE ~(z.m.ok /\ z.c = x.c + 1)
  <2>1. y = [x EXCEPT !.m = z.m]
    BY <1>2, <1>6 DEF Further
  <2>2. y.m = z.m /\ y.c = x.c /\ y.n = x.n /\ y \in [m : Mem, c : Links, n : Nat \ {0}]
    BY <1>0, <1>4, <2>1
  <2>3. y \in Straights(B, R) /\ Row(y, c)
    BY <1>4, <2>2 DEF Straights, Row
  <2> QED BY <1>3, <2>2, <2>3
<1> QED BY <1>5, <1>6

\* A straight run of clusters: each lies behind the one before, on the disk and in the chain.
LEMMA StraightIs ==
  ASSUME NEW B, NEW R, Trusted(B, R), NEW s \in Straights(B, R), s.n = 1, NEW most \in Nat \ {0},
         NEW dir \in Links, NEW p \in Nat
  PROVE  /\ Straight(s, most) \in Straights(B, R) /\ Straight(s, most).n <= most
         /\ Row(Straight(s, most), s.c)
         /\ Straight(s, most).m.ok => s.m.ok
         /\ B = Current /\ s.c = Nth(dir, p + 1) /\ Whole(dir) /\ p + most <= Len(Chain(disk, dir)) =>
              RowOf(Straight(s, most), s.c, dir, p) /\ (up /\ s.m.ok => Straight(s, most).m.ok)
<1> DEFINE N == most - 1
           X == {x \in Straights(B, R) : Row(x, s.c)}
           Fine == B = Current /\ s.c = Nth(dir, p + 1) /\ Whole(dir) /\ p + most <= Len(Chain(disk, dir))
           next(x) == Further(x, Follow([m |-> x.m, c |-> x.c]))
           step == [n \in 1 .. N |-> [x \in X |-> next(x)]]
           run[n \in 0 .. N] ==
             IF n = 0 THEN s ELSE Further(run[n - 1], Follow([m |-> run[n - 1].m, c |-> run[n - 1].c]))
           Good(x, n) == /\ x.n <= n + 1
                         /\ x.m.ok => s.m.ok
                         /\ Fine => RowOf(x, s.c, dir, p) /\ (up /\ s.m.ok => x.m.ok)
           G == {n \in 0 .. N : run[n] \in X /\ Good(run[n], n)}
<1>0. N \in Nat /\ s.c \in Links /\ s.c \in Nat /\ disk \in Disk
  <2>1. s.c \in Links /\ s.c \in Nat
    BY LinksAre DEF Straights
  <2>2. N \in Nat
    OBVIOUS
  <2> QED BY <2>1, <2>2 DEF Trusted
<1>1. s \in X
  BY <1>0 DEF Row
<1>2. step \in [1 .. N -> [X -> X]]
  <2>1. \A x \in X : next(x) \in X
    BY <1>0, FurtherIs
  <2> HIDE DEF next, X
  <2> QED BY <2>1
<1>3. PICK f : Runs(f, N, X, s, step)
  <2> HIDE DEF step, X, N, run
  <2>1. N \in Nat
    BY <1>0
  <2> QED BY ONLY <2>1, <1>1, <1>2, Loop
<1>4. f = [n \in 0 .. N |-> IF n = 0 THEN s ELSE next(f[n - 1])]
  <2> HIDE DEF X, N, next
  <2>1. ASSUME NEW n \in 1 .. N PROVE f[n] = next(f[n - 1])
    <3>1. n - 1 \in 0 .. N
      BY <1>0
    <3>2. f[n - 1] \in X /\ f[n] = step[n][f[n - 1]]
      BY <1>3, <3>1 DEF Runs
    <3> QED BY <3>2
  <2>2. \A n \in 0 .. N : n # 0 => n \in 1 .. N
    BY <1>0
  <2>3. \A n \in 0 .. N : f[n] = IF n = 0 THEN s ELSE next(f[n - 1])
    BY <1>3, <2>1, <2>2 DEF Runs
  <2> QED BY <1>3, <2>3 DEF Runs
<1>5. run = [n \in 0 .. N |-> IF n = 0 THEN s ELSE next(run[n - 1])]
  BY <1>4
<1>6. Straight(s, most) = run[N]
  BY DEF Straight
<1> HIDE DEF run, N, step, next
<1>7. 0 \in G
  <2>1. run[0] = s
    BY <1>0, <1>5
  <2>2. RowOf(s, s.c, dir, p) <=> s.c = Nth(dir, p + 1)
    <3>1. s.c + 1 - 1 = s.c
      BY <1>0
    <3> QED BY <3>1 DEF RowOf
  <2>3. Good(s, 0)
    BY <2>2
  <2> HIDE DEF Good, X
  <2> QED BY <1>0, <1>1, <2>1, <2>3
<1>8. Fine => /\ Len(Chain(disk, dir)) \in Nat /\ Len(Chain(disk, dir)) <= Clusters /\ Clusters \in Nat
              /\ \A n \in 1 .. Len(Chain(disk, dir)) : Nth(dir, n) \in Cluster
              /\ p + N < Len(Chain(disk, dir))
  BY <1>0, NthOf, ConstantsAre DEF N
<1>9. ASSUME NEW n \in 1 .. N, n - 1 \in G PROVE n \in G
  <2> DEFINE x == run[n - 1]
             y == next(x)
  <2>1. run[n] = y /\ x \in X /\ Good(x, n - 1)
    BY <1>0, <1>5, <1>9
  <2> HIDE DEF x
  <2>2. /\ y \in Straights(B, R) /\ Row(y, s.c) /\ (y.m.ok => x.m.ok)
        /\ y.n = x.n \/ (y.n = x.n + 1 /\ (B = Current => y.c = Behind(x.c)) /\ x.c \in Cluster)
        /\ B = Current /\ up /\ x.m.ok /\ x.c \in Cluster /\ Marked(x.c) => y.m.ok
    BY <1>0, <2>1, FurtherIs DEF next
  <2> HIDE DEF y
  <2>3. x.n \in Nat \ {0} /\ y.n \in Nat \ {0} /\ x.c = s.c + x.n - 1 /\ y.c = s.c + y.n - 1 /\ x.n <= n
    BY <2>1, <2>2 DEF Straights, Row
  <2>4. ASSUME Fine PROVE RowOf(y, s.c, dir, p) /\ (up /\ s.m.ok => y.m.ok)
    <3> DEFINE k == p + x.n
    <3>1. k \in 1 .. Len(Chain(disk, dir)) /\ k \in 1 .. Clusters /\ k + 1 = p + (x.n + 1)
      <4>1. /\ Len(Chain(disk, dir)) \in Nat /\ Len(Chain(disk, dir)) <= Clusters /\ Clusters \in Nat
            /\ p + N < Len(Chain(disk, dir))
        BY <1>8, <2>4
      <4> HIDE DEF Fine
      <4>2. p + x.n \in Nat \ {0} /\ p + x.n <= p + N
        BY <1>0, <2>3
      <4>3. p \in Nat /\ N \in Nat /\ x.n \in Nat
        BY <1>0, <2>3
      <4> DEFINE long == Len(Chain(disk, dir))
                 a == x.n
      <4>4. /\ p \in Nat /\ N \in Nat /\ a \in Nat /\ long \in Nat /\ Clusters \in Nat
            /\ long <= Clusters /\ p + N < long /\ p + a >= 1 /\ p + a <= p + N
        BY <4>1, <4>2, <4>3
      <4> HIDE DEF long, a
      <4>5. p + a \in 1 .. long /\ p + a \in 1 .. Clusters /\ (p + a) + 1 = p + (a + 1)
        BY ONLY <4>4
      <4> QED BY <4>5 DEF long, a
    <3>2. RowOf(x, s.c, dir, p) /\ (up /\ s.m.ok => x.m.ok)
      BY <2>1, <2>4
    <3>3. Nth(dir, k) = x.c
      <4>1. x.n \in 1 .. x.n
        BY <2>3
      <4> QED BY <2>3, <3>2, <4>1 DEF RowOf
    <3> HIDE DEF k
    <3>4. x.c \in Cluster /\ Nth(dir, k + 1) = Behind(x.c) /\ Marked(x.c)
      BY <1>0, <1>8, <2>4, <3>1, <3>3, NthIs
    <3>5. RowOf(y, s.c, dir, p)
      <4>1. CASE y.n = x.n
        BY <3>2, <4>1 DEF RowOf
      <4>2. CASE y.n # x.n
        <5>1. y.n = x.n + 1 /\ y.c = Nth(dir, p + y.n)
          BY <2>2, <2>4, <3>1, <3>4, <4>2
        <5>2. ASSUME NEW j \in 1 .. y.n PROVE Nth(dir, p + j) = s.c + j - 1
          <6>1. CASE j = y.n
            BY <2>3, <5>1, <6>1
          <6>2. CASE j # y.n
            <7>1. j \in 1 .. x.n
              BY <2>3, <5>1, <6>2
            <7> QED BY <3>2, <7>1 DEF RowOf
          <6> QED BY <6>1, <6>2
        <5> QED BY <5>2 DEF RowOf
      <4> QED BY <4>1, <4>2
    <3> QED BY <2>2, <2>4, <3>2, <3>4, <3>5
  <2>5. y.n <= n + 1 /\ (y.m.ok => s.m.ok)
    BY <2>1, <2>2, <2>3
  <2>6. Good(y, n) /\ y \in X
    BY <2>2, <2>4, <2>5
  <2> HIDE DEF Good, X
  <2> QED BY <1>0, <2>1, <2>6
<1>10. N \in G
  <2> HIDE DEF G
  <2>1. \A n \in 1 .. N : n - 1 \in G => n \in G
    BY <1>9
  <2> QED BY ONLY <1>0, <1>7, <2>1, LastRound
<1>11. run[N] \in X /\ Good(run[N], N) /\ N + 1 = most
  BY <1>10, <1>0 DEF N
<1> QED BY <1>6, <1>11

\* The lesser of two numbers.
LEMMA MinOfTwo ==
  ASSUME NEW a \in Nat, NEW b \in Nat
  PROVE  Min({a, b}) \in {a, b} /\ Min({a, b}) <= a /\ Min({a, b}) <= b
<1>1. \E x \in {a, b} : \A y \in {a, b} : x <= y
  <2>1. CASE a <= b
    BY <2>1
  <2>2. CASE b <= a
    BY <2>2
  <2> QED BY <2>1, <2>2
<1> QED BY <1>1 DEF Min

\* Two sequences, one behind the other.
LEMMA JoinIs ==
  ASSUME NEW S, NEW s \in Seq(S), NEW t \in Seq(S)
  PROVE  /\ s \o t \in Seq(S) /\ Len(s \o t) = Len(s) + Len(t)
         /\ \A j \in 1 .. Len(s) : (s \o t)[j] = s[j]
         /\ \A j \in 1 .. Len(t) : (s \o t)[Len(s) + j] = t[j]
OBVIOUS

\* How a read goes on: nothing but the position moves, and what it skips was
\* copied.
Onto(v, w) == /\ v.f.used = w.f.used /\ v.f.slot = w.f.slot
              /\ v.f.pos + v.want = w.f.pos + w.want /\ v.f.pos >= w.f.pos
              /\ v.m.ok => w.m.ok
Copied(v, w) ==
  /\ Len(v.got) = Len(w.got) + (v.f.pos - w.f.pos)
  /\ \A j \in 1 .. Len(w.got) : v.got[j] = w.got[j]
  /\ \A j \in 1 .. (v.f.pos - w.f.pos) :
       v.got[Len(w.got) + j] = disk.data[Nth(w.f.slot.cluster, w.f.pos + j)]

\* The sectors of clusters that follow each other.
LEMMA BlockIs ==
  ASSUME disk \in Disk, NEW s, s.n \in Nat \ {0}, NEW c \in Links, Row(s, c)
  PROVE  LET block == [k \in 1 .. s.n |-> Content(ClusterSector(c) + k - 1)]
         IN  /\ block \in Seq(Value) /\ Len(block) = s.n
             /\ \A k \in 1 .. s.n : c + k - 1 \in Cluster => block[k] = disk.data[c + k - 1]
<1> DEFINE n == s.n
           block == [k \in 1 .. n |-> Content(ClusterSector(c) + k - 1)]
<1>1. n \in Nat \ {0} /\ c \in Nat /\ NFats \in {1, 2} /\ ClusterSector(c) = NFats + c - 1 /\ Clusters \in Nat \ {0}
      /\ LastSector = NFats + Clusters
  BY LinksAre, KfsDiskAssumption, SectorsAre DEF ClusterSector, DataStart
<1>2. ASSUME NEW k \in 1 .. n, c + k - 1 \in Cluster
      PROVE  ClusterSector(c) + k - 1 \in 0 .. LastSector /\ Content(ClusterSector(c) + k - 1) = disk.data[c + k - 1]
  <2> DEFINE x == c + k - 1
  <2>1. ClusterSector(x) \in 0 .. LastSector /\ ClusterSector(x) = NFats + x - 1 /\ Content(ClusterSector(x)) = disk.data[x]
    BY <1>2, SectorsAre, ContentIs
  <2>2. ClusterSector(c) + k - 1 = NFats + x - 1
    BY <1>1
  <2> QED BY <2>1, <2>2
<1>3. ASSUME NEW k \in 1 .. n PROVE Content(ClusterSector(c) + k - 1) \in Value
  <2>1. ClusterSector(c) + k - 1 \in 0 .. LastSector
    <3>1. CASE c + k - 1 \in Cluster
      BY <1>2, <3>1
    <3>2. CASE c + k - 1 \notin Cluster
      <4>1. n = 1 /\ k = 1
        <5>1. ~(n > 1)
          BY <3>2 DEF Row
        <5> QED BY <1>1, <5>1
      <4>2. c = NoCluster
        <5>1. c + 1 - 1 = c
          BY <1>1
        <5> QED BY <3>2, <4>1, <5>1 DEF Links
      <4>3. ClusterSector(c) + k - 1 = NFats - 1
        BY <1>1, <4>1, <4>2 DEF NoCluster
      <4> QED BY <1>1, <4>3
    <3> QED BY <3>1, <3>2
  <2> QED BY <2>1, ContentIs
<1>4. block \in Seq(Value) /\ Len(block) = n /\ \A k \in 1 .. n : block[k] = Content(ClusterSector(c) + k - 1)
  <2> HIDE DEF n
  <2> QED BY <1>1, <1>3
<1>5. \A k \in 1 .. n : c + k - 1 \in Cluster => block[k] = disk.data[c + k - 1]
  <2> HIDE DEF block, n
  <2> QED BY <1>2, <1>4
<1> QED BY <1>4, <1>5

\* File.direct.
LEMMA DirectIs ==
  ASSUME NEW B, NEW R, Trusted(B, R), NEW w \in Reading(B, R), w.m.ok, w.f.index = w.f.pos,
         NEW s \in Straights(B, R), Row(s, w.f.cl), s.n <= w.want
  PROVE  /\ Direct(w, s) \in Reading(B, R) /\ Onto(Direct(w, s), w)
         /\ ~Direct(w, s).m.ok => Direct(w, s).f = w.f
         /\ Direct(w, s).m.ok => Direct(w, s).want < w.want
         /\ s.m.ok /\ up => Direct(w, s).m.ok
         /\ Direct(w, s).m.ok /\ RowOf(s, w.f.cl, w.f.slot.cluster, w.f.pos)
              /\ w.f.pos + w.want <= Len(Chain(disk, w.f.slot.cluster)) =>
              On(Direct(w, s).f) /\ Copied(Direct(w, s), w)
<1> DEFINE n == s.n
           c == w.f.cl
           block == [k \in 1 .. n |-> Content(ClusterSector(c) + k - 1)]
           d == Direct(w, s)
<1>0. /\ w \in [m : Mem, f : OpenFile, want : Nat, got : Seq(Value)] /\ w.f \in OpenFile /\ w.got \in Seq(Value)
      /\ w.want \in Nat /\ w.f.pos \in Nat /\ c \in Links /\ disk \in Disk /\ w.f.slot.cluster \in Links
      /\ s.m \in Mem /\ Within(s.m, B, R) /\ n \in Nat \ {0} /\ s.c \in Links /\ s.m.ok \in BOOLEAN /\ up \in BOOLEAN
  BY ReadingIs, FailIs DEF Reading, Straights, Trusted
<1>1. CASE ~s.m.ok \/ ~up
  <2>1. d = [w EXCEPT !.m = Fail(s.m)]
    BY <1>1 DEF Direct
  <2>2. Fail(s.m) \in Mem /\ Within(Fail(s.m), B, R) /\ ~Fail(s.m).ok
    BY <1>0, FailIs DEF Within
  <2> HIDE DEF d
  <2>3. /\ d \in [m : Mem, f : OpenFile, want : Nat, got : Seq(Value)] /\ d.m = Fail(s.m) /\ d.f = w.f
        /\ d.want = w.want
    BY <1>0, <2>1, <2>2
  <2>4. d \in Reading(B, R) /\ Onto(d, w) /\ ~d.m.ok
    BY <1>0, <2>2, <2>3 DEF Reading, Onto
  <2> QED BY <1>1, <2>3, <2>4 DEF d
<1>2. CASE s.m.ok /\ up
  <2> DEFINE ff == [w.f EXCEPT !.cl = s.c, !.index = w.f.pos + n - 1, !.pos = w.f.pos + n]
  <2>1. d = [w EXCEPT !.m = s.m, !.f = ff, !.want = w.want - n, !.got = w.got \o block]
    BY <1>2 DEF Direct
  <2>2. /\ block \in Seq(Value) /\ Len(block) = n
        /\ \A k \in 1 .. n : c + k - 1 \in Cluster => block[k] = disk.data[c + k - 1]
    BY <1>0, BlockIs
  <2>3. w.f.pos + n - 1 \in Nat /\ w.f.pos + n \in Nat /\ w.want - n \in Nat
    BY <1>0
  <2>4. /\ ff \in OpenFile /\ ff.cl = s.c /\ ff.index = w.f.pos + n - 1 /\ ff.pos = w.f.pos + n
        /\ ff.used = w.f.used /\ ff.slot = w.f.slot
    <3> DEFINE i == w.f.pos + n - 1
               q == w.f.pos + n
    <3>1. i \in Nat /\ q \in Nat /\ ff = [w.f EXCEPT !.cl = s.c, !.index = i, !.pos = q]
      BY <1>0, <2>3
    <3> HIDE DEF i, q, ff
    <3>2. /\ ff \in OpenFile /\ ff.cl = s.c /\ ff.index = i /\ ff.pos = q
          /\ ff.used = w.f.used /\ ff.slot = w.f.slot
      BY <1>0, <3>1 DEF OpenFile
    <3> QED BY <3>2 DEF i, q
  <2> HIDE DEF block, ff
  <2>5. /\ w.got \o block \in Seq(Value) /\ Len(w.got \o block) = Len(w.got) + n
        /\ \A j \in 1 .. Len(w.got) : (w.got \o block)[j] = w.got[j]
        /\ \A j \in 1 .. n : (w.got \o block)[Len(w.got) + j] = block[j]
    BY <1>0, <2>2, JoinIs
  <2> DEFINE both == w.got \o block
             left == w.want - n
  <2>6. d = [w EXCEPT !.m = s.m, !.f = ff, !.want = left, !.got = both]
    BY <1>0, <2>1
  <2>7. both \in Seq(Value) /\ left \in Nat
    BY <2>3, <2>5
  <2> HIDE DEF d, both, left
  <2>8. /\ d \in [m : Mem, f : OpenFile, want : Nat, got : Seq(Value)] /\ d.m = s.m /\ d.f = ff
        /\ d.want = left /\ d.got = both
    BY <1>0, <2>4, <2>6, <2>7
  <2>9. d \in Reading(B, R)
    BY <1>0, <2>8 DEF Reading
  <2>10. Onto(d, w) /\ d.want < w.want
    <3>1. d.f.pos = w.f.pos + n /\ d.want = w.want - n /\ d.f.used = w.f.used /\ d.f.slot = w.f.slot
      BY <2>4, <2>8 DEF left
    <3>2. d.f.pos + d.want = w.f.pos + w.want /\ d.f.pos >= w.f.pos /\ d.want < w.want
      <4> HIDE DEF n
      <4> QED BY <1>0, <3>1
    <3> QED BY <3>1, <3>2 DEF Onto
  <2>11. ASSUME RowOf(s, c, w.f.slot.cluster, w.f.pos),
                w.f.pos + w.want <= Len(Chain(disk, w.f.slot.cluster))
         PROVE  On(d.f) /\ Copied(d, w)
    <3> DEFINE dir == w.f.slot.cluster
    <3>1. \A j \in 1 .. n : Nth(dir, w.f.pos + j) = c + j - 1 /\ Nth(dir, w.f.pos + j) \in Cluster
      <4>1. SUFFICES ASSUME NEW j \in 1 .. n PROVE Nth(dir, w.f.pos + j) \in Cluster
        BY <2>11 DEF RowOf
      <4>2. w.f.pos + j \in 1 .. Len(Chain(disk, dir))
        <5>1. Len(Chain(disk, dir)) \in Nat
          BY <1>0, NthOf, ConstantsAre
        <5>2. w.f.pos + w.want <= Len(Chain(disk, dir)) /\ n <= w.want
          BY <2>11
        <5> HIDE DEF dir, n
        <5> QED BY <1>0, <5>1, <5>2
      <4> QED BY <1>0, <4>2, NthOf
    <3>2. On(d.f)
      <4>1. Nth(dir, w.f.pos + n) = c + n - 1 /\ s.c = c + n - 1
        BY <1>0, <3>1 DEF Row
      <4>2. w.f.pos + n - 1 + 1 = w.f.pos + n
        BY <1>0
      <4> QED BY <2>4, <2>8, <4>1, <4>2 DEF On
    <3>3. d.f.pos - w.f.pos = n
      BY <1>0, <2>4, <2>8
    <3>4. Copied(d, w)
      <4>1. \A j \in 1 .. n : d.got[Len(w.got) + j] = disk.data[Nth(dir, w.f.pos + j)]
        BY <2>2, <2>5, <2>8, <3>1 DEF both
      <4> QED BY <2>5, <2>8, <3>3, <4>1 DEF Copied, both
    <3> QED BY <3>2, <3>4
  <2> QED BY <1>2, <2>8, <2>9, <2>10, <2>11 DEF d
<1> QED BY <1>0, <1>1, <1>2

\* File.viaCache.
LEMMA ViaCacheIs ==
  ASSUME NEW B, NEW R, Trusted(B, R), NEW w \in Reading(B, R), w.m.ok, w.f.index = w.f.pos, w.want > 0,
         NEW v, v = ViaCache(w, Fetch(w.m, ClusterSector(w.f.cl)))
  PROVE  /\ v \in Reading(B, R) /\ Onto(v, w)
         /\ ~v.m.ok => v.f = w.f
         /\ v.m.ok => v.want < w.want
         /\ up => v.m.ok
         /\ B = Current /\ v.m.ok /\ On(w.f) /\ w.f.pos + w.want <= Len(Chain(disk, w.f.slot.cluster)) =>
              On(v.f) /\ Copied(v, w)
<1> DEFINE n == ClusterSector(w.f.cl)
           m == Fetch(w.m, n)
<1>0. /\ w \in [m : Mem, f : OpenFile, want : Nat, got : Seq(Value)] /\ w.f \in OpenFile /\ w.got \in Seq(Value)
      /\ w.want \in Nat /\ w.f.pos \in Nat /\ w.f.cl \in Links /\ disk \in Disk /\ w.f.slot.cluster \in Links
      /\ Within(w.m, B, R)
  BY ReadingIs DEF Reading, Trusted
<1>1. n \in 0 .. LastSector /\ (w.f.cl \in Cluster => n >= DataStart /\ Content(n) = disk.data[w.f.cl])
  <2>1. CASE w.f.cl \in Cluster
    BY <1>0, <2>1, SectorsAre, ContentIs
  <2>2. CASE w.f.cl \notin Cluster
    <3>1. w.f.cl = 0
      BY <1>0, <2>2 DEF Links, NoCluster
    <3>2. NFats \in {1, 2} /\ Clusters \in Nat \ {0} /\ LastSector = NFats + Clusters
      BY KfsDiskAssumption, SectorsAre
    <3>3. n = NFats - 1
      BY <3>1, <3>2 DEF ClusterSector, DataStart
    <3> QED BY <2>2, <3>2, <3>3
  <2> QED BY <2>1, <2>2
<1> HIDE DEF n
<1>2. Within(m, B, R) /\ (m.ok => <<n, m.buf>> \in B) /\ (up => m.ok) /\ m.ok \in BOOLEAN /\ m \in Mem
  <2>1. Within(m, B, R) /\ (m.ok => <<n, m.buf>> \in B) /\ (up => m.ok)
    BY <1>0, <1>1, FetchIs
  <2> HIDE DEF m
  <2>2. m.ok \in BOOLEAN
    BY <2>1, FailIs
  <2> QED BY <2>1, <2>2 DEF Within
<1>3. v = ViaCache(w, m)
  BY DEF n
<1> HIDE DEF m
<1>4. CASE ~m.ok
  <2>1. v = [w EXCEPT !.m = m]
    BY <1>3, <1>4 DEF ViaCache
  <2>2. v \in [m : Mem, f : OpenFile, want : Nat, got : Seq(Value)] /\ v.m = m /\ v.f = w.f /\ v.want = w.want
    BY <1>0, <1>2, <2>1
  <2> QED BY <1>0, <1>2, <1>4, <2>2 DEF Reading, Onto
<1>5. CASE m.ok
  <2> DEFINE ff == [w.f EXCEPT !.pos = w.f.pos + 1]
             left == w.want - 1
             both == Append(w.got, m.buf)
  <2>1. v = [w EXCEPT !.m = m, !.f.pos = @ + 1, !.want = @ - 1, !.got = Append(@, m.buf)]
    BY <1>3, <1>5 DEF ViaCache
  <2>2. v = [w EXCEPT !.m = m, !.f = ff, !.want = left, !.got = both]
    BY <1>0, <2>1 DEF OpenFile
  <2>3. m.buf \in Value
    BY <1>2, <1>5 DEF Trusted, Sectors
  <2>4. /\ both \in Seq(Value) /\ Len(both) = Len(w.got) + 1 /\ both[Len(w.got) + 1] = m.buf
        /\ \A j \in 1 .. Len(w.got) : both[j] = w.got[j]
    BY <1>0, <2>3, AppendIs
  <2>5. /\ ff \in OpenFile /\ ff.cl = w.f.cl /\ ff.index = w.f.index /\ ff.pos = w.f.pos + 1
        /\ ff.used = w.f.used /\ ff.slot = w.f.slot
    <3> DEFINE q == w.f.pos + 1
    <3>1. q \in Nat
      BY <1>0
    <3> HIDE DEF q
    <3>2. ff = [w.f EXCEPT !.pos = q]
      BY DEF q
    <3> HIDE DEF ff
    <3>3. /\ ff \in OpenFile /\ ff.cl = w.f.cl /\ ff.index = w.f.index /\ ff.pos = q
          /\ ff.used = w.f.used /\ ff.slot = w.f.slot
      BY <1>0, <3>1, <3>2 DEF OpenFile
    <3> QED BY <3>3 DEF q
  <2>6. left \in Nat
    BY <1>0
  <2> HIDE DEF ff, left, both
  <2>7. /\ v \in [m : Mem, f : OpenFile, want : Nat, got : Seq(Value)] /\ v.m = m /\ v.f = ff
        /\ v.want = left /\ v.got = both
    BY <1>0, <1>2, <2>2, <2>4, <2>5, <2>6
  <2>8. v \in Reading(B, R)
    BY <1>2, <2>7 DEF Reading
  <2>9. Onto(v, w) /\ v.want < w.want
    <3>1. v.f.pos = w.f.pos + 1 /\ v.want = w.want - 1 /\ v.f.used = w.f.used /\ v.f.slot = w.f.slot
      BY <2>5, <2>7 DEF left
    <3> DEFINE pos == w.f.pos
               want == w.want
               ahead == v.f.pos
               rest == v.want
    <3>2. ahead + rest = pos + want /\ ahead >= pos /\ rest < want
      <4>1. pos \in Nat /\ want \in Nat /\ ahead = pos + 1 /\ rest = want - 1
        BY <1>0, <3>1
      <4> HIDE DEF pos, want, ahead, rest
      <4> QED BY ONLY <4>1
    <3> QED BY <3>1, <3>2 DEF Onto
  <2>10. ASSUME B = Current, On(w.f), w.f.pos + w.want <= Len(Chain(disk, w.f.slot.cluster))
         PROVE  On(v.f) /\ Copied(v, w)
    <3> DEFINE dir == w.f.slot.cluster
    <3>1. w.f.cl = Nth(dir, w.f.pos + 1)
      BY <2>10 DEF On
    <3>2. w.f.cl \in Cluster
      <4>1. Len(Chain(disk, dir)) \in Nat
        BY <1>0, NthOf, ConstantsAre
      <4>2. w.f.pos + 1 \in 1 .. Len(Chain(disk, dir))
        BY <1>0, <2>10, <4>1
      <4> QED BY <1>0, <3>1, <4>2, NthOf
    <3>3. m.buf = disk.data[w.f.cl]
      <4>1. m.buf = Content(n)
        BY <1>2, <1>5, <2>10 DEF Current
      <4> QED BY <1>1, <3>2, <4>1
    <3>4. On(v.f)
      BY <2>5, <2>7, <2>10 DEF On
    <3>5. v.f.pos - w.f.pos = 1
      BY <1>0, <2>5, <2>7
    <3>6. Copied(v, w)
      BY <2>4, <2>7, <3>1, <3>3, <3>5 DEF Copied
    <3> QED BY <3>4, <3>6
  <2> QED BY <1>2, <1>5, <2>7, <2>8, <2>9, <2>10
<1> QED BY <1>2, <1>4, <1>5

\* One piece of a read.
LEMMA NextPieceIs ==
  ASSUME NEW B, NEW R, Trusted(B, R), NEW w \in Reading(B, R), NEW aligned \in BOOLEAN,
         NEW v, v = NextPiece(w, aligned)
  PROVE  /\ v \in Reading(B, R) /\ Onto(v, w)
         /\ v.m.ok => v.want = 0 \/ v.want < w.want
         /\ B = Current /\ Whence(w) => /\ On(v.f)
                                        /\ v.m.ok => Copied(v, w)
                                        /\ up /\ w.m.ok => v.m.ok
<1>0. /\ Within(w.m, B, R) /\ w.m.ok \in BOOLEAN /\ w.want \in Nat /\ w.got \in Seq(Value) /\ w.f.pos \in Nat
      /\ w.f.slot.cluster \in Links /\ up \in BOOLEAN /\ disk \in Disk
  BY ReadingIs DEF Trusted
<1>1. CASE w.want = 0 \/ ~w.m.ok
  <2>1. v = w
    BY <1>1 DEF NextPiece
  <2>2. Onto(w, w) /\ Copied(w, w)
    <3>1. w.f.pos - w.f.pos = 0 /\ Len(w.got) \in Nat
      BY <1>0
    <3> QED BY <1>0, <3>1 DEF Onto, Copied
  <2> QED BY <1>1, <2>1, <2>2 DEF Whence
<1>2. CASE w.want # 0 /\ w.m.ok
  <2> DEFINE u == ClusterAt(w)
  <2>1. v = Piece(u, aligned)
    BY <1>2 DEF NextPiece
  <2>2. /\ u \in Reading(B, R) /\ Same(u, w)
        /\ u.m.ok => w.m.ok /\ u.f.index = w.f.pos
        /\ B = Current /\ Whence(w) => On(u.f) /\ (up => u.m.ok)
    BY <1>0, <1>2, ClusterAtIs
  <2> HIDE DEF u
  <2>3. /\ u.f.pos = w.f.pos /\ u.want = w.want /\ u.got = w.got /\ u.f.slot = w.f.slot /\ u.want > 0
        /\ u.m.ok \in BOOLEAN /\ u.f.cl \in Links /\ Within(u.m, B, R) /\ u.m \in Mem
    BY <1>0, <1>2, <2>2, ReadingIs DEF Same
  <2>4. B = Current /\ Whence(w) => Whence(u)
    BY <2>2, <2>3 DEF Whence
  <2>5. ASSUME NEW x, Onto(x, u), u.m.ok
        PROVE  Onto(x, w) /\ (Copied(x, u) => Copied(x, w))
    BY <1>2, <2>2, <2>3, <2>5 DEF Onto, Copied, Same
  <2>6. CASE ~u.m.ok
    <3>1. v = u
      BY <2>1, <2>6 DEF Piece
    <3>2. Onto(u, w)
      BY <1>0, <1>2, <2>2, <2>3 DEF Onto, Same
    <3> QED BY <1>2, <2>2, <2>6, <3>1, <3>2
  <2>7. CASE u.m.ok /\ u.want >= Run /\ aligned
    <3> DEFINE most == Min({u.want, MaxRun})
               s == [m |-> u.m, c |-> u.f.cl, n |-> 1]
               t == Straight(s, most)
               dir == u.f.slot.cluster
    <3>1. v = Direct(u, t)
      BY <2>1, <2>7 DEF Piece
    <3>2. most \in Nat \ {0} /\ most <= u.want
      <4>1. u.want \in Nat /\ MaxRun \in Nat \ {0}
        BY <1>0, <2>3, GemdosReadAssumption
      <4> HIDE DEF u
      <4> QED BY <2>3, <4>1, MinOfTwo
    <3> HIDE DEF most
    <3>3. s \in Straights(B, R) /\ s.n = 1 /\ s.c = u.f.cl /\ s.m = u.m
      BY <2>3 DEF Straights
    <3> HIDE DEF s
    <3>4. /\ t \in Straights(B, R) /\ t.n <= most /\ Row(t, s.c)
          /\ B = Current /\ s.c = Nth(dir, u.f.pos + 1) /\ Whole(dir) /\ u.f.pos + most <= Len(Chain(disk, dir)) =>
               RowOf(t, s.c, dir, u.f.pos) /\ (up /\ s.m.ok => t.m.ok)
      BY <1>0, <2>3, <3>2, <3>3, StraightIs
    <3>5. u.f.index = u.f.pos /\ t.n <= u.want /\ Row(t, u.f.cl) /\ t.m.ok \in BOOLEAN
      <4>1. t.n \in Nat /\ t.m.ok \in BOOLEAN
        BY <3>4, FailIs DEF Straights
      <4> HIDE DEF t
      <4> QED BY <1>0, <2>2, <2>3, <2>7, <3>2, <3>3, <3>4, <4>1
    <3> HIDE DEF t
    <3>6. /\ v \in Reading(B, R) /\ Onto(v, u)
          /\ ~v.m.ok => v.f = u.f
          /\ v.m.ok => v.want < u.want
          /\ t.m.ok /\ up => v.m.ok
          /\ v.m.ok /\ RowOf(t, u.f.cl, u.f.slot.cluster, u.f.pos)
               /\ u.f.pos + u.want <= Len(Chain(disk, u.f.slot.cluster)) => On(v.f) /\ Copied(v, u)
      <4>1. u.m.ok /\ u.f.index = u.f.pos /\ t \in Straights(B, R) /\ u \in Reading(B, R)
        BY <2>2, <2>7, <3>4, <3>5
      <4> HIDE DEF dir
      <4> QED BY <3>1, <3>5, <4>1, DirectIs
    <3>7. ASSUME B = Current, Whence(u), On(u.f)
          PROVE  RowOf(t, u.f.cl, dir, u.f.pos) /\ (up => t.m.ok)
      <4>1. s.c = Nth(dir, u.f.pos + 1)
        BY <3>3, <3>5, <3>7 DEF On
      <4>2. u.f.pos + most <= Len(Chain(disk, dir))
        <5>1. Len(Chain(disk, dir)) \in Nat
          BY <1>0, <2>3, NthOf, ConstantsAre
        <5>2. u.f.pos + u.want <= Len(Chain(disk, dir))
          BY <3>7 DEF Whence
        <5> HIDE DEF dir
        <5> QED BY <1>0, <2>3, <3>2, <5>1, <5>2
      <4> QED BY <2>7, <3>3, <3>4, <3>7, <4>1, <4>2 DEF Whence
    <3> QED BY <2>2, <2>3, <2>4, <2>5, <2>7, <3>6, <3>7 DEF Whence
  <2>8. CASE u.m.ok /\ ~(u.want >= Run /\ aligned)
    <3>1. v = ViaCache(u, Fetch(u.m, ClusterSector(u.f.cl)))
      BY <2>1, <2>8 DEF Piece
    <3>2. u.f.index = u.f.pos
      BY <2>2, <2>3, <2>8
    <3>3. /\ v \in Reading(B, R) /\ Onto(v, u)
          /\ ~v.m.ok => v.f = u.f
          /\ v.m.ok => v.want < u.want
          /\ up => v.m.ok
          /\ B = Current /\ v.m.ok /\ On(u.f) /\ u.f.pos + u.want <= Len(Chain(disk, u.f.slot.cluster)) =>
               On(v.f) /\ Copied(v, u)
      BY <2>2, <2>3, <2>8, <3>1, <3>2, ViaCacheIs
    <3> QED BY <2>2, <2>3, <2>4, <2>5, <2>8, <3>3 DEF Whence
  <2> QED BY <2>6, <2>7, <2>8
<1> QED BY <1>0, <1>1, <1>2

\* Pieces of a read, one after the other.
LEMMA OntoThen ==
  ASSUME NEW B, NEW R, NEW w \in Reading(B, R), NEW v \in Reading(B, R), NEW x \in Reading(B, R),
         Onto(v, w), Onto(x, v)
  PROVE  /\ Onto(x, w)
         /\ Copied(v, w) /\ Copied(x, v) => Copied(x, w)
         /\ Whence(w) /\ On(v.f) => Whence(v)
<1>0. /\ w.f.pos \in Nat /\ v.f.pos \in Nat /\ x.f.pos \in Nat /\ w.want \in Nat /\ v.want \in Nat /\ x.want \in Nat
      /\ v.f.pos >= w.f.pos /\ x.f.pos >= v.f.pos
      /\ Len(w.got) \in Nat /\ Len(v.got) \in Nat /\ Len(x.got) \in Nat /\ v.f.slot = w.f.slot
  BY ReadingIs DEF Onto
<1>1. Onto(x, w)
  BY <1>0 DEF Onto
<1>2. ASSUME Copied(v, w), Copied(x, v) PROVE Copied(x, w)
  <2> DEFINE a == Len(w.got)
             b == Len(v.got)
             p == w.f.pos
             q == v.f.pos
             r == x.f.pos
             dir == w.f.slot.cluster
  <2>1. /\ b = a + (q - p) /\ Len(x.got) = b + (r - q)
        /\ \A j \in 1 .. a : v.got[j] = w.got[j]
        /\ \A j \in 1 .. b : x.got[j] = v.got[j]
        /\ \A j \in 1 .. (q - p) : v.got[a + j] = disk.data[Nth(dir, p + j)]
        /\ \A j \in 1 .. (r - q) : x.got[b + j] = disk.data[Nth(dir, q + j)]
    BY <1>0, <1>2 DEF Copied
  <2>2. a \in Nat /\ b \in Nat /\ p \in Nat /\ q \in Nat /\ r \in Nat /\ q >= p /\ r >= q
    BY <1>0
  <2> HIDE DEF a, b, p, q, r, dir
  <2>3. Len(x.got) = a + (r - p)
    BY <2>1, <2>2
  <2>4. \A j \in 1 .. a : x.got[j] = w.got[j]
    BY <2>1, <2>2
  <2>5. ASSUME NEW j \in 1 .. (r - p) PROVE x.got[a + j] = disk.data[Nth(dir, p + j)]
    <3>1. CASE j <= q - p
      <4>1. a + j \in 1 .. b /\ j \in 1 .. (q - p)
        BY <2>1, <2>2, <3>1
      <4> QED BY <2>1, <4>1
    <3>2. CASE ~(j <= q - p)
      <4> DEFINE i == j - (q - p)
      <4>1. i \in 1 .. (r - q) /\ b + i = a + j /\ q + i = p + j
        BY <2>1, <2>2, <3>2
      <4> HIDE DEF i
      <4> QED BY <2>1, <4>1
    <3> QED BY <3>1, <3>2
  <2> QED BY <2>3, <2>4, <2>5 DEF Copied, a, p, r, dir
<1>3. Whence(w) /\ On(v.f) => Whence(v)
  BY <1>0 DEF Whence, Onto
<1> QED BY <1>1, <1>2, <1>3

\* A read goes on until nothing is wanted or it fails, piece by piece.
LEMMA ReadOnIs ==
  ASSUME NEW B, NEW R, Trusted(B, R), NEW w \in Reading(B, R), NEW aligned \in BOOLEAN
  PROVE  /\ ReadOn(w, aligned) \in Reading(B, R) /\ Onto(ReadOn(w, aligned), w)
         /\ ReadOn(w, aligned).m.ok => ReadOn(w, aligned).want = 0
         /\ B = Current /\ Whence(w) => /\ On(ReadOn(w, aligned).f)
                                        /\ ReadOn(w, aligned).m.ok => Copied(ReadOn(w, aligned), w)
                                        /\ up /\ w.m.ok => ReadOn(w, aligned).m.ok
<1> DEFINE N == w.want
           X == Reading(B, R)
           Fine == B = Current /\ Whence(w)
           next(v) == NextPiece(v, aligned)
           step == [n \in 1 .. N |-> [v \in X |-> next(v)]]
           done[n \in 0 .. N] == IF n = 0 THEN w ELSE NextPiece(done[n - 1], aligned)
           Good(v, n) == /\ Onto(v, w)
                         /\ v.m.ok => v.want + n <= w.want \/ v.want = 0
                         /\ Fine => /\ On(v.f)
                                    /\ v.m.ok => Copied(v, w)
                                    /\ up /\ w.m.ok => v.m.ok
           G == {n \in 0 .. N : done[n] \in X /\ Good(done[n], n)}
<1>0. N \in Nat /\ w.f.pos \in Nat /\ Len(w.got) \in Nat
  BY ReadingIs
<1>1. step \in [1 .. N -> [X -> X]]
  BY NextPieceIs
<1> HIDE DEF next
<1>2. PICK f : Runs(f, N, X, w, step)
  <2> HIDE DEF step, X, N, done
  <2>1. N \in Nat /\ w \in X
    BY <1>0 DEF X
  <2> QED BY ONLY <2>1, <1>1, Loop
<1>3. f = [n \in 0 .. N |-> IF n = 0 THEN w ELSE next(f[n - 1])]
  <2> HIDE DEF X, N
  <2>1. ASSUME NEW n \in 1 .. N PROVE f[n] = next(f[n - 1])
    <3>1. n - 1 \in 0 .. N
      BY <1>0
    <3>2. f[n - 1] \in X /\ f[n] = step[n][f[n - 1]]
      BY <1>2, <3>1 DEF Runs
    <3> QED BY <3>2
  <2>2. \A n \in 0 .. N : n # 0 => n \in 1 .. N
    BY <1>0
  <2>3. \A n \in 0 .. N : f[n] = IF n = 0 THEN w ELSE next(f[n - 1])
    BY <1>2, <2>1, <2>2 DEF Runs
  <2> QED BY <1>2, <2>3 DEF Runs
<1>4. done = [n \in 0 .. N |-> IF n = 0 THEN w ELSE next(done[n - 1])]
  BY <1>3 DEF next
<1>5. ReadOn(w, aligned) = done[N]
  BY DEF ReadOn
<1> HIDE DEF done, N, step
<1>6. 0 \in G
  <2>1. done[0] = w
    BY <1>0, <1>4
  <2>2. Onto(w, w) /\ Copied(w, w)
    <3>1. w.f.pos - w.f.pos = 0
      BY <1>0
    <3> QED BY <1>0, <3>1 DEF Onto, Copied
  <2>3. Good(w, 0)
    BY <1>0, <2>2 DEF Whence, N
  <2> HIDE DEF Good
  <2> QED BY <1>0, <2>1, <2>3
<1>7. ASSUME NEW n \in 1 .. N, n - 1 \in G PROVE n \in G
  <2> DEFINE v == done[n - 1]
             y == next(v)
  <2>1. done[n] = y /\ v \in X /\ Good(v, n - 1)
    BY <1>0, <1>4, <1>7
  <2> HIDE DEF v
  <2>2. /\ y \in X /\ Onto(y, v)
        /\ y.m.ok => y.want = 0 \/ y.want < v.want
        /\ B = Current /\ Whence(v) => /\ On(y.f)
                                       /\ y.m.ok => Copied(y, v)
                                       /\ up /\ v.m.ok => y.m.ok
    BY <2>1, NextPieceIs DEF next
  <2> HIDE DEF y
  <2>3. /\ Onto(y, w)
        /\ Copied(v, w) /\ Copied(y, v) => Copied(y, w)
        /\ Whence(w) /\ On(v.f) => Whence(v)
        /\ (y.m.ok => v.m.ok) /\ y.want \in Nat /\ v.want \in Nat
    <3>1. /\ Onto(y, w)
          /\ Copied(v, w) /\ Copied(y, v) => Copied(y, w)
          /\ Whence(w) /\ On(v.f) => Whence(v)
      BY <2>1, <2>2, OntoThen
    <3> QED BY <2>1, <2>2, <3>1, ReadingIs DEF Onto
  <2>4. y.m.ok => y.want + n <= w.want \/ y.want = 0
    <3>1. SUFFICES ASSUME y.m.ok, y.want # 0 PROVE y.want + n <= w.want
      OBVIOUS
    <3>2. y.want < v.want /\ v.want + (n - 1) <= w.want
      BY <2>1, <2>2, <2>3, <3>1
    <3> QED BY <1>0, <2>3, <3>2 DEF N
  <2>5. Good(y, n)
    BY <2>1, <2>2, <2>3, <2>4
  <2> HIDE DEF Good
  <2> QED BY <1>0, <2>1, <2>2, <2>5
<1>8. N \in G
  <2> HIDE DEF G
  <2>1. \A n \in 1 .. N : n - 1 \in G => n \in G
    BY <1>7
  <2> QED BY ONLY <1>0, <1>6, <2>1, LastRound
<1>9. done[N] \in X /\ Good(done[N], N)
  BY <1>8
<1>10. done[N].m.ok => done[N].want = 0
  <2>1. done[N].want \in Nat
    BY <1>9, ReadingIs
  <2> QED BY <1>0, <1>9, <2>1 DEF N
<1> QED BY <1>5, <1>9, <1>10

\* Fread, from what the drive keeps: the file's cursor stays in its chain, and
\* over fresh sectors it answers what the file holds.
OpenAt == {f \in OpenFile : f.pos <= f.slot.size}
\* gemdos_file.read: it keeps what is known, and of a file on the disk it gives the file's values.
LEMMA ReadIs ==
  ASSUME NEW B, NEW R, Trusted(B, R), Within(mem, B, R), NEW f \in OpenAt, NEW n \in Nat, NEW aligned \in BOOLEAN
  PROVE  LET r    == Read(f, n, aligned)
             want == Min({n, f.slot.size - f.pos})
             dir  == f.slot.cluster
         IN  /\ r.f \in OpenAt /\ r.f.used = f.used /\ r.f.slot = f.slot /\ Within(r.m, B, R) /\ want \in Nat
             /\ B = Current /\ On(f) /\ Whole(dir) /\ f.slot.size <= Len(Chain(disk, dir)) =>
                  /\ On(r.f)
                  /\ up /\ mem.ok => r.m.ok
                  /\ r.m.ok => /\ r.got \in Seq(Value) /\ Len(r.got) = want
                               /\ \A j \in 1 .. want : r.got[j] = disk.data[Nth(dir, f.pos + j)]
<1> DEFINE want == Min({n, f.slot.size - f.pos})
           w == [m |-> mem, f |-> f, want |-> want, got |-> << >>]
           r == Read(f, n, aligned)
           dir == f.slot.cluster
<1>0. f \in OpenFile /\ f.pos \in Nat /\ f.slot.size \in Nat /\ f.pos <= f.slot.size /\ dir \in Links /\ disk \in Disk
  BY DEF OpenAt, OpenFile, ShortSlots, Links, Trusted
<1>1. want \in Nat /\ want <= f.slot.size - f.pos
  <2> DEFINE x == f.slot.size - f.pos
  <2>1. x \in Nat
    BY <1>0
  <2> HIDE DEF x
  <2>2. Min({n, x}) \in {n, x} /\ Min({n, x}) <= x
    BY <2>1, MinOfTwo
  <2>3. Min({n, x}) \in Nat
    BY <2>1, <2>2
  <2> QED BY <2>2, <2>3 DEF x
<1> HIDE DEF want
<1>2. w \in Reading(B, R)
  <2>1. mem \in Mem /\ << >> \in Seq(Value)
    BY DEF Within
  <2> QED BY <1>0, <1>1, <2>1 DEF Reading
<1>3. r = ReadOn(w, aligned)
  BY DEF Read, want
<1>4. w.f = f /\ w.m = mem /\ w.want = want /\ w.got = << >>
  OBVIOUS
<1> HIDE DEF w, r
<1>5. /\ r \in Reading(B, R) /\ Onto(r, w)
      /\ r.m.ok => r.want = 0
      /\ B = Current /\ Whence(w) => /\ On(r.f)
                                     /\ r.m.ok => Copied(r, w)
                                     /\ up /\ mem.ok => r.m.ok
  BY <1>2, <1>3, <1>4, ReadOnIs
<1>6. r.f \in OpenFile /\ r.f.pos \in Nat /\ r.want \in Nat /\ Within(r.m, B, R) /\ r.got \in Seq(Value)
  BY <1>5 DEF Reading, OpenFile
<1>7. r.f.used = f.used /\ r.f.slot = f.slot /\ r.f.pos + r.want = f.pos + want
  BY <1>4, <1>5 DEF Onto
<1>8. r.f \in OpenAt
  <2>1. r.f.pos <= r.f.slot.size
    BY <1>0, <1>1, <1>6, <1>7
  <2> QED BY <1>6, <2>1 DEF OpenAt
<1>9. ASSUME B = Current, On(f), Whole(dir), f.slot.size <= Len(Chain(disk, dir))
      PROVE  /\ On(r.f)
             /\ up /\ mem.ok => r.m.ok
             /\ r.m.ok => /\ r.got \in Seq(Value) /\ Len(r.got) = want
                          /\ \A j \in 1 .. want : r.got[j] = disk.data[Nth(dir, f.pos + j)]
  <2>1. Whence(w)
    <3>1. Len(Chain(disk, dir)) \in Nat
      BY <1>0, NthOf, ConstantsAre
    <3>2. f.pos + want <= Len(Chain(disk, dir))
      <4> HIDE DEF dir
      <4> QED BY <1>0, <1>1, <1>9, <3>1
    <3> QED BY <1>4, <1>9, <3>2 DEF Whence
  <2>2. r.m.ok => /\ Len(r.got) = want
                  /\ \A j \in 1 .. want : r.got[j] = disk.data[Nth(dir, f.pos + j)]
    <3>1. SUFFICES ASSUME r.m.ok
                   PROVE  Len(r.got) = want /\ \A j \in 1 .. want : r.got[j] = disk.data[Nth(dir, f.pos + j)]
      OBVIOUS
    <3>2. Copied(r, w) /\ r.f.pos - f.pos = want /\ Len(<< >>) = 0
      BY <1>0, <1>1, <1>5, <1>6, <1>7, <1>9, <2>1, <3>1
    <3>3. /\ Len(r.got) = 0 + want
          /\ \A j \in 1 .. want : r.got[0 + j] = disk.data[Nth(dir, f.pos + j)]
      BY <1>4, <3>2 DEF Copied
    <3>4. \A j \in 1 .. want : 0 + j = j
      BY <1>1
    <3> QED BY <1>1, <3>3, <3>4
  <2> QED BY <1>5, <1>6, <1>9, <2>1, <2>2
<1> QED BY <1>1, <1>6, <1>7, <1>8, <1>9 DEF want, r

-----------------------------------------------------------------------------
(* The invariant. *)

\* What the library's and the history variables range over.
Handle == {f \in OpenAt : f.used} \cup {Closed}
Search == [dir : Links, at : Nat \ {0}, kinds : SUBSET {"file", "dir"}] \cup {NoSearch}
Histories == [data : Seq(Data), live : BOOLEAN]
Soughts == [must : SUBSET STRING, found : SUBSET STRING]

\* What the variables range over.
TypeOK ==
  /\ drive \in {"A", "C"} /\ disk \in Disk /\ Alike(disk) /\ up \in BOOLEAN
  /\ state \in {"unknown", "mounted", "absent"} /\ top \in Cluster /\ mem \in Mem /\ cwd \in Seq(Name)
  /\ file \in [Files -> Handle] /\ dta \in Search
  /\ orig \in [Files -> Histories] /\ seen \in Soughts /\ new \in BOOLEAN
  /\ changes \in Nat

\* No sector in the drive is one of a disk before, but for the buffer's of a
\* drive that is not mounted, as long as the program has told of each disk.
Coherent == mem.ok /\ Kept(mem, state, top, ~new)

\* The cursor of an open file of the disk in drive A is in the file's chain, and
\* the file is what it was.
HandleSound(h) ==
  orig[h].live =>
    /\ ~new /\ state = "mounted" /\ file[h] \in OpenAt /\ On(file[h])
    /\ file[h].slot.kind = "file" /\ FileWhole(disk, file[h].slot) /\ orig[h].data = DataOf(file[h].slot)

\* A search t has found, of what it must find, what lies in front of where it
\* is, which is not behind the folder's end: each name of `must` is one entry's of
\* the folder, and found if that is in front of t.at.
Bears(dir, i, kinds, n) ==
  i \in Nat \ {0} /\ SlotNow(dir, i).kind \in kinds /\ SlotNow(dir, i).name = n
    /\ \A p \in 1 .. i : SlotNow(dir, p).kind # "zero"
One(dir, n) == \A i, j : Bears(dir, i, {"file", "dir"}, n) /\ Bears(dir, j, {"file", "dir"}, n) => i = j
Ledger(t, must, found) ==
  /\ t \in Search \ {NoSearch} /\ Ended(t.dir) /\ t.at <= MaxSlot
  /\ \A p \in 1 .. (t.at - 1) : SlotNow(t.dir, p).kind # "zero"
  /\ \A n \in must : One(t.dir, n) /\ \E i : Bears(t.dir, i, t.kinds, n) /\ (n \in found <=> i < t.at)
SearchSound == seen.must # {} => ~new /\ state = "mounted" /\ Ledger(dta, seen.must, seen.found)

\* The disk is as KFS leaves it, and on drive A everything said of it is so.
Tidy == \E F \in SUBSET Cluster : SoundIn(disk, F)
DriveA == drive = "A" => Tidy /\ (\A h \in Files : HandleSound(h)) /\ SearchSound

\* The inductive invariant.
IInv == TypeOK /\ Coherent /\ DriveA

-----------------------------------------------------------------------------
(* What a step leaves as it is. *)

\* A flag set does not change what has been read.
LEMMA OkIs ==
  ASSUME NEW B, NEW R, NEW m, Within(m, B, R)
  PROVE  Within([m EXCEPT !.ok = TRUE], B, R) /\ [m EXCEPT !.ok = TRUE].ok
<1> DEFINE f == [m EXCEPT !.ok = TRUE]
<1>1. m \in Mem
  BY DEF Within
<1>2. f \in Mem /\ f.sector = m.sector /\ f.buf = m.buf /\ f.runs = m.runs /\ f.ok
  BY <1>1 DEF Mem
<1> HIDE DEF f
<1>3. Within(f, B, R)
  BY <1>2 DEF Within
<1> QED BY <1>2, <1>3 DEF f

\* What is on the disk depends on the disk and on whose it is.
LEMMA CurrentSame ==
  ASSUME disk' = disk, drive' = drive
  PROVE  Current' = Current /\ TopSlot' = TopSlot /\ TopNow' = TopNow
BY DEF Current, Content, TopSlot, TopNow, EntryIn

\* A step that leaves the disk keeps the drive coherent if it keeps what it has read.
LEMMA CoherentThen ==
  ASSUME disk' = disk, drive' = drive, new' = new, mem'.ok, Kept(mem', state', top', ~new)
  PROVE  Coherent'
<1>1. Current' = Current /\ TopSlot' = TopSlot /\ TopNow' = TopNow
  BY CurrentSame
<1> QED BY <1>1 DEF Coherent, Kept, Within, RunWithin, Bound, Known

\* A look leaves the drive coherent.
LEMMA LeavesThen ==
  ASSUME TypeOK, disk' = disk, drive' = drive, new' = new, NEW r, Leaves(r),
         r.state \in {"unknown", "mounted", "absent"}, Kept(r.m, r.state, r.top, ~new)
  PROVE  Coherent' /\ mem' \in Mem /\ state' = r.state /\ top' = r.top /\ r.top \in Cluster
<1>1. Within(r.m, Bound(r.state, ~new), Known(~new)) /\ r.top \in Cluster
  BY DEF Kept
<1> DEFINE m == [r.m EXCEPT !.ok = TRUE]
<1>2. Within(m, Bound(r.state, ~new), Known(~new)) /\ m.ok
  BY <1>1, OkIs
<1>3. mem' = m /\ state' = r.state /\ top' = r.top
  BY DEF Leaves
<1> HIDE DEF m
<1>4. Kept(mem', state', top', ~new)
  BY <1>2, <1>3 DEF Kept
<1>5. m \in Mem
  BY <1>2 DEF Within
<1> QED BY <1>1, <1>2, <1>3, <1>4, <1>5, CoherentThen

\* A handle that a step leaves alone stays sound.
LEMMA HandleThen ==
  ASSUME disk' = disk, new' = new, state = "mounted" => state' = "mounted",
         NEW h, orig'[h] = orig[h], file'[h] = file[h], HandleSound(h)
  PROVE  HandleSound(h)'
BY DEF HandleSound, On, Nth, DataOf

\* A search that a step leaves alone stays sound.
LEMMA SearchThen ==
  ASSUME disk' = disk, new' = new, state = "mounted" => state' = "mounted", dta' = dta, seen' = seen, SearchSound
  PROVE  SearchSound'
BY DEF SearchSound, Ledger, Ended, Whole, One, Bears, SlotNow

\* A disk that a step leaves alone stays tidy.
LEMMA TidySame ==
  ASSUME disk' = disk
  PROVE  Tidy' <=> Tidy
BY DEF Tidy

\* A step that leaves files and searches alone.
LEMMA DriveAThen ==
  ASSUME DriveA, disk' = disk, drive' = drive, new' = new, state = "mounted" => state' = "mounted",
         dta' = dta, seen' = seen, orig' = orig, file' = file
  PROVE  DriveA'
<1>1. \A h \in Files : HandleSound(h) => HandleSound(h)'
  BY HandleThen
<1> QED BY <1>1, TidySame, SearchThen DEF DriveA

\* Ready, in the invariant.
LEMMA ReadyThen ==
  ASSUME TypeOK, Coherent
  PROVE  /\ Ready.m.ok /\ Kept(Ready.m, Ready.state, Ready.top, ~new)
         /\ Ready.state \in {"mounted", "absent"} /\ (state = "mounted" => Ready.state = "mounted")
         /\ state = "mounted" => Ready = [m |-> mem, state |-> state, top |-> top]
<1>1. Ready.m.ok /\ Kept(Ready.m, Ready.state, Ready.top, ~new) /\ Ready.state \in {"mounted", "absent"}
  BY ReadyIs DEF TypeOK, Coherent
<1>2. state = "mounted" => Ready = [m |-> mem, state |-> state, top |-> top]
  BY DEF Ready
<1> QED BY <1>1, <1>2

-----------------------------------------------------------------------------
(* What names lead to, on a sound disk. *)

\* A sound disk's folders end.
LEMMA TidyEnds ==
  ASSUME NEW F, SoundIn(disk, F)
  PROVE  EndsIn(F) /\ Root \in F /\ F \subseteq Cluster
BY DEF SoundIn, EndsIn, FoldersEndIn

\* Of a folder in F, the entry of a name is a folder in F or a whole file.
LEMMA EntryInSound ==
  ASSUME disk \in Disk, NEW F, SoundIn(disk, F), NEW s \in ShortSlots \cup {NoEntry},
         s.kind = "dir" => s.cluster \in F, NEW name
  PROVE  /\ EntryIn(s, name).kind = "dir" => EntryIn(s, name).cluster \in F
         /\ EntryIn(s, name).kind = "file" => FileWhole(disk, EntryIn(s, name))
<1>1. EntryIn(s, name).kind = "dir" => EntryIn(s, name).cluster \in F
  BY TidyEnds, InsideIs
<1>2. SUFFICES ASSUME EntryIn(s, name).kind = "file" PROVE FileWhole(disk, EntryIn(s, name))
  BY <1>1
<1> DEFINE d == s.cluster
           t == Slots(disk, d)
           hit == {i \in Seen(t) : t[i].kind \in {"file", "dir"} /\ t[i].name = name}
           i == Find(disk, d, name)
<1>3. s.kind = "dir" /\ i # 0 /\ EntryIn(s, name) = t[i]
  BY <1>2 DEF EntryIn, NoEntry
<1>4. i = IF hit = {} THEN 0 ELSE Min(hit)
  BY DEF Find, FindIn
<1>5. hit \in SUBSET Nat
  BY SlotsIs DEF Seen
<1>6. i \in hit
  <2> HIDE DEF hit, i
  <2> QED BY <1>3, <1>4, <1>5, MinIs
<1>7. i \in Seen(t) /\ d \in F
  BY <1>3, <1>6
<1> HIDE DEF i
<1> QED BY <1>2, <1>3, <1>7 DEF SoundIn

\* The top folder, when the drive has it, is one of the folders of drive A.
LEMMA TopInside ==
  ASSUME drive = "A", NEW F, SoundIn(disk, F)
  PROVE  TopNow \in F /\ TopNow \in Cluster /\ TopNow = Root
BY TidyEnds DEF TopNow

\* What a path names on a tidy disk is a folder that ends or a file that is whole.
LEMMA ThereSound ==
  ASSUME disk \in Disk, drive = "A", NEW F, SoundIn(disk, F), NEW names \in Seq(Name)
  PROVE  /\ There(names).kind = "dir" => There(names).cluster \in F
         /\ There(names).kind = "file" => FileWhole(disk, There(names))
<1> DEFINE N == Len(names)
<1>0. TopNow \in F /\ TopNow \in Cluster /\ N \in Nat
  BY TopInside
<1>1. PICK f \in [0 .. N -> ShortSlots \cup {NoEntry}] :
        /\ f[0] = RootSlot(TopNow) /\ f[N] = There(names)
        /\ \A n \in 1 .. N : f[n] = EntryIn(f[n - 1], names[n])
  BY <1>0, ThereIs
<1> HIDE DEF N
<1> DEFINE Good(s) == /\ s.kind = "dir" => s.cluster \in F
                      /\ s.kind = "file" => FileWhole(disk, s)
           G == {n \in 0 .. N : Good(f[n])}
<1>2. 0 \in G
  <2>1. f[0].kind = "dir" /\ f[0].cluster = TopNow
    <3>1. f[0] = RootSlot(TopNow)
      BY <1>1
    <3>2. RootSlot(TopNow).kind = "dir" /\ RootSlot(TopNow).cluster = TopNow
      BY DEF RootSlot, ShortSlot
    <3> QED BY <3>1, <3>2
  <2> QED BY <1>0, <2>1
<1>3. ASSUME NEW n \in 1 .. N, n - 1 \in G PROVE n \in G
  <2>1. n \in 0 .. N /\ n - 1 \in 0 .. N /\ f[n - 1] \in ShortSlots \cup {NoEntry}
    BY <1>0
  <2>2. f[n - 1].kind = "dir" => f[n - 1].cluster \in F
    BY <1>3
  <2>3. Good(EntryIn(f[n - 1], names[n]))
    BY <2>1, <2>2, EntryInSound
  <2> QED BY <1>1, <2>1, <2>3
<1>4. N \in G
  <2> HIDE DEF G
  <2>1. \A n \in 1 .. N : n - 1 \in G => n \in G
    BY <1>3
  <2> QED BY ONLY <1>0, <1>2, <2>1, LastRound
<1> QED BY <1>1, <1>4

\* folderOf of a fresh drive.
LEMMA FolderFromAfresh ==
  ASSUME disk \in Disk, up \in BOOLEAN, NEW r, Kept(r.m, r.state, r.top, TRUE), NEW names \in Seq(Name),
         FolderFrom(r, names).err = "ok"
  PROVE  r.state = "mounted" /\ FolderFrom(r, names).slot.kind = "dir" /\ FolderFrom(r, names).slot = There(names)
<1> DEFINE w == Walk(r, names)
           e == IF w.slot.kind = "dir" THEN w ELSE Entry(w.m, NoEntry)
           x == FolderFrom(r, names)
<1>1. r.state = "mounted"
  BY DEF FolderFrom, Looked
<1>2. Trusted(Current, Current) /\ Within(r.m, Current, Current) /\ r.top \in Cluster /\ r.top = TopNow
  BY <1>1, TrustedIs DEF Kept, Bound, Known
<1>3. w \in Answers(Current, Current) /\ (w.m.ok => w.slot = There(names))
  BY <1>2, WalkIs, WalkFresh
<1>4. x = Result(r, e, "EPTHNF")
  BY <1>1 DEF FolderFrom
<1> HIDE DEF w
<1>5. e \in Answers(Current, Current) /\ e.m = w.m /\ (e.slot # NoEntry => e.slot = w.slot /\ w.slot.kind = "dir")
  <2>1. Within(w.m, Current, Current)
    BY <1>3, AnswersAre
  <2> QED BY <1>3, <2>1, EntryIsOne
<1> HIDE DEF e, x
<1>6. x.slot = e.slot /\ e.m.ok /\ e.slot \in ShortSlots
  <2>1. x.err = "ok"
    BY DEF x
  <2> QED BY <1>4, <1>5, <2>1, ResultIs
<1>7. e.slot # NoEntry
  BY <1>6, KindIs DEF NoEntry
<1> QED BY <1>1, <1>3, <1>5, <1>6, <1>7 DEF x

\* What an entry holds.
LEMMA DataOfIs ==
  ASSUME disk \in Disk, NEW s \in ShortSlots
  PROVE  /\ DataOf(s) \in Seq(Data)
         /\ s.kind = "file" /\ s.size <= Len(Chain(disk, s.cluster)) =>
              Len(DataOf(s)) = s.size /\ \A j \in 1 .. s.size : DataOf(s)[j] = disk.data[Nth(s.cluster, j)]
<1> DEFINE w == Chain(disk, s.cluster)
           g == [j \in 1 .. s.size |-> disk.data[w[j]]]
<1>1. w \in Seq(Cluster) /\ Len(w) \in Nat /\ s.size \in Nat /\ s.kind \in {"file", "dir"}
  BY ChainIs DEF ShortSlots
<1>2. NodeOf(disk, s) = IF s.kind = "dir" THEN [kind |-> "dir", ro |-> s.ro]
                        ELSE IF Len(w) < s.size THEN [kind |-> "damaged"]
                        ELSE [kind |-> "file", ro |-> s.ro, data |-> g]
  BY DEF NodeOf
<1> HIDE DEF g
<1>3. DataOf(s) = IF s.kind # "dir" /\ ~(Len(w) < s.size) THEN g ELSE << >>
  BY <1>2 DEF DataOf
<1>4. ~(Len(w) < s.size) => g \in Seq(Data) /\ Len(g) = s.size /\ \A j \in 1 .. s.size : g[j] = disk.data[Nth(s.cluster, j)]
  <2>1. SUFFICES ASSUME ~(Len(w) < s.size)
                 PROVE  g \in Seq(Data) /\ Len(g) = s.size /\ \A j \in 1 .. s.size : g[j] = disk.data[Nth(s.cluster, j)]
    OBVIOUS
  <2>2. \A c \in Cluster : disk.data[c] \in Data
    BY DEF Disk, Data
  <2>3. \A j \in 1 .. s.size : j \in 1 .. Len(w) /\ w[j] \in Cluster
    BY <1>1, <2>1
  <2>4. \A j \in 1 .. s.size : disk.data[w[j]] \in Data
    BY <2>2, <2>3
  <2>5. g \in Seq(Data) /\ Len(g) = s.size
    BY <1>1, <2>4 DEF g
  <2>6. \A j \in 1 .. s.size : Nth(s.cluster, j) = w[j]
    BY <2>3 DEF Nth
  <2> QED BY <2>5, <2>6 DEF g
<1>5. s.kind = "file" /\ s.size <= Len(w) => DataOf(s) = g /\ ~(Len(w) < s.size)
  BY <1>1, <1>3
<1>6. << >> \in Seq(Data)
  OBVIOUS
<1> QED BY <1>3, <1>4, <1>5, <1>6

\* A file opened there is at its start.
LEMMA OpenedIs ==
  ASSUME disk \in Disk, NEW s \in ShortSlots
  PROVE  Opened(s) \in OpenAt /\ Opened(s).used /\ Opened(s).slot = s /\ On(Opened(s))
<1>1. s.cluster \in Links /\ s.size \in Nat /\ 0 \in Nat /\ 0 + 1 = 1
  BY DEF ShortSlots, Links
<1>2. Nth(s.cluster, 1) = s.cluster
  BY <1>1, NthIs
<1>3. Opened(s) \in OpenFile
  BY <1>1 DEF Opened, OpenFile
<1> QED BY <1>1, <1>2, <1>3 DEF Opened, OpenAt, On

-----------------------------------------------------------------------------
(* Files: Fopen, Fclose, Fread, Fseek. *)

\* Of a look the program's files and searches may depend on, in the invariant.
LEMMA EntryThen ==
  ASSUME IInv, NEW p \in Opens
  PROVE  LET r == EntryOf(Names(p))
         IN  /\ Kept(r.m, r.state, r.top, ~new) /\ r.state \in {"mounted", "absent"}
             /\ state = "mounted" => r.state = "mounted"
             /\ r.err = "ok" => r.slot \in ShortSlots
             /\ drive = "A" /\ ~new /\ r.err = "ok" /\ r.slot.kind = "file" =>
                  r.state = "mounted" /\ FileWhole(disk, r.slot)
<1> DEFINE names == Names(p)
           r == EntryOf(names)
<1>1. TypeOK /\ Coherent /\ DriveA /\ disk \in Disk /\ up \in BOOLEAN /\ (~new) \in BOOLEAN
  <2>1. TypeOK /\ Coherent /\ DriveA
    BY DEF IInv
  <2>2. (~new) \in BOOLEAN
    BY Zenon
  <2> QED BY <2>1, <2>2 DEF TypeOK
<1>2. names \in Seq(Name)
  BY <1>1, NamesAre, GemdosReadAssumption DEF TypeOK
<1>3. /\ Ready.m.ok /\ Kept(Ready.m, Ready.state, Ready.top, ~new)
      /\ Ready.state \in {"mounted", "absent"} /\ (state = "mounted" => Ready.state = "mounted")
  BY <1>1, ReadyThen
<1> HIDE DEF names
<1>4. r = EntryFrom(Ready, names)
  BY DEF EntryOf
<1> HIDE DEF r
<1>5. /\ r.state = Ready.state /\ r.top = Ready.top /\ Kept(r.m, r.state, r.top, ~new)
      /\ r.err = "ok" => r.slot \in ShortSlots
  BY <1>1, <1>2, <1>3, <1>4, EntryFromIs
<1>6. ASSUME drive = "A", ~new, r.err = "ok", r.slot.kind = "file" PROVE r.state = "mounted" /\ FileWhole(disk, r.slot)
  <2>1. PICK F \in SUBSET Cluster : SoundIn(disk, F)
    BY <1>1, <1>6 DEF DriveA, Tidy
  <2>2. Kept(Ready.m, Ready.state, Ready.top, TRUE)
    BY <1>3, <1>6
  <2>3. r.slot = There(names)
    BY <1>1, <1>2, <1>4, <1>6, <2>2, EntryFromAfresh
  <2>4. Ready.state = "mounted"
    BY <1>4, <1>6 DEF EntryFrom, Looked
  <2> QED BY <1>1, <1>2, <1>5, <1>6, <2>1, <2>3, <2>4, ThereSound
<1> QED BY <1>3, <1>5, <1>6 DEF r, names

\* A free handle is one of the handles.
LEMMA FreeHandle ==
  ASSUME NEW S \in SUBSET Files, S # {}
  PROVE  Min(S) \in S
BY GemdosReadAssumption, MinIs

\* Fopen: the handle it opens is of the file on the disk, or of none.
LEMMA FopenThen ==
  ASSUME IInv, NEW p \in Opens, Fopen(p)
  PROVE  IInv'
<1>1. TypeOK /\ Coherent /\ DriveA
  BY DEF IInv
<1>2. PICK r : /\ r = EntryOf(Names(p)) /\ Leaves(r)
               /\ LET free == {h \in Files : ~file[h].used}
                  IN  IF r.err = "ok" /\ r.slot.kind = "file" /\ free # {}
                        THEN /\ file' = [file EXCEPT ![Min(free)] = Opened(r.slot)]
                             /\ orig' = [orig EXCEPT ![Min(free)] = [data |-> DataOf(r.slot),
                                                                     live |-> ~new /\ Alive(disk, r.slot)]]
                        ELSE UNCHANGED <<file, orig>>
  BY DEF Fopen
<1>3. UNCHANGED <<cwd, dta, seen, new, drive, disk, up, changes>>
  BY DEF Fopen, Outside
<1>4. /\ Kept(r.m, r.state, r.top, ~new) /\ r.state \in {"mounted", "absent"}
      /\ state = "mounted" => r.state = "mounted"
      /\ r.err = "ok" => r.slot \in ShortSlots
      /\ drive = "A" /\ ~new /\ r.err = "ok" /\ r.slot.kind = "file" =>
           r.state = "mounted" /\ FileWhole(disk, r.slot)
  BY <1>2, EntryThen
<1>5. Coherent' /\ mem' \in Mem /\ state' = r.state /\ top' \in Cluster
  BY <1>1, <1>2, <1>3, <1>4, LeavesThen
<1> DEFINE free == {h \in Files : ~file[h].used}
           k == Min(free)
           f == Opened(r.slot)
           o == [data |-> DataOf(r.slot), live |-> ~new /\ Alive(disk, r.slot)]
<1>6. CASE ~(r.err = "ok" /\ r.slot.kind = "file" /\ free # {})
  <2>1. file' = file /\ orig' = orig
    BY <1>2, <1>6
  <2>2. TypeOK'
    BY <1>1, <1>3, <1>4, <1>5, <2>1 DEF TypeOK
  <2>3. DriveA'
    BY <1>1, <1>3, <1>4, <1>5, <2>1, DriveAThen
  <2> QED BY <1>5, <2>2, <2>3 DEF IInv
<1>7. CASE r.err = "ok" /\ r.slot.kind = "file" /\ free # {}
  <2>1. file' = [file EXCEPT ![k] = f] /\ orig' = [orig EXCEPT ![k] = o]
    BY <1>2, <1>7
  <2>2. k \in Files
    BY <1>7, FreeHandle
  <2>3. /\ f \in OpenAt /\ f.used /\ f.slot = r.slot /\ On(f) /\ f \in Handle
        /\ o \in Histories /\ o.data = DataOf(r.slot) /\ (o.live => ~new)
    <3>1. r.slot \in ShortSlots /\ disk \in Disk /\ new \in BOOLEAN
      BY <1>1, <1>4, <1>7 DEF TypeOK
    <3>2. f \in OpenAt /\ f.used /\ f.slot = r.slot /\ On(f)
      BY <3>1, OpenedIs
    <3>3. DataOf(r.slot) \in Seq(Data)
      BY <3>1, DataOfIs
    <3>4. Alive(disk, r.slot) \in BOOLEAN
      BY Zenon DEF Alive
    <3>5. o.live = (~new /\ Alive(disk, r.slot)) /\ o.data = DataOf(r.slot) /\ o \in Histories
      BY <3>1, <3>3, <3>4, Zenon DEF Histories
    <3>6. f \in Handle
      BY <3>2 DEF Handle
    <3> QED BY <3>2, <3>5, <3>6
  <2> HIDE DEF k, f, o
  <2>4. /\ file'[k] = f /\ orig'[k] = o
        /\ \A h \in Files : h # k => file'[h] = file[h] /\ orig'[h] = orig[h]
        /\ file' \in [Files -> Handle] /\ orig' \in [Files -> Histories]
    BY <1>1, <2>1, <2>2, <2>3 DEF TypeOK
  <2>5. TypeOK'
    BY <1>1, <1>3, <1>4, <1>5, <2>4 DEF TypeOK
  <2>6. ASSUME drive = "A", NEW h \in Files PROVE HandleSound(h)'
    <3>1. CASE h # k
      <4>1. HandleSound(h)
        BY <1>1, <2>6 DEF DriveA
      <4> QED BY <1>3, <1>4, <1>5, <2>4, <3>1, <4>1, HandleThen
    <3>2. CASE h = k
      <4>1. SUFFICES ASSUME o.live
                     PROVE  (/\ ~new /\ state = "mounted" /\ file[h] \in OpenAt /\ On(file[h])
                             /\ file[h].slot.kind = "file" /\ FileWhole(disk, file[h].slot) /\ orig[h].data = DataOf(file[h].slot))'
        BY <2>4, <3>2 DEF HandleSound
      <4>2. ~new /\ r.state = "mounted" /\ r.slot.kind = "file" /\ FileWhole(disk, r.slot)
        BY <1>4, <1>7, <2>3, <2>6, <4>1
      <4>3. On(file[h])' /\ DataOf(file[h].slot)' = DataOf(f.slot)
        BY <1>3, <2>3, <2>4, <3>2 DEF On, Nth, DataOf
      <4> QED BY <1>3, <1>5, <2>3, <2>4, <3>2, <4>2, <4>3
    <3> QED BY <3>1, <3>2
  <2>7. drive = "A" => Tidy' /\ SearchSound'
    BY <1>1, <1>3, <1>4, <1>5, TidySame, SearchThen DEF DriveA
  <2>8. DriveA'
    BY <1>3, <2>6, <2>7 DEF DriveA
  <2> QED BY <1>5, <2>5, <2>8 DEF IInv
<1> QED BY <1>6, <1>7

\* Fclose: the handle is the program's no more.
LEMMA FcloseThen ==
  ASSUME IInv, NEW h \in Files, Fclose(h)
  PROVE  IInv'
<1>1. TypeOK /\ Coherent /\ DriveA
  BY DEF IInv
<1>2. /\ file' = [file EXCEPT ![h] = Closed] /\ orig' = [orig EXCEPT ![h] = Forgotten]
      /\ UNCHANGED <<state, top, mem, cwd, dta, seen, new, drive, disk, up, changes>>
  BY DEF Fclose, Outside
<1>3. Closed \in Handle /\ Forgotten \in Histories /\ ~Forgotten.live
  <2>1. << >> \in Seq(Data)
    OBVIOUS
  <2> QED BY <2>1 DEF Handle, Forgotten, Histories
<1>4. /\ file' \in [Files -> Handle] /\ orig' \in [Files -> Histories] /\ ~orig'[h].live
      /\ \A k \in Files : k # h => file'[k] = file[k] /\ orig'[k] = orig[k]
  BY <1>1, <1>2, <1>3 DEF TypeOK
<1>5. TypeOK'
  BY <1>1, <1>2, <1>4 DEF TypeOK
<1>6. Coherent'
  BY <1>1, <1>2, CoherentThen DEF Coherent
<1>7. ASSUME drive = "A", NEW k \in Files PROVE HandleSound(k)'
  <2>1. CASE k # h
    <3>1. HandleSound(k)
      BY <1>1, <1>7 DEF DriveA
    <3> QED BY <1>2, <1>4, <2>1, <3>1, HandleThen
  <2>2. CASE k = h
    BY <1>4, <2>2 DEF HandleSound
  <2> QED BY <2>1, <2>2
<1>8. DriveA'
  BY <1>1, <1>2, <1>7, TidySame, SearchThen DEF DriveA
<1> QED BY <1>5, <1>6, <1>8 DEF IInv

\* Fread: the handle moves along its chain, and the drive keeps what it has read.
LEMMA FreadThen ==
  ASSUME IInv, NEW h \in Files, NEW n \in Nat, NEW aligned \in BOOLEAN, Fread(h, n, aligned)
  PROVE  IInv'
<1> DEFINE fresh == ~new
           B == Bound(state, fresh)
           R == Known(fresh)
           f == file[h]
           r == Read(f, n, aligned)
<1>1. TypeOK /\ Coherent /\ DriveA
  BY DEF IInv
<1>2. /\ f.used /\ mem' = [r.m EXCEPT !.ok = TRUE] /\ file' = [file EXCEPT ![h] = r.f]
      /\ UNCHANGED <<state, top, cwd, dta, orig, seen, new, drive, disk, up, changes>>
  BY DEF Fread, Outside, hist
<1>3. f \in OpenAt
  <2>1. f \in Handle
    BY <1>1 DEF TypeOK
  <2> QED BY <1>2, <2>1 DEF Handle, Closed
<1>4. Trusted(B, R) /\ Within(mem, B, R) /\ (fresh /\ state = "mounted" => B = Current) /\ mem.ok
  <2>1. disk \in Disk /\ up \in BOOLEAN /\ Within(mem, B, R) /\ mem.ok
    BY <1>1 DEF TypeOK, Coherent, Kept
  <2>2. fresh \in BOOLEAN
    BY Zenon
  <2> HIDE DEF fresh
  <2> QED BY <2>1, <2>2, KnownIs
<1> HIDE DEF B, R, r
<1>5. /\ r.f \in OpenAt /\ r.f.used = f.used /\ r.f.slot = f.slot /\ Within(r.m, B, R)
      /\ B = Current /\ On(f) /\ Whole(f.slot.cluster) /\ f.slot.size <= Len(Chain(disk, f.slot.cluster)) => On(r.f)
  <2>1. Trusted(B, R) /\ Within(mem, B, R) /\ f \in OpenAt /\ n \in Nat /\ aligned \in BOOLEAN
    BY <1>3, <1>4
  <2> HIDE DEF f
  <2>2. r.f \in OpenAt /\ r.f.used = f.used /\ r.f.slot = f.slot /\ Within(r.m, B, R)
    BY <2>1, ReadIs DEF r
  <2>3. ASSUME B = Current, On(f), Whole(f.slot.cluster), f.slot.size <= Len(Chain(disk, f.slot.cluster))
        PROVE  On(r.f)
    BY <2>1, <2>3, ReadIs DEF r
  <2> QED BY <2>2, <2>3
<1>6. Within(mem', B, R) /\ mem'.ok /\ mem' \in Mem
  <2> DEFINE m == [r.m EXCEPT !.ok = TRUE]
  <2>1. Within(m, B, R) /\ m.ok
    BY <1>5, OkIs
  <2> HIDE DEF m
  <2>2. m \in Mem /\ mem' = m
    BY <1>2, <2>1 DEF Within, m
  <2> QED BY <2>1, <2>2
<1>7. Coherent'
  <2>1. Kept(mem', state', top', ~new)
    BY <1>1, <1>2, <1>6 DEF Coherent, Kept, B, R
  <2> QED BY <1>2, <1>6, <2>1, CoherentThen
<1>8. /\ file'[h] = r.f /\ \A k \in Files : k # h => file'[k] = file[k]
      /\ file' \in [Files -> Handle] /\ r.f \in Handle
  <2>1. r.f \in Handle
    BY <1>2, <1>5 DEF Handle
  <2> QED BY <1>1, <1>2, <2>1 DEF TypeOK
<1>9. TypeOK'
  BY <1>1, <1>2, <1>6, <1>8 DEF TypeOK
<1>10. ASSUME drive = "A", NEW k \in Files PROVE HandleSound(k)'
  <2>0. HandleSound(k)
    BY <1>1, <1>10 DEF DriveA
  <2>1. CASE k # h
    BY <1>2, <1>8, <2>0, <2>1, HandleThen
  <2>2. CASE k = h
    <3>1. SUFFICES ASSUME orig[h].live
                   PROVE  (/\ ~new /\ state = "mounted" /\ file[h] \in OpenAt /\ On(file[h])
                           /\ file[h].slot.kind = "file" /\ FileWhole(disk, file[h].slot) /\ orig[h].data = DataOf(file[h].slot))'
      BY <1>2, <2>2 DEF HandleSound
    <3>2. /\ ~new /\ state = "mounted" /\ On(f) /\ f.slot.kind = "file" /\ FileWhole(disk, f.slot) /\ orig[h].data = DataOf(f.slot)
      BY <2>0, <2>2, <3>1 DEF HandleSound
    <3>3. On(r.f)
      BY <1>4, <1>5, <3>2 DEF FileWhole, Whole
    <3>4. On(file[h])' /\ DataOf(file[h].slot)' = DataOf(f.slot)
      BY <1>2, <1>5, <1>8, <3>3 DEF On, Nth, DataOf
    <3> QED BY <1>2, <1>5, <1>8, <3>2, <3>4
  <2> QED BY <2>1, <2>2
<1>11. DriveA'
  BY <1>1, <1>2, <1>10, TidySame, SearchThen DEF DriveA
<1> QED BY <1>7, <1>9, <1>11 DEF IInv

\* Fseek: the place sought is of the file's chain, from its start or from where the handle is.
LEMMA FseekThen ==
  ASSUME IInv, NEW h \in Files, NEW to \in Nat, Fseek(h, to)
  PROVE  IInv'
<1> DEFINE f == file[h]
           g == [f EXCEPT !.pos = to]
<1>1. TypeOK /\ Coherent /\ DriveA
  BY DEF IInv
<1>2. /\ f.used /\ to <= f.slot.size /\ file' = [file EXCEPT ![h].pos = to]
      /\ UNCHANGED <<state, top, mem, cwd, dta, orig, seen, new, drive, disk, up, changes>>
  BY DEF Fseek, Outside, hist
<1>3. f \in OpenAt
  <2>1. f \in Handle
    BY <1>1 DEF TypeOK
  <2> QED BY <1>2, <2>1 DEF Handle, Closed
<1>4. g \in OpenAt /\ g.used /\ g.slot = f.slot /\ g.cl = f.cl /\ g.index = f.index
  <2> HIDE DEF f
  <2>1. g \in OpenFile /\ g.used /\ g.slot = f.slot /\ g.cl = f.cl /\ g.index = f.index /\ g.pos = to
    BY <1>2, <1>3 DEF OpenAt, OpenFile
  <2> QED BY <1>2, <2>1 DEF OpenAt
<1>5. file' = [file EXCEPT ![h] = g]
  BY <1>1, <1>2 DEF TypeOK
<1> HIDE DEF g
<1>6. /\ file'[h] = g /\ \A k \in Files : k # h => file'[k] = file[k]
      /\ file' \in [Files -> Handle]
  <2>1. g \in Handle
    BY <1>4 DEF Handle
  <2> QED BY <1>1, <1>5, <2>1 DEF TypeOK
<1>7. Coherent'
  BY <1>1, <1>2, CoherentThen DEF Coherent
<1>8. TypeOK'
  BY <1>1, <1>2, <1>6 DEF TypeOK
<1>9. ASSUME drive = "A", NEW k \in Files PROVE HandleSound(k)'
  <2>0. HandleSound(k)
    BY <1>1, <1>9 DEF DriveA
  <2>1. CASE k # h
    BY <1>2, <1>6, <2>0, <2>1, HandleThen
  <2>2. CASE k = h
    <3>1. SUFFICES ASSUME orig[h].live
                   PROVE  (/\ ~new /\ state = "mounted" /\ file[h] \in OpenAt /\ On(file[h])
                           /\ file[h].slot.kind = "file" /\ FileWhole(disk, file[h].slot) /\ orig[h].data = DataOf(file[h].slot))'
      BY <1>2, <2>2 DEF HandleSound
    <3>2. /\ ~new /\ state = "mounted" /\ On(f) /\ f.slot.kind = "file" /\ FileWhole(disk, f.slot) /\ orig[h].data = DataOf(f.slot)
      BY <2>0, <2>2, <3>1 DEF HandleSound
    <3>3. On(g)
      BY <1>4, <3>2 DEF On
    <3>4. On(file[h])' /\ DataOf(file[h].slot)' = DataOf(f.slot)
      <4>1. file'[h] = g /\ g.slot = f.slot /\ disk' = disk
        BY <1>2, <1>4, <1>6
      <4>2. On(file[h])'
        BY <3>3, <4>1 DEF On, Nth
      <4>3. DataOf(file[h].slot)' = DataOf(f.slot)
        BY <4>1 DEF DataOf
      <4> QED BY <4>2, <4>3
    <3> QED BY <1>2, <1>4, <1>6, <3>2, <3>4
  <2> QED BY <2>1, <2>2
<1>10. DriveA'
  BY <1>1, <1>2, <1>9, TidySame, SearchThen DEF DriveA
<1> QED BY <1>7, <1>8, <1>10 DEF IInv

-----------------------------------------------------------------------------
(* Searches: Fsfirst, Fsnext. *)

\* The slots a reader sees, by number.
LEMMA SeenIs ==
  ASSUME disk \in Disk, NEW dir, NEW i
  PROVE  i \in Seen(Slots(disk, dir)) <=>
           i \in Nat \ {0} /\ ~Stop(SlotNow(dir, i)) /\ \A p \in 1 .. i : SlotNow(dir, p).kind # "zero"
<1> DEFINE t == Slots(disk, dir)
<1>1. t \in Seq(Slot) /\ DOMAIN t = 1 .. Len(t) /\ Len(t) \in Nat
  BY SlotsIs
<1>2. \A p : SlotNow(dir, p) = IF p \in DOMAIN t THEN t[p] ELSE NoEntry
  BY DEF SlotNow
<1>3. \A p : SlotNow(dir, p).kind = "none" <=> p \notin DOMAIN t
  BY SlotNowTyped
<1> HIDE DEF t
<1>4. ASSUME i \in Seen(t)
      PROVE  i \in Nat \ {0} /\ ~Stop(SlotNow(dir, i)) /\ \A p \in 1 .. i : SlotNow(dir, p).kind # "zero"
  <2>1. i \in DOMAIN t /\ \A p \in 1 .. i : t[p].kind # "zero"
    BY <1>4 DEF Seen
  <2>2. i \in 1 .. Len(t)
    BY <1>1, <2>1
  <2>3. \A p \in 1 .. i : p \in DOMAIN t
    BY <1>1, <2>2
  <2>4. \A p \in 1 .. i : SlotNow(dir, p).kind # "zero"
    BY <1>2, <2>1, <2>3
  <2>5. i \in 1 .. i
    BY <1>1, <2>2
  <2> QED BY <1>1, <1>3, <2>1, <2>2, <2>4, <2>5 DEF Stop
<1>5. ASSUME i \in Nat \ {0}, ~Stop(SlotNow(dir, i)), \A p \in 1 .. i : SlotNow(dir, p).kind # "zero"
      PROVE  i \in Seen(t)
  <2>1. i \in DOMAIN t
    BY <1>3, <1>5 DEF Stop
  <2>2. \A p \in 1 .. i : p \in DOMAIN t
    BY <1>1, <1>5, <2>1
  <2>3. \A p \in 1 .. i : t[p].kind # "zero"
    BY <1>2, <1>5, <2>2
  <2> QED BY <2>1, <2>3 DEF Seen
<1> QED BY <1>4, <1>5 DEF t

\* An entry that bears a name is one of the folder's.
LEMMA BearsIs ==
  ASSUME disk \in Disk, NEW dir, NEW i, NEW kinds \in SUBSET {"file", "dir"}, NEW n
  PROVE  /\ Bears(dir, i, kinds, n) =>
              /\ i \in Seen(Slots(disk, dir)) /\ Bears(dir, i, {"file", "dir"}, n)
              /\ ~Stop(SlotNow(dir, i)) /\ Wanted(SlotNow(dir, i), kinds, "*") /\ SlotNow(dir, i) = Slots(disk, dir)[i]
         /\ i \in Seen(Slots(disk, dir)) /\ Slots(disk, dir)[i].kind \in kinds /\ Slots(disk, dir)[i].name = n =>
              Bears(dir, i, kinds, n)
<1>1. SlotNow(dir, i).kind \in kinds => ~Stop(SlotNow(dir, i))
  BY DEF Stop
<1>2. i \in Seen(Slots(disk, dir)) => SlotNow(dir, i) = Slots(disk, dir)[i]
  BY DEF Seen, SlotNow
<1>3. i \in Seen(Slots(disk, dir)) <=>
        i \in Nat \ {0} /\ ~Stop(SlotNow(dir, i)) /\ \A p \in 1 .. i : SlotNow(dir, p).kind # "zero"
  BY SeenIs
<1>4. Bears(dir, i, kinds, n) =>
        /\ i \in Seen(Slots(disk, dir)) /\ Bears(dir, i, {"file", "dir"}, n)
        /\ ~Stop(SlotNow(dir, i)) /\ Wanted(SlotNow(dir, i), kinds, "*")
  BY <1>1, <1>3 DEF Bears, Wanted
<1>5. i \in Seen(Slots(disk, dir)) /\ Slots(disk, dir)[i].kind \in kinds /\ Slots(disk, dir)[i].name = n =>
        Bears(dir, i, kinds, n)
  BY <1>2, <1>3 DEF Bears
<1> QED BY <1>2, <1>4, <1>5

\* A look does not get behind a folder that ends.
LEMMA LookEnds ==
  ASSUME disk \in Disk, NEW dir \in Links, Ended(dir), NEW i \in 1 .. MaxSlot, NEW j \in Nat,
         \A p \in i .. (j - 1) : ~Stop(SlotNow(dir, p))
  PROVE  j <= MaxSlot
<1> DEFINE L == Len(Chain(disk, dir))
           t == Slots(disk, dir)
<1>1. L \in Nat /\ L < Clusters /\ Per \in Nat \ {0, 1} /\ Clusters \in Nat /\ MaxSlot = Clusters * Per
  BY NthOf, ConstantsAre DEF Ended, MaxSlot
<1>2. DOMAIN t = 1 .. (L * Per)
  BY DEF Slots, SlotsAlong
<1> HIDE DEF L, t
<1>3. L * Per + Per <= Clusters * Per /\ L * Per \in Nat /\ Clusters * Per \in Nat
  BY <1>1
<1>4. SUFFICES ASSUME j > MaxSlot PROVE FALSE
  BY <1>1, <1>3
<1>5. MaxSlot \in i .. (j - 1) /\ MaxSlot \in Nat /\ MaxSlot > L * Per
  BY <1>1, <1>3, <1>4
<1>6. ~Stop(SlotNow(dir, MaxSlot))
  BY <1>5
<1>7. MaxSlot \notin DOMAIN t
  BY <1>2, <1>3, <1>5
<1>8. SlotNow(dir, MaxSlot).kind = "none"
  BY <1>7, SlotNowTyped DEF t
<1> QED BY <1>6, <1>8 DEF Stop

\* search.next: what it leaves.
LEMMA SearchOnIs ==
  ASSUME NEW B, NEW R, Trusted(B, R), NEW r, Within(r.m, B, R), NEW t \in Search \ {NoSearch}, NEW sought,
         NEW x, x = SearchOn(r, t, sought)
  PROVE  /\ Within(x.m, B, R) /\ x.state = r.state /\ x.top = r.top /\ x.seen = sought
         /\ x.name \in SUBSET STRING /\ x.dta \in Search \ {NoSearch}
<1> DEFINE e == NextEntry(r.m, t.dir, t.at, t.kinds, "*")
<1>1. t.dir \in Links /\ t.at \in Nat \ {0} /\ t.kinds \in SUBSET {"file", "dir"}
      /\ t \in [dir : Links, at : Nat \ {0}, kinds : SUBSET {"file", "dir"}]
  BY DEF Search
<1>2. e \in Looks(B, R)
  BY <1>1, NextEntryIs
<1>3. x = Moved(r, t, sought, e)
  BY DEF SearchOn
<1> HIDE DEF e
<1>4. e.at \in Nat \ {0} /\ e.slot \in ShortSlots \cup {NoEntry} /\ Within(e.m, B, R)
  BY <1>2 DEF Looks
<1>5. e.slot.kind = "none" <=> e.slot = NoEntry
  BY <1>4, KindIs
<1>6. /\ x.m = e.m /\ x.state = r.state /\ x.top = r.top /\ x.seen = sought
      /\ x.dta = [t EXCEPT !.at = e.at]
      /\ x.name = IF e.slot = NoEntry THEN {} ELSE {e.slot.name}
  BY <1>3, <1>5 DEF Moved
<1>7. x.name \in SUBSET STRING
  BY <1>4, <1>6 DEF ShortSlots
<1>8. /\ x.dta \in [dir : Links, at : Nat \ {0}, kinds : SUBSET {"file", "dir"}]
      /\ x.dta.dir = t.dir /\ x.dta.kinds = t.kinds /\ x.dta.at = e.at
  BY <1>1, <1>4, <1>6
<1>9. x.dta \in Search \ {NoSearch}
  BY <1>8 DEF Search, NoSearch
<1> QED BY <1>2, <1>4, <1>6, <1>7, <1>8, <1>9 DEF e

\* And, over fresh sectors, the search stays one that has found what is behind it.
LEMMA SearchFresh ==
  ASSUME NEW R, Trusted(Current, R), NEW r, Within(r.m, Current, R), NEW t, NEW sought, NEW must, NEW found,
         Ledger(t, must, found), NEW x, x = SearchOn(r, t, sought)
  PROVE  /\ Ledger(x.dta, must, found \cup x.name)
         /\ x.name = {} /\ x.m.ok => \A n \in must : n \in found
         /\ \A n \in must : ~(n \in x.name /\ n \in found)
<1> DEFINE e == NextEntry(r.m, t.dir, t.at, t.kinds, "*")
           dir == t.dir
           i == t.at
           kinds == t.kinds
<1>0. /\ t \in Search \ {NoSearch} /\ Ended(dir) /\ i <= MaxSlot /\ disk \in Disk
      /\ dir \in Links /\ i \in Nat \ {0} /\ kinds \in SUBSET {"file", "dir"}
  BY DEF Ledger, Search, Trusted
<1>9. \A p \in 1 .. (i - 1) : SlotNow(dir, p).kind # "zero"
  BY DEF Ledger
<1>1. \A n \in must : One(dir, n) /\ \E a : Bears(dir, a, kinds, n) /\ (n \in found <=> a < i)
  BY DEF Ledger
<1>2. /\ e.m.ok => Truly(e, dir, kinds, "*", i)
      /\ ~e.m.ok => Cut(e, dir, kinds, "*", i)
  BY <1>0, NextEntryIs
<1>3. /\ e \in Looks(Current, R) /\ x.m = e.m /\ x.name = IF e.slot = NoEntry THEN {} ELSE {e.slot.name}
      /\ x.dta \in Search \ {NoSearch} /\ x.dta.dir = dir /\ x.dta.kinds = kinds /\ x.dta.at = e.at
  <2>1. t \in Search \ {NoSearch}
    BY <1>0
  <2>2. e \in Looks(Current, R)
    BY <1>0, NextEntryIs
  <2>5. x.m = e.m
    BY DEF SearchOn, Moved
  <2>3. x.name = IF e.slot = NoEntry THEN {} ELSE {e.slot.name}
    <3>1. e.slot.kind = "none" <=> e.slot = NoEntry
      BY <2>2, KindIs DEF Looks
    <3>2. x.name = IF e.slot.kind = "none" THEN {} ELSE {e.slot.name}
      BY DEF SearchOn, Moved
    <3> QED BY <3>1, <3>2
  <2>4. x.dta.dir = dir /\ x.dta.kinds = kinds /\ x.dta.at = e.at
    <3>1. x.dta = [t EXCEPT !.at = e.at]
      BY DEF SearchOn, Moved
    <3>2. t \in [dir : Links, at : Nat \ {0}, kinds : SUBSET {"file", "dir"}]
      BY <1>0 DEF Search
    <3> HIDE DEF e
    <3> QED BY <3>1, <3>2
  <2>6. x.dta \in Search \ {NoSearch}
    BY <2>1, SearchOnIs
  <2> QED BY <2>2, <2>3, <2>4, <2>5, <2>6
<1> HIDE DEF e, dir, i, kinds
<1> DEFINE at == e.at
           hit == e.slot # NoEntry
           last == IF hit THEN at - 1 ELSE at
<1>4. at \in Nat \ {0} /\ at >= i /\ Passed(dir, kinds, "*", i, last) /\ (hit => e.m.ok)
  <2>1. at \in Nat \ {0}
    BY <1>3 DEF Looks
  <2>2. CASE ~e.m.ok
    BY <1>2, <2>1, <2>2 DEF Cut
  <2>3. CASE e.m.ok
    <3>1. e.slot \in ShortSlots => hit
      BY KindIs DEF NoEntry
    <3> QED BY <1>2, <2>1, <2>3, <3>1 DEF Truly, Missed, Met
  <2> QED BY <2>2, <2>3
<1>5. hit => /\ at - 1 >= i /\ e.slot = SlotNow(dir, at - 1) /\ e.slot.kind \in kinds
  <2>1. e.slot = NoEntry \/ Met(e, dir, kinds, "*", i) \/ ~e.m.ok
    BY <1>2 DEF Truly, Missed
  <2> QED BY <1>4, <2>1 DEF Met, Wanted
<1>6. ~hit /\ e.m.ok => Stop(SlotNow(dir, at))
  <2>1. Met(e, dir, kinds, "*", i) => hit
    BY KindIs DEF Met, NoEntry
  <2> QED BY <1>2, <2>1 DEF Truly, Missed
<1>7. at <= MaxSlot
  <2>1. \A p \in i .. (at - 1) : ~Stop(SlotNow(dir, p))
    <3>1. SUFFICES ASSUME NEW p \in i .. (at - 1) PROVE ~Stop(SlotNow(dir, p))
      OBVIOUS
    <3>2. CASE p \in i .. (last - 1)
      BY <1>4, <3>2 DEF Passed
    <3>3. CASE p \notin i .. (last - 1)
      <4>1. hit /\ p = at - 1
        BY <1>0, <1>4, <3>3
      <4> QED BY <1>0, <1>5, <4>1 DEF Stop
    <3> QED BY <3>2, <3>3
  <2>2. MaxSlot \in Nat
    BY ConstantsAre DEF MaxSlot
  <2>3. i \in 1 .. MaxSlot
    BY <1>0, <2>2
  <2> QED BY <1>0, <1>4, <2>1, <2>3, LookEnds
<1>8. ASSUME NEW n \in must, NEW a, Bears(dir, a, kinds, n), n \in found <=> a < i
      PROVE  /\ n \in found \cup x.name <=> a < at
             /\ ~hit /\ e.m.ok => a < i
             /\ hit /\ e.slot.name = n => a = at - 1
  <2>1. /\ a \in Nat \ {0} /\ Wanted(SlotNow(dir, a), kinds, "*") /\ Bears(dir, a, {"file", "dir"}, n)
        /\ SlotNow(dir, a).name = n /\ \A p \in 1 .. a : SlotNow(dir, p).kind \notin {"none", "zero"} \/ p # a
        /\ a \in Seen(Slots(disk, dir))
    BY <1>0, <1>8, BearsIs DEF Bears, Stop
  <2>2. ~(a \in i .. (last - 1))
    BY <1>4, <2>1 DEF Passed
  <2>3. ~hit /\ e.m.ok => ~(at <= a)
    <3>1. SUFFICES ASSUME ~hit, e.m.ok, at <= a PROVE FALSE
      OBVIOUS
    <3>2. Stop(SlotNow(dir, at)) /\ at \in 1 .. a
      BY <1>4, <1>6, <2>1, <3>1
    <3>3. SlotNow(dir, at).kind # "zero"
      BY <1>8, <3>2 DEF Bears
    <3>4. at \in DOMAIN Slots(disk, dir)
      <4>1. a \in DOMAIN Slots(disk, dir) /\ DOMAIN Slots(disk, dir) = 1 .. Len(Slots(disk, dir))
            /\ Len(Slots(disk, dir)) \in Nat
        BY <1>0, <2>1, SlotsIs DEF Seen
      <4> QED BY <1>4, <2>1, <3>2, <4>1
    <3>5. SlotNow(dir, at).kind # "none"
      BY <1>0, <3>4, SlotNowTyped
    <3> QED BY <3>2, <3>3, <3>5 DEF Stop
  <2>4. hit /\ e.slot.name = n => a = at - 1
    <3>1. SUFFICES ASSUME hit, e.slot.name = n PROVE a = at - 1
      OBVIOUS
    <3>2. Bears(dir, at - 1, {"file", "dir"}, n)
      <4>1. at - 1 \in Nat \ {0} /\ SlotNow(dir, at - 1) = e.slot /\ e.slot.kind \in {"file", "dir"}
        <5>1. at - 1 >= i /\ e.slot = SlotNow(dir, at - 1) /\ e.slot.kind \in kinds
          BY <1>5, <3>1
        <5>2. at - 1 \in Nat \ {0}
          BY <1>0, <1>4, <5>1
        <5>3. kinds \subseteq {"file", "dir"}
          BY <1>0
        <5> QED BY <5>1, <5>2, <5>3
      <4>2. ASSUME NEW p \in 1 .. (at - 1) PROVE SlotNow(dir, p).kind # "zero"
        <5>1. CASE p \in 1 .. (i - 1)
          BY <1>9, <5>1
        <5>2. CASE p \in i .. (last - 1)
          BY <1>4, <5>2 DEF Passed, Stop
        <5>3. CASE p \notin 1 .. (i - 1) /\ p \notin i .. (last - 1)
          <6>1. p = at - 1
            BY <1>0, <1>4, <3>1, <5>3
          <6> QED BY <4>1, <6>1
        <5> QED BY <5>1, <5>2, <5>3
      <4> QED BY <3>1, <4>1, <4>2 DEF Bears
    <3>3. One(dir, n)
      BY <1>1
    <3> QED BY <2>1, <3>2, <3>3 DEF One
  <2>5. n \in x.name <=> hit /\ e.slot.name = n
    BY <1>3
  <2>6. hit /\ a = at - 1 => e.slot.name = n
    BY <1>5, <2>1
  <2>7. n \in found \cup x.name <=> a < at
    <3>1. CASE a < i
      BY <1>0, <1>4, <1>8, <2>1, <3>1
    <3>2. CASE ~(a < i) /\ ~hit
      BY <1>0, <1>4, <1>8, <2>1, <2>2, <2>5, <3>2
    <3>3. CASE ~(a < i) /\ hit
      <4>1. n \in x.name <=> a = at - 1
        BY <2>4, <2>5, <2>6, <3>3
      <4>2. a = at - 1 <=> a < at
        BY <1>0, <1>4, <2>1, <2>2, <3>3
      <4> QED BY <1>8, <3>3, <4>1, <4>2
    <3> QED BY <3>1, <3>2, <3>3
  <2>8. ~hit /\ e.m.ok => a < i
    BY <1>0, <1>4, <2>1, <2>2, <2>3
  <2> QED BY <2>4, <2>7, <2>8
<1>10. \A p \in 1 .. (at - 1) : SlotNow(dir, p).kind # "zero"
  <2>1. SUFFICES ASSUME NEW p \in 1 .. (at - 1) PROVE SlotNow(dir, p).kind # "zero"
    OBVIOUS
  <2>2. CASE p \in 1 .. (i - 1)
    BY <1>9, <2>2
  <2>3. CASE p \in i .. (last - 1)
    BY <1>4, <2>3 DEF Passed, Stop
  <2>4. CASE p \notin 1 .. (i - 1) /\ p \notin i .. (last - 1)
    <3>1. hit /\ p = at - 1
      BY <1>0, <1>4, <2>4
    <3> QED BY <1>0, <1>5, <3>1
  <2> QED BY <2>2, <2>3, <2>4
<1>11. Ledger(x.dta, must, found \cup x.name)
  <2>1. \A n \in must : One(dir, n) /\ \E a : Bears(dir, a, kinds, n) /\ (n \in found \cup x.name <=> a < at)
    BY <1>1, <1>8
  <2> QED BY <1>0, <1>3, <1>7, <1>10, <2>1 DEF Ledger
<1>12. x.name = {} /\ x.m.ok => \A n \in must : n \in found
  <2>1. SUFFICES ASSUME x.name = {}, x.m.ok, NEW n \in must PROVE n \in found
    OBVIOUS
  <2>2. ~hit /\ e.m.ok
    BY <1>3, <2>1
  <2> QED BY <1>1, <1>8, <2>2
<1>13. \A n \in must : ~(n \in x.name /\ n \in found)
  <2>1. SUFFICES ASSUME NEW n \in must, n \in x.name, n \in found PROVE FALSE
    OBVIOUS
  <2>2. hit /\ e.slot.name = n
    BY <1>3, <2>1
  <2>3. PICK a : Bears(dir, a, kinds, n) /\ (n \in found <=> a < i)
    BY <1>1
  <2>4. a = at - 1 /\ a < i
    BY <1>8, <2>1, <2>2, <2>3
  <2> QED BY <1>0, <1>4, <1>5, <2>2, <2>4
<1> QED BY <1>11, <1>12, <1>13

\* folderOf, in the invariant.
LEMMA FolderThen ==
  ASSUME IInv, NEW p \in Folders
  PROVE  LET r == FolderAt(Names(p))
         IN  /\ Names(p) \in Seq(Name)
             /\ Kept(r.m, r.state, r.top, ~new) /\ r.state \in {"mounted", "absent"}
             /\ state = "mounted" => r.state = "mounted"
             /\ r.err = "ok" => r.slot \in ShortSlots
             /\ drive = "A" /\ ~new /\ r.err = "ok" =>
                  r.state = "mounted" /\ \E F \in SUBSET Cluster : SoundIn(disk, F) /\ r.slot.cluster \in F
<1> DEFINE names == Names(p)
           r == FolderAt(names)
<1>1. TypeOK /\ Coherent /\ DriveA /\ disk \in Disk /\ up \in BOOLEAN /\ (~new) \in BOOLEAN
  <2>1. TypeOK /\ Coherent /\ DriveA
    BY DEF IInv
  <2>2. (~new) \in BOOLEAN
    BY Zenon
  <2> QED BY <2>1, <2>2 DEF TypeOK
<1>2. names \in Seq(Name)
  BY <1>1, NamesAre, GemdosReadAssumption DEF TypeOK
<1>3. /\ Ready.m.ok /\ Kept(Ready.m, Ready.state, Ready.top, ~new)
      /\ Ready.state \in {"mounted", "absent"} /\ (state = "mounted" => Ready.state = "mounted")
  BY <1>1, ReadyThen
<1> HIDE DEF names
<1>4. r = FolderFrom(Ready, names)
  BY DEF FolderAt
<1> HIDE DEF r
<1>5. /\ r.state = Ready.state /\ r.top = Ready.top /\ Kept(r.m, r.state, r.top, ~new)
      /\ r.err = "ok" => r.slot \in ShortSlots
  BY <1>1, <1>2, <1>3, <1>4, FolderFromIs
<1>6. ASSUME drive = "A", ~new, r.err = "ok"
      PROVE  r.state = "mounted" /\ \E F \in SUBSET Cluster : SoundIn(disk, F) /\ r.slot.cluster \in F
  <2>1. PICK F \in SUBSET Cluster : SoundIn(disk, F)
    BY <1>1, <1>6 DEF DriveA, Tidy
  <2>2. Kept(Ready.m, Ready.state, Ready.top, TRUE)
    BY <1>3, <1>6
  <2>3. Ready.state = "mounted" /\ r.slot.kind = "dir" /\ r.slot = There(names)
    BY <1>1, <1>2, <1>4, <1>6, <2>2, FolderFromAfresh
  <2>4. r.slot.cluster \in F
    BY <1>1, <1>2, <1>6, <2>1, <2>3, ThereSound
  <2> QED BY <1>5, <2>1, <2>3, <2>4
<1> QED BY <1>2, <1>3, <1>5, <1>6 DEF r, names

\* Dsetpath: a look, and another folder.
LEMMA DsetpathThen ==
  ASSUME IInv, NEW p \in Folders, Dsetpath(p)
  PROVE  IInv'
<1>1. TypeOK /\ Coherent /\ DriveA
  BY DEF IInv
<1>2. PICK r : /\ r = FolderAt(Names(p)) /\ Leaves(r) /\ cwd' = IF r.err = "ok" THEN Names(p) ELSE cwd
               /\ UNCHANGED <<file, dta, orig, seen, new, drive, disk, up, changes>>
  BY DEF Dsetpath, Outside, hist
<1>3. /\ Kept(r.m, r.state, r.top, ~new) /\ r.state \in {"mounted", "absent"}
      /\ state = "mounted" => r.state = "mounted"
      /\ Names(p) \in Seq(Name)
  BY <1>2, FolderThen
<1>4. Coherent' /\ mem' \in Mem /\ state' = r.state /\ top' \in Cluster
  BY <1>1, <1>2, <1>3, LeavesThen
<1>5. TypeOK'
  BY <1>1, <1>2, <1>3, <1>4 DEF TypeOK
<1>6. DriveA'
  BY <1>1, <1>2, <1>3, <1>4, DriveAThen
<1> QED BY <1>4, <1>5, <1>6 DEF IInv

\* The names a search must find, when it starts.
LEMMA ListedIs ==
  ASSUME disk \in Disk, NEW dir \in Links, NEW kinds \in SUBSET {"file", "dir"}
  PROVE  /\ Listed(disk, dir, kinds) \in SUBSET STRING
         /\ \A F : SoundIn(disk, F) /\ dir \in F =>
              Ledger([dir |-> dir, at |-> 1, kinds |-> kinds], Listed(disk, dir, kinds), {})
<1> DEFINE s == Slots(disk, dir)
           t == [dir |-> dir, at |-> 1, kinds |-> kinds]
<1>1. \A i \in DOMAIN s : i \in Nat \ {0} /\ s[i] \in Slot
  BY SlotsIs
<1> HIDE DEF s
<1>2. \A n \in Listed(disk, dir, kinds) : \E i \in Seen(s) : s[i].kind \in kinds /\ s[i].name = n
  BY DEF Listed, s
<1>3. Listed(disk, dir, kinds) \in SUBSET STRING
  <2>1. SUFFICES ASSUME NEW n \in Listed(disk, dir, kinds) PROVE n \in STRING
    OBVIOUS
  <2>2. PICK i \in Seen(s) : s[i].kind \in kinds /\ s[i].name = n
    BY <1>2
  <2>3. s[i] \in ShortSlots
    BY <1>1, <2>2, LiveIs DEF Seen
  <2> QED BY <2>2, <2>3 DEF ShortSlots
<1>4. ASSUME NEW F, SoundIn(disk, F), dir \in F PROVE Ledger(t, Listed(disk, dir, kinds), {})
  <2>1. t \in Search \ {NoSearch} /\ t.dir = dir /\ t.at = 1 /\ t.kinds = kinds
    BY DEF Search, NoSearch
  <2>2. Ended(dir)
    BY <1>4 DEF SoundIn, FoldersEndIn, Ended, Whole
  <2>3. 1 <= MaxSlot
    <3>1. Clusters \in Nat \ {0} /\ Per \in Nat \ {0}
      BY ConstantsAre
    <3> QED BY <3>1 DEF MaxSlot
  <2>4. \A n : One(dir, n)
    <3>1. SUFFICES ASSUME NEW n, NEW i, NEW j, Bears(dir, i, {"file", "dir"}, n), Bears(dir, j, {"file", "dir"}, n)
                   PROVE  i = j
      BY DEF One
    <3>2. /\ i \in Seen(s) /\ s[i].kind \in {"file", "dir"} /\ s[i].name = n
          /\ j \in Seen(s) /\ s[j].kind \in {"file", "dir"} /\ s[j].name = n
      <4>1. \A a : Bears(dir, a, {"file", "dir"}, n) => a \in Seen(Slots(disk, dir)) /\ SlotNow(dir, a) = Slots(disk, dir)[a]
        BY BearsIs
      <4>2. \A a : Bears(dir, a, {"file", "dir"}, n) => SlotNow(dir, a).kind \in {"file", "dir"} /\ SlotNow(dir, a).name = n
        BY DEF Bears
      <4> QED BY <3>1, <4>1, <4>2 DEF s
    <3> QED BY <1>4, <3>2 DEF SoundIn, s
  <2>5. ASSUME NEW n \in Listed(disk, dir, kinds)
        PROVE  \E i : Bears(dir, i, kinds, n) /\ (n \in {} <=> i < 1)
    <3>1. PICK i \in Seen(s) : s[i].kind \in kinds /\ s[i].name = n
      BY <1>2
    <3>2. Bears(dir, i, kinds, n)
      BY <3>1, BearsIs DEF s
    <3>3. i \in Nat \ {0}
      BY <1>1 DEF Seen
    <3> QED BY <3>2, <3>3
  <2> HIDE DEF t
  <2> QED BY <2>1, <2>2, <2>3, <2>4, <2>5 DEF Ledger
<1> QED BY <1>3, <1>4 DEF t

\* What a search leaves, in the invariant.
LEMMA SearchedThen ==
  ASSUME IInv, NEW x, Searched(x), Kept(x.m, x.state, x.top, ~new), x.state \in {"mounted", "absent"},
         state = "mounted" => x.state = "mounted",
         x.dta \in Search, x.seen \in Soughts, x.name \in SUBSET STRING,
         drive = "A" /\ x.seen.must # {} =>
           ~new /\ x.state = "mounted" /\ Ledger(x.dta, x.seen.must, x.seen.found \cup x.name)
  PROVE  IInv'
<1>1. TypeOK /\ Coherent /\ DriveA
  BY DEF IInv
<1>2. /\ Leaves(x) /\ dta' = x.dta /\ seen' = [x.seen EXCEPT !.found = @ \cup x.name]
      /\ UNCHANGED <<cwd, file, orig, new, drive, disk, up, changes>>
  BY DEF Searched, Outside
<1>3. Coherent' /\ mem' \in Mem /\ state' = x.state /\ top' \in Cluster
  BY <1>1, <1>2, LeavesThen
<1>4. seen' \in Soughts /\ seen'.must = x.seen.must /\ seen'.found = x.seen.found \cup x.name
  BY <1>2 DEF Soughts
<1>5. TypeOK'
  BY <1>1, <1>2, <1>3, <1>4 DEF TypeOK
<1>6. drive = "A" => \A h \in Files : HandleSound(h)'
  <2>1. SUFFICES ASSUME drive = "A", NEW h \in Files PROVE HandleSound(h)'
    OBVIOUS
  <2>2. HandleSound(h)
    BY <1>1, <2>1 DEF DriveA
  <2> QED BY <1>2, <1>3, <2>2, HandleThen
<1>7. drive = "A" => SearchSound'
  <2>1. SUFFICES ASSUME drive = "A", seen'.must # {}
                 PROVE  (~new /\ state = "mounted" /\ Ledger(dta, seen.must, seen.found))'
    BY DEF SearchSound
  <2>2. ~new /\ x.state = "mounted" /\ Ledger(x.dta, x.seen.must, x.seen.found \cup x.name)
    BY <1>4, <2>1
  <2>3. Ledger(dta, seen.must, seen.found)'
    BY <1>2, <1>4, <2>2 DEF Ledger, Ended, Whole, One, Bears, SlotNow
  <2> QED BY <1>2, <1>3, <2>2, <2>3
<1>8. DriveA'
  BY <1>1, <1>2, <1>6, <1>7, TidySame DEF DriveA
<1> QED BY <1>3, <1>5, <1>8 DEF IInv

\* Fsfirst: a look, and a search that starts at its folder's front.
LEMMA FsfirstThen ==
  ASSUME IInv, NEW p \in Folders, NEW kinds \in Lists, Fsfirst(p, kinds)
  PROVE  IInv'
<1> DEFINE r == FolderAt(Names(p))
           dir == r.slot.cluster
           t == [dir |-> dir, at |-> 1, kinds |-> kinds]
           must == IF new THEN {} ELSE Listed(disk, dir, kinds)
           sought == [must |-> must, found |-> {}]
           x == FirstFound(r, kinds)
<1>1. TypeOK /\ Coherent /\ DriveA /\ disk \in Disk /\ up \in BOOLEAN /\ kinds \in SUBSET {"file", "dir"}
  BY GemdosReadAssumption DEF IInv, TypeOK
<1>2. Searched(x)
  BY DEF Fsfirst
<1>3. /\ Kept(r.m, r.state, r.top, ~new) /\ r.state \in {"mounted", "absent"}
      /\ state = "mounted" => r.state = "mounted"
      /\ r.err = "ok" => r.slot \in ShortSlots
      /\ drive = "A" /\ ~new /\ r.err = "ok" =>
           r.state = "mounted" /\ \E F \in SUBSET Cluster : SoundIn(disk, F) /\ r.slot.cluster \in F
  BY FolderThen
<1> HIDE DEF r
<1>4. CASE r.err # "ok"
  <2>1. /\ x.m = r.m /\ x.state = r.state /\ x.top = r.top /\ x.dta = dta /\ x.seen = seen /\ x.name = {}
    BY <1>4 DEF FirstFound, NotFound
  <2>2. dta \in Search /\ seen \in Soughts /\ seen.found \cup {} = seen.found
    BY <1>1 DEF TypeOK
  <2>3. drive = "A" /\ seen.must # {} => ~new /\ r.state = "mounted" /\ Ledger(dta, seen.must, seen.found)
    BY <1>1, <1>3 DEF DriveA, SearchSound
  <2> HIDE DEF x
  <2> QED BY <1>2, <1>3, <2>1, <2>2, <2>3, SearchedThen
<1>5. CASE r.err = "ok"
  <2>1. x = SearchOn(r, t, sought)
    BY <1>5 DEF FirstFound
  <2>2. dir \in Links
    BY <1>3, <1>5 DEF ShortSlots, Links
  <2> HIDE DEF dir
  <2>3. t \in Search \ {NoSearch}
    BY <1>1, <2>2 DEF Search, NoSearch
  <2> HIDE DEF t, x
  <2>4. must \in SUBSET STRING
    BY <1>1, <2>2, ListedIs
  <2> HIDE DEF must
  <2>5. sought \in Soughts /\ sought.must = must /\ sought.found = {}
    BY <2>4 DEF Soughts
  <2> HIDE DEF sought
  <2> DEFINE B == Bound(r.state, ~new)
             R == Known(~new)
  <2>6. Trusted(B, R) /\ Within(r.m, B, R) /\ (~new /\ r.state = "mounted" => B = Current)
    <3>1. (~new) \in BOOLEAN
      BY Zenon
    <3>2. Within(r.m, B, R)
      BY <1>3 DEF Kept
    <3> QED BY <1>1, <3>1, <3>2, KnownIs
  <2> HIDE DEF B, R
  <2>7. /\ Within(x.m, B, R) /\ x.state = r.state /\ x.top = r.top /\ x.seen = sought
        /\ x.name \in SUBSET STRING /\ x.dta \in Search
    BY <2>1, <2>3, <2>6, SearchOnIs
  <2>8. Kept(x.m, x.state, x.top, ~new)
    BY <1>3, <2>7 DEF Kept, B, R
  <2>9. ASSUME drive = "A", must # {} PROVE ~new /\ r.state = "mounted" /\ Ledger(x.dta, must, {} \cup x.name)
    <3>1. ~new /\ must = Listed(disk, dir, kinds)
      BY <2>9 DEF must
    <3>2. r.state = "mounted" /\ \E F \in SUBSET Cluster : SoundIn(disk, F) /\ dir \in F
      BY <1>3, <1>5, <2>9, <3>1 DEF dir
    <3>3. Ledger(t, must, {})
      BY <1>1, <2>2, <3>1, <3>2, ListedIs DEF t
    <3>4. Trusted(Current, R) /\ Within(r.m, Current, R)
      BY <2>6, <3>1, <3>2
    <3>5. Ledger(x.dta, must, {} \cup x.name)
      BY <2>1, <3>3, <3>4, SearchFresh
    <3> QED BY <3>1, <3>2, <3>5
  <2> QED BY <1>2, <1>3, <2>5, <2>7, <2>8, <2>9, SearchedThen
<1> QED BY <1>4, <1>5

\* Fsnext: the search goes past what it finds, and finds all it goes past.
LEMMA FsnextThen ==
  ASSUME IInv, Fsnext
  PROVE  IInv'
<1> DEFINE r == Ready
           x == NextFound(r)
<1>1. TypeOK /\ Coherent /\ DriveA /\ disk \in Disk /\ up \in BOOLEAN /\ dta \in Search /\ seen \in Soughts
  BY DEF IInv, TypeOK
<1>2. dta # NoSearch /\ Searched(x)
  BY DEF Fsnext
<1>3. /\ Kept(r.m, r.state, r.top, ~new) /\ r.state \in {"mounted", "absent"}
      /\ state = "mounted" => r.state = "mounted"
  BY <1>1, ReadyThen
<1>4. drive = "A" /\ seen.must # {} => ~new /\ r.state = "mounted" /\ Ledger(dta, seen.must, seen.found)
  BY <1>1, <1>3 DEF DriveA, SearchSound
<1> HIDE DEF r
<1>5. CASE r.state # "mounted"
  <2>1. /\ x.m = r.m /\ x.state = r.state /\ x.top = r.top /\ x.dta = dta /\ x.seen = seen /\ x.name = {}
    BY <1>5 DEF NextFound, NotFound
  <2>2. seen.found \cup {} = seen.found
    OBVIOUS
  <2> HIDE DEF x
  <2> QED BY <1>1, <1>2, <1>3, <1>4, <2>1, <2>2, SearchedThen
<1>6. CASE r.state = "mounted"
  <2>1. x = SearchOn(r, dta, seen)
    BY <1>6 DEF NextFound
  <2> HIDE DEF x
  <2> DEFINE B == Bound(r.state, ~new)
             R == Known(~new)
  <2>2. Trusted(B, R) /\ Within(r.m, B, R) /\ (~new /\ r.state = "mounted" => B = Current)
    <3>1. (~new) \in BOOLEAN
      BY Zenon
    <3>2. Within(r.m, B, R)
      BY <1>3 DEF Kept
    <3> QED BY <1>1, <3>1, <3>2, KnownIs
  <2> HIDE DEF B, R
  <2>3. dta \in Search \ {NoSearch}
    BY <1>1, <1>2
  <2>4. /\ Within(x.m, B, R) /\ x.state = r.state /\ x.top = r.top /\ x.seen = seen
        /\ x.name \in SUBSET STRING /\ x.dta \in Search
    BY <2>1, <2>2, <2>3, SearchOnIs
  <2>5. Kept(x.m, x.state, x.top, ~new)
    BY <1>3, <2>4 DEF Kept, B, R
  <2>6. ASSUME drive = "A", seen.must # {}
        PROVE  ~new /\ x.state = "mounted" /\ Ledger(x.dta, seen.must, seen.found \cup x.name)
    <3>1. ~new /\ Ledger(dta, seen.must, seen.found) /\ Trusted(Current, R) /\ Within(r.m, Current, R)
      BY <1>4, <1>6, <2>2, <2>6
    <3>2. Ledger(x.dta, seen.must, seen.found \cup x.name)
      BY <2>1, <3>1, SearchFresh
    <3> QED BY <1>6, <2>4, <3>1, <3>2
  <2> QED BY <1>1, <1>2, <1>3, <2>4, <2>5, <2>6, SearchedThen
<1> QED BY <1>5, <1>6

-----------------------------------------------------------------------------
(* Requests to the host, disks put in, media changes. *)

\* A drive that has given up its runs.
LEMMA EmptiedIs ==
  ASSUME NEW m, Within(m, Sectors, Sectors)
  PROVE  \A yes \in BOOLEAN : \A g : g = [m EXCEPT !.runs = NoMem.runs, !.ok = yes] =>
           g \in Mem /\ g.ok = yes /\ \A R : Within(g, Sectors, R)
<1>1. /\ NoMem.runs \in [1 .. RunSlots -> [first : Nat, data : Seq(Value)]]
      /\ \A R : \A i \in 1 .. RunSlots : RunWithin(NoMem.runs[i], R)
  <2>1. << >> \in Seq(Value) /\ NoRun = [first |-> 0, data |-> << >>]
    BY DEF NoRun
  <2>2. \A R : RunWithin(NoRun, R)
    BY <2>1 DEF RunWithin
  <2>3. NoMem.runs = [i \in 1 .. RunSlots |-> NoRun]
    BY DEF NoMem
  <2> QED BY <2>1, <2>2, <2>3
<1>2. m \in Mem /\ (m.sector # NoSector => <<m.sector, m.buf>> \in Sectors)
  BY DEF Within
<1>3. SUFFICES ASSUME NEW yes \in BOOLEAN, NEW g, g = [m EXCEPT !.runs = NoMem.runs, !.ok = yes]
               PROVE  g \in Mem /\ g.ok = yes /\ \A R : Within(g, Sectors, R)
  OBVIOUS
<1>4. g \in Mem /\ g.sector = m.sector /\ g.buf = m.buf /\ g.runs = NoMem.runs /\ g.ok = yes
  BY <1>1, <1>2, <1>3 DEF Mem
<1> QED BY <1>1, <1>2, <1>4 DEF Within

\* A drive that is to mount again is coherent without its runs.
LEMMA UnknownThen ==
  ASSUME mem'.ok, \A R : Within(mem', Sectors, R), state' = "unknown", top' \in Cluster
  PROVE  Coherent'
BY DEF Coherent, Kept, Bound, Known

\* Of another disk no history outlives the change; of the same one they keep their kinds.
LEMMA OutlivesIs ==
  ASSUME TypeOK, NEW d, NEW other \in BOOLEAN, Outlives(d, other)
  PROVE  /\ orig' \in [Files -> Histories] /\ seen' \in Soughts
         /\ other => (\A h \in Files : ~orig'[h].live) /\ seen'.must = {}
<1> DEFINE left(h) == orig[h].live /\ ~other /\ Alive(d, file[h].slot)
           must == {n \in seen.must : ~other /\ Stays(d, dta.dir, n)}
<1>1. orig' = [h \in Files |-> [orig[h] EXCEPT !.live = left(h)]] /\ seen' = [seen EXCEPT !.must = must]
  BY DEF Outlives
<1>2. orig \in [Files -> Histories] /\ seen \in Soughts
  BY DEF TypeOK
<1>3. \A h \in Files : left(h) \in BOOLEAN /\ (other => ~left(h))
  BY Zenon
<1>4. must \subseteq seen.must /\ (other => must = {})
  OBVIOUS
<1> HIDE DEF left, must
<1>5. \A h \in Files : [orig[h] EXCEPT !.live = left(h)] \in Histories /\ [orig[h] EXCEPT !.live = left(h)].live = left(h)
  BY <1>2, <1>3 DEF Histories
<1>6. orig' \in [Files -> Histories] /\ \A h \in Files : orig'[h].live = left(h)
  BY <1>1, <1>5
<1>7. seen' \in Soughts /\ seen'.must = must
  BY <1>1, <1>2, <1>4 DEF Soughts
<1> QED BY <1>3, <1>4, <1>6, <1>7

\* Another disk: no handle or search outlives it.
LEMMA PutInThen ==
  ASSUME IInv, NEW d \in Range(Disk0), PutIn(d)
  PROVE  IInv'
<1>1. TypeOK /\ Coherent
  BY DEF IInv
<1>2. /\ disk' = d /\ new' = TRUE /\ changes' = changes + 1 /\ Outlives(d, TRUE)
      /\ UNCHANGED <<drive, up, state, top, mem, cwd, file, dta>>
  BY DEF PutIn
<1>3. PICK x \in DOMAIN Disk0 : d = Disk0[x]
  BY DEF Range
<1>4. d \in Disk /\ Alike(d) /\ \E F \in SUBSET Cluster : SoundIn(d, F)
  BY <1>3, DisksAssumption
<1>5. /\ orig' \in [Files -> Histories] /\ seen' \in Soughts
      /\ (\A h \in Files : ~orig'[h].live) /\ seen'.must = {}
  BY <1>1, <1>2, OutlivesIs
<1>6. TypeOK'
  BY <1>1, <1>2, <1>4, <1>5 DEF TypeOK
<1>7. Coherent'
  <2>1. Within(mem, Sectors, Sectors) /\ top \in Cluster /\ mem.ok
    <3>1. (~new) \in BOOLEAN
      BY Zenon
    <3>2. Kept(mem, state, top, ~new) /\ mem.ok /\ disk \in Disk /\ up \in BOOLEAN /\ top \in Cluster
      BY <1>1 DEF TypeOK, Coherent
    <3> QED BY <3>1, <3>2, KeptIs
  <2> QED BY <1>2, <2>1 DEF Coherent, Kept, Bound, Known
<1>8. DriveA'
  BY <1>2, <1>4, <1>5 DEF DriveA, Tidy, HandleSound, SearchSound
<1> QED BY <1>6, <1>7, <1>8 DEF IInv

\* A media change: the runs and the mount go, and the program is told.
LEMMA MediaChangeThen ==
  ASSUME IInv, MediaChange
  PROVE  IInv'
<1>1. TypeOK /\ Coherent /\ DriveA /\ disk \in Disk /\ up \in BOOLEAN /\ mem.ok
  BY DEF IInv, TypeOK, Coherent
<1>2. /\ drive = "A" /\ new /\ state' = "unknown" /\ cwd' = << >> /\ mem' = [mem EXCEPT !.runs = NoMem.runs]
      /\ new' = FALSE
      /\ UNCHANGED <<top, file, dta, orig, seen, drive, disk, up, changes>>
  BY DEF MediaChange, Outside
<1>3. Within(mem, Sectors, Sectors) /\ top \in Cluster
  <2>1. (~new) \in BOOLEAN
    BY Zenon
  <2>2. Kept(mem, state, top, ~new)
    BY <1>1 DEF Coherent
  <2> QED BY <1>1, <2>1, <2>2, KeptIs DEF Kept
<1>4. mem' \in Mem /\ mem'.ok /\ \A R : Within(mem', Sectors, R)
  <2>1. mem' = [mem EXCEPT !.runs = NoMem.runs, !.ok = TRUE]
    <3>1. mem \in Mem
      BY <1>3 DEF Within
    <3> QED BY <1>1, <1>2, <3>1 DEF Mem
  <2> QED BY <1>3, <2>1, EmptiedIs
<1>5. Coherent'
  BY <1>2, <1>3, <1>4, UnknownThen
<1>6. TypeOK'
  <2>1. << >> \in Seq(Name)
    OBVIOUS
  <2> QED BY <1>1, <1>2, <1>4, <2>1 DEF TypeOK
<1>7. (\A h \in Files : ~orig[h].live) /\ seen.must = {} /\ Tidy
  BY <1>1, <1>2 DEF DriveA, HandleSound, SearchSound
<1>8. DriveA'
  BY <1>2, <1>7, TidySame DEF DriveA, HandleSound, SearchSound
<1> QED BY <1>5, <1>6, <1>8 DEF IInv

\* A drive that goes down or comes up holds what it held.
LEMMA BreakMendThen ==
  ASSUME IInv, Break \/ Mend
  PROVE  IInv'
<1>1. TypeOK /\ Coherent /\ DriveA
  BY DEF IInv
<1>2. /\ UNCHANGED <<drive, disk, state, top, mem, cwd, file, dta, orig, seen, new>>
      /\ up' \in BOOLEAN /\ changes' \in {changes, changes + 1}
  BY DEF Break, Mend, hist
<1>3. TypeOK'
  BY <1>1, <1>2 DEF TypeOK
<1>4. Coherent'
  BY <1>1, <1>2, CoherentThen DEF Coherent
<1>5. DriveA'
  BY <1>1, <1>2, DriveAThen
<1> QED BY <1>3, <1>4, <1>5 DEF IInv

\* The names of a path that the program may give.
LEMMA NamesGiven ==
  ASSUME TypeOK, NEW p \in Given
  PROVE  Names(p) \in Seq(Name) /\ (Names(p) # << >> => Names(p) \in Path)
<1>1. Names(p) \in Seq(Name)
  BY NamesAre DEF TypeOK
<1>2. Seq(Name) \subseteq Seq(STRING)
  BY DEF Name
<1> QED BY <1>1, <1>2 DEF Path

\* C:\ itself is a folder, whatever is looked up.
LEMMA EntryOfRoot ==
  ASSUME NEW r, NEW names \in Seq(Name)
  PROVE  /\ EntryFrom(r, names).err = "EFILNF" => names # << >>
         /\ EntryFrom(r, names).err = "ok" /\ EntryFrom(r, names).slot.kind # "dir" => names # << >>
         /\ EntryFrom(r, names).err = "ok" /\ EntryFrom(r, names).slot.kind = "dir" /\ names = << >> =>
              \A S, t : t \in Seq(S) => IsPrefix(names, t)
<1>1. ASSUME names = << >>
      PROVE  /\ EntryFrom(r, names).err \in {"EDRIVE", "ok"}
             /\ EntryFrom(r, names).err = "ok" => EntryFrom(r, names).slot.kind = "dir"
  BY <1>1 DEF EntryFrom, Looked, RootSlot, ShortSlot
<1>2. ASSUME names = << >>, NEW S, NEW t, t \in Seq(S) PROVE IsPrefix(names, t)
  <2>1. Len(names) = 0 /\ 0 <= Len(t)
    BY <1>2
  <2>2. SubSeq(names, 1, 0) = << >> /\ SubSeq(t, 1, 0) = << >>
    BY <1>2
  <2> QED BY <2>1, <2>2 DEF IsPrefix
<1> QED BY <1>1, <1>2

\* What gemdos_wops finds before it asks leaves the drive in order, and what it
\* asks is a request.
LEMMA CheckThen ==
  ASSUME IInv, NEW w \in Writes
  PROVE  LET x == Check(w)
         IN  /\ Kept(x.r.m, x.r.state, x.r.top, ~new)
             /\ x.r.state \in {"unknown", "mounted", "absent"}
             /\ x.fine => IsRequest(Asked(w))
<1> DEFINE x == Check(w)
           names == Names(w.path)
           names2 == Names(w.path2)
           r == EntryOf(names)
           r2 == IF r.err \in {"ok", "EFILNF"} THEN EntryFrom(r, names2) ELSE r
           Keeps(y) == Kept(y.m, y.state, y.top, ~new) /\ y.state \in {"unknown", "mounted", "absent"}
<1>1. TypeOK /\ Coherent /\ disk \in Disk /\ up \in BOOLEAN /\ (~new) \in BOOLEAN /\ cwd \in Seq(Name)
  <2>1. TypeOK /\ Coherent
    BY DEF IInv
  <2>2. (~new) \in BOOLEAN
    BY Zenon
  <2> QED BY <2>1, <2>2 DEF TypeOK
<1>2. CASE w.op = "write"
  <2>1. IsRequest(w)
    BY <1>2, WritesAssumption
  <2>2. x.r = [m |-> mem, state |-> state, top |-> top] /\ Asked(w) = w
    BY <1>2 DEF Check, Checked, Asked
  <2> QED BY <1>1, <2>1, <2>2 DEF TypeOK, Coherent
<1>3. CASE w.op # "write"
  <2>1. \/ w \in [op : {"rename"}, path : Given, path2 : Given]
        \/ w \in [op : {"delete", "mkdir", "rmdir"}, path : Given]
    BY <1>3, WritesAssumption
  <2>2. names \in Seq(Name) /\ (names # << >> => names \in Path)
    BY <1>1, <2>1, NamesGiven
  <2>3. Keeps(Ready)
    BY <1>1, ReadyThen
  <2>4. r = EntryFrom(Ready, names)
    BY DEF EntryOf
  <2>5. Keeps(r)
    <3> HIDE DEF r, names
    <3>1. r.state = Ready.state /\ Kept(r.m, r.state, r.top, ~new)
      BY <1>1, <2>2, <2>3, <2>4, EntryFromIs
    <3> QED BY <2>3, <3>1
  <2>6. /\ r.err = "EFILNF" => names # << >>
        /\ r.err = "ok" /\ r.slot.kind # "dir" => names # << >>
        /\ r.err = "ok" /\ r.slot.kind = "dir" /\ names = << >> => \A S, t : t \in Seq(S) => IsPrefix(names, t)
    BY <2>2, <2>4, EntryOfRoot
  <2>7. x = OpChecked(w, r)
    BY <1>3 DEF Check
  <2> HIDE DEF r, x, Keeps
  <2>8. CASE w.op = "rename"
    <3>1. w \in [op : {"rename"}, path : Given, path2 : Given]
      BY <2>1, <2>8
    <3>2. names2 \in Seq(Name) /\ (names2 # << >> => names2 \in Path)
      BY <1>1, <3>1, NamesGiven
    <3>3. x = RenameChecked(w, r, r2)
      BY <2>7, <2>8 DEF OpChecked
    <3>4. Keeps(r2)
      <4>1. Keeps(EntryFrom(r, names2))
        BY <1>1, <2>5, <3>2, EntryFromIs DEF Keeps
      <4> QED BY <2>5, <4>1
    <3>5. /\ x.r = r2
          /\ x.fine <=> r.err = "ok" /\ r2.err = "EFILNF" /\ ~(r.slot.kind = "dir" /\ IsPrefix(names, Front(names2)))
      <4> HIDE DEF r2
      <4> QED BY <3>3, Zenon DEF RenameChecked, Checked
    <3>6. x.fine => names2 # << >>
      <4>1. x.fine => EntryFrom(r, names2).err = "EFILNF"
        BY <3>5
      <4> QED BY <3>2, <4>1, EntryOfRoot
    <3>7. x.fine => names # << >>
      <4>1. SUFFICES ASSUME x.fine, names = << >> PROVE FALSE
        OBVIOUS
      <4>2. Front(names2) \in Seq(Name)
        BY <3>2, <3>6, <4>1, FrontIs
      <4> QED BY <2>6, <3>5, <4>1, <4>2
    <3>8. x.fine => IsRequest(Asked(w))
      <4>1. SUFFICES ASSUME x.fine PROVE IsRequest(Asked(w))
        OBVIOUS
      <4> DEFINE q == [w EXCEPT !.path = names, !.path2 = names2]
      <4>2. Asked(w) = q
        BY <2>8 DEF Asked
      <4> HIDE DEF names, names2
      <4>3. q.op = "rename" /\ q.path = names /\ q.path2 = names2
        BY <2>8, <3>1
      <4> HIDE DEF q
      <4> QED BY <2>2, <3>2, <3>6, <3>7, <4>1, <4>2, <4>3 DEF IsRequest
    <3> QED BY <3>4, <3>5, <3>8 DEF x, Keeps
  <2>9. CASE w.op # "rename"
    <3>1. w \in [op : {"delete", "mkdir", "rmdir"}, path : Given]
      BY <2>1, <2>9
    <3>2. /\ x.r = r
          /\ x.fine => \/ w.op = "delete" /\ r.err = "ok" /\ r.slot.kind = "file"
                       \/ w.op = "mkdir" /\ r.err = "EFILNF"
                       \/ w.op = "rmdir" /\ r.err = "ok" /\ r.slot.kind = "dir" /\ ~IsPrefix(names, cwd)
      <4> HIDE DEF names
      <4>1. w.op \in {"delete", "mkdir", "rmdir"}
        BY <3>1
      <4>2. x = Checked(r, CASE w.op = "delete" -> r.err = "ok" /\ r.slot.kind = "file" /\ ~r.slot.ro
                             [] w.op = "mkdir"  -> r.err = "EFILNF"
                             [] w.op = "rmdir"  -> r.err = "ok" /\ r.slot.kind = "dir" /\ ~IsPrefix(names, cwd))
        BY <2>7, <2>9, Zenon DEF OpChecked, names
      <4>3. x.r = r
        BY <4>2 DEF Checked
      <4>4. CASE w.op = "delete"
        BY <4>2, <4>4 DEF Checked
      <4>5. CASE w.op = "mkdir"
        BY <4>2, <4>5 DEF Checked
      <4>6. CASE w.op = "rmdir"
        BY <4>2, <4>6 DEF Checked
      <4> QED BY <4>1, <4>3, <4>4, <4>5, <4>6
    <3>3. x.fine => names # << >>
      BY <1>1, <2>6, <3>2
    <3>4. x.fine => IsRequest(Asked(w))
      <4>1. SUFFICES ASSUME x.fine PROVE IsRequest(Asked(w))
        OBVIOUS
      <4> DEFINE q == [w EXCEPT !.path = names]
      <4>2. Asked(w) = q
        BY <1>3, <2>9 DEF Asked
      <4> HIDE DEF names
      <4>3. q.op \in {"delete", "mkdir", "rmdir"} /\ q.path = names
        BY <3>1
      <4> HIDE DEF q
      <4> QED BY <2>2, <3>3, <4>1, <4>2, <4>3 DEF IsRequest
    <3> QED BY <2>5, <3>2, <3>4 DEF x, Keeps
  <2> QED BY <2>8, <2>9
<1> QED BY <1>2, <1>3

\* A request that changes drive C: the disk is KFS's, and the drive is to mount again.
LEMMA WriteThen ==
  ASSUME IInv, NEW w \in Writes, Write(w)
  PROVE  IInv'
<1> DEFINE x == Check(w)
           q == Asked(w)
           d == Now(Serve(disk, q).course)
<1>1. TypeOK /\ Coherent /\ DriveA /\ disk \in Disk /\ Alike(disk) /\ up \in BOOLEAN /\ (~new) \in BOOLEAN
  <2>1. TypeOK /\ Coherent /\ DriveA
    BY DEF IInv
  <2>2. (~new) \in BOOLEAN
    BY Zenon
  <2> QED BY <2>1, <2>2 DEF TypeOK
<1>2. /\ Kept(x.r.m, x.r.state, x.r.top, ~new) /\ x.r.state \in {"unknown", "mounted", "absent"}
      /\ x.fine => IsRequest(q)
  BY CheckThen
<1> HIDE DEF x, q
<1>3. /\ IF drive = "C" /\ x.fine
           THEN /\ disk' = d /\ Outlives(d, FALSE)
                /\ mem' = [x.r.m EXCEPT !.runs = NoMem.runs, !.ok = TRUE]
                /\ state' = "unknown" /\ top' = x.r.top
                /\ changes' = changes + 1
           ELSE Leaves(IF drive = "C" THEN x.r ELSE Ready) /\ UNCHANGED <<disk, changes, orig, seen>>
      /\ UNCHANGED <<drive, up, cwd, file, dta, new>>
  BY DEF Write, x, q
<1> HIDE DEF d
<1>4. CASE drive = "C" /\ x.fine
  <2>1. d \in Disk /\ Alike(d)
    <3>1. Serve(disk, q).course = << disk >> \/ Rest(Serve(disk, q).course)
      BY <1>1, <1>2, <1>4, ServeRest
    <3>2. CASE Serve(disk, q).course = << disk >>
      <4>1. << disk >> \in Seq(Disk) /\ << disk >> # << >>
        BY <1>1
      <4>2. Last(<< disk >>) = disk
        BY <1>1, <4>1, LastOf
      <4> QED BY <1>1, <3>2, <4>2 DEF d, Now
    <3>3. CASE Rest(Serve(disk, q).course)
      <4>1. Serve(disk, q).course \in Seq(Disk) /\ Serve(disk, q).course # << >> /\ Alike(Now(Serve(disk, q).course))
        BY <3>3 DEF Rest, Course
      <4> HIDE DEF Now
      <4> QED BY <4>1, LastOf DEF d, Now
    <3> QED BY <3>1, <3>2, <3>3
  <2>2. orig' \in [Files -> Histories] /\ seen' \in Soughts
    BY <1>1, <1>3, <1>4, OutlivesIs
  <2>3. Within(x.r.m, Sectors, Sectors) /\ x.r.top \in Cluster
    <3> DEFINE m == x.r.m
               st == x.r.state
               tp == x.r.top
               fresh == ~new
    <3>1. Kept(m, st, tp, fresh) /\ fresh \in BOOLEAN
      BY <1>1, <1>2
    <3>2. tp \in Cluster
      BY <1>2 DEF Kept
    <3> HIDE DEF m, st, tp, fresh
    <3>3. Within(m, Sectors, Sectors)
      BY <1>1, <3>1, KeptIs
    <3> QED BY <3>2, <3>3 DEF m, tp
  <2>4. mem' \in Mem /\ mem'.ok /\ \A R : Within(mem', Sectors, R)
    BY <1>3, <1>4, <2>3, EmptiedIs
  <2>5. Coherent'
    BY <1>3, <1>4, <2>3, <2>4, UnknownThen
  <2>6. TypeOK'
    BY <1>1, <1>3, <1>4, <2>1, <2>2, <2>3, <2>4 DEF TypeOK
  <2>7. DriveA'
    BY <1>3, <1>4 DEF DriveA
  <2> QED BY <2>5, <2>6, <2>7 DEF IInv
<1>5. CASE ~(drive = "C" /\ x.fine)
  <2> DEFINE r == IF drive = "C" THEN x.r ELSE Ready
  <2>1. Leaves(r) /\ UNCHANGED <<disk, changes, orig, seen, drive, up, cwd, file, dta, new>>
    BY <1>3, <1>5
  <2>2. /\ Kept(r.m, r.state, r.top, ~new) /\ r.state \in {"unknown", "mounted", "absent"}
        /\ drive = "A" /\ state = "mounted" => r.state = "mounted"
    BY <1>1, <1>2, ReadyThen
  <2> HIDE DEF r
  <2>3. Coherent' /\ mem' \in Mem /\ state' = r.state /\ top' \in Cluster
    BY <1>1, <2>1, <2>2, LeavesThen
  <2>4. TypeOK'
    BY <1>1, <2>1, <2>2, <2>3 DEF TypeOK
  <2>5. DriveA'
    <3>1. CASE drive = "A"
      BY <1>1, <2>1, <2>2, <2>3, <3>1, DriveAThen
    <3>2. CASE drive # "A"
      BY <2>1, <3>2 DEF DriveA
    <3> QED BY <3>1, <3>2
  <2> QED BY <2>3, <2>4, <2>5 DEF IInv
<1> QED BY <1>4, <1>5

-----------------------------------------------------------------------------
(* The theorems. *)

\* The first disk is one of the ones there are, and nothing has been read.
LEMMA InitIInv == Init => IInv
<1>1. SUFFICES ASSUME Init PROVE IInv
  OBVIOUS
<1>2. /\ drive \in DOMAIN Disk0 /\ disk = Disk0[drive] /\ up = TRUE /\ state = "unknown" /\ top = Root /\ mem = NoMem
      /\ cwd = << >> /\ file = [h \in Files |-> Closed] /\ dta = NoSearch
      /\ orig = [h \in Files |-> Forgotten] /\ seen = NotSought /\ new = FALSE /\ changes = 0
  BY <1>1 DEF Init
<1>3. /\ drive \in {"A", "C"} /\ disk \in Disk /\ Alike(disk) /\ \E F \in SUBSET Cluster : SoundIn(disk, F)
  BY <1>2, DisksAssumption
<1>4. NoMem \in Mem /\ NoMem.ok /\ NoMem.sector = NoSector /\ \A R : \A i \in 1 .. RunSlots : RunWithin(NoMem.runs[i], R)
  <2>1. << >> \in Seq(Value) /\ NoRun = [first |-> 0, data |-> << >>]
    BY DEF NoRun
  <2>2. \A R : RunWithin(NoRun, R)
    BY <2>1 DEF RunWithin
  <2>3. NoSector \in Nat /\ RunSlots \in Nat \ {0}
    BY SectorsAre, GemdosReadAssumption
  <2> QED BY <2>1, <2>2, <2>3 DEF NoMem, Mem
<1>5. Closed \in Handle /\ Forgotten \in Histories /\ ~Forgotten.live /\ NotSought \in Soughts /\ NotSought.must = {}
  <2>1. << >> \in Seq(Data)
    OBVIOUS
  <2> QED BY <2>1 DEF Handle, Forgotten, Histories, NotSought, Soughts
<1>6. TypeOK
  <2>1. << >> \in Seq(Name) /\ Root \in Cluster /\ dta \in Search
    BY <1>2, GemdosReadAssumption DEF Search
  <2> QED BY <1>2, <1>3, <1>4, <1>5, <2>1 DEF TypeOK
<1>7. Coherent
  <2>1. \A B, R : Within(mem, B, R)
    <3>1. mem \in Mem /\ mem.sector = NoSector /\ \A R : \A i \in 1 .. RunSlots : RunWithin(mem.runs[i], R)
      BY <1>2, <1>4
    <3> QED BY <3>1 DEF Within
  <2>2. Root \in Cluster
    BY GemdosReadAssumption
  <2> QED BY <1>2, <1>4, <2>1, <2>2 DEF Coherent, Kept
<1>8. DriveA
  BY <1>2, <1>3, <1>5 DEF DriveA, Tidy, HandleSound, SearchSound
<1> QED BY <1>6, <1>7, <1>8 DEF IInv

\* A step that changes nothing.
LEMMA StutterIInv ==
  ASSUME IInv, UNCHANGED vars
  PROVE  IInv'
<1>1. TypeOK /\ Coherent /\ DriveA
  BY DEF IInv
<1>2. UNCHANGED <<drive, disk, up, state, top, mem, cwd, file, dta, orig, seen, new, changes>>
  BY DEF vars
<1>3. TypeOK'
  BY <1>1, <1>2 DEF TypeOK
<1>4. Coherent'
  BY <1>1, <1>2, CoherentThen DEF Coherent
<1>5. DriveA'
  BY <1>1, <1>2, DriveAThen
<1> QED BY <1>3, <1>4, <1>5 DEF IInv

\* No step leaves the invariant.
LEMMA NextIInv == IInv /\ [Next]_vars => IInv'
<1>1. SUFFICES ASSUME IInv, [Next]_vars PROVE IInv'
  OBVIOUS
<1>2. Seeks \subseteq Nat /\ Counts \subseteq Nat
  <2>1. Run \in Nat
    BY GemdosReadAssumption
  <2> QED BY <2>1, GemdosReadAssumption DEF Counts
<1>3. CASE Reads
  <2>1. CASE \E p \in Opens : Fopen(p)
    BY <1>1, <2>1, FopenThen
  <2>2. CASE \E h \in Files : Fclose(h)
    BY <1>1, <2>2, FcloseThen
  <2>3. CASE \E h \in Files : \E n \in Counts, a \in BOOLEAN : Fread(h, n, a)
    BY <1>1, <1>2, <2>3, FreadThen
  <2>4. CASE \E h \in Files : \E to \in Seeks : Fseek(h, to)
    BY <1>1, <1>2, <2>4, FseekThen
  <2>5. CASE \E p \in Folders : Dsetpath(p)
    BY <1>1, <2>5, DsetpathThen
  <2>6. CASE \E p \in Folders : \E kinds \in Lists : Fsfirst(p, kinds)
    BY <1>1, <2>6, FsfirstThen
  <2>7. CASE Fsnext
    BY <1>1, <2>7, FsnextThen
  <2> QED BY <1>3, <2>1, <2>2, <2>3, <2>4, <2>5, <2>6, <2>7 DEF Reads
<1>4. CASE \E w \in Writes : Write(w)
  BY <1>1, <1>4, WriteThen
<1>5. CASE \E d \in Range(Disk0) : PutIn(d)
  BY <1>1, <1>5, PutInThen
<1>6. CASE MediaChange
  BY <1>1, <1>6, MediaChangeThen
<1>7. CASE Break \/ Mend
  BY <1>1, <1>7, BreakMendThen
<1>8. CASE UNCHANGED vars
  BY <1>1, <1>8, StutterIInv
<1> QED BY <1>1, <1>3, <1>4, <1>5, <1>6, <1>7, <1>8 DEF Next

\* What the variables range over, and no sector of another disk, or of the disk
\* before a write, is behind a mounted drive: each run of the cache, the volume's
\* buffer and the top folder are as they are on the disk.
THEOREM GemdosReadInvariant == Spec => []IInv
<1>1. Init => IInv
  BY InitIInv
<1>2. IInv /\ [Next]_vars => IInv'
  BY NextIInv
<1> QED BY <1>1, <1>2, PTL DEF Spec

\* The part of LooksAfresh that needs nothing of the disk: an entry that Fopen,
\* Fsfirst, Fdelete or Frename goes by is the one on the disk now, and one that
\* it says is not there is not there.
LooksTrue ==
  ~new => \A p \in Opens : \A r \in {EntryOf(Names(p))} :
    /\ r.err = "ok" => r.slot = There(Names(p))
    /\ r.err \in {"EFILNF", "EPTHNF"} => There(Names(p)) = NoEntry

\* A look between the program's calls, the program told of every change, finds what is there.
LEMMA LookFresh ==
  ASSUME IInv, ~new, NEW p \in Given
  PROVE  LET r == EntryOf(Names(p))
         IN  /\ r.err = "ok" => r.slot = There(Names(p))
             /\ r.err \in {"EFILNF", "EPTHNF"} => There(Names(p)) = NoEntry
             /\ r.err = "EREADF" /\ FoldersEnd => ~up
<1>1. TypeOK /\ Coherent /\ disk \in Disk /\ up \in BOOLEAN /\ cwd \in Seq(Name)
  BY DEF IInv, TypeOK
<1> DEFINE names == Names(p)
           r == EntryOf(names)
<1>2. names \in Seq(Name)
  BY <1>1, NamesAre
<1>3. Ready.m.ok /\ Kept(Ready.m, Ready.state, Ready.top, TRUE)
  BY <1>1, ReadyThen
<1> HIDE DEF names
<1>4. r = EntryFrom(Ready, names)
  BY DEF EntryOf
<1> HIDE DEF r
<1>5. /\ r.err = "ok" => r.slot = There(names)
      /\ r.err \in {"EFILNF", "EPTHNF"} => There(names) = NoEntry
      /\ r.err = "EREADF" /\ FoldersEnd => ~up
  BY <1>1, <1>2, <1>3, <1>4, EntryFromAfresh
<1> QED BY <1>5 DEF r, names

\* Fopen's paths are paths that the program may give.
LEMMA OpensGiven == Opens \subseteq Given
BY GemdosReadAssumption

\* The invariant says of the looks what LooksTrue and LooksAfresh ask.
LEMMA LooksTrueIs ==
  ASSUME IInv
  PROVE  LooksTrue /\ (FoldersEnd => LooksAfresh)
<1>1. SUFFICES ASSUME ~new, NEW p \in Opens
               PROVE  LET r == EntryOf(Names(p))
                      IN  /\ r.err = "ok" => r.slot = There(Names(p))
                          /\ r.err \in {"EFILNF", "EPTHNF"} => There(Names(p)) = NoEntry
                          /\ FoldersEnd => (r.err = "EREADF" => ~up)
  BY Zenon DEF LooksTrue, LooksAfresh
<1>2. p \in Given
  BY OpensGiven
<1> QED BY <1>1, <1>2, LookFresh

\* On a tidy disk the folders end.
LEMMA TidyFoldersEnd == Tidy => FoldersEnd
BY TidyEnds DEF Tidy, FoldersEnd

\* SubSeq, by its elements.
LEMMA SubSeqIs ==
  ASSUME NEW S, NEW s \in Seq(S), NEW a \in Nat, NEW k \in Nat, a + k <= Len(s),
         NEW g \in Seq(S), Len(g) = k, \A j \in 1 .. k : g[j] = s[a + j]
  PROVE  g = SubSeq(s, a + 1, a + k)
<1> DEFINE u == SubSeq(s, a + 1, a + k)
<1>1. u \in Seq(S) /\ Len(u) = k /\ \A j \in 1 .. k : u[j] = s[a + j]
  <2>1. Len(s) \in Nat /\ \A j \in (a + 1) .. (a + k) : j \in 1 .. Len(s)
    OBVIOUS
  <2>2. u \in Seq(S)
    BY <2>1
  <2>3. Len(u) = k
    BY <2>1
  <2>4. \A j \in 1 .. k : u[j] = s[a + j]
    BY <2>1
  <2> QED BY <2>2, <2>3, <2>4
<1> HIDE DEF u
<1>2. g = u
  BY <1>1
<1> QED BY <1>2 DEF u

\* Fread, over fresh sectors, of a whole file whose cursor is in its chain.
LEMMA ReadFresh ==
  ASSUME NEW R, Trusted(Current, R), Within(mem, Current, R), NEW f \in OpenAt, NEW n \in Nat, NEW aligned \in BOOLEAN,
         On(f), Whole(f.slot.cluster), f.slot.size <= Len(Chain(disk, f.slot.cluster)),
         NEW r, r = Read(f, n, aligned), NEW want, want = Min({n, f.slot.size - f.pos})
  PROVE  /\ want \in Nat
         /\ up /\ mem.ok => r.m.ok
         /\ r.m.ok => /\ r.got \in Seq(Value) /\ Len(r.got) = want
                      /\ \A j \in 1 .. want : r.got[j] = disk.data[Nth(f.slot.cluster, f.pos + j)]
<1> DEFINE dir == f.slot.cluster
<1>1. dir = f.slot.cluster
  OBVIOUS
<1> HIDE DEF dir
<1>2. /\ want \in Nat
      /\ On(f) /\ Whole(dir) /\ f.slot.size <= Len(Chain(disk, dir)) =>
           /\ up /\ mem.ok => r.m.ok
           /\ r.m.ok => /\ r.got \in Seq(Value) /\ Len(r.got) = want
                        /\ \A j \in 1 .. want : r.got[j] = disk.data[Nth(dir, f.pos + j)]
  BY <1>1, ReadIs
<1> QED BY <1>1, <1>2

\* An open file of drive A, read.
LEMMA HandleReadsIs ==
  ASSUME IInv, drive = "A"
  PROVE  HandleReads
<1>1. TypeOK /\ Coherent /\ DriveA /\ disk \in Disk /\ up \in BOOLEAN /\ mem.ok
  BY DEF IInv, TypeOK, Coherent
<1>2. SUFFICES ASSUME NEW h \in Files, NEW n \in Counts, NEW aligned \in BOOLEAN, orig[h].live,
                      NEW r, r = Read(file[h], n, aligned)
               PROVE  IF r.m.ok THEN r.got = SubSeq(orig[h].data, file[h].pos + 1,
                                                    Min({file[h].pos + n, Len(orig[h].data)}))
                      ELSE ~up
  BY DEF HandleReads
<1> DEFINE f == file[h]
           want == Min({n, f.slot.size - f.pos})
           dir == f.slot.cluster
           data == DataOf(f.slot)
<1>3. n \in Nat
  <2>1. Run \in Nat
    BY GemdosReadAssumption
  <2> QED BY <2>1 DEF Counts
<1>4. /\ ~new /\ state = "mounted" /\ f \in OpenAt /\ On(f) /\ f.slot.kind = "file" /\ FileWhole(disk, f.slot) /\ orig[h].data = data
  BY <1>1, <1>2 DEF DriveA, HandleSound
<1>5. Trusted(Current, Current) /\ Within(mem, Current, Current)
  BY <1>1, <1>4, TrustedIs DEF Coherent, Kept, Bound, Known
<1>6. Whole(dir) /\ f.slot.size <= Len(Chain(disk, dir))
  BY <1>4 DEF FileWhole, Whole
<1>7. /\ want \in Nat
      /\ up /\ mem.ok => r.m.ok
      /\ r.m.ok => /\ r.got \in Seq(Value) /\ Len(r.got) = want
                   /\ \A j \in 1 .. want : r.got[j] = disk.data[Nth(dir, f.pos + j)]
  <2>1. r = Read(f, n, aligned) /\ f \in OpenAt /\ On(f)
    BY <1>2, <1>4
  <2>2. want = Min({n, f.slot.size - f.pos}) /\ dir = f.slot.cluster
    OBVIOUS
  <2> HIDE DEF f, want, dir
  <2> QED BY <1>3, <1>5, <1>6, <2>1, <2>2, ReadFresh
<1>8. f.slot \in ShortSlots /\ f.pos \in Nat /\ f.slot.size \in Nat /\ f.pos <= f.slot.size
  BY <1>4 DEF OpenAt, OpenFile, ShortSlots
<1>9. /\ data \in Seq(Data) /\ Len(data) = f.slot.size
      /\ \A j \in 1 .. f.slot.size : data[j] = disk.data[Nth(dir, j)]
  <2> HIDE DEF f
  <2> QED BY <1>1, <1>4, <1>6, <1>8, DataOfIs
<1>10. f.pos + want <= f.slot.size /\ Min({f.pos + n, f.slot.size}) = f.pos + want
  <2> DEFINE x == f.slot.size - f.pos
             b == f.pos + n
  <2>1. x \in Nat /\ b \in Nat /\ f.pos + x = f.slot.size
    BY <1>3, <1>8
  <2> HIDE DEF x, b, f
  <2>2. Min({n, x}) \in {n, x} /\ Min({n, x}) <= n /\ Min({n, x}) <= x
    BY <1>3, <2>1, MinOfTwo
  <2>3. Min({b, f.slot.size}) \in {b, f.slot.size} /\ Min({b, f.slot.size}) <= b /\ Min({b, f.slot.size}) <= f.slot.size
    BY <1>8, <2>1, MinOfTwo
  <2>4. want = Min({n, x})
    BY DEF x
  <2> HIDE DEF want
  <2>5. f.pos + want <= f.slot.size /\ Min({b, f.slot.size}) = f.pos + want
    BY <1>3, <1>8, <2>1, <2>2, <2>3, <2>4 DEF b
  <2> QED BY <2>5 DEF b
<1>11. CASE ~r.m.ok
  BY <1>1, <1>7, <1>11
<1>12. CASE r.m.ok
  <2> DEFINE p == f.pos
             size == f.slot.size
  <2>0. p \in Nat /\ size \in Nat /\ p + want <= size /\ want \in Nat
    BY <1>7, <1>8, <1>10
  <2>1. Data \subseteq Value
    BY DEF Value
  <2>2. data \in Seq(Value) /\ r.got \in Seq(Value) /\ Len(r.got) = want /\ Len(data) = size
    BY <1>7, <1>9, <1>12, <2>1
  <2>3. ASSUME NEW j \in 1 .. want PROVE r.got[j] = data[p + j]
    <3>1. p + j \in 1 .. size
      <4> HIDE DEF p, size, want
      <4> QED BY <2>0
    <3> QED BY <1>7, <1>9, <1>12, <3>1
  <2>4. r.got = SubSeq(data, p + 1, p + want)
    <3> HIDE DEF p, size, want, data, f
    <3> QED BY <2>0, <2>2, <2>3, SubSeqIs
  <2>5. orig[h].data = data /\ Min({p + n, size}) = p + want
    BY <1>4, <1>10
  <2> QED BY <1>12, <2>2, <2>4, <2>5
<1> QED BY <1>11, <1>12

\* The search of drive A, carried on.
LEMMA SearchFindsIs ==
  ASSUME IInv, drive = "A"
  PROVE  SearchFinds
<1>1. TypeOK /\ Coherent /\ DriveA /\ disk \in Disk /\ up \in BOOLEAN
  BY DEF IInv, TypeOK
<1>2. SUFFICES ASSUME dta # NoSearch, NEW x, x = NextFound(Ready)
               PROVE  /\ x.name = {} /\ x.m.ok /\ x.state = "mounted" => seen.must \subseteq seen.found
                      /\ x.name \cap seen.must \cap seen.found = {}
  BY DEF SearchFinds
<1>3. CASE seen.must = {}
  BY <1>3
<1>4. CASE seen.must # {}
  <2>1. ~new /\ state = "mounted" /\ Ledger(dta, seen.must, seen.found)
    BY <1>1, <1>4 DEF DriveA, SearchSound
  <2>2. Ready = [m |-> mem, state |-> state, top |-> top]
    BY <1>1, <2>1, ReadyThen
  <2> DEFINE r == Ready
  <2>3. r.m = mem /\ r.state = "mounted"
    BY <2>1, <2>2
  <2>4. Trusted(Current, Current) /\ Within(r.m, Current, Current)
    BY <1>1, <2>1, <2>3, TrustedIs DEF Coherent, Kept, Bound, Known
  <2> HIDE DEF r
  <2>5. x = SearchOn(r, dta, seen)
    BY <1>2, <2>3 DEF NextFound, r
  <2>6. x.name = {} /\ x.m.ok => \A n \in seen.must : n \in seen.found
    BY <2>1, <2>4, <2>5, SearchFresh
  <2>7. \A n \in seen.must : ~(n \in x.name /\ n \in seen.found)
    <3>1. SUFFICES ASSUME NEW n \in seen.must, n \in x.name PROVE n \notin seen.found
      OBVIOUS
    <3> DEFINE must == seen.must
               found == seen.found
    <3>2. Ledger(dta, must, found) /\ n \in must
      BY <2>1, <3>1
    <3> HIDE DEF must, found
    <3>3. \A k \in must : ~(k \in x.name /\ k \in found)
      BY <2>4, <2>5, <3>2, SearchFresh
    <3> QED BY <3>1, <3>2, <3>3 DEF found
  <2> QED BY <2>6, <2>7
<1> QED BY <1>3, <1>4

\* LooksTrue on any disks, folders that never end included: an entry that a look
\* gives is the one on the disk, and one that it says is not there is not there.
THEOREM LooksTrueAlways == Spec => []LooksTrue
<1>1. IInv => LooksTrue
  BY LooksTrueIs
<1> QED BY <1>1, GemdosReadInvariant, PTL

\* LooksAfresh on any disk whose folders end: that the look gets to the end of a
\* folder is the one thing it asks of the disk.
THEOREM LooksAfreshAlways == Spec => [](FoldersEnd => LooksAfresh)
<1>1. IInv => (FoldersEnd => LooksAfresh)
  BY LooksTrueIs
<1> QED BY <1>1, GemdosReadInvariant, PTL

\* LooksAfresh on drive A, whatever disks are put in: once the program has told of
\* the change, a look gives what the disk now in the drive has, and fails only with
\* the backend.
THEOREM DriveALooks == Spec => [](drive = "A" => LooksAfresh)
<1>1. IInv => (drive = "A" => LooksAfresh)
  <2>1. IInv /\ drive = "A" => FoldersEnd
    BY TidyFoldersEnd DEF IInv, DriveA
  <2> QED BY <2>1, LooksTrueIs
<1> QED BY <1>1, GemdosReadInvariant, PTL

\* HandleReads on drive A: until another disk is in, Fread answers what the file
\* held when it was opened, by whatever way the position got there, through the
\* cache or past it, and whichever runs and sectors the reads between left behind.
THEOREM DriveAHandles == Spec => [](drive = "A" => HandleReads)
<1>1. IInv => (drive = "A" => HandleReads)
  BY HandleReadsIs
<1> QED BY <1>1, GemdosReadInvariant, PTL

\* SearchFinds on drive A: until another disk is in, Fsfirst and Fsnext find each
\* entry of the folder once, whatever is opened and read between.
THEOREM DriveASearches == Spec => [](drive = "A" => SearchFinds)
<1>1. IInv => (drive = "A" => SearchFinds)
  BY SearchFindsIs
<1> QED BY <1>1, GemdosReadInvariant, PTL

=============================================================================
