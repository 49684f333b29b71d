--------------------------- MODULE BlitQueueProofs ---------------------------
(***************************************************************************)
(* What the library, the firmware and the blitter know of each other, for  *)
(* any words, values, ops and sizes: Inv, and with Counted the account of  *)
(* the ops still due in the ring and in the half that is open.             *)
(***************************************************************************)
EXTENDS BlitQueue, FiniteSetTheorems, TLAPS

Busy == eng.st # "idle"
WaitsWithList == call.pc = "wait" /\ call.cmd = "QUEUE"

\* The blitter's own state is of a piece.
EngineSound ==
    /\ ~Busy => eng.at = 0 /\ eng.count = 0 /\ ~eng.list
    /\ eng.at <= eng.count
    /\ eng.st = "copy" => eng.at = 0 /\ call.pc \in {"barrier", "drain"}

\* What the firmware remembers covers what the blitter does, or the cart is waiting for it.
FirmwareKnows ==
    /\ Busy => fw.lazy \/ call.pc = "drain"
    /\ call.pc = "drain" => ~fw.lazy
    /\ fw.list => fw.lazy /\ board
    /\ eng.by = "chisel" /\ eng.list => fw.list
    /\ Busy /\ eng.by = "chisel" /\ ~eng.list => ~fw.list
    /\ call.pc = "back" /\ call.cmd = "NOP" => ~Busy

\* Lines not yet swept are accounted for by what is pending.
SweepDue == /\ "list" \in stale => fw.list
            /\ "op" \in stale => (fw.lazy /\ ~fw.list) \/ call.pc = "drain"

\* The half under construction, the half that waits for its GO, the half that runs.
HalvesKnown ==
    /\ call.pc # "cart" /\ call.cmd = "QUEUE" => q.n = 0 /\ call.start = 1 - q.first
    /\ eng.list => eng.half = IF WaitsWithList THEN q.first ELSE 1 - q.first

CallSound ==
    /\ call.pc = "cart" => call.next = "none"
    /\ call.next \in {"op", "flush"} => call.cmd = "QUEUE"
    /\ call.next = "flushed" => call.cmd = "NOP" /\ q.n = 0
    /\ call.pc \in {"barrier", "drain"} => call.cmd # "NOP"
    /\ call.next = "op" => \E o \in Ops : call.give = {o}
    /\ eng.list => q.pending \/ (call.cmd = "QUEUE" /\ call.pc \in {"barrier", "drain", "back"})

Control == EngineSound /\ FirmwareKnows /\ SweepDue /\ HalvesKnown /\ CallSound

Inv == TypeOK /\ Control

\* Every op that is due is in the list or the op that runs, or in the list being built; and
\* what runs by itself is a direct op.
Built == IF WaitsWithList THEN Len(ring[call.start].ops)
         ELSE IF q.n # 0 THEN Len(ring[q.first].ops) ELSE 0

Counted == /\ eng.list => eng.count = Len(ring[eng.half].ops)
           /\ ~eng.list => \A i \in 1 .. eng.count - eng.at : due[i].direct
           /\ Len(due) = (eng.count - eng.at) + Built
-----------------------------------------------------------------------------
(* Partial functions. *)

\* What it takes to be a partial function from words to values.
LEMMA PartialIntro ==
  ASSUME NEW f, f = [k \in DOMAIN f |-> f[k]], DOMAIN f \subseteq Words,
         \A k \in DOMAIN f : f[k] \in Values
  PROVE  f \in Partial
BY DEF Partial

\* What being one gives.
LEMMA PartialElim ==
  ASSUME NEW f \in Partial
  PROVE  /\ f = [k \in DOMAIN f |-> f[k]]
         /\ DOMAIN f \subseteq Words
         /\ \A k \in DOMAIN f : f[k] \in Values
BY DEF Partial

\* One partial function laid over another.
LEMMA OverIs ==
  ASSUME NEW ws \in Partial, NEW own \in Partial
  PROVE  /\ Over(ws, own) \in Partial
         /\ DOMAIN Over(ws, own) = DOMAIN ws \cup DOMAIN own
         /\ \A k \in DOMAIN ws : Over(ws, own)[k] = ws[k]
         /\ \A k \in DOMAIN own \ DOMAIN ws : Over(ws, own)[k] = own[k]
<1> DEFINE g == Over(ws, own)
<1>1. g = [k \in DOMAIN ws \cup DOMAIN own |-> IF k \in DOMAIN ws THEN ws[k] ELSE own[k]]
  BY DEF Over, Promise!Over
<1>2. DOMAIN g \subseteq Words /\ \A k \in DOMAIN g : g[k] \in Values
  BY <1>1, PartialElim
<1> HIDE DEF g
<1>3. g \in Partial
  BY <1>1, <1>2, PartialIntro
<1> QED
  BY <1>1, <1>3 DEF g

\* A partial function cut down.
LEMMA CutIs ==
  ASSUME NEW own \in Partial, NEW D \in SUBSET (DOMAIN own)
  PROVE  [k \in D |-> own[k]] \in Partial
BY PartialElim DEF Partial

LEMMA NothingIs == Nothing \in Partial /\ DOMAIN Nothing = {}
BY DEF Nothing, Promise!Nothing, Partial

LEMMA WholeIs ==
  ASSUME NEW f \in [Words -> Values]
  PROVE  f \in Partial
BY DEF Partial

LEMMA KeptIs ==
  ASSUME NEW k, NEW v \in Values
  PROVE  Kept(k, v) \in Values
BY BlitQueueAssumption DEF BlitQueueAssumption, Kept, Promise!Kept

LEMMA OpIs ==
  ASSUME NEW o \in Ops
  PROVE  o.fill \in BOOLEAN /\ o.set \in Partial
BY BlitQueueAssumption DEF BlitQueueAssumption

LEMMA OwnAfterIs ==
  ASSUME NEW o \in Ops, q.own \in Partial
  PROVE  OwnAfter(o) \in Partial
<1>1. o.set \in Partial
  BY OpIs
<1>2. [k \in DOMAIN q.own \ DOMAIN o.set |-> q.own[k]] \in Partial
  BY CutIs
<1> DEFINE w == [k \in DOMAIN o.set |-> Kept(k, o.set[k])]
<1>3. w \in Partial
  <2>1. DOMAIN w \subseteq Words /\ \A k \in DOMAIN w : w[k] \in Values
    BY <1>1, PartialElim, KeptIs
  <2> QED
    BY <2>1, PartialIntro
<1> QED
  BY <1>2, <1>3, OverIs DEF OwnAfter
-----------------------------------------------------------------------------
(* The size of a list. *)

\* A subset of the words is finite, and no larger.
LEMMA CountWords ==
  ASSUME NEW S \in SUBSET Words
  PROVE  Cardinality(S) \in Nat /\ Cardinality(Words) \in Nat /\ Cardinality(S) <= Cardinality(Words)
<1>1. IsFiniteSet(Words)
  BY BlitQueueAssumption DEF BlitQueueAssumption
<1> QED
  BY <1>1, FS_Subset, FS_CardinalityType

\* An op that fits leaves a list no longer than its half, and not empty.
LEMMA PutFits ==
  ASSUME NEW o \in Ops, q.n \in 0 .. Half, q.own \in Partial, Fits(o) \/ q.n = 0
  PROVE  LET m == q.n + (IF q.n = 0 THEN Opening ELSE 0) + 1 + Cardinality(DOMAIN o.set)
         IN  m \in 0 .. Half /\ m # 0
<1>1. DOMAIN o.set \in SUBSET Words /\ Restated \in SUBSET Words
  BY OpIs, PartialElim DEF Restated
<1>2. Opening \in Nat /\ Opening <= 1 + Cardinality(Words)
  BY <1>1, CountWords DEF Opening
<1>3. Half \in Nat /\ 1 + Cardinality(Words) + 1 + Cardinality(DOMAIN o.set) <= Half
  BY BlitQueueAssumption DEF BlitQueueAssumption
<1> QED
  BY <1>1, <1>2, <1>3, CountWords DEF Fits
-----------------------------------------------------------------------------
(* Types. *)

Entries == [want : Partial, said : Partial, kicked : BOOLEAN, direct : BOOLEAN]

LEMMA AppendIs ==
  ASSUME NEW S, NEW s \in Seq(S), NEW e \in S
  PROVE  Append(s, e) \in Seq(S)
OBVIOUS

LEMMA PrependIs ==
  ASSUME NEW S, NEW s \in Seq(S), NEW e \in S
  PROVE  /\ <<e>> \o s \in Seq(S) /\ Len(<<e>> \o s) = Len(s) + 1
         /\ (<<e>> \o s)[1] = e
         /\ \A i \in 1 .. Len(s) : (<<e>> \o s)[i + 1] = s[i]
OBVIOUS

LEMMA QueuedIs ==
  ASSUME NEW want \in Partial, NEW said \in Partial
  PROVE  Promise!Queued(want, said) \in Entries
BY DEF Promise!Queued, Entries

LEMMA DirectOpIs ==
  ASSUME block \in [Words -> Values]
  PROVE  /\ Promise!DirectOp \in Entries /\ Promise!DirectOp.want = block
         /\ Promise!DirectOp.kicked /\ Promise!DirectOp.direct
<1>1. block \in Partial /\ Nothing \in Partial
  BY WholeIs, NothingIs
<1> QED
  BY <1>1 DEF Promise!DirectOp, Entries, Nothing

\* An entry at a kick: the block is laid under what it states.
LEMMA FixedIs ==
  ASSUME NEW e \in Entries, block \in [Words -> Values]
  PROVE  /\ Promise!Fixed(e) \in Entries /\ Promise!Fixed(e).kicked
         /\ ~e.kicked => Promise!Fixed(e).want = Over(e.want, block)
<1> DEFINE w == Over(e.want, block)
<1>1. e.want \in Partial /\ block \in Partial
  BY WholeIs DEF Entries
<1>2. w \in Partial
  BY <1>1, OverIs
<1>3. Promise!Fixed(e) = IF e.kicked THEN e ELSE [e EXCEPT !.kicked = TRUE, !.want = w]
  BY DEF Promise!Fixed, Over
<1> HIDE DEF w
<1>4. /\ [e EXCEPT !.kicked = TRUE, !.want = w] \in Entries
      /\ [e EXCEPT !.kicked = TRUE, !.want = w].kicked
      /\ [e EXCEPT !.kicked = TRUE, !.want = w].want = w
  BY <1>2 DEF Entries
<1> QED
  BY <1>3, <1>4 DEF w

\* What the next op to be put finds stated.
LEMMA StatedIs ==
  ASSUME given \in Partial, held \in Partial
  PROVE  Promise!Stated \in Partial
<1> DEFINE f == [k \in Promise!Restated |-> Promise!Kept(k, given[k])]
<1>1. DOMAIN f \subseteq Words /\ \A k \in DOMAIN f : f[k] \in Values
  BY PartialElim, KeptIs DEF Promise!Restated, Kept
<1>2. f \in Partial
  BY <1>1, PartialIntro
<1> QED
  BY <1>2 DEF Promise!Stated

\* What the history takes down of an op that is put.
LEMMA PutIs ==
  ASSUME NEW o, NEW b, Put(o, b)
  PROVE  /\ held' = Over(o.set, Promise!Stated)
         /\ due' = Append(due, Promise!Queued(Over(o.set, Promise!Stated), Over(o.set, given)))
         /\ given' = IF o.fill THEN [k \in DOMAIN given \ DOMAIN o.set |-> given[k]]
                     ELSE Over(o.set, given)
         /\ sure' = FALSE
BY DEF Put, Promise!Fill, Promise!Op, Promise!Put, Over

\* The parts of the state that the cart's library owns keep their types when an op is put.
LEMMA PutTypes ==
  ASSUME TypeOK, NEW o \in Ops, NEW b \in BOOLEAN, Put(o, b), Fits(o) \/ q.n = 0
  PROVE  /\ q' \in [first : 0 .. 1, n : 0 .. Half, own : Partial, pending : BOOLEAN]
         /\ ring' \in [0 .. 1 -> [open : Partial, ops : Seq(Partial)]]
         /\ given' \in Partial /\ held' \in Partial
         /\ sure' \in BOOLEAN /\ due' \in Seq(Entries)
         /\ q'.n # 0 /\ q'.first = q.first /\ (q'.pending <=> q.pending \/ b)
<1>1. o.set \in Partial /\ o.fill \in BOOLEAN /\ DOMAIN o.set \subseteq Words
  BY OpIs, PartialElim
<1>0. /\ q \in [first : 0 .. 1, n : 0 .. Half, own : Partial, pending : BOOLEAN]
      /\ ring \in [0 .. 1 -> [open : Partial, ops : Seq(Partial)]]
      /\ given \in Partial /\ held \in Partial
      /\ due \in Seq(Entries)
  BY DEF TypeOK, Entries
<1>2. q.own \in Partial /\ q.n \in 0 .. Half /\ DOMAIN q.own \subseteq Words /\ q.first \in 0 .. 1
  <2>1. q.own \in Partial /\ q.n \in 0 .. Half /\ q.first \in 0 .. 1
    BY <1>0
  <2> QED
    BY <2>1, PartialElim
<1>3. q' \in [first : 0 .. 1, n : 0 .. Half, own : Partial, pending : BOOLEAN]
      /\ q'.n # 0 /\ q'.first = q.first /\ (q'.pending <=> q.pending \/ b)
  <2> DEFINE m == q.n + (IF q.n = 0 THEN Opening ELSE 0) + 1 + Cardinality(DOMAIN o.set)
             own == OwnAfter(o)
  <2>1. m \in 0 .. Half /\ m # 0
    BY <1>2, PutFits
  <2>2. own \in Partial
    BY <1>2, OwnAfterIs
  <2>3. q' = [q EXCEPT !.n = m, !.own = own, !.pending = q.pending \/ b]
    BY DEF Put
  <2> HIDE DEF m, own
  <2>4. q' \in [first : 0 .. 1, n : 0 .. Half, own : Partial, pending : BOOLEAN]
    BY <1>0, <2>1, <2>2, <2>3
  <2>5. q'.n # 0 /\ q'.first = q.first
    BY <1>0, <2>1, <2>3
  <2>6. q'.pending <=> q.pending \/ b
    BY <1>0, <2>3
  <2> QED
    BY <2>4, <2>5, <2>6
<1>4. ring' \in [0 .. 1 -> [open : Partial, ops : Seq(Partial)]]
  <2>1. [k \in Restated |-> q.own[k]] \in Partial
    BY <1>2, CutIs DEF Restated
  <2> DEFINE op == [k \in Restated |-> q.own[k]]
             old == ring[q.first]
             l == IF q.n = 0 THEN [open |-> op, ops |-> <<o.set>>]
                  ELSE [old EXCEPT !.ops = Append(old.ops, o.set)]
  <2>2. old \in [open : Partial, ops : Seq(Partial)]
    BY <1>0, <1>2
  <2>3. ring' = [ring EXCEPT ![q.first] = l]
    BY <1>0, <1>2 DEF Put
  <2> HIDE DEF op, old
  <2>4. l \in [open : Partial, ops : Seq(Partial)]
    <3>1. CASE q.n = 0
      BY <1>1, <2>1, <3>1 DEF op
    <3>2. CASE q.n # 0
      BY <1>1, <2>2, <3>2
    <3> QED
      BY <3>1, <3>2
  <2> HIDE DEF l
  <2> QED
    BY <1>0, <1>2, <2>3, <2>4
<1>5. given \in Partial /\ DOMAIN given \subseteq Words
  BY <1>0, PartialElim
<1>6. given' \in Partial
  <2>1. CASE o.fill
    <3>1. given' = [k \in DOMAIN given \ DOMAIN o.set |-> given[k]]
      BY <2>1 DEF Put, Promise!Fill
    <3> QED
      BY <1>5, <3>1, CutIs
  <2>2. CASE ~o.fill
    <3>1. given' = Over(o.set, given)
      BY <2>2 DEF Put, Promise!Op, Over
    <3> QED
      BY <1>1, <1>5, <3>1, OverIs
  <2> QED
    BY <2>1, <2>2
<1>7. held' \in Partial /\ due' \in Seq(Entries) /\ sure' \in BOOLEAN
  <2> DEFINE want == Over(o.set, Promise!Stated)
             e == Promise!Queued(want, Over(o.set, given))
  <2>1. held' = want /\ due' = Append(due, e) /\ sure' = FALSE
    BY PutIs
  <2>2. want \in Partial
    BY <1>0, <1>1, StatedIs, OverIs
  <2>3. e \in Entries
    BY <1>1, <1>5, <2>2, OverIs, QueuedIs
  <2> HIDE DEF want, e
  <2>4. due' \in Seq(Entries)
    BY <1>0, <2>1, <2>3, AppendIs
  <2> QED
    BY <2>1, <2>2, <2>4
<1> QED
  BY <1>3, <1>4, <1>6, <1>7
-----------------------------------------------------------------------------
(* The parts of TypeOK that most actions change. *)

QType == q \in [first : 0 .. 1, n : 0 .. Half, own : Partial, pending : BOOLEAN]
CallType == call \in [pc : {"cart", "wait", "barrier", "drain", "back"}, cmd : {"QUEUE", "OP", "NOP"},
                      start : 0 .. 1, next : {"none", "op", "flush", "flushed"}, give : SUBSET Ops]
RestType ==
    /\ board \in BOOLEAN /\ block \in [Words -> Values] /\ bank \in Partial
    /\ ring \in [0 .. 1 -> [open : Partial, ops : Seq(Partial)]]
    /\ fw \in [lazy : BOOLEAN, list : BOOLEAN]
    /\ eng \in [by : {"none", "chisel", "machine"}, st : {"idle", "copy", "run"}, half : 0 .. 1,
                at : Nat, count : Nat, list : BOOLEAN]
    /\ stale \subseteq {"list", "op"}
    /\ given \in Partial /\ held \in Partial /\ sure \in BOOLEAN
    /\ due \in Seq([want : Partial, said : Partial, kicked : BOOLEAN, direct : BOOLEAN])

LEMMA TypeParts == TypeOK <=> QType /\ CallType /\ RestType
BY DEF TypeOK, QType, CallType, RestType

\* A list is closed, and waits for its GO.
LEMMA CloseTypes ==
  ASSUME QType, NEW next \in {"none", "op", "flush"}, NEW G \in SUBSET Ops
  PROVE  /\ Closed \in [first : 0 .. 1, n : 0 .. Half, own : Partial, pending : BOOLEAN]
         /\ Closed.n = 0 /\ Closed.first = 1 - q.first
         /\ BlitList(next).start = q.first /\ BlitList(next).cmd = "QUEUE"
         /\ BlitList(next).pc = "wait" /\ BlitList(next).next = next
         /\ [BlitList(next) EXCEPT !.give = G]
              \in [pc : {"cart", "wait", "barrier", "drain", "back"}, cmd : {"QUEUE", "OP", "NOP"},
                   start : 0 .. 1, next : {"none", "op", "flush", "flushed"}, give : SUBSET Ops]
         /\ BlitList(next)
              \in [pc : {"cart", "wait", "barrier", "drain", "back"}, cmd : {"QUEUE", "OP", "NOP"},
                   start : 0 .. 1, next : {"none", "op", "flush", "flushed"}, give : SUBSET Ops]
<1>1. Half \in Nat
  BY BlitQueueAssumption DEF BlitQueueAssumption
<1>2. q.first \in 0 .. 1
  BY DEF QType
<1>3. Closed \in [first : 0 .. 1, n : 0 .. Half, own : Partial, pending : BOOLEAN]
      /\ Closed.n = 0 /\ Closed.first = 1 - q.first
  <2>1. 1 - q.first \in 0 .. 1 /\ 0 \in 0 .. Half
    BY <1>1, <1>2
  <2>2. Closed = [q EXCEPT !.first = 1 - q.first, !.n = 0]
    BY DEF Closed
  <2> QED
    BY <2>1, <2>2 DEF QType
<1>4. Blit("QUEUE", next) \in
         [pc : {"cart", "wait", "barrier", "drain", "back"}, cmd : {"QUEUE", "OP", "NOP"},
          start : 0 .. 1, next : {"none", "op", "flush", "flushed"}, give : SUBSET Ops]
      /\ Blit("QUEUE", next).cmd = "QUEUE" /\ Blit("QUEUE", next).pc = "wait"
      /\ Blit("QUEUE", next).next = next
  BY DEF Blit
<1> QED
  BY <1>2, <1>3, <1>4 DEF BlitList
-----------------------------------------------------------------------------
(* Each action keeps the types and the control. *)

LEMMA InitInv == Init => Inv
<1> SUFFICES ASSUME Init PROVE Inv
  OBVIOUS
<1>1. Boot \in [Words -> Values] /\ Half \in Nat
  BY BlitQueueAssumption DEF BlitQueueAssumption
<1>2. Nothing \in Partial
  BY NothingIs
<1> HIDE DEF Nothing, Partial
<1>3. TypeOK
  BY <1>1, <1>2 DEF Init, TypeOK, InCart, Idle, NoList
<1>4. Control
  BY DEF Init, Control, EngineSound, FirmwareKnows, SweepDue, HalvesKnown, CallSound,
         Busy, WaitsWithList, InCart, Idle
<1> QED
  BY <1>3, <1>4 DEF Inv

\* kick()
LEMMA KickKeeps ==
  ASSUME Inv, Kick
  PROVE  Inv'
<1>0. QType /\ CallType /\ RestType
  BY TypeParts DEF Inv
<1>1. TypeOK'
  <2>1. QType' /\ CallType'
    BY <1>0, CloseTypes DEF Kick, QType, CallType
  <2>2. RestType'
    BY <1>0 DEF Kick, RestType, history
  <2> QED
    BY <2>1, <2>2, TypeParts DEF TypeOK, QType, CallType, RestType
<1>2. Control'
  <2>1. /\ q'.n = 0 /\ q'.first = 1 - q.first /\ q'.pending = q.pending
        /\ call'.start = q.first /\ call'.cmd = "QUEUE" /\ call'.pc = "wait" /\ call'.next = "none"
    BY <1>0, CloseTypes DEF Kick, Closed, QType
  <2>2. call.pc = "cart" /\ UNCHANGED <<board, fw, eng, stale>> /\ Control /\ q.first \in 0 .. 1
    BY <1>0 DEF Kick, Running, Inv, QType
  <2> QED
    BY <2>1, <2>2 DEF Control, EngineSound, FirmwareKnows, SweepDue, HalvesKnown, CallSound,
         Busy, WaitsWithList
<1> QED
  BY <1>1, <1>2 DEF Inv

\* flush()
LEMMA FlushKeeps ==
  ASSUME Inv, Flush
  PROVE  Inv'
<1>0. QType /\ CallType /\ RestType
  BY TypeParts DEF Inv
<1>1. TypeOK' /\ Control'
  <2>1. UNCHANGED <<board, block, ring, fw, eng, bank, stale, given, held, due>>
    BY DEF Flush
  <2>2. CASE q' = Closed /\ call' = BlitList("flush") /\ UNCHANGED sure
    <3>1. QType' /\ CallType'
      BY <1>0, <2>2, CloseTypes DEF QType, CallType
    <3>2. RestType'
      BY <1>0, <2>1, <2>2 DEF RestType
    <3>3. Control'
      <4>1. /\ q'.n = 0 /\ q'.first = 1 - q.first /\ q'.pending = q.pending
            /\ call'.start = q.first /\ call'.cmd = "QUEUE" /\ call'.pc = "wait"
            /\ call'.next = "flush"
        BY <1>0, <2>2, CloseTypes DEF Closed, QType
      <4>2. call.pc = "cart" /\ UNCHANGED <<board, fw, eng, stale>> /\ Control /\ q.first \in 0 .. 1
        BY <1>0, <2>1 DEF Flush, Running, Inv, QType
      <4> QED
        BY <4>1, <4>2 DEF Control, EngineSound, FirmwareKnows, SweepDue, HalvesKnown, CallSound,
         Busy, WaitsWithList
    <3> QED
      BY <3>1, <3>2, <3>3 DEF TypeOK, QType, CallType, RestType
  <2>3. CASE q.n = 0 /\ call' = Blit("NOP", "flushed") /\ UNCHANGED <<q, sure>>
    <3>1. TypeOK'
      BY <2>1, <2>3 DEF Inv, TypeOK, Blit
    <3>2. Control'
      BY <1>0, <2>1, <2>3 DEF Flush, Inv, Running, Blit, QType, Control, EngineSound, FirmwareKnows, SweepDue, HalvesKnown, CallSound,
         Busy, WaitsWithList
    <3> QED
      BY <3>1, <3>2
  <2>4. CASE sure' = TRUE /\ UNCHANGED <<q, call>>
    <3>1. TypeOK'
      BY <2>1, <2>4 DEF Inv, TypeOK
    <3>2. Control'
      BY <2>1, <2>4 DEF Inv, Control, EngineSound, FirmwareKnows, SweepDue, HalvesKnown, CallSound,
         Busy, WaitsWithList
    <3> QED
      BY <3>1, <3>2
  <2> QED
    BY <2>2, <2>3, <2>4 DEF Flush
<1> QED
  BY <1>1 DEF Inv

\* A store to the block.
LEMMA StoreKeeps ==
  ASSUME Inv, Store
  PROVE  Inv'
<1>1. TypeOK'
  <2>1. PICK st \in Stores : block' = [block EXCEPT ![st[1]] = st[2]]
    BY DEF Store
  <2>2. st[1] \in Words /\ st[2] \in Values
    BY BlitQueueAssumption DEF BlitQueueAssumption
  <2>3. block' \in [Words -> Values]
    BY <2>1, <2>2 DEF Inv, TypeOK
  <2> QED
    BY <2>3 DEF Inv, TypeOK, Store, history
<1>2. Control'
  BY DEF Inv, Control, EngineSound, FirmwareKnows, SweepDue, HalvesKnown, CallSound,
         Busy, WaitsWithList, Store, history
<1> QED
  BY <1>1, <1>2 DEF Inv

\* A direct hwBlit().
LEMMA DirectKeeps ==
  ASSUME Inv, Direct
  PROVE  Inv'
<1>1. TypeOK'
  BY DEF Inv, TypeOK, Direct, Running, Blit, cart
<1>2. Control'
  BY DEF Inv, TypeOK, Control, EngineSound, FirmwareKnows, SweepDue, HalvesKnown, CallSound,
         Busy, WaitsWithList, Direct, Running, Blit, cart
<1> QED
  BY <1>1, <1>2 DEF Inv

\* hwBlit() of a NOP.
LEMMA GoNopKeeps ==
  ASSUME Inv, GoNop
  PROVE  Inv'
<1>1. TypeOK'
  BY DEF Inv, TypeOK, GoNop, Ready, AfterLazy, Swept, cart
<1>2. Control'
  BY DEF Inv, TypeOK, Control, EngineSound, FirmwareKnows, SweepDue, HalvesKnown, CallSound,
         Busy, WaitsWithList, GoNop, Ready, AfterLazy, Swept, cart
<1> QED
  BY <1>1, <1>2 DEF Inv

\* The load after GO.
LEMMA BarrierKeeps ==
  ASSUME Inv, Barrier
  PROVE  Inv'
<1>1. TypeOK'
  BY DEF Inv, TypeOK, Barrier, cart
<1>2. /\ call.pc = "barrier" /\ eng.st # "copy" /\ call' = [call EXCEPT !.pc = "back"]
      /\ UNCHANGED <<board, q, eng, fw, stale>> /\ CallType /\ QType
  BY TypeParts DEF Inv, Barrier, Started, cart
<1>3. call'.pc = "back" /\ call'.cmd = call.cmd /\ call'.next = call.next
      /\ call'.give = call.give /\ call'.start = call.start
  BY <1>2 DEF CallType
<1>4. EngineSound' /\ FirmwareKnows' /\ SweepDue' /\ HalvesKnown'
  BY <1>2, <1>3 DEF Inv, Control, EngineSound, FirmwareKnows, SweepDue, HalvesKnown, CallSound,
         Busy, WaitsWithList
<1>5. CallSound'
  BY <1>2, <1>3 DEF Inv, Control, EngineSound, FirmwareKnows, SweepDue, HalvesKnown, CallSound,
         Busy, WaitsWithList
<1> QED
  BY <1>1, <1>4, <1>5 DEF Inv, Control

\* The wait for an op.
LEMMA DrainKeeps ==
  ASSUME Inv, Drain
  PROVE  Inv'
<1>1. TypeOK'
  BY DEF Inv, TypeOK, Drain, cart
<1>2. Control'
  BY DEF Inv, TypeOK, Control, EngineSound, FirmwareKnows, SweepDue, HalvesKnown, CallSound,
         Busy, WaitsWithList, Drain, cart
<1> QED
  BY <1>1, <1>2 DEF Inv

\* hwBlit() returns.
LEMMA ReturnKeeps ==
  ASSUME Inv, Return
  PROVE  Inv'
<1>0. QType /\ CallType /\ RestType /\ call.pc = "back" /\ Control
  BY TypeParts DEF Inv, Return
<1>1. UNCHANGED <<board, block, ring, fw, eng, bank, stale, given, held, due>>
  BY DEF Return
<1>2. PICK b \in BOOLEAN : q' = [q EXCEPT !.pending = b]
                           /\ (eng.list => b) /\ sure' \in BOOLEAN
  <2>1. eng.list => (q.pending \/ call.cmd = "QUEUE")
    BY <1>0 DEF Control, EngineSound, FirmwareKnows, SweepDue, HalvesKnown, CallSound,
         Busy, WaitsWithList
  <2>2. call.cmd = "NOP" => ~eng.list
    BY <1>0 DEF RestType, Control, EngineSound, FirmwareKnows, SweepDue, HalvesKnown, CallSound,
         Busy, WaitsWithList
  <2> QED
    BY <1>0, <2>1, <2>2 DEF Return, Kicked, CallSound, Control, QType, RestType
<1>3. q'.n = q.n /\ q'.first = q.first /\ q'.pending = b /\ QType'
  BY <1>0, <1>2 DEF QType
<1>4. RestType'
  BY <1>0, <1>1, <1>2 DEF RestType
<1>5. CASE call.next \in {"none", "flushed"} /\ call' = InCart
  <2>1. CallType'
    BY <1>5 DEF CallType, InCart
  <2>2. Control'
    BY <1>0, <1>1, <1>2, <1>3, <1>5 DEF InCart, Control, EngineSound, FirmwareKnows, SweepDue, HalvesKnown, CallSound,
         Busy, WaitsWithList
  <2> QED
    BY <1>3, <1>4, <2>1, <2>2 DEF Inv, TypeOK, QType, CallType, RestType
<1>6. CASE call.next = "flush" /\ call' = Blit("NOP", "flushed")
  <2>1. CallType'
    BY <1>6 DEF CallType, Blit
  <2>2. Control'
    BY <1>0, <1>1, <1>2, <1>3, <1>6 DEF Blit, Control, EngineSound, FirmwareKnows, SweepDue, HalvesKnown, CallSound,
         Busy, WaitsWithList
  <2> QED
    BY <1>3, <1>4, <2>1, <2>2 DEF Inv, TypeOK, QType, CallType, RestType
<1> QED
  BY <1>5, <1>6 DEF Return, ThenFlushed

\* What Put does to the types and to the control, the cart being back in its own code.
LEMMA PutKeeps ==
  ASSUME Inv, NEW o \in Ops, NEW b \in BOOLEAN, Put(o, b), Fits(o) \/ q.n = 0,
         call' \in {call, InCart}, call'.pc = "cart", call'.next = "none",
         call.pc \in {"cart", "back"},
         UNCHANGED <<board, block, fw, eng, bank, stale>>,
         b <=> call.pc = "back" /\ call.cmd = "QUEUE"
  PROVE  Inv'
<1>0. TypeOK /\ QType /\ CallType /\ RestType /\ Control
  BY TypeParts DEF Inv
<1>1. /\ q' \in [first : 0 .. 1, n : 0 .. Half, own : Partial, pending : BOOLEAN]
      /\ ring' \in [0 .. 1 -> [open : Partial, ops : Seq(Partial)]]
      /\ given' \in Partial /\ held' \in Partial
      /\ sure' \in BOOLEAN /\ due' \in Seq(Entries)
      /\ q'.n # 0 /\ q'.first = q.first /\ (q'.pending <=> q.pending \/ b)
  BY <1>0, PutTypes
<1>2. QType' /\ RestType'
  BY <1>0, <1>1 DEF QType, RestType, Entries
<1>3. CallType'
  BY <1>0 DEF CallType, InCart
<1>4. Control'
  BY <1>0, <1>1 DEF Control, EngineSound, FirmwareKnows, SweepDue, HalvesKnown, CallSound,
         Busy, WaitsWithList
<1> QED
  BY <1>2, <1>3, <1>4 DEF Inv, TypeOK, QType, CallType, RestType

\* op() and fill(), with or without room.
LEMMA QueueKeeps ==
  ASSUME Inv, NEW o \in Ops, Queue(o)
  PROVE  Inv'
<1>0. QType /\ CallType /\ RestType /\ Control /\ call.pc = "cart"
  BY TypeParts DEF Inv, Queue, Running
<1>1. CASE Fits(o)
  <2>1. Put(o, FALSE) /\ UNCHANGED <<call, board, block, fw, eng, bank, stale>>
    BY <1>1 DEF Queue
  <2>2. call.next = "none"
    BY <1>0 DEF Control, CallSound
  <2> QED
    BY <1>0, <1>1, <2>1, <2>2, PutKeeps
<1>2. CASE ~Fits(o)
  <2>1. /\ q' = Closed /\ call' = [BlitList("op") EXCEPT !.give = {o}]
        /\ UNCHANGED <<ring, board, block, fw, eng, bank, stale>> /\ UNCHANGED history
    BY <1>2 DEF Queue
  <2> DEFINE c == BlitList("op")
  <2>2. /\ [c EXCEPT !.give = {o}] \in
              [pc : {"cart", "wait", "barrier", "drain", "back"}, cmd : {"QUEUE", "OP", "NOP"},
               start : 0 .. 1, next : {"none", "op", "flush", "flushed"}, give : SUBSET Ops]
        /\ c \in [pc : {"cart", "wait", "barrier", "drain", "back"}, cmd : {"QUEUE", "OP", "NOP"},
               start : 0 .. 1, next : {"none", "op", "flush", "flushed"}, give : SUBSET Ops]
        /\ Closed \in [first : 0 .. 1, n : 0 .. Half, own : Partial, pending : BOOLEAN]
        /\ c.start = q.first /\ c.cmd = "QUEUE" /\ c.pc = "wait" /\ c.next = "op"
        /\ Closed.n = 0 /\ Closed.first = 1 - q.first
    BY <1>0, CloseTypes
  <2> HIDE DEF c
  <2>3. call' = [c EXCEPT !.give = {o}]
    BY <2>1 DEF c
  <2>4. /\ q'.n = 0 /\ q'.first = 1 - q.first /\ q'.pending = q.pending
        /\ call'.start = q.first /\ call'.cmd = "QUEUE" /\ call'.pc = "wait"
        /\ call'.next = "op" /\ call'.give = {o}
    BY <1>0, <2>1, <2>2, <2>3 DEF Closed, QType
  <2>5. QType' /\ CallType'
    BY <2>1, <2>2, <2>3 DEF QType, CallType
  <2>6. RestType'
    BY <1>0, <2>1 DEF RestType, history
  <2>7. Control'
    <3>1. UNCHANGED <<board, fw, eng, stale>> /\ q.first \in 0 .. 1
      BY <1>0, <2>1 DEF QType
    <3> QED
      BY <1>0, <2>4, <3>1 DEF Control, EngineSound, FirmwareKnows, SweepDue, HalvesKnown, CallSound,
         Busy, WaitsWithList
  <2> QED
    BY <2>5, <2>6, <2>7 DEF Inv, TypeOK, QType, CallType, RestType
<1> QED
  BY <1>1, <1>2

\* hwBlit() comes back to an op() that had found the half full.
LEMMA ReturnToOpKeeps ==
  ASSUME Inv, ReturnToOp
  PROVE  Inv'
<1>0. QType /\ CallType /\ RestType /\ Control /\ call.pc = "back" /\ call.next = "op"
  BY TypeParts DEF Inv, ReturnToOp
<1>1. call.cmd = "QUEUE" /\ q.n = 0
  BY <1>0 DEF Control, CallSound, HalvesKnown
<1>2. PICK o \in call.give : Put(o, Kicked)
  BY DEF ReturnToOp
<1>3. o \in Ops /\ Kicked \in BOOLEAN /\ (Kicked <=> call.pc = "back" /\ call.cmd = "QUEUE")
  BY <1>0, <1>1 DEF CallType, Kicked
<1>4. call' = InCart /\ UNCHANGED <<board, block, fw, eng, bank, stale>>
  BY DEF ReturnToOp
<1>5. call'.pc = "cart" /\ call'.next = "none"
  BY <1>4 DEF InCart
<1> HIDE DEF Kicked
<1> QED
  BY <1>0, <1>1, <1>2, <1>3, <1>4, <1>5, PutKeeps

\* The ops that are due stay what they are when they are kicked.
LEMMA FixedDue ==
  ASSUME RestType
  PROVE  [i \in DOMAIN due |-> Promise!Fixed(due[i])] \in Seq(Entries)
<1>1. due \in Seq(Entries) /\ block \in [Words -> Values]
  BY DEF RestType, Entries
<1> DEFINE d == [i \in DOMAIN due |-> Promise!Fixed(due[i])]
<1>2. Len(due) \in Nat /\ DOMAIN due = 1 .. Len(due)
  BY <1>1
<1>3. \A i \in 1 .. Len(due) : Promise!Fixed(due[i]) \in Entries
  BY <1>1, <1>2, FixedIs
<1>4. d \in [1 .. Len(due) -> Entries]
  BY <1>2, <1>3
<1> QED
  BY <1>2, <1>4

\* hwBlit() of a list.
LEMMA GoQueueKeeps ==
  ASSUME Inv, GoQueue
  PROVE  Inv'
<1>0. QType /\ CallType /\ RestType /\ Control
  BY TypeParts DEF Inv
<1> DEFINE by == IF board THEN "chisel" ELSE "machine"
           n == Len(ring[call.start].ops)
<1>1. /\ eng' = [by |-> by, st |-> "copy", half |-> call.start, at |-> 0, count |-> n, list |-> TRUE]
      /\ call' = [call EXCEPT !.pc = IF board THEN "barrier" ELSE "drain"]
      /\ fw' = [lazy |-> board, list |-> board] /\ stale' = AfterLazy
      /\ due' = [i \in DOMAIN due |-> Promise!Fixed(due[i])] /\ held' = Nothing
      /\ UNCHANGED <<board, block, q, ring, bank, given, sure>>
      /\ call.pc = "wait" /\ call.cmd = "QUEUE" /\ (fw.lazy => eng.st = "idle")
  BY DEF GoQueue, Begin, Ready
<1>2. n \in Nat /\ call.start \in 0 .. 1 /\ board \in BOOLEAN
  BY <1>0 DEF CallType, RestType
<1>3. due' \in Seq(Entries) /\ held' \in Partial
  BY <1>0, <1>1, FixedDue, NothingIs
<1> HIDE DEF n
<1>4. eng' \in [by : {"none", "chisel", "machine"}, st : {"idle", "copy", "run"}, half : 0 .. 1,
                at : Nat, count : Nat, list : BOOLEAN]
  BY <1>1, <1>2
<1>5. QType' /\ CallType'
  BY <1>0, <1>1 DEF QType, CallType
<1>6. stale' \subseteq {"list", "op"}
  BY <1>0, <1>1 DEF AfterLazy, Swept, RestType
<1>7. RestType'
  BY <1>0, <1>1, <1>2, <1>3, <1>4, <1>6 DEF RestType, Entries
<1>8. Control'
  <2>1. ~Busy
    BY <1>0, <1>1 DEF Busy, Control, FirmwareKnows
  <2>2. /\ call'.pc = (IF board THEN "barrier" ELSE "drain")
        /\ call'.cmd = "QUEUE" /\ call'.start = call.start /\ call'.next = call.next
        /\ call'.give = call.give
    BY <1>0, <1>1 DEF CallType
  <2>3. /\ "list" \in stale' => fw'.list
        /\ "op" \notin stale'
    <3>1. "list" \in stale => fw.list
      BY <1>0 DEF Control, SweepDue
    <3>2. "op" \in stale => fw.lazy /\ ~fw.list
      BY <1>0, <1>1 DEF Control, SweepDue
    <3>3. fw.list => board
      BY <1>0 DEF Control, FirmwareKnows
    <3>4. stale' = IF fw.lazy /\ ~fw.list THEN stale \ {"op"} ELSE stale
      BY <1>1 DEF AfterLazy, Swept
    <3> QED
      BY <3>1, <3>2, <3>3, <3>4, <1>1
  <2>4. call.start = 1 - q.first /\ q.n = 0
    BY <1>0, <1>1 DEF Control, HalvesKnown
  <2>5. EngineSound' /\ FirmwareKnows'
    BY <1>1, <1>2, <2>2 DEF EngineSound, FirmwareKnows, Busy
  <2>6. SweepDue'
    BY <2>3 DEF SweepDue
  <2>7. HalvesKnown'
    BY <1>1, <2>2, <2>4 DEF HalvesKnown, WaitsWithList
  <2>8. CallSound'
    BY <1>0, <1>1, <2>2, <2>4 DEF Control, CallSound
  <2> QED
    BY <2>5, <2>6, <2>7, <2>8 DEF Control
<1> QED
  BY <1>5, <1>7, <1>8 DEF Inv, TypeOK, QType, CallType, RestType

\* hwBlit() of one op.
LEMMA GoOpKeeps ==
  ASSUME Inv, GoOp
  PROVE  Inv'
<1>0. QType /\ CallType /\ RestType /\ Control
  BY TypeParts DEF Inv
<1>1. PICK by \in {"chisel", "machine"}, async \in BOOLEAN :
         /\ eng' = [by |-> by, st |-> "copy", half |-> 0, at |-> 0, count |-> 1, list |-> FALSE]
         /\ fw' = [lazy |-> async, list |-> FALSE]
         /\ call' = [call EXCEPT !.pc = IF async THEN "barrier" ELSE "drain"]
  BY DEF GoOp, Begin
<1>2. /\ stale' = AfterLazy
      /\ due' = <<Promise!DirectOp>> \o due
      /\ UNCHANGED <<board, block, q, ring, bank, given, held, sure>>
      /\ call.pc = "wait" /\ call.cmd = "OP" /\ (fw.lazy => eng.st = "idle")
  BY DEF GoOp, Ready, cart
<1>3. due' \in Seq(Entries)
  <2>2. Promise!DirectOp \in Entries
    BY <1>0, DirectOpIs DEF RestType
  <2> DEFINE e == Promise!DirectOp
  <2>3. due \in Seq(Entries)
    BY <1>0 DEF RestType, Entries
  <2>4. due' = <<e>> \o due
    BY <1>2
  <2> HIDE DEF e
  <2> QED
    BY <2>2, <2>3, <2>4, PrependIs DEF e
<1>4. QType' /\ CallType'
  BY <1>0, <1>1, <1>2 DEF QType, CallType
<1>5. stale' \subseteq {"list", "op"}
  BY <1>0, <1>2 DEF AfterLazy, Swept, RestType
<1>6. RestType'
  <2>1. eng' \in [by : {"none", "chisel", "machine"}, st : {"idle", "copy", "run"}, half : 0 .. 1,
                  at : Nat, count : Nat, list : BOOLEAN]
        /\ fw' \in [lazy : BOOLEAN, list : BOOLEAN]
    BY <1>1
  <2> QED
    BY <1>0, <1>2, <1>3, <1>5, <2>1 DEF RestType, Entries
<1>7. Control'
  <2>1. ~Busy /\ ~eng.list
    BY <1>0, <1>2 DEF Busy, Control, FirmwareKnows, EngineSound
  <2>2. /\ call'.pc = (IF async THEN "barrier" ELSE "drain")
        /\ call'.cmd = "OP" /\ call'.next = call.next /\ call'.give = call.give
    BY <1>0, <1>1, <1>2 DEF CallType
  <2>3. stale' = {}
    <3>1. ("list" \in stale => fw.list) /\ ("op" \in stale => fw.lazy /\ ~fw.list)
      BY <1>0, <1>2 DEF Control, SweepDue
    <3>2. fw.list => fw.lazy
      BY <1>0 DEF Control, FirmwareKnows
    <3>3. stale' = IF fw.lazy THEN (IF fw.list THEN {} ELSE stale \ {"op"}) ELSE stale
      BY <1>2 DEF AfterLazy, Swept
    <3>4. stale \subseteq {"list", "op"}
      BY <1>0 DEF RestType
    <3> QED
      BY <3>1, <3>2, <3>3, <3>4
  <2>5. EngineSound' /\ FirmwareKnows' /\ SweepDue'
    BY <1>1, <2>2, <2>3 DEF EngineSound, FirmwareKnows, Busy, SweepDue
  <2>6. HalvesKnown' /\ CallSound'
    BY <1>0, <1>1, <1>2, <2>2 DEF HalvesKnown, WaitsWithList, Control, CallSound
  <2> QED
    BY <2>5, <2>6 DEF Control
<1> QED
  BY <1>4, <1>6, <1>7 DEF Inv, TypeOK, QType, CallType, RestType

\* The blitter has its copy of the block.
LEMMA CopiedKeeps ==
  ASSUME Inv, Copied
  PROVE  Inv'
<1>1. block \in Partial
  BY WholeIs DEF Inv, TypeOK
<1>2. TypeOK'
  BY <1>1 DEF Inv, TypeOK, Copied, cart
<1>3. Control'
  BY DEF Inv, TypeOK, Copied, cart, Control, EngineSound, FirmwareKnows, SweepDue, HalvesKnown, CallSound,
         Busy, WaitsWithList
<1> QED
  BY <1>2, <1>3 DEF Inv

\* The working copy remains a partial function.
LEMMA LoadedIs ==
  ASSUME Inv, Counted, eng.st = "run", eng.at < eng.count
  PROVE  Loaded \in Partial
<1>0. RestType
  BY TypeParts DEF Inv
<1>1. bank \in Partial
  BY <1>0 DEF RestType
<1>2. CASE ~eng.list
  BY <1>1, <1>2 DEF Loaded
<1>3. CASE eng.list
  <2> DEFINE l == ring[eng.half]
             w == IF eng.at = 0 THEN Over(l.open, bank) ELSE bank
  <2>1. l \in [open : Partial, ops : Seq(Partial)] /\ eng.at \in Nat /\ eng.count = Len(l.ops)
    BY <1>0, <1>3 DEF RestType, Counted
  <2>2. l.open \in Partial /\ l.ops[eng.at + 1] \in Partial
    BY <2>1
  <2>3. w \in Partial
    BY <1>1, <2>2, OverIs
  <2>4. Over(l.ops[eng.at + 1], w) \in Partial
    BY <2>2, <2>3, OverIs
  <2> QED
    BY <1>3, <2>4 DEF Loaded
<1> QED
  BY <1>2, <1>3

\* The blitter does one op, of its list or the only one.
LEMMA DrawKeeps ==
  ASSUME Inv, Counted, Draw
  PROVE  Inv'
<1>0. QType /\ CallType /\ RestType /\ Control
  BY TypeParts DEF Inv
<1>1. /\ eng.st = "run" /\ eng.at < eng.count /\ bank' = Loaded
      /\ eng' = [eng EXCEPT !.at = @ + 1]
      /\ stale' = IF eng.by = "chisel" THEN stale \cup {IF eng.list THEN "list" ELSE "op"} ELSE stale
      /\ due' = Tail(due)
      /\ UNCHANGED <<board, call, fw, given, held, sure, block, q, ring>>
  BY DEF Draw, cart
<1>2. bank' \in Partial
  BY <1>1, LoadedIs
<1>3. due' \in Seq(Entries)
  <2>1. due \in Seq(Entries) /\ eng.at \in Nat /\ eng.count \in Nat
    BY <1>0 DEF RestType, Entries
  <2>2. CallType /\ QType /\ Built \in Nat
    BY <1>0 DEF Built, QType, CallType, RestType
  <2>3. due # << >>
    BY <1>1, <2>1, <2>2 DEF Counted
  <2> QED
    BY <1>1, <2>1, <2>3
<1>4. /\ eng' \in [by : {"none", "chisel", "machine"}, st : {"idle", "copy", "run"}, half : 0 .. 1,
                   at : Nat, count : Nat, list : BOOLEAN]
      /\ eng'.at = eng.at + 1 /\ eng'.count = eng.count /\ eng'.list = eng.list
      /\ eng'.half = eng.half /\ eng'.by = eng.by /\ eng'.st = eng.st
      /\ eng.at \in Nat /\ eng.count \in Nat
  <2>1. eng \in [by : {"none", "chisel", "machine"}, st : {"idle", "copy", "run"}, half : 0 .. 1,
                 at : Nat, count : Nat, list : BOOLEAN]
    BY <1>0 DEF RestType
  <2> QED
    BY <1>1, <2>1
<1>5. RestType'
  BY <1>0, <1>1, <1>2, <1>3, <1>4 DEF RestType, Entries
<1>6. Control'
  <2>1. EngineSound' /\ FirmwareKnows'
    BY <1>0, <1>1, <1>4 DEF Control, EngineSound, FirmwareKnows, SweepDue, HalvesKnown, CallSound,
         Busy, WaitsWithList
  <2>2. SweepDue'
    BY <1>0, <1>1, <1>4 DEF Control, EngineSound, FirmwareKnows, SweepDue, HalvesKnown, CallSound,
         Busy, WaitsWithList
  <2>3. HalvesKnown' /\ CallSound'
    BY <1>0, <1>1, <1>4 DEF Control, EngineSound, FirmwareKnows, SweepDue, HalvesKnown, CallSound,
         Busy, WaitsWithList
  <2> QED
    BY <2>1, <2>2, <2>3 DEF Control
<1> QED
  BY <1>0, <1>1, <1>5, <1>6 DEF Inv, TypeOK, QType, CallType, RestType

\* The blitter is done.
LEMMA ListEndKeeps ==
  ASSUME Inv, ListEnd
  PROVE  Inv'
<1>1. Nothing \in Partial
  BY NothingIs
<1> HIDE DEF Nothing
<1>2. ring' \in [0 .. 1 -> [open : Partial, ops : Seq(Partial)]]
  BY <1>1 DEF Inv, TypeOK, ListEnd, NoList
<1>3. TypeOK'
  BY <1>1, <1>2 DEF Inv, TypeOK, ListEnd, Idle, history
<1>4. Control'
  BY DEF Inv, ListEnd, Idle, history, Control, EngineSound, FirmwareKnows, SweepDue, HalvesKnown, CallSound,
         Busy, WaitsWithList
<1> QED
  BY <1>3, <1>4 DEF Inv
-----------------------------------------------------------------------------
(* Each action keeps the count. *)

\* What TypeOK says of the sequences and numbers counted.
LEMMA Lengths ==
  ASSUME TypeOK
  PROVE  /\ eng.at \in Nat /\ eng.count \in Nat /\ q.n \in Nat /\ q.first \in 0 .. 1
         /\ eng.half \in 0 .. 1 /\ call.start \in 0 .. 1 /\ Built \in Nat /\ due \in Seq(Entries)
         /\ \A h \in 0 .. 1 : ring[h].ops \in Seq(Partial)
<1>1. QType /\ CallType /\ RestType
  BY TypeParts
<1>2. /\ eng.at \in Nat /\ eng.count \in Nat /\ eng.half \in 0 .. 1 /\ due \in Seq(Entries)
      /\ \A h \in 0 .. 1 : ring[h].ops \in Seq(Partial)
  BY <1>1 DEF RestType, Entries
<1>3. q.n \in Nat /\ q.first \in 0 .. 1 /\ call.start \in 0 .. 1
  BY <1>1, BlitQueueAssumption DEF QType, CallType, BlitQueueAssumption
<1> QED
  BY <1>2, <1>3 DEF Built

\* Nothing of what is counted changes.
LEMMA CountedUnchanged ==
  ASSUME Counted, Built' = Built, UNCHANGED <<ring, eng, due>>
  PROVE  Counted'
BY DEF Counted

LEMMA InitCounted == Init => Counted
BY DEF Init, Counted, Built, WaitsWithList, InCart, Idle

LEMMA QuietCounted ==
  ASSUME Inv, Counted, Store \/ Direct \/ GoNop \/ Barrier \/ Drain \/ Return
  PROVE  Counted'
<1>0. QType /\ CallType
  BY TypeParts DEF Inv
<1>1. UNCHANGED <<ring, eng, due>>
  BY DEF Store, Direct, GoNop, Barrier, Drain, Return, history, cart
<1>2. Built' = Built
  <2>1. CASE Store
    BY <2>1 DEF Store, Built, WaitsWithList
  <2>2. CASE Direct
    BY <2>2 DEF Direct, cart, Built, WaitsWithList, Blit, Running
  <2>3. CASE GoNop
    BY <2>3, <1>0 DEF GoNop, cart, Built, WaitsWithList, CallType
  <2>4. CASE Barrier \/ Drain
    BY <2>4, <1>0 DEF Barrier, Drain, cart, Built, WaitsWithList, CallType
  <2>5. CASE Return
    <3>1. q'.n = q.n /\ q'.first = q.first /\ ~WaitsWithList /\ UNCHANGED ring
      BY <2>5, <1>0 DEF Return, QType, WaitsWithList
    <3>2. ~WaitsWithList'
      BY <2>5 DEF Return, InCart, Blit, WaitsWithList, ThenFlushed
    <3> QED
      BY <3>1, <3>2 DEF Built
  <2> QED
    BY <2>1, <2>2, <2>3, <2>4, <2>5
<1> QED
  BY <1>1, <1>2, CountedUnchanged

\* Closing a list, with its hwBlit() next.
LEMMA CloseCounted ==
  ASSUME Inv, Counted, q.n # 0, call.pc = "cart", q' = Closed, NEW next \in {"none", "op", "flush"},
         NEW G \in SUBSET Ops, call' \in {BlitList(next), [BlitList(next) EXCEPT !.give = G]},
         UNCHANGED <<ring, eng, due>>
  PROVE  Counted'
<1>0. QType
  BY TypeParts DEF Inv
<1>1. call'.pc = "wait" /\ call'.cmd = "QUEUE" /\ call'.start = q.first
  <2> DEFINE c == BlitList(next)
  <2>1. c.start = q.first /\ c.cmd = "QUEUE" /\ c.pc = "wait" /\ c = [c EXCEPT !.give = c.give]
    BY <1>0, CloseTypes DEF BlitList, Blit
  <2>2. [c EXCEPT !.give = G].start = c.start /\ [c EXCEPT !.give = G].cmd = c.cmd
        /\ [c EXCEPT !.give = G].pc = c.pc
    BY DEF BlitList, Blit
  <2>3. call' = c \/ call' = [c EXCEPT !.give = G]
    OBVIOUS
  <2> HIDE DEF c
  <2> QED
    BY <2>1, <2>2, <2>3
<1>2. Built' = Built
  BY <1>1 DEF Built, WaitsWithList
<1> QED
  BY <1>2, CountedUnchanged

LEMMA KickCounted ==
  ASSUME Inv, Counted, Kick \/ Flush
  PROVE  Counted'
<1>1. CASE Kick
  BY <1>1, CloseCounted DEF Kick, Running, history
<1>2. CASE Flush
  <2>1. UNCHANGED <<ring, eng, due>> /\ call.pc = "cart"
    BY <1>2 DEF Flush, Running
  <2>2. CASE q.n # 0 /\ q' = Closed /\ call' = BlitList("flush")
    BY <2>1, <2>2, CloseCounted
  <2>3. CASE q.n = 0 /\ call' \in {call, Blit("NOP", "flushed")} /\ UNCHANGED q
    <3>1. Built' = Built
      BY <2>1, <2>3 DEF Built, WaitsWithList, Blit
    <3> QED
      BY <2>1, <3>1, CountedUnchanged
  <2> QED
    BY <1>2, <2>2, <2>3 DEF Flush
<1> QED
  BY <1>1, <1>2

\* An op put at the end of the open list.
LEMMA PutCounted ==
  ASSUME Inv, Counted, NEW o \in Ops, NEW b \in BOOLEAN, Put(o, b), Fits(o) \/ q.n = 0,
         call.pc \in {"cart", "back"}, call'.pc = "cart", UNCHANGED eng
  PROVE  Counted'
<1>0. TypeOK /\ ~WaitsWithList /\ ~WaitsWithList'
  BY DEF Inv, WaitsWithList
<1>1. q'.n # 0 /\ q'.first = q.first /\ due' \in Seq(Entries)
  BY <1>0, PutTypes
<1>2. PICK e : due' = Append(due, e)
  BY PutIs
<1>3. Len(due') = Len(due) + 1 /\ \A i \in 1 .. Len(due) : due'[i] = due[i]
  BY <1>0, <1>2, Lengths
<1>4. q.first \in 0 .. 1 /\ eng.half \in 0 .. 1 /\ (eng.list => eng.half # q.first)
  BY <1>0, Lengths DEF Inv, Control, HalvesKnown
<1>5. ring' = IF q.n = 0
              THEN [ring EXCEPT ![q.first] = [open |-> [k \in Restated |-> q.own[k]],
                                              ops |-> <<o.set>>]]
              ELSE [ring EXCEPT ![q.first].ops = Append(ring[q.first].ops, o.set)]
  BY DEF Put
<1>6. RestType /\ DOMAIN ring = 0 .. 1
  BY TypeParts, <1>0 DEF RestType
<1>7. eng.list => ring'[eng.half] = ring[eng.half]
  BY <1>4, <1>5, <1>6
<1>8. Len(ring'[q.first].ops) = (IF q.n = 0 THEN 0 ELSE Len(ring[q.first].ops)) + 1
  <2>1. CASE q.n = 0
    <3>1. ring'[q.first].ops = <<o.set>>
      BY <1>4, <1>5, <1>6, <2>1
    <3> QED
      BY <3>1, <2>1
  <2>2. CASE q.n # 0
    <3>1. ring'[q.first].ops = Append(ring[q.first].ops, o.set)
      BY <1>4, <1>5, <1>6, <2>2 DEF RestType
    <3>2. ring[q.first].ops \in Seq(Partial)
      BY <1>0, <1>4, Lengths
    <3> QED
      BY <3>1, <3>2, <2>2
  <2> QED
    BY <2>1, <2>2
<1>9. Built' = Built + 1
  BY <1>0, <1>1, <1>8 DEF Built
<1>10. Built \in Nat /\ eng.count - eng.at \in Nat
  BY <1>0, Lengths DEF Inv, Control, EngineSound
<1> QED
  BY <1>3, <1>7, <1>9, <1>10 DEF Counted

LEMMA QueueCounted ==
  ASSUME Inv, Counted, NEW o \in Ops, Queue(o)
  PROVE  Counted'
<1>1. CASE Fits(o)
  BY <1>1, PutCounted DEF Queue, Running
<1>2. CASE ~Fits(o)
  <2>1. q.n # 0
    <3>1. DOMAIN o.set \in SUBSET Words
      BY OpIs, PartialElim
    <3>2. Half \in Nat /\ 1 + Cardinality(Words) + 1 + Cardinality(DOMAIN o.set) <= Half
      BY BlitQueueAssumption DEF BlitQueueAssumption
    <3> QED
      BY <1>2, <3>1, <3>2, CountWords DEF Fits
  <2>2. /\ q' = Closed /\ call' = [BlitList("op") EXCEPT !.give = {o}]
        /\ UNCHANGED <<ring, eng, due>> /\ call.pc = "cart"
    BY <1>2 DEF Queue, Running, history
  <2> QED
    BY <2>1, <2>2, CloseCounted
<1> QED
  BY <1>1, <1>2

LEMMA ReturnToOpCounted ==
  ASSUME Inv, Counted, ReturnToOp
  PROVE  Counted'
<1>0. QType /\ CallType /\ Control /\ call.pc = "back" /\ call.next = "op"
  BY TypeParts DEF Inv, ReturnToOp
<1>1. call.cmd = "QUEUE" /\ q.n = 0
  BY <1>0 DEF Control, CallSound, HalvesKnown
<1>2. PICK o \in call.give : Put(o, Kicked)
  BY DEF ReturnToOp
<1>3. o \in Ops /\ Kicked \in BOOLEAN
  BY <1>0, <1>1 DEF CallType, Kicked
<1>4. call'.pc = "cart" /\ UNCHANGED eng
  BY DEF ReturnToOp, InCart
<1> HIDE DEF Kicked
<1> QED
  BY <1>0, <1>1, <1>2, <1>3, <1>4, PutCounted

\* A GO: what was built, or a direct op, is what runs.
LEMMA GoCounted ==
  ASSUME Inv, Counted, GoQueue \/ GoOp
  PROVE  Counted'
<1>0. TypeOK /\ Control /\ CallType /\ QType
  BY TypeParts DEF Inv
<1>1. ~Busy /\ ~eng.list /\ eng.at = 0 /\ eng.count = 0 /\ call.pc = "wait"
  BY <1>0 DEF GoQueue, GoOp, Ready, Busy, Control, FirmwareKnows, EngineSound
<1>2. Built \in Nat /\ due \in Seq(Entries) /\ Len(due) = Built
  BY <1>0, <1>1, Lengths DEF Counted
<1>3. CASE GoQueue
  <2>1. /\ eng'.list = TRUE /\ eng'.half = call.start /\ eng'.at = 0
        /\ eng'.count = Len(ring[call.start].ops) /\ UNCHANGED <<q, ring>>
        /\ call.cmd = "QUEUE" /\ call'.pc # "wait" /\ Len(due') = Len(due)
    BY <1>0, <1>2, <1>3 DEF GoQueue, Begin, CallType
  <2>2. q.n = 0 /\ WaitsWithList /\ ~WaitsWithList'
    BY <1>0, <1>1, <2>1 DEF Control, HalvesKnown, WaitsWithList
  <2>3. Built = Len(ring[call.start].ops) /\ Built' = 0
    BY <2>1, <2>2 DEF Built
  <2> QED
    BY <1>2, <2>1, <2>3 DEF Counted
<1>4. CASE GoOp
  <2>1. /\ eng'.list = FALSE /\ eng'.at = 0 /\ eng'.count = 1 /\ UNCHANGED <<q, ring>>
        /\ call.cmd = "OP" /\ due' = <<Promise!DirectOp>> \o due
        /\ call'.pc # "wait"
    BY <1>0, <1>4 DEF GoOp, Begin, cart, CallType
  <2>2. Promise!DirectOp.direct
    BY DEF Promise!DirectOp
  <2> DEFINE e == Promise!DirectOp
  <2>3. e.direct /\ due' = <<e>> \o due
    BY <2>1, <2>2
  <2> HIDE DEF e
  <2>4. Len(due') = 1 + Len(due) /\ due'[1] = e
    BY <1>2, <2>3
  <2>5. Built' = Built
    BY <2>1 DEF Built, WaitsWithList
  <2>6. Len(due') = (eng'.count - eng'.at) + Built'
    BY <1>2, <2>1, <2>4, <2>5
  <2>7. \A i \in 1 .. eng'.count - eng'.at : due'[i].direct
    <3>1. \A i \in 1 .. eng'.count - eng'.at : i = 1
      BY <2>1
    <3>2. due'[1].direct
      BY <2>3, <2>4, Zenon
    <3> QED
      BY <3>1, <3>2, Zenon
  <2> QED
    BY <2>1, <2>6, <2>7 DEF Counted
<1> QED
  BY <1>3, <1>4

\* What the blitter does.
LEMMA BlitterCounted ==
  ASSUME Inv, Counted, Blitter
  PROVE  Counted'
<1>0. TypeOK /\ Control /\ RestType
  BY TypeParts DEF Inv
<1>1. /\ Built \in Nat /\ due \in Seq(Entries) /\ eng.at \in Nat /\ eng.count \in Nat
      /\ eng.half \in 0 .. 1 /\ call.start \in 0 .. 1 /\ q.first \in 0 .. 1
  BY <1>0, Lengths
<1>2. CASE Copied
  <2>1. /\ eng'.at = eng.at /\ eng'.count = eng.count /\ eng'.list = eng.list
        /\ eng'.half = eng.half /\ UNCHANGED <<q, ring, call, due>>
    BY <1>0, <1>2 DEF Copied, cart, RestType
  <2>2. Built' = Built
    BY <2>1 DEF Built, WaitsWithList
  <2> QED
    BY <2>1, <2>2 DEF Counted
<1>3. CASE Draw
  <2>1. /\ eng'.at = eng.at + 1 /\ eng'.count = eng.count /\ eng'.list = eng.list
        /\ eng'.half = eng.half /\ UNCHANGED <<q, ring, call>> /\ due' = Tail(due)
        /\ eng.at < eng.count
    BY <1>0, <1>3 DEF Draw, cart, RestType
  <2>2. Built' = Built
    BY <2>1 DEF Built, WaitsWithList
  <2>3. /\ Len(due) = (eng.count - eng.at) + Built
        /\ Len(due) > 0 /\ Len(due') = Len(due) - 1
        /\ \A i \in 1 .. Len(due') : due'[i] = due[i + 1]
    BY <1>1, <2>1 DEF Counted
  <2>4. ~eng.list => \A i \in 1 .. eng.count - (eng.at + 1) : due'[i].direct
    BY <1>1, <2>1, <2>3 DEF Counted
  <2>5. (eng.list => eng.count = Len(ring[eng.half].ops))
    BY DEF Counted
  <2>6. Len(due') = (eng.count - (eng.at + 1)) + Built
    BY <1>1, <2>1, <2>3
  <2> QED
    BY <2>1, <2>2, <2>4, <2>5, <2>6 DEF Counted
<1>4. CASE ListEnd
  <2>1. /\ eng'.at = 0 /\ eng'.count = 0 /\ eng'.list = FALSE /\ eng.at = eng.count
        /\ ring' = IF eng.list THEN [ring EXCEPT ![eng.half] = NoList] ELSE ring
        /\ UNCHANGED <<q, call, due>>
    BY <1>4 DEF ListEnd, Idle, history
  <2>2. /\ eng.list /\ WaitsWithList => eng.half # call.start
        /\ eng.list /\ ~WaitsWithList => eng.half # q.first
    BY <1>0, <1>1 DEF Control, HalvesKnown, WaitsWithList
  <2>3. \A h \in 0 .. 1 : ~eng.list \/ h # eng.half => ring'[h] = ring[h]
    BY <1>0, <1>1, <2>1 DEF RestType
  <2>4. Built' = Built
    BY <1>1, <2>1, <2>2, <2>3 DEF Built, WaitsWithList
  <2>5. Len(due) = Built
    BY <1>1, <2>1 DEF Counted
  <2> QED
    BY <1>1, <2>1, <2>4, <2>5 DEF Counted
<1> QED
  BY <1>2, <1>3, <1>4 DEF Blitter
-----------------------------------------------------------------------------
(* The theorems. *)

\* Every step keeps it all, and so does no step.
LEMMA StepInv == Inv /\ Counted /\ [Next]_vars => Inv' /\ Counted'
<1> SUFFICES ASSUME Inv, Counted, [Next]_vars PROVE Inv' /\ Counted'
  OBVIOUS
<1>1. CASE \E o \in Ops : Queue(o)
  BY <1>1, QueueKeeps, QueueCounted
<1>2. CASE Kick
  BY <1>2, KickKeeps, KickCounted
<1>3. CASE Flush
  BY <1>3, FlushKeeps, KickCounted
<1>4. CASE Store
  BY <1>4, StoreKeeps, QuietCounted
<1>5. CASE Direct
  BY <1>5, DirectKeeps, QuietCounted
<1>6. CASE HwBlit
  <2>1. CASE GoQueue
    BY <2>1, GoQueueKeeps, GoCounted
  <2>2. CASE GoOp
    BY <2>2, GoOpKeeps, GoCounted
  <2>3. CASE GoNop
    BY <2>3, GoNopKeeps, QuietCounted
  <2>4. CASE Barrier
    BY <2>4, BarrierKeeps, QuietCounted
  <2>5. CASE Drain
    BY <2>5, DrainKeeps, QuietCounted
  <2>6. CASE Return
    BY <2>6, ReturnKeeps, QuietCounted
  <2>7. CASE ReturnToOp
    BY <2>7, ReturnToOpKeeps, ReturnToOpCounted
  <2> QED
    BY <1>6, <2>1, <2>2, <2>3, <2>4, <2>5, <2>6, <2>7 DEF HwBlit
<1>7. CASE Blitter
  <2>1. CASE Copied
    BY <2>1, CopiedKeeps, BlitterCounted DEF Blitter
  <2>2. CASE Draw
    BY <2>2, DrawKeeps, BlitterCounted DEF Blitter
  <2>3. CASE ListEnd
    BY <2>3, ListEndKeeps, BlitterCounted DEF Blitter
  <2> QED
    BY <1>7, <2>1, <2>2, <2>3 DEF Blitter
<1>8. CASE UNCHANGED vars
  <2>1. TypeOK'
    BY <1>8 DEF vars, Inv, TypeOK
  <2>2. Control'
    BY <1>8 DEF vars, Inv, Control, EngineSound, FirmwareKnows, SweepDue, HalvesKnown, CallSound,
         Busy, WaitsWithList
  <2>3. Built' = Built
    BY <1>8 DEF vars, Built, WaitsWithList
  <2>4. Counted'
    BY <1>8, <2>3, CountedUnchanged DEF vars
  <2> QED
    BY <2>1, <2>2, <2>4 DEF Inv
<1> QED
  BY <1>1, <1>2, <1>3, <1>4, <1>5, <1>6, <1>7, <1>8 DEF Next

LEMMA AlwaysInv == Spec => [](Inv /\ Counted)
<1>1. Init => Inv /\ Counted
  BY InitInv, InitCounted
<1> QED
  BY <1>1, StepInv, PTL DEF Spec

\* Every variable keeps its type; no list outgrows its half of the ring.
THEOREM TypeCorrect == Spec => []TypeOK
<1>1. Inv => TypeOK
  BY DEF Inv
<1> QED
  BY <1>1, AlwaysInv, PTL

\* The library never writes to the half of the ring that the blitter reads.
THEOREM HalvesNeverMeet == Spec => []HalvesApart
<1>1. Inv => HalvesApart
  <2> SUFFICES ASSUME Inv, eng.list, q.n # 0 PROVE eng.half # q.first
    BY DEF HalvesApart
  <2>1. q.first \in 0 .. 1
    BY Lengths DEF Inv
  <2>2. call.pc = "cart" \/ call.cmd # "QUEUE"
    BY DEF Inv, Control, HalvesKnown
  <2> QED
    BY <2>1, <2>2 DEF Inv, Control, HalvesKnown, WaitsWithList
<1> QED
  BY <1>1, AlwaysInv, PTL

\* However hwBlit()'s sweep is put off, the cart never reads a line older than what was drawn.
THEOREM NeverStale == Spec => []NothingStale
<1>1. Inv => NothingStale
  <2> SUFFICES ASSUME Inv, Running
               PROVE (~fw.lazy => stale = {}) /\ ("op" \in stale => fw.lazy /\ ~fw.list)
    BY DEF NothingStale
  <2>1. RestType /\ call.pc = "cart"
    BY TypeParts DEF Inv, Running
  <2>2. stale \subseteq {"list", "op"}
    BY <2>1 DEF RestType
  <2> QED
    BY <2>1, <2>2 DEF Inv, Control, SweepDue, FirmwareKnows
<1> QED
  BY <1>1, AlwaysInv, PTL

\* A flush() that returns at once leaves no queued op behind.
THEOREM PendingTold == Spec => []PendingKnown
<1>1. Inv /\ Counted => PendingKnown
  <2> SUFFICES ASSUME Inv, Counted, Running, ~q.pending, q.n = 0, NEW i \in DOMAIN due
               PROVE due[i].direct
    BY DEF PendingKnown
  <2>1. ~eng.list /\ Built = 0
    BY DEF Inv, Control, CallSound, Running, Built, WaitsWithList
  <2>2. eng.at \in Nat /\ eng.count \in Nat /\ due \in Seq(Entries)
    BY Lengths DEF Inv
  <2> QED
    BY <2>1, <2>2 DEF Counted
<1> QED
  BY <1>1, AlwaysInv, PTL

\* A GO is never written to a blitter at work.
THEOREM NeverDropped == Spec => []GoWhenIdle
<1>1. Inv => GoWhenIdle
  BY DEF Inv, Control, FirmwareKnows, GoWhenIdle, Ready, Busy
<1> QED
  BY <1>1, AlwaysInv, PTL

-----------------------------------------------------------------------------
(***************************************************************************)
(* BlitQueue implements OpQueue.  Data says how the words that each op due *)
(* must see come about: they are its descriptor, laid over the words that  *)
(* the op before it must see (or, for a list's first op, over the opening  *)
(* and at the kick the block).  No op looks further back than its          *)
(* predecessor, so that what is drawn or put has only its neighbour to     *)
(* answer for.                                                             *)
(***************************************************************************)

\* The list that waits for its GO or is under construction, and the promises of its ops.
Open == IF WaitsWithList THEN ring[call.start] ELSE ring[q.first]
Left == eng.count - eng.at
Waiting == [i \in 1 .. Built |-> due[Left + i]]
Doing == [i \in 1 .. Left |-> due[i]]

OwnSound == /\ DOMAIN q.own = DOMAIN given
            /\ \A k \in DOMAIN given : q.own[k] = Kept(k, given[k])

\* l holds n ops, none of them kicked, with the promises es.
ListSound(l, n, es) ==
    /\ \A i \in 1 .. n : ~es[i].kicked /\ ~es[i].direct
    /\ n # 0 => es[1].want = Over(l.ops[1], l.open)
    /\ \A i \in 1 .. n - 1 : es[i + 1].want = Over(l.ops[i + 1], es[i].want)

\* What the open list states so far is what its last op must see.
OpenSound == /\ ListSound(Open, Built, Waiting)
             /\ q.n # 0 => Built # 0 /\ held = Waiting[Built].want

\* The words that the next op to be drawn will see.
Base == IF eng.st = "copy" THEN block ELSE bank
NextUp == LET l == ring[eng.half]
          IN  IF eng.list
              THEN Over(l.ops[eng.at + 1], IF eng.at = 0 THEN Over(l.open, Base) ELSE Base)
              ELSE Base

DoingSound ==
    /\ ~eng.list => eng.count <= 1
    /\ \A i \in 1 .. Left : Doing[i].kicked
    /\ Left # 0 => NextUp = Doing[1].want
    /\ eng.list => \A i \in 1 .. Left - 1 :
          Doing[i + 1].want = Over(ring[eng.half].ops[eng.at + i + 1], Doing[i].want)

Data == OwnSound /\ OpenSound /\ DoingSound
-----------------------------------------------------------------------------
(* An op put at the end of the open list. *)

\* It does not matter in which order three are laid over each other.
LEMMA OverOver ==
  ASSUME NEW u, NEW v, NEW w
  PROVE  Over(Over(u, v), w) = Over(u, Over(v, w))
<1> DEFINE f == Over(Over(u, v), w)
           g == Over(u, Over(v, w))
<1>1. DOMAIN f = DOMAIN g
  BY DEF Over, Promise!Over
<1>2. \A k \in DOMAIN f : f[k] = g[k]
  BY DEF Over, Promise!Over
<1>3. f = [k \in DOMAIN f |-> f[k]] /\ g = [k \in DOMAIN g |-> g[k]]
  BY DEF Over, Promise!Over
<1> HIDE DEF f, g
<1>4. f = g
  BY <1>1, <1>2, <1>3
<1> QED
  BY <1>4 DEF f, g

\* What the library owns and what the cart has given say the same.
LEMMA OwnData ==
  ASSUME TypeOK, OwnSound, NEW o \in Ops, NEW b \in BOOLEAN, Put(o, b)
  PROVE  OwnSound'
<1>1. o.set \in Partial /\ o.fill \in BOOLEAN
  BY OpIs
<1>2. q'.own = OwnAfter(o)
  BY TypeParts DEF QType, Put
<1>3. CASE o.fill
  <2>1. given' = [k \in DOMAIN given \ DOMAIN o.set |-> given[k]]
    BY <1>3 DEF Put, Promise!Fill
  <2>2. q'.own = [k \in DOMAIN q.own \ DOMAIN o.set |-> q.own[k]]
    BY <1>2, <1>3 DEF OwnAfter
  <2> QED
    BY <2>1, <2>2 DEF OwnSound
<1>4. CASE ~o.fill
  <2>1. given' = Over(o.set, given)
    BY <1>4 DEF Put, Promise!Op, Over
  <2>2. q'.own = Over([k \in DOMAIN o.set |-> Kept(k, o.set[k])], q.own)
    BY <1>2, <1>4 DEF OwnAfter
  <2> QED
    BY <2>1, <2>2 DEF OwnSound, Over, Promise!Over
<1> QED
  BY <1>3, <1>4

\* What it leaves in the ring.
LEMMA PutRing ==
  ASSUME Inv, NEW o \in Ops, NEW b \in BOOLEAN, Put(o, b), Fits(o) \/ q.n = 0,
         call.pc \in {"cart", "back"}, call'.pc = "cart", UNCHANGED eng
  PROVE  /\ ~WaitsWithList /\ ~WaitsWithList' /\ q'.n # 0 /\ q'.first = q.first /\ q.first \in 0 .. 1
         /\ Open = ring[q.first] /\ Open' = ring'[q.first]
         /\ q.n = 0 => /\ Open'.open = [k \in Restated |-> q.own[k]]
                       /\ Open'.ops = <<o.set>>
                       /\ Built = 0
         /\ q.n # 0 => /\ Open'.open = Open.open
                       /\ Open'.ops = Append(Open.ops, o.set)
                       /\ Open.ops \in Seq(Partial) /\ Built = Len(Open.ops)
         /\ Built' = Built + 1
         /\ eng.list => ring'[eng.half] = ring[eng.half]
<1>0. TypeOK /\ ~WaitsWithList /\ ~WaitsWithList'
  BY DEF Inv, WaitsWithList
<1>1. q'.n # 0 /\ q'.first = q.first
  BY <1>0, PutTypes
<1>2. /\ q.first \in 0 .. 1 /\ eng.half \in 0 .. 1 /\ (eng.list => eng.half # q.first)
      /\ ring[q.first].ops \in Seq(Partial)
  BY <1>0, Lengths DEF Inv, Control, HalvesKnown
<1>3. ring' = IF q.n = 0
              THEN [ring EXCEPT ![q.first] = [open |-> [k \in Restated |-> q.own[k]],
                                              ops |-> <<o.set>>]]
              ELSE [ring EXCEPT ![q.first].ops = Append(ring[q.first].ops, o.set)]
  BY DEF Put
<1>4. RestType /\ DOMAIN ring = 0 .. 1 /\ ring[q.first] \in [open : Partial, ops : Seq(Partial)]
  BY TypeParts, <1>0, <1>2 DEF RestType
<1>5. eng.list => ring'[eng.half] = ring[eng.half]
  BY <1>2, <1>3, <1>4
<1>6. Open = ring[q.first] /\ Open' = ring'[q.first]
  BY <1>0, <1>1 DEF Open
<1>7. q.n = 0 => /\ ring'[q.first].open = [k \in Restated |-> q.own[k]]
                 /\ ring'[q.first].ops = <<o.set>>
  BY <1>2, <1>3, <1>4
<1>8. q.n # 0 => /\ ring'[q.first].open = ring[q.first].open
                 /\ ring'[q.first].ops = Append(ring[q.first].ops, o.set)
  BY <1>2, <1>3, <1>4
<1>9. Built = (IF q.n # 0 THEN Len(ring[q.first].ops) ELSE 0) /\ Built' = Len(ring'[q.first].ops)
  BY <1>0, <1>1 DEF Built
<1>10. Built' = Built + 1
  <2>1. CASE q.n = 0
    <3>1. ring'[q.first].ops = <<o.set>> /\ Built = 0
      BY <1>7, <1>9, <2>1
    <3>2. Built' = 1
      BY <1>9, <3>1
    <3> QED
      BY <3>1, <3>2
  <2>2. CASE q.n # 0
    BY <1>2, <1>8, <1>9, <2>2
  <2> QED
    BY <2>1, <2>2
<1> QED
  BY <1>0, <1>1, <1>2, <1>5, <1>6, <1>7, <1>8, <1>9, <1>10

\* The ops that were due stay where they were.
LEMMA PutDue ==
  ASSUME Inv, Counted, NEW e, due' = Append(due, e), UNCHANGED eng, Built' = Built + 1
  PROVE  /\ Built \in Nat /\ Left \in Nat /\ Left' = Left
         /\ Doing' = Doing
         /\ Waiting'[Built + 1] = e
         /\ \A i \in 1 .. Built : Waiting'[i] = Waiting[i]
<1>1. Built \in Nat /\ Left \in Nat /\ due \in Seq(Entries)
  BY Lengths DEF Inv, Control, EngineSound, Left
<1>2. Left' = Left
  BY DEF Left
<1>3. Len(due) = Left + Built
  BY DEF Counted, Left
<1>4. \A i \in 1 .. Len(due) : due'[i] = due[i]
  BY <1>1
<1>5. due'[Len(due) + 1] = e
  BY <1>1
<1>6. Doing' = Doing
  BY <1>1, <1>2, <1>3, <1>4 DEF Doing
<1>7. Waiting' = [i \in 1 .. Built + 1 |-> due'[Left + i]]
  BY <1>2 DEF Waiting
<1>8. \A i \in 1 .. Built : Waiting'[i] = Waiting[i]
  <2> SUFFICES ASSUME NEW i \in 1 .. Built PROVE Waiting'[i] = Waiting[i]
    OBVIOUS
  <2>1. Left + i \in 1 .. Len(due) /\ i \in 1 .. Built + 1
    BY <1>1, <1>3
  <2>2. Waiting'[i] = due'[Left + i]
    BY <1>7, <2>1
  <2>3. Waiting[i] = due[Left + i]
    BY DEF Waiting
  <2> QED
    BY <1>4, <2>1, <2>2, <2>3
<1>9. Waiting'[Built + 1] = e
  BY <1>1, <1>3, <1>5, <1>7
<1> QED
  BY <1>1, <1>2, <1>6, <1>8, <1>9

\* The first op after a kick opens a list; the ops after it find what it left stated.
LEMMA StatedBy ==
  ASSUME Inv, Counted, Data, q.n = 0 => Built = 0
  PROVE  /\ q.n = 0 => Promise!Stated = [k \in Restated |-> q.own[k]]
         /\ q.n # 0 => Built \in Nat \ {0} /\ Promise!Stated = Waiting[Built].want
<1>1. Built \in Nat /\ Left \in Nat /\ due \in Seq(Entries) /\ Len(due) = Left + Built
  BY Lengths DEF Inv, Control, EngineSound, Left, Counted
<1>2. CASE q.n = 0
  <2>1. Promise!AllKicked
    <3> SUFFICES ASSUME NEW i \in DOMAIN due PROVE due[i].kicked
      BY DEF Promise!AllKicked
    <3>1. i \in 1 .. Left
      BY <1>1, <1>2
    <3>2. Doing[i] = due[i] /\ Doing[i].kicked
      BY <3>1 DEF Doing, Data, DoingSound
    <3> QED
      BY <3>2
  <2>2. DOMAIN q.own = DOMAIN given /\ \A k \in DOMAIN given : q.own[k] = Promise!Kept(k, given[k])
    BY DEF Data, OwnSound, Kept
  <2>3. Promise!Restated = Restated /\ Restated \subseteq DOMAIN given
    BY <2>2 DEF Promise!Restated, Restated, Kept
  <2>4. Promise!Stated = [k \in Promise!Restated |-> Promise!Kept(k, given[k])]
    BY <2>1 DEF Promise!Stated
  <2> QED
    BY <1>2, <2>2, <2>3, <2>4
<1>3. CASE q.n # 0
  <2>1. Built # 0 /\ held = Waiting[Built].want /\ ListSound(Open, Built, Waiting)
    BY <1>3 DEF Data, OpenSound
  <2>2. Built \in 1 .. Built /\ Left + Built \in DOMAIN due
    BY <1>1, <2>1
  <2>3. ~due[Left + Built].kicked
    BY <2>1, <2>2 DEF ListSound, Waiting
  <2>4. ~Promise!AllKicked
    BY <2>2, <2>3 DEF Promise!AllKicked
  <2> QED
    BY <1>1, <1>3, <2>1, <2>4 DEF Promise!Stated
<1> QED
  BY <1>2, <1>3

\* What runs is not disturbed.
LEMMA DoingKept ==
  ASSUME DoingSound, UNCHANGED <<eng, Doing, Base>>, eng.list => ring'[eng.half] = ring[eng.half]
  PROVE  DoingSound'
<1>1. UNCHANGED <<eng, Left>>
  BY DEF Left
<1>2. UNCHANGED NextUp
  BY <1>1 DEF NextUp
<1> QED
  BY <1>1, <1>2 DEF DoingSound

LEMMA PutData ==
  ASSUME Inv, Counted, Data, NEW o \in Ops, NEW b \in BOOLEAN, Put(o, b),
         Fits(o) \/ q.n = 0, call.pc \in {"cart", "back"}, call'.pc = "cart",
         UNCHANGED <<eng, block, bank>>
  PROVE  Data'
<1>0. TypeOK /\ OwnSound /\ OpenSound /\ DoingSound
  BY DEF Inv, Data
<1>1. OwnSound'
  BY <1>0, OwnData
<1> DEFINE want == Over(o.set, Promise!Stated)
           e == Promise!Queued(want, Over(o.set, given))
<1>2. due' = Append(due, e) /\ held' = want /\ e.want = want /\ ~e.kicked /\ ~e.direct
  BY PutIs DEF Promise!Queued
<1> HIDE DEF e
<1>3. /\ ~WaitsWithList /\ ~WaitsWithList' /\ q'.n # 0
      /\ q.n = 0 => /\ Open'.open = [k \in Restated |-> q.own[k]]
                    /\ Open'.ops = <<o.set>>
                    /\ Built = 0
      /\ q.n # 0 => /\ Open'.open = Open.open
                    /\ Open'.ops = Append(Open.ops, o.set)
                    /\ Open.ops \in Seq(Partial) /\ Built = Len(Open.ops)
      /\ Built' = Built + 1
      /\ eng.list => ring'[eng.half] = ring[eng.half]
  BY PutRing
<1>4. /\ Built \in Nat
      /\ Doing' = Doing
      /\ Waiting'[Built + 1] = e
      /\ \A i \in 1 .. Built : Waiting'[i] = Waiting[i]
  BY <1>2, <1>3, PutDue
<1>5. DoingSound'
  <2>1. UNCHANGED Base
    BY DEF Base
  <2> QED
    BY <1>0, <1>3, <1>4, <2>1, DoingKept
<1>6. Built' # 0 /\ held' = Waiting'[Built'].want
  BY <1>2, <1>3, <1>4
<1>7. Open'.ops[Built + 1] = o.set /\ \A i \in 1 .. Built : Open'.ops[i] = Open.ops[i]
  <2>1. CASE q.n = 0
    BY <1>3, <2>1
  <2>2. CASE q.n # 0
    <3>1. /\ Append(Open.ops, o.set)[Len(Open.ops) + 1] = o.set
          /\ \A i \in 1 .. Len(Open.ops) : Append(Open.ops, o.set)[i] = Open.ops[i]
      BY <1>3, <2>2
    <3> QED
      BY <1>3, <2>2, <3>1
  <2> QED
    BY <2>1, <2>2
<1>8. /\ q.n = 0 => want = Over(o.set, [k \in Restated |-> q.own[k]])
      /\ q.n # 0 => Built # 0 /\ want = Over(o.set, Waiting[Built].want)
  BY <1>3, StatedBy
<1> HIDE DEF want
<1>9. CASE q.n = 0
  <2>1. /\ Waiting'[1] = e /\ Open'.ops[1] = o.set /\ Open'.open = [k \in Restated |-> q.own[k]]
        /\ Built' = 1
    BY <1>3, <1>4, <1>7, <1>9
  <2>2. Waiting'[1].want = Over(Open'.ops[1], Open'.open)
    BY <1>2, <1>8, <1>9, <2>1
  <2>3. \A i \in 1 .. Built' : ~Waiting'[i].kicked /\ ~Waiting'[i].direct
    <3>1. \A i \in 1 .. Built' : i = 1
      BY <2>1
    <3> QED
      BY <1>2, <2>1, <3>1
  <2>4. 1 .. Built' - 1 = {}
    BY <2>1
  <2>5. ListSound(Open', Built', Waiting')
    BY <2>2, <2>3, <2>4 DEF ListSound
  <2> QED
    BY <1>1, <1>5, <1>6, <2>5 DEF Data, OpenSound
<1>10. CASE q.n # 0
  <2>1. ListSound(Open, Built, Waiting) /\ Built # 0
    BY <1>0, <1>10 DEF OpenSound
  <2>2. \A i \in 1 .. Built' : ~Waiting'[i].kicked /\ ~Waiting'[i].direct
    <3>1. \A i \in 1 .. Built : ~Waiting[i].kicked /\ ~Waiting[i].direct
      BY <2>1 DEF ListSound
    <3>2. \A i \in 1 .. Built' : i \in 1 .. Built \/ i = Built + 1
      BY <1>3, <1>4
    <3> QED
      BY <1>2, <1>4, <3>1, <3>2
  <2>3. Waiting'[1].want = Over(Open'.ops[1], Open'.open)
    <3>1. 1 \in 1 .. Built
      BY <1>4, <2>1
    <3> QED
      BY <1>3, <1>4, <1>7, <1>10, <2>1, <3>1 DEF ListSound
  <2>4. \A i \in 1 .. Built' - 1 : Waiting'[i + 1].want = Over(Open'.ops[i + 1], Waiting'[i].want)
    <3>0. Built' - 1 = Built
      BY <1>3, <1>4
    <3> SUFFICES ASSUME NEW i \in 1 .. Built
                 PROVE  Waiting'[i + 1].want = Over(Open'.ops[i + 1], Waiting'[i].want)
      BY <3>0
    <3>1. CASE i = Built
      BY <1>2, <1>4, <1>7, <1>8, <1>10, <3>1
    <3>2. CASE i # Built
      <4>1. i \in 1 .. Built - 1 /\ i + 1 \in 1 .. Built
        BY <1>4, <3>2
      <4>2. Waiting[i + 1].want = Over(Open.ops[i + 1], Waiting[i].want)
        BY <2>1, <4>1 DEF ListSound
      <4> QED
        BY <1>4, <1>7, <4>1, <4>2
    <3> QED
      BY <3>1, <3>2
  <2>5. ListSound(Open', Built', Waiting')
    BY <2>2, <2>3, <2>4 DEF ListSound
  <2> QED
    BY <1>1, <1>5, <1>6, <2>5 DEF Data, OpenSound
<1> QED
  BY <1>9, <1>10
-----------------------------------------------------------------------------
(* What every other action leaves as it is. *)

LEMMA OpenKept ==
  ASSUME OpenSound, UNCHANGED <<Open, Built, Waiting, held>>, q'.n # 0 => q.n # 0
  PROVE  OpenSound'
BY DEF OpenSound

LEMMA OpenNone ==
  ASSUME Built' = 0, q'.n = 0
  PROVE  OpenSound'
BY DEF OpenSound, ListSound

LEMMA OwnKept ==
  ASSUME OwnSound, q'.own = q.own, UNCHANGED given
  PROVE  OwnSound'
BY DEF OwnSound

\* The actions of the cart and of hwBlit() that move no op.
LEMMA QuietData ==
  ASSUME Inv, Data, UNCHANGED <<ring, eng, bank, given, held, due>>,
         q'.own = q.own, q'.n # 0 => q.n # 0, Open' = Open, Built' = Built,
         block' = block \/ eng.st # "copy"
  PROVE  Data'
<1>1. UNCHANGED <<Left, Doing, Waiting>>
  BY DEF Left, Doing, Waiting
<1>2. UNCHANGED Base
  BY DEF Base
<1> QED
  BY <1>1, <1>2, OwnKept, OpenKept, DoingKept DEF Data

\* A list is closed, and waits for its GO.
LEMMA CloseData ==
  ASSUME Inv, Data, q.n # 0, call.pc = "cart", q' = Closed, NEW next \in {"none", "op", "flush"},
         NEW G \in SUBSET Ops, call' \in {BlitList(next), [BlitList(next) EXCEPT !.give = G]},
         UNCHANGED <<block, ring, eng, bank, given, held, due>>
  PROVE  Data'
<1>0. QType
  BY TypeParts DEF Inv
<1>1. call'.pc = "wait" /\ call'.cmd = "QUEUE" /\ call'.start = q.first
  <2> DEFINE c == BlitList(next)
  <2>1. c.start = q.first /\ c.cmd = "QUEUE" /\ c.pc = "wait"
    BY <1>0, CloseTypes
  <2>2. /\ [c EXCEPT !.give = G].start = c.start /\ [c EXCEPT !.give = G].cmd = c.cmd
        /\ [c EXCEPT !.give = G].pc = c.pc
    BY DEF BlitList, Blit
  <2>3. call' = c \/ call' = [c EXCEPT !.give = G]
    OBVIOUS
  <2> HIDE DEF c
  <2> QED
    BY <2>1, <2>2, <2>3
<1>2. Built' = Built /\ Open' = Open
  BY <1>1 DEF Built, Open, WaitsWithList
<1>3. q'.own = q.own /\ q'.n = 0
  BY <1>0, CloseTypes DEF QType, Closed
<1> QED
  BY <1>2, <1>3, QuietData

LEMMA KickData ==
  ASSUME Inv, Data, Kick \/ Flush
  PROVE  Data'
<1>1. CASE Kick
  BY <1>1, CloseData DEF Kick, Running, history
<1>2. CASE Flush
  <2>1. UNCHANGED <<block, ring, eng, bank, given, held, due>> /\ call.pc = "cart"
    BY <1>2 DEF Flush, Running
  <2>2. CASE q.n # 0 /\ q' = Closed /\ call' = BlitList("flush")
    BY <2>1, <2>2, CloseData
  <2>3. CASE q.n = 0 /\ call' \in {call, Blit("NOP", "flushed")} /\ UNCHANGED q
    <3>1. Built' = Built /\ Open' = Open
      BY <2>1, <2>3 DEF Built, Open, WaitsWithList, Blit
    <3> QED
      BY <2>1, <2>3, <3>1, QuietData
  <2> QED
    BY <1>2, <2>2, <2>3 DEF Flush
<1> QED
  BY <1>1, <1>2

\* Whatever is stored to the block: no list was promised any of it.
LEMMA StoreData ==
  ASSUME Inv, Data, Store
  PROVE  Data'
<1>1. UNCHANGED <<q, ring, call, eng, bank, given, held, due>> /\ call.pc = "cart"
  BY DEF Store, Running, history
<1>2. eng.st # "copy"
  BY <1>1 DEF Inv, Control, EngineSound
<1>3. Built' = Built /\ Open' = Open
  BY <1>1 DEF Built, Open, WaitsWithList
<1> QED
  BY <1>1, <1>2, <1>3, QuietData

LEMMA CallData ==
  ASSUME Inv, Data, Direct \/ GoNop \/ Barrier \/ Drain \/ Return
  PROVE  Data'
<1>0. QType /\ CallType
  BY TypeParts DEF Inv
<1>1. UNCHANGED <<block, ring, eng, bank, given, held, due>>
  BY DEF Direct, GoNop, Barrier, Drain, Return, cart
<1>2. /\ q'.own = q.own /\ q'.n = q.n /\ q'.first = q.first
      /\ ~WaitsWithList /\ ~WaitsWithList'
  <2>1. CASE Direct
    BY <2>1 DEF Direct, cart, WaitsWithList, Blit, Running
  <2>2. CASE GoNop
    BY <2>2, <1>0 DEF GoNop, cart, WaitsWithList, CallType
  <2>3. CASE Barrier \/ Drain
    BY <2>3, <1>0 DEF Barrier, Drain, cart, WaitsWithList, CallType
  <2>4. CASE Return
    <3>1. q'.own = q.own /\ q'.n = q.n /\ q'.first = q.first /\ ~WaitsWithList
      BY <2>4, <1>0 DEF Return, QType, WaitsWithList
    <3>2. ~WaitsWithList'
      BY <2>4 DEF Return, InCart, Blit, WaitsWithList, ThenFlushed
    <3> QED
      BY <3>1, <3>2
  <2> QED
    BY <2>1, <2>2, <2>3, <2>4
<1>3. Built' = Built /\ Open' = Open
  BY <1>1, <1>2 DEF Built, Open
<1> QED
  BY <1>1, <1>2, <1>3, QuietData

LEMMA QueueData ==
  ASSUME Inv, Counted, Data, NEW o \in Ops, Queue(o)
  PROVE  Data'
<1>1. CASE Fits(o)
  <2>1. /\ Put(o, FALSE) /\ call.pc = "cart" /\ call'.pc = "cart"
        /\ UNCHANGED <<eng, block, bank>>
    BY <1>1 DEF Queue, Running
  <2> QED
    BY <1>1, <2>1, PutData
<1>2. CASE ~Fits(o)
  <2>1. q.n # 0
    <3>1. DOMAIN o.set \in SUBSET Words
      BY OpIs, PartialElim
    <3>2. Half \in Nat /\ 1 + Cardinality(Words) + 1 + Cardinality(DOMAIN o.set) <= Half
      BY BlitQueueAssumption DEF BlitQueueAssumption
    <3> QED
      BY <1>2, <3>1, <3>2, CountWords DEF Fits
  <2>2. /\ q' = Closed /\ call' = [BlitList("op") EXCEPT !.give = {o}]
        /\ UNCHANGED <<block, ring, eng, bank, given, held, due>> /\ call.pc = "cart"
    BY <1>2 DEF Queue, Running, history
  <2> QED
    BY <2>1, <2>2, CloseData
<1> QED
  BY <1>1, <1>2

LEMMA ReturnToOpData ==
  ASSUME Inv, Counted, Data, ReturnToOp
  PROVE  Data'
<1>0. QType /\ CallType /\ Control /\ call.pc = "back" /\ call.next = "op"
  BY TypeParts DEF Inv, ReturnToOp
<1>1. call.cmd = "QUEUE" /\ q.n = 0
  BY <1>0 DEF Control, CallSound, HalvesKnown
<1>2. PICK o \in call.give : Put(o, Kicked)
  BY DEF ReturnToOp
<1>3. o \in Ops /\ Kicked \in BOOLEAN
  BY <1>0, <1>1 DEF CallType, Kicked
<1>4. call'.pc = "cart" /\ UNCHANGED <<eng, block, bank>>
  BY DEF ReturnToOp, InCart
<1> HIDE DEF Kicked
<1> QED
  BY <1>0, <1>1, <1>2, <1>3, <1>4, PutData
-----------------------------------------------------------------------------
(* What a GO and the blitter do. *)

LEMMA GoQueueIs ==
  ASSUME Inv, Counted, GoQueue
  PROVE  /\ ~Busy /\ Left = 0 /\ q.n = 0 /\ WaitsWithList /\ ~WaitsWithList'
         /\ Open = ring[call.start] /\ due \in Seq(Entries) /\ Len(due) = Built /\ Built' = 0
         /\ eng'.st = "copy" /\ eng'.list /\ eng'.half = call.start /\ eng'.at = 0 /\ eng'.count = Built
         /\ Left' = Built
         /\ UNCHANGED <<block, ring, q, bank, given, sure>>
         /\ held' = Nothing /\ due' = [i \in DOMAIN due |-> Promise!Fixed(due[i])]
<1>0. TypeOK /\ Control /\ CallType
  BY TypeParts DEF Inv
<1>1. ~Busy /\ ~eng.list /\ eng.at = 0 /\ eng.count = 0 /\ WaitsWithList
  BY <1>0 DEF GoQueue, Ready, Busy, Control, FirmwareKnows, EngineSound, WaitsWithList
<1>2. q.n = 0 /\ Built = Len(ring[call.start].ops) /\ Open = ring[call.start]
  BY <1>0, <1>1 DEF Control, HalvesKnown, WaitsWithList, Built, Open
<1>3. Built \in Nat /\ due \in Seq(Entries) /\ Len(due) = Built
  BY <1>0, <1>1, Lengths DEF Counted
<1>4. /\ eng'.st = "copy" /\ eng'.list /\ eng'.half = call.start /\ eng'.at = 0
      /\ eng'.count = Len(ring[call.start].ops)
  BY DEF GoQueue, Begin
<1>5. call'.pc # "wait"
  BY <1>0 DEF GoQueue, CallType
<1>6. /\ UNCHANGED <<block, ring, q, bank, given, sure>>
      /\ held' = Nothing /\ due' = [i \in DOMAIN due |-> Promise!Fixed(due[i])]
  BY DEF GoQueue
<1>7. Built' = 0 /\ ~WaitsWithList'
  BY <1>2, <1>5, <1>6 DEF Built, WaitsWithList
<1>8. Left = 0 /\ Left' = Built
  BY <1>1, <1>2, <1>3, <1>4 DEF Left
<1> QED
  BY <1>1, <1>2, <1>3, <1>4, <1>6, <1>7, <1>8

LEMMA GoQueueData ==
  ASSUME Inv, Counted, Data, GoQueue
  PROVE  Data'
<1>1. /\ Left = 0 /\ q.n = 0 /\ Open = ring[call.start] /\ due \in Seq(Entries) /\ Len(due) = Built
      /\ Built' = 0
      /\ eng'.st = "copy" /\ eng'.list /\ eng'.half = call.start /\ eng'.at = 0 /\ Left' = Built
      /\ UNCHANGED <<block, ring, q, given>>
      /\ due' = [i \in DOMAIN due |-> Promise!Fixed(due[i])]
  BY GoQueueIs
<1>2. block \in [Words -> Values] /\ Built \in Nat
  BY TypeParts, Lengths DEF Inv, RestType
<1>3. OwnSound' /\ OpenSound'
  BY <1>1, OwnKept, OpenNone DEF Data
<1>4. ListSound(Open, Built, Waiting)
  BY DEF Data, OpenSound
<1>5. \A i \in 1 .. Built : /\ Waiting[i] = due[i]
                            /\ Doing'[i].kicked /\ Doing'[i].want = Over(due[i].want, block)
  <2> SUFFICES ASSUME NEW i \in 1 .. Built
               PROVE  /\ Waiting[i] = due[i]
                      /\ Doing'[i].kicked /\ Doing'[i].want = Over(due[i].want, block)
    OBVIOUS
  <2>1. DOMAIN due = 1 .. Built /\ due[i] \in Entries
    BY <1>1
  <2>2. Waiting[i] = due[i] /\ ~due[i].kicked
    BY <1>1, <1>4 DEF Waiting, ListSound
  <2>3. Doing' = [j \in 1 .. Built |-> due'[j]]
    BY <1>1 DEF Doing
  <2>4. Doing'[i] = Promise!Fixed(due[i])
    BY <1>1, <2>1, <2>3
  <2> QED
    BY <1>2, <2>1, <2>2, <2>4, FixedIs
<1>6. Built # 0 => NextUp' = Doing'[1].want
  <2> SUFFICES ASSUME Built # 0 PROVE NextUp' = Doing'[1].want
    OBVIOUS
  <2>1. 1 \in 1 .. Built
    BY <1>2
  <2>2. due[1].want = Over(Open.ops[1], Open.open)
    BY <1>4, <1>5, <2>1 DEF ListSound
  <2>3. Doing'[1].want = Over(Open.ops[1], Over(Open.open, block))
    BY <1>5, <2>1, <2>2, OverOver
  <2>4. NextUp' = Over(Open.ops[1], Over(Open.open, block))
    <3>1. Base' = block
      BY <1>1 DEF Base
    <3>2. eng'.at + 1 = 1 /\ ring'[eng'.half] = Open
      BY <1>1
    <3> QED
      BY <1>1, <3>1, <3>2 DEF NextUp
  <2> QED
    BY <2>3, <2>4
<1>7. \A i \in 1 .. Built - 1 : Doing'[i + 1].want = Over(Open.ops[i + 1], Doing'[i].want)
  <2> SUFFICES ASSUME NEW i \in 1 .. Built - 1
               PROVE  Doing'[i + 1].want = Over(Open.ops[i + 1], Doing'[i].want)
    OBVIOUS
  <2>1. i \in 1 .. Built /\ i + 1 \in 1 .. Built
    BY <1>2
  <2>2. due[i + 1].want = Over(Open.ops[i + 1], due[i].want)
    BY <1>4, <1>5, <2>1 DEF ListSound
  <2> QED
    BY <1>5, <2>1, <2>2, OverOver
<1>8. DoingSound'
  <2>1. \A i \in 1 .. Left' - 1 :
           Doing'[i + 1].want = Over(ring'[eng'.half].ops[eng'.at + i + 1], Doing'[i].want)
    <3> SUFFICES ASSUME NEW i \in 1 .. Built - 1
                 PROVE  Doing'[i + 1].want = Over(ring'[eng'.half].ops[eng'.at + i + 1], Doing'[i].want)
      BY <1>1
    <3>1. eng'.at + i + 1 = i + 1 /\ ring'[eng'.half] = Open
      BY <1>1
    <3> QED
      BY <1>7, <3>1
  <2>2. \A i \in 1 .. Left' : Doing'[i].kicked
    BY <1>1, <1>5
  <2> QED
    BY <1>1, <1>6, <2>1, <2>2 DEF DoingSound
<1> QED
  BY <1>3, <1>8 DEF Data

LEMMA GoOpIs ==
  ASSUME Inv, Counted, GoOp
  PROVE  /\ Left = 0 /\ Left' = 1 /\ due \in Seq(Entries) /\ Len(due) = Built /\ Built' = Built
         /\ Open' = Open
         /\ eng'.st = "copy" /\ ~eng'.list /\ eng'.count = 1
         /\ UNCHANGED <<block, q, ring, bank, given, held, sure>>
         /\ due' = <<Promise!DirectOp>> \o due
<1>0. TypeOK /\ Control /\ CallType
  BY TypeParts DEF Inv
<1>1. ~Busy /\ ~eng.list /\ eng.at = 0 /\ eng.count = 0
  BY <1>0 DEF GoOp, Ready, Busy, Control, FirmwareKnows, EngineSound
<1>2. due \in Seq(Entries) /\ Len(due) = Built
  BY <1>0, <1>1, Lengths DEF Counted
<1>3. /\ eng'.st = "copy" /\ ~eng'.list /\ eng'.at = 0 /\ eng'.count = 1
      /\ UNCHANGED <<block, q, ring, bank, given, held, sure>>
      /\ due' = <<Promise!DirectOp>> \o due
      /\ call.cmd = "OP" /\ call'.pc # "wait"
  BY <1>0 DEF GoOp, Begin, cart, CallType
<1>4. Built' = Built /\ Open' = Open
  BY <1>3 DEF Built, Open, WaitsWithList
<1>5. Left = 0 /\ Left' = 1
  BY <1>1, <1>3 DEF Left
<1> QED
  BY <1>2, <1>3, <1>4, <1>5

LEMMA GoOpData ==
  ASSUME Inv, Counted, Data, GoOp
  PROVE  Data'
<1>1. /\ Left = 0 /\ Left' = 1 /\ due \in Seq(Entries) /\ Len(due) = Built /\ Built' = Built
      /\ Open' = Open
      /\ eng'.st = "copy" /\ ~eng'.list /\ eng'.count = 1
      /\ UNCHANGED <<block, q, ring, bank, given, held>>
      /\ due' = <<Promise!DirectOp>> \o due
  BY GoOpIs
<1> DEFINE e == Promise!DirectOp
<1>2. e \in Entries /\ e.want = block /\ e.kicked
  BY TypeParts, DirectOpIs DEF Inv, RestType
<1>3. due' = <<e>> \o due
  BY <1>1
<1> HIDE DEF e
<1>4. due'[1] = e /\ \A i \in 1 .. Len(due) : due'[i + 1] = due[i]
  <2>3. /\ (<<e>> \o due)[1] = e
        /\ \A i \in 1 .. Len(due) : (<<e>> \o due)[i + 1] = due[i]
    <3>1. due \in Seq(Entries)
      BY <1>1
    <3> QED
      BY <1>2, <3>1, PrependIs
  <2> QED
    BY <1>3, <2>3
<1>5. Waiting' = Waiting
  <2>1. Built \in Nat
    BY Lengths DEF Inv
  <2>2. Waiting' = [i \in 1 .. Built |-> due'[1 + i]] /\ Waiting = [i \in 1 .. Built |-> due[0 + i]]
    BY <1>1 DEF Waiting
  <2>3. \A i \in 1 .. Built : due'[1 + i] = due[0 + i]
    BY <1>1, <1>4
  <2> QED
    BY <2>2, <2>3
<1>6. OwnSound' /\ OpenSound'
  BY <1>1, <1>5, OwnKept, OpenKept DEF Data
<1>7. Doing'[1] = e /\ \A i \in 1 .. Left' : i = 1
  <2>1. Doing' = [i \in 1 .. 1 |-> due'[i]]
    BY <1>1 DEF Doing
  <2>2. Doing'[1] = due'[1]
    BY <2>1
  <2>3. \A i \in 1 .. Left' : i = 1
    BY <1>1
  <2> QED
    BY <1>4, <2>2, <2>3
<1>8. NextUp' = block
  BY <1>1 DEF NextUp, Base
<1>9. DoingSound'
  BY <1>1, <1>2, <1>7, <1>8 DEF DoingSound
<1> QED
  BY <1>6, <1>9 DEF Data

LEMMA CopiedData ==
  ASSUME Inv, Data, Copied
  PROVE  Data'
<1>1. RestType
  BY TypeParts DEF Inv
<1>2. /\ eng.st = "copy" /\ bank' = block
      /\ eng'.at = eng.at /\ eng'.count = eng.count /\ eng'.list = eng.list
      /\ eng'.half = eng.half /\ eng'.st = "run"
      /\ UNCHANGED <<block, q, ring, call, given, held, due>>
  BY <1>1 DEF Copied, cart, RestType
<1>3. UNCHANGED <<Left, Built, Open, Base>>
  BY <1>2 DEF Left, Built, Open, WaitsWithList, Base
<1>4. UNCHANGED <<Waiting, Doing, NextUp>>
  BY <1>2, <1>3 DEF Waiting, Doing, NextUp
<1>5. DoingSound'
  BY <1>2, <1>3, <1>4 DEF DoingSound, Data
<1> QED
  BY <1>2, <1>3, <1>4, <1>5, OwnKept, OpenKept DEF Data

LEMMA DrawIs ==
  ASSUME Inv, Counted, Draw
  PROVE  /\ eng.at \in Nat /\ eng.at < eng.count /\ Left \in Nat \ {0} /\ Left' = Left - 1
         /\ eng'.at = eng.at + 1 /\ eng'.count = eng.count /\ eng'.list = eng.list
         /\ eng'.half = eng.half /\ eng'.st = "run" /\ eng.st = "run"
         /\ UNCHANGED <<block, q, ring, call, given, held, sure, Built, Open>>
         /\ bank' = NextUp
         /\ due \in Seq(Entries) /\ Built \in Nat /\ Len(due) = Left + Built /\ due' = Tail(due)
         /\ \A i \in 1 .. Len(due) - 1 : due'[i] = due[i + 1]
<1>0. RestType
  BY TypeParts DEF Inv
<1>1. /\ eng'.at = eng.at + 1 /\ eng'.count = eng.count /\ eng'.list = eng.list
      /\ eng'.half = eng.half /\ eng'.st = "run" /\ eng.st = "run"
      /\ UNCHANGED <<block, q, ring, call, given, held, sure>>
      /\ due' = Tail(due) /\ eng.at < eng.count /\ bank' = Loaded
  BY <1>0 DEF Draw, cart, RestType
<1>2. eng.at \in Nat /\ eng.count \in Nat /\ due \in Seq(Entries) /\ Built \in Nat
  BY Lengths DEF Inv
<1>3. Left \in Nat \ {0} /\ Left' = Left - 1 /\ Len(due) = Left + Built
  BY <1>1, <1>2 DEF Left, Counted
<1>4. UNCHANGED <<Built, Open>>
  BY <1>1 DEF Built, Open, WaitsWithList
<1>5. Loaded = NextUp
  BY <1>1 DEF Loaded, NextUp, Base
<1>6. \A i \in 1 .. Len(due) - 1 : due'[i] = due[i + 1]
  BY <1>1, <1>2, <1>3
<1> QED
  BY <1>1, <1>2, <1>3, <1>4, <1>5, <1>6

LEMMA DrawData ==
  ASSUME Inv, Counted, Data, Draw
  PROVE  Data'
<1>1. /\ eng.at \in Nat /\ eng.at < eng.count /\ Left \in Nat \ {0} /\ Left' = Left - 1
      /\ eng'.at = eng.at + 1 /\ eng'.count = eng.count /\ eng'.list = eng.list
      /\ eng'.half = eng.half /\ eng'.st = "run" /\ eng.st = "run"
      /\ UNCHANGED <<block, q, ring, call, given, held, sure, Built, Open>>
      /\ bank' = NextUp
      /\ Built \in Nat /\ Len(due) = Left + Built
      /\ \A i \in 1 .. Len(due) - 1 : due'[i] = due[i + 1]
  BY DrawIs
<1>2. Waiting' = Waiting
  <2> SUFFICES ASSUME NEW i \in 1 .. Built PROVE due'[Left' + i] = due[Left + i]
    BY <1>1 DEF Waiting
  <2>1. Left' + i \in 1 .. Len(due) - 1 /\ Left' + i + 1 = Left + i
    BY <1>1
  <2> QED
    BY <1>1, <2>1
<1>3. \A i \in 1 .. Left - 1 : Doing'[i] = Doing[i + 1]
  <2> SUFFICES ASSUME NEW i \in 1 .. Left - 1 PROVE Doing'[i] = Doing[i + 1]
    OBVIOUS
  <2>1. i \in 1 .. Left' /\ i + 1 \in 1 .. Left /\ i \in 1 .. Len(due) - 1
    BY <1>1
  <2>2. Doing'[i] = due'[i]
    BY <2>1 DEF Doing
  <2>3. Doing[i + 1] = due[i + 1]
    BY <2>1 DEF Doing
  <2> QED
    BY <1>1, <2>1, <2>2, <2>3
<1>4. OwnSound' /\ OpenSound'
  BY <1>1, <1>2, OwnKept, OpenKept DEF Data
<1>5. /\ ~eng.list => eng.count <= 1
      /\ \A i \in 1 .. Left : Doing[i].kicked
      /\ NextUp = Doing[1].want
      /\ eng.list => \A i \in 1 .. Left - 1 :
            Doing[i + 1].want = Over(ring[eng.half].ops[eng.at + i + 1], Doing[i].want)
  BY <1>1 DEF Data, DoingSound
<1>6. \A i \in 1 .. Left' : Doing'[i].kicked
  <2> SUFFICES ASSUME NEW i \in 1 .. Left' PROVE Doing'[i].kicked
    OBVIOUS
  <2>1. i \in 1 .. Left - 1 /\ i + 1 \in 1 .. Left
    BY <1>1
  <2> QED
    BY <1>3, <1>5, <2>1
<1>7. Left' # 0 => NextUp' = Doing'[1].want
  <2> SUFFICES ASSUME Left' # 0 PROVE NextUp' = Doing'[1].want
    OBVIOUS
  <2>1. eng.list /\ 1 \in 1 .. Left - 1
    <3>1. eng.count \in Nat
      BY Lengths DEF Inv
    <3>2. eng.count - eng.at > 1
      BY <1>1 DEF Left
    <3> QED
      BY <1>1, <1>5, <3>1, <3>2
  <2>3. Doing[2].want = Over(ring[eng.half].ops[eng.at + 1 + 1], NextUp)
    BY <1>5, <2>1
  <2>4. NextUp' = Over(ring[eng.half].ops[eng.at + 1 + 1], NextUp)
    <3>1. Base' = NextUp
      BY <1>1 DEF Base
    <3>2. eng'.list /\ eng'.at # 0 /\ ring'[eng'.half] = ring[eng.half]
      BY <1>1, <2>1
    <3> QED
      BY <1>1, <3>1, <3>2 DEF NextUp
  <2>5. Doing'[1] = Doing[2]
    BY <1>3, <2>1
  <2> QED
    BY <2>3, <2>4, <2>5
<1>8. eng.list => \A i \in 1 .. Left' - 1 :
         Doing'[i + 1].want = Over(ring'[eng'.half].ops[eng'.at + i + 1], Doing'[i].want)
  <2> SUFFICES ASSUME eng.list, NEW i \in 1 .. Left' - 1
               PROVE  Doing'[i + 1].want = Over(ring'[eng'.half].ops[eng'.at + i + 1], Doing'[i].want)
    OBVIOUS
  <2>0. i \in Nat /\ eng'.at = eng.at + 1 /\ eng.at \in Nat
    BY <1>1
  <2>1. i \in 1 .. Left - 1 /\ i + 1 \in 1 .. Left - 1 /\ eng'.at + i + 1 = eng.at + (i + 1) + 1
    <3>1. i \in 1 .. Left - 1 /\ i + 1 \in 1 .. Left - 1
      BY <1>1
    <3>2. eng'.at + i + 1 = eng.at + (i + 1) + 1
      BY <2>0
    <3> QED
      BY <3>1, <3>2
  <2>2. Doing[i + 1 + 1].want = Over(ring[eng.half].ops[eng.at + (i + 1) + 1], Doing[i + 1].want)
    BY <1>5, <2>1
  <2>3. Doing'[i] = Doing[i + 1] /\ Doing'[i + 1] = Doing[i + 1 + 1]
    BY <1>3, <2>1
  <2>4. ring'[eng'.half] = ring[eng.half]
    BY <1>1
  <2> QED
    BY <2>1, <2>2, <2>3, <2>4
<1>9. DoingSound'
  BY <1>1, <1>5, <1>6, <1>7, <1>8 DEF DoingSound
<1> QED
  BY <1>4, <1>9 DEF Data

LEMMA ListEndData ==
  ASSUME Inv, Counted, Data, ListEnd
  PROVE  Data'
<1>0. TypeOK /\ Control /\ RestType
  BY TypeParts DEF Inv
<1>1. /\ eng'.at = 0 /\ eng'.count = 0 /\ eng'.list = FALSE /\ eng.at = eng.count
      /\ ring' = IF eng.list THEN [ring EXCEPT ![eng.half] = NoList] ELSE ring
      /\ UNCHANGED <<q, call, due, block, given, held>>
  BY DEF ListEnd, Idle, history
<1>2. /\ eng.at \in Nat /\ eng.half \in 0 .. 1 /\ call.start \in 0 .. 1 /\ q.first \in 0 .. 1
  BY <1>0, Lengths
<1>3. /\ eng.list /\ WaitsWithList => eng.half # call.start
      /\ eng.list /\ ~WaitsWithList => eng.half # q.first
  BY <1>0, <1>2 DEF Control, HalvesKnown, WaitsWithList
<1>4. \A h \in 0 .. 1 : ~eng.list \/ h # eng.half => ring'[h] = ring[h]
  BY <1>0, <1>1 DEF RestType
<1>5. Built' = Built /\ Open' = Open
  BY <1>1, <1>2, <1>3, <1>4 DEF Built, Open, WaitsWithList
<1>6. Left = 0 /\ Left' = 0
  BY <1>1, <1>2 DEF Left
<1>7. Waiting' = Waiting
  BY <1>1, <1>5, <1>6 DEF Waiting
<1>8. DoingSound'
  BY <1>1, <1>6 DEF DoingSound
<1> QED
  BY <1>1, <1>5, <1>7, <1>8, OwnKept, OpenKept DEF Data
-----------------------------------------------------------------------------
(* Data is an invariant. *)

LEMMA InitData == Init => Data
<1> SUFFICES ASSUME Init PROVE Data
  OBVIOUS
<1>1. /\ q = [first |-> 0, n |-> 0, own |-> Nothing, pending |-> FALSE]
      /\ given = Nothing /\ call = InCart /\ eng = Idle
  BY DEF Init
<1>2. Built = 0 /\ Left = 0 /\ q.n = 0
  BY <1>1 DEF Built, Left, WaitsWithList, InCart, Idle
<1>3. OwnSound
  BY <1>1, NothingIs DEF OwnSound
<1>4. OpenSound
  BY <1>2 DEF OpenSound, ListSound
<1>5. DoingSound
  BY <1>1, <1>2 DEF DoingSound, Idle
<1> QED
  BY <1>3, <1>4, <1>5 DEF Data

LEMMA StepData ==
  ASSUME Inv, Counted, Data, [Next]_vars
  PROVE  Data'
<1>1. CASE \E o \in Ops : Queue(o)
  BY <1>1, QueueData
<1>2. CASE Kick \/ Flush
  BY <1>2, KickData
<1>3. CASE Store
  BY <1>3, StoreData
<1>4. CASE Direct
  BY <1>4, CallData
<1>5. CASE HwBlit
  <2>1. CASE GoQueue
    BY <2>1, GoQueueData
  <2>2. CASE GoOp
    BY <2>2, GoOpData
  <2>3. CASE ReturnToOp
    BY <2>3, ReturnToOpData
  <2> QED
    BY <1>5, <2>1, <2>2, <2>3, CallData DEF HwBlit
<1>6. CASE Blitter
  BY <1>6, CopiedData, DrawData, ListEndData DEF Blitter
<1>7. CASE UNCHANGED vars
  <2>1. UNCHANGED <<block, q, ring, call, eng, bank, given, held, due>>
    BY <1>7 DEF vars
  <2>2. Built' = Built /\ Open' = Open
    BY <2>1 DEF Built, Open, WaitsWithList
  <2> QED
    BY <2>1, <2>2, QuietData
<1> QED
  BY <1>1, <1>2, <1>3, <1>4, <1>5, <1>6, <1>7 DEF Next
-----------------------------------------------------------------------------
(* Each step is one of the queue's, or none. *)

\* An op put is an op given.
LEMMA PutGives ==
  ASSUME NEW o \in Ops, NEW b \in BOOLEAN, Put(o, b), UNCHANGED <<block, bank>>
  PROVE  Promise!Give
<1>1. o.set \in Partial
  BY OpIs
<1>2. o.set \in Promise!Partial
  BY <1>1 DEF Partial, Promise!Partial
<1>3. (Promise!Op(o.set) \/ Promise!Fill(o.set)) /\ sure' = FALSE
  BY DEF Put
<1> QED
  BY <1>2, <1>3 DEF Promise!Give

LEMMA QueueRefines ==
  ASSUME NEW o \in Ops, Queue(o)
  PROVE  Promise!Next \/ UNCHANGED Promise!qvars
<1>1. UNCHANGED <<block, bank>>
  BY DEF Queue
<1>2. CASE Fits(o)
  <2>1. Put(o, FALSE)
    BY <1>2 DEF Queue
  <2> QED
    BY <1>1, <2>1, PutGives DEF Promise!Next
<1>3. CASE ~Fits(o)
  <2>1. UNCHANGED history
    BY <1>3 DEF Queue
  <2> QED
    BY <1>1, <2>1 DEF history, Promise!qvars
<1> QED
  BY <1>2, <1>3

LEMMA ReturnToOpRefines ==
  ASSUME Inv, ReturnToOp
  PROVE  Promise!Next
<1>1. CallType
  BY TypeParts DEF Inv
<1>2. PICK o \in call.give : Put(o, Kicked)
  BY DEF ReturnToOp
<1>3. o \in Ops
  BY <1>1, <1>2 DEF CallType
<1>4. UNCHANGED <<block, bank>> /\ Kicked \in BOOLEAN
  BY DEF ReturnToOp, Kicked
<1> QED
  BY <1>2, <1>3, <1>4, PutGives DEF Promise!Next

LEMMA StoreRefines ==
  ASSUME Store
  PROVE  Promise!Next
<1>1. PICK s \in Stores : block' = [block EXCEPT ![s[1]] = s[2]]
  BY DEF Store
<1>2. s[1] \in Words /\ s[2] \in Values
  BY BlitQueueAssumption DEF BlitQueueAssumption
<1>3. UNCHANGED <<given, held, due, bank, sure>>
  BY DEF Store, history
<1>4. Promise!Store
  BY <1>1, <1>2, <1>3 DEF Promise!Store
<1> QED
  BY <1>4 DEF Promise!Next

\* flush() ends when what was queued has drawn.
LEMMA FlushRefines ==
  ASSUME PendingKnown, Flush
  PROVE  Promise!Next \/ UNCHANGED Promise!qvars
<1>1. UNCHANGED <<block, given, held, due, bank>>
  BY DEF Flush
<1>2. CASE UNCHANGED sure
  BY <1>1, <1>2 DEF Promise!qvars
<1>3. CASE q.n = 0 /\ ~q.pending /\ sure' = TRUE
  <2>1. \A i \in DOMAIN due : due[i].direct
    BY <1>3 DEF Flush, PendingKnown
  <2>2. Promise!Flushed
    BY <1>1, <1>3, <2>1 DEF Promise!Flushed
  <2> QED
    BY <2>2 DEF Promise!Next
<1> QED
  BY <1>2, <1>3 DEF Flush

LEMMA ReturnRefines ==
  ASSUME Inv, Counted, Return
  PROVE  Promise!Next \/ UNCHANGED Promise!qvars
<1>1. UNCHANGED <<block, given, held, due, bank>> /\ call.pc = "back"
  BY DEF Return
<1>2. CASE UNCHANGED sure
  BY <1>1, <1>2 DEF Promise!qvars
<1>3. CASE call.next = "flushed" /\ sure' = TRUE
  <2>1. call.cmd = "NOP" /\ q.n = 0 /\ ~Busy
    BY <1>1, <1>3 DEF Inv, Control, CallSound, FirmwareKnows
  <2>2. eng.at = 0 /\ eng.count = 0 /\ Built = 0
    BY <2>1 DEF Inv, Control, EngineSound, Built, WaitsWithList
  <2>3. Len(due) = 0 /\ due \in Seq(Entries)
    BY <2>2, Lengths DEF Inv, Counted
  <2>4. \A i \in DOMAIN due : due[i].direct
    BY <2>3
  <2>5. Promise!Flushed
    BY <1>1, <1>3, <2>4 DEF Promise!Flushed
  <2> QED
    BY <2>5 DEF Promise!Next
<1> QED
  BY <1>2, <1>3 DEF Return

LEMMA GoQueueRefines ==
  ASSUME Inv, Counted, GoQueue
  PROVE  Promise!Next
<1>1. Promise!Kick
  BY GoQueueIs DEF Promise!Kick, Nothing
<1> QED
  BY <1>1 DEF Promise!Next

\* A direct op overtakes what is queued, none of which is kicked.
LEMMA GoOpRefines ==
  ASSUME Inv, Counted, Data, GoOp
  PROVE  Promise!Next
<1>1. /\ Left = 0 /\ due \in Seq(Entries) /\ Len(due) = Built
      /\ UNCHANGED <<block, given, held, bank, sure>>
      /\ due' = <<Promise!DirectOp>> \o due
  BY GoOpIs
<1>2. \A i \in 1 .. Built : ~Waiting[i].kicked
  BY DEF Data, OpenSound, ListSound
<1>3. \A i \in 1 .. Built : Waiting[i] = due[i]
  BY <1>1 DEF Waiting
<1>4. Promise!NoneKicked
  BY <1>1, <1>2, <1>3 DEF Promise!NoneKicked
<1>5. Promise!Direct
  BY <1>1, <1>4 DEF Promise!Direct
<1> QED
  BY <1>5 DEF Promise!Next

\* What is drawn is the oldest op, with the words that it must see.
LEMMA DrawRefines ==
  ASSUME Inv, Counted, Data, Draw
  PROVE  Promise!Next
<1>1. /\ Left \in Nat \ {0} /\ Built \in Nat /\ due \in Seq(Entries) /\ Len(due) = Left + Built
      /\ bank' = NextUp /\ due' = Tail(due)
      /\ UNCHANGED <<block, given, held, sure>>
  BY DrawIs
<1>2. Doing[1] = due[1] /\ Doing[1].kicked /\ NextUp = Doing[1].want
  <2>1. 1 \in 1 .. Left /\ Left # 0
    BY <1>1
  <2>2. Doing[1] = due[1]
    BY <2>1 DEF Doing
  <2> QED
    BY <2>1, <2>2 DEF Data, DoingSound
<1>3. due # << >> /\ Head(due) = due[1]
  BY <1>1
<1>4. Promise!Draw
  BY <1>1, <1>2, <1>3 DEF Promise!Draw
<1> QED
  BY <1>4 DEF Promise!Next

LEMMA LoadRefines ==
  ASSUME Inv', Copied \/ ListEnd
  PROVE  Promise!Next
<1>1. UNCHANGED <<block, given, held, due, sure>>
  BY DEF Copied, ListEnd, cart, history
<1>2. bank' \in Partial
  BY DEF Inv, TypeOK
<1>3. bank' \in Promise!Partial
  BY <1>2 DEF Partial, Promise!Partial
<1>4. Promise!Load
  BY <1>1, <1>3 DEF Promise!Load
<1> QED
  BY <1>4 DEF Promise!Next

LEMMA QuietRefines ==
  ASSUME Kick \/ Direct \/ GoNop \/ Barrier \/ Drain \/ UNCHANGED vars
  PROVE  UNCHANGED Promise!qvars
BY DEF Kick, Direct, GoNop, Barrier, Drain, vars, cart, history, Promise!qvars

LEMMA StepRefines ==
  ASSUME Inv, Counted, Data, PendingKnown, Inv', [Next]_vars
  PROVE  [Promise!Next]_Promise!qvars
<1>1. CASE \E o \in Ops : Queue(o)
  BY <1>1, QueueRefines
<1>2. CASE Flush
  BY <1>2, FlushRefines
<1>3. CASE Store
  BY <1>3, StoreRefines
<1>4. CASE HwBlit
  <2>1. CASE GoQueue \/ GoOp
    BY <2>1, GoQueueRefines, GoOpRefines
  <2>2. CASE Return
    BY <2>2, ReturnRefines
  <2>3. CASE ReturnToOp
    BY <2>3, ReturnToOpRefines
  <2> QED
    BY <1>4, <2>1, <2>2, <2>3, QuietRefines DEF HwBlit
<1>5. CASE Blitter
  BY <1>5, LoadRefines, DrawRefines DEF Blitter
<1> QED
  BY <1>1, <1>2, <1>3, <1>4, <1>5, QuietRefines DEF Next

LEMMA InitRefines == Init => Promise!Init
BY DEF Init, Promise!Init, Nothing

\* The library, the firmware and the blitter carry out what was queued once each, in order, each
\* op with its own words, those stated since the last kick, those that the list's opening
\* restates and the block's, before flush() returns: whatever is stored to the block, and when.
THEOREM ImplementsOpQueue == Spec => Implements
<1>1. Init => Data /\ Promise!Init
  BY InitData, InitRefines
<1>2. Inv /\ Counted /\ Data /\ [Next]_vars => Data'
  BY StepData
<1>3. Inv /\ Counted /\ Data /\ PendingKnown /\ Inv' /\ [Next]_vars => [Promise!Next]_Promise!qvars
  BY StepRefines
<1> QED
  BY <1>1, <1>2, <1>3, AlwaysInv, PendingTold, PTL DEF Spec, Implements, Promise!Spec
=============================================================================
