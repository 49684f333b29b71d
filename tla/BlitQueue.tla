------------------------------ MODULE BlitQueue ------------------------------
(***************************************************************************)
(* The blitter's queue: the library in the cart (libs/zig/blit_queue.zig,  *)
(* effects/blit_list.zig), and the two machines that run its lists.        *)
(*                                                                         *)
(* On the board the firmware's hwBlit (fpga/cycles/bchisel.c) starts CHISEL*)
(* (rtl/blitter/zm_blit_q.v) and returns; the cart then fills one half of  *)
(* the ring while CHISEL reads the other.  In the browser hwBlit returns   *)
(* when the list has run (machine/blitter_queue.zig).                      *)
(*                                                                         *)
(* Data: a descriptor is the partial function from block words to values   *)
(* that it sets, and a half of the ring is its opening descriptor (the     *)
(* words restated) and the ops'.  A value is its upper and lower half.     *)
(* What an op draws, and so its COMMAND and the refusal of one outside the *)
(* planes, is left out: set() is an op like another.                       *)
(***************************************************************************)
EXTENDS Naturals, Sequences, FiniteSets

CONSTANTS Words, Values,
          Boot,      \* the block when the queue is made
          Half,      \* ring words that a list may hold
          Narrow,    \* the words whose lower half is all that the library keeps
          Ops,       \* what the cart queues: [fill: it is a fill(), set: its words]
          Stores     \* what is stored to the block itself: <<word, value>>

Partial == UNION {[D -> Values] : D \in SUBSET Words}

BlitQueueAssumption ==
    /\ IsFiniteSet(Words)
    /\ \A v \in Values : DOMAIN v = {"hi", "lo"} /\ [v EXCEPT !.hi = 0] \in Values
    /\ Boot \in [Words -> Values] /\ Half \in Nat
    /\ Narrow \subseteq Words
    /\ Ops \subseteq [fill : BOOLEAN, set : Partial]
    /\ \A o \in Ops : 1 + Cardinality(Words) + 1 + Cardinality(DOMAIN o.set) <= Half
    /\ Stores \subseteq Words \X Values
ASSUME BlitQueueAssumption

VARIABLES board,   \* which of the two machines this is
          block,   \* the register block
          q,       \* the library: the open list's half and words, the words owned, pending
          ring,    \* the two halves of the ring
          call,    \* where the cart is: in its own code, or in a hwBlit()
          fw,      \* the firmware: an op may still be running, and it is a list
          eng,     \* the blitter: the list or op that it runs
          bank,    \* its working copy of the block, while it runs
          stale    \* what the blitter drew and the cart's data cache may hold old lines of

\* History: what OpQueue keeps of the ops that were queued.
VARIABLES given, held, due, sure

vars == <<board, block, q, ring, call, fw, eng, bank, stale, given, held, due, sure>>
history == <<given, held, due, sure>>
cart == <<block, q, ring>>

Promise == INSTANCE OpQueue

Kept(k, v) == Promise!Kept(k, v)
Over(ws, own) == Promise!Over(ws, own)
Nothing == Promise!Nothing

NoList == [open |-> Nothing, ops |-> << >>]
Idle == [by |-> "none", st |-> "idle", half |-> 0, at |-> 0, count |-> 0, list |-> FALSE]
InCart == [pc |-> "cart", cmd |-> "NOP", start |-> 0, next |-> "none", give |-> {}]
Blit(cmd, next) == [pc |-> "wait", cmd |-> cmd, start |-> 0, next |-> next, give |-> {}]
\* A hwBlit() with the open list in Q_START and Q_COUNT.
BlitList(next) == [Blit("QUEUE", next) EXCEPT !.start = q.first]
-----------------------------------------------------------------------------
(* The list under construction. *)

FitsOneMore(o) == q.n + (IF q.n = 0 THEN 1 + Cardinality(Words) ELSE 0)
               + Cardinality(DOMAIN o.set) <= Half
Fits(o) == q.n + (IF q.n = 0 THEN 1 + Cardinality(Words) ELSE 0)
               + 1 + Cardinality(DOMAIN o.set) <= Half

\* The owned words that the block does not hold.
Restated == {k \in DOMAIN q.own : Kept(k, block[k]) # q.own[k]}

Opening == IF Restated = {} THEN 0 ELSE 1 + Cardinality(Restated)

OwnAfter(o) == IF o.fill THEN [k \in DOMAIN q.own \ DOMAIN o.set |-> q.own[k]]
               ELSE Over([k \in DOMAIN o.set |-> Kept(k, o.set[k])], q.own)

\* op(), or whole3() if it is a fill, at the end of the open list.
Put(o, kicked) ==
    /\ ring' = IF q.n = 0
               THEN [ring EXCEPT ![q.first] = [open |-> [k \in Restated |-> q.own[k]],
                                               ops |-> <<o.set>>]]
               ELSE [ring EXCEPT ![q.first].ops = Append(@, o.set)]
    /\ q' = [q EXCEPT !.n = @ + (IF @ = 0 THEN Opening ELSE 0) + 1 + Cardinality(DOMAIN o.set),
                      !.own = OwnAfter(o), !.pending = @ \/ kicked]
    /\ IF o.fill THEN Promise!Fill(o.set) ELSE Promise!Op(o.set)
    /\ sure' = FALSE

\* close(): the next list goes in the other half.
ClosedSameHalf == [q EXCEPT !.n = 0]
Closed == [q EXCEPT !.first = 1 - @, !.n = 0]
-----------------------------------------------------------------------------
(* The cart, in its own code. *)

Running == call.pc = "cart"

Queue(o) ==
    /\ Running
    /\ IF Fits(o) THEN Put(o, FALSE) /\ UNCHANGED call
       ELSE /\ q' = Closed /\ call' = [BlitList("op") EXCEPT !.give = {o}]
            /\ UNCHANGED ring /\ UNCHANGED history
    /\ UNCHANGED <<board, block, fw, eng, bank, stale>>

Kick == /\ Running /\ q.n # 0
        /\ q' = Closed /\ call' = BlitList("none")
        /\ UNCHANGED <<board, block, ring, fw, eng, bank, stale>> /\ UNCHANGED history

Flush == /\ Running
         /\ \/ q.n # 0 /\ q' = Closed /\ call' = BlitList("flush") /\ UNCHANGED sure
            \/ q.n = 0 /\ q.pending /\ call' = Blit("NOP", "flushed") /\ UNCHANGED <<q, sure>>
            \/ q.n = 0 /\ ~q.pending /\ sure' = TRUE /\ UNCHANGED <<q, call>>
         /\ UNCHANGED <<board, block, ring, fw, eng, bank, stale, given, held, due>>

Store == /\ Running
         /\ \E s \in Stores : block' = [block EXCEPT ![s[1]] = s[2]]
         /\ UNCHANGED <<board, q, ring, call, fw, eng, bank, stale>> /\ UNCHANGED history

\* Other code drives the blitter, or enters the machine or the ROM.
Direct == /\ Running
          /\ \E cmd \in {"OP", "NOP"} : call' = Blit(cmd, "none")
          /\ UNCHANGED <<board, fw, eng, bank, stale>> /\ UNCHANGED cart
          /\ UNCHANGED <<given, held, due, sure>>
-----------------------------------------------------------------------------
(* hwBlit(). *)

ReadyAtOnce == TRUE
Ready == fw.lazy => eng.st = "idle"

\* The lazy op is over: its lines leave the data cache, all of them after a list.
Swept(s, list) == IF list THEN {} ELSE s \ {"op"}

\* Between two lists the sweep is left to the later one.
AfterAnyLazy == IF fw.lazy /\ call.cmd # "QUEUE" THEN Swept(stale, fw.list) ELSE stale
AfterLazy == IF fw.lazy /\ ~(fw.list /\ call.cmd = "QUEUE") THEN Swept(stale, fw.list) ELSE stale

Begin(by, half, count, list) ==
    eng' = [by |-> by, st |-> "copy", half |-> half, at |-> 0, count |-> count, list |-> list]

GoQueue ==
    /\ call.pc = "wait" /\ call.cmd = "QUEUE" /\ Ready
    /\ Begin(IF board THEN "chisel" ELSE "machine", call.start, Len(ring[call.start].ops), TRUE)
    /\ call' = [call EXCEPT !.pc = IF board THEN "barrier" ELSE "drain"]
    /\ fw' = [lazy |-> board, list |-> board]
    /\ stale' = AfterLazy
    /\ due' = [i \in DOMAIN due |-> Promise!Fixed(due[i])] /\ held' = Nothing
    /\ UNCHANGED <<board, block, q, ring, bank, given, sure>>

\* One op.  CHISEL's is waited for, or not if the cart set ASYNC; the machine's own always is.
GoOp ==
    /\ call.pc = "wait" /\ call.cmd = "OP" /\ Ready
    /\ \E by \in {"chisel", "machine"}, async \in BOOLEAN :
          /\ by = "chisel" => board
          /\ async => by = "chisel"
          /\ Begin(by, 0, 1, FALSE)
          /\ fw' = [lazy |-> async, list |-> FALSE]
          /\ call' = [call EXCEPT !.pc = IF async THEN "barrier" ELSE "drain"]
    /\ stale' = AfterLazy
    /\ due' = <<Promise!DirectOp>> \o due
    /\ UNCHANGED <<board, bank, given, held, sure>> /\ UNCHANGED cart

GoNop ==
    /\ call.pc = "wait" /\ call.cmd = "NOP" /\ Ready
    /\ call' = [call EXCEPT !.pc = "back"]
    /\ fw' = [lazy |-> FALSE, list |-> FALSE]
    /\ stale' = AfterLazy
    /\ UNCHANGED <<board, eng, bank, given, held, due, sure>> /\ UNCHANGED cart

\* The load after GO is not answered before CHISEL has its copy of the block.
StartedAtOnce == TRUE
Started == eng.st # "copy"

Barrier == /\ call.pc = "barrier" /\ Started
           /\ call' = [call EXCEPT !.pc = "back"]
           /\ UNCHANGED <<board, fw, eng, bank, stale>> /\ UNCHANGED cart
           /\ UNCHANGED <<given, held, due, sure>>

Drain == /\ call.pc = "drain" /\ eng.st = "idle"
         /\ call' = [call EXCEPT !.pc = "back"]
         /\ stale' = stale \ {"op"}
         /\ UNCHANGED <<board, fw, eng, bank, given, held, due, sure>> /\ UNCHANGED cart

\* flush() goes on with a NOP, whose hwBlit() waits for the list.
FlushesAgain == "flush"
ThenFlushed == "flushed"

KickedByOp == call.cmd = "QUEUE" /\ call.next # "none"
Kicked == call.cmd = "QUEUE"

\* hwBlit() returns to kick(), to flush() or to whoever called it ...
Return ==
    /\ call.pc = "back"
    /\ \/ /\ call.next = "none"
          /\ call' = InCart /\ q' = [q EXCEPT !.pending = @ \/ Kicked]
          /\ UNCHANGED sure
       \/ /\ call.next = "flush"
          /\ call' = Blit("NOP", ThenFlushed) /\ q' = [q EXCEPT !.pending = Kicked]
          /\ UNCHANGED sure
       \/ /\ call.next = "flushed"
          /\ call' = InCart /\ q' = [q EXCEPT !.pending = FALSE]
          /\ sure' = TRUE
    /\ UNCHANGED <<board, block, ring, fw, eng, bank, stale, given, held, due>>

\* ... or to op(), which had found the half full.
ReturnToOp ==
    /\ call.pc = "back" /\ call.next = "op"
    /\ \E o \in call.give : Put(o, Kicked)
    /\ call' = InCart
    /\ UNCHANGED <<board, block, fw, eng, bank, stale>>
-----------------------------------------------------------------------------
(* The blitter. *)

Copied == /\ eng.st = "copy"
          /\ eng' = [eng EXCEPT !.st = "run"] /\ bank' = block
          /\ UNCHANGED <<board, call, fw, stale>> /\ UNCHANGED cart
          /\ UNCHANGED <<given, held, due, sure>>

\* The next descriptor's words into the working copy (the opening's too, if it is the first).
Loaded == LET l == ring[eng.half]
              w == IF eng.at = 0 THEN Over(l.open, bank) ELSE bank
          IN  IF eng.list THEN Over(l.ops[eng.at + 1], w) ELSE bank

Draw == /\ eng.st = "run" /\ eng.at < eng.count
        /\ bank' = Loaded
        /\ eng' = [eng EXCEPT !.at = @ + 1]
        /\ stale' = IF eng.by = "chisel" THEN stale \cup {IF eng.list THEN "list" ELSE "op"} ELSE stale
        /\ due' = Tail(due)
        /\ UNCHANGED <<board, call, fw, given, held, sure>> /\ UNCHANGED cart

\* What a half holds means nothing once its list has run.
ListEnd == /\ eng.st = "run" /\ eng.at = eng.count
           /\ eng' = Idle /\ bank' = Nothing
           /\ ring' = IF eng.list THEN [ring EXCEPT ![eng.half] = NoList] ELSE ring
           /\ UNCHANGED <<board, block, q, call, fw, stale>> /\ UNCHANGED history
-----------------------------------------------------------------------------
Init == /\ board \in BOOLEAN /\ block = Boot
        /\ q = [first |-> 0, n |-> 0, own |-> Nothing, pending |-> FALSE]
        /\ ring = [h \in 0 .. 1 |-> NoList]
        /\ call = InCart /\ eng = Idle
        /\ fw = [lazy |-> FALSE, list |-> FALSE]
        /\ bank = Nothing /\ stale = {}
        /\ given = Nothing /\ held = Nothing /\ due = << >> /\ sure = TRUE

HwBlit == GoQueue \/ GoOp \/ GoNop \/ Barrier \/ Drain \/ Return \/ ReturnToOp
Blitter == Copied \/ Draw \/ ListEnd
Next == \/ \E o \in Ops : Queue(o)
        \/ Kick \/ Flush \/ Store \/ Direct
        \/ HwBlit \/ Blitter

Spec == Init /\ [][Next]_vars
FairSpec == Spec /\ WF_vars(HwBlit) /\ WF_vars(Blitter)
-----------------------------------------------------------------------------
(* Properties. *)

TypeOK ==
    /\ board \in BOOLEAN /\ block \in [Words -> Values] /\ bank \in Partial
    /\ q \in [first : 0 .. 1, n : 0 .. Half, own : Partial, pending : BOOLEAN]
    /\ ring \in [0 .. 1 -> [open : Partial, ops : Seq(Partial)]]
    /\ call \in [pc : {"cart", "wait", "barrier", "drain", "back"}, cmd : {"QUEUE", "OP", "NOP"},
                 start : 0 .. 1, next : {"none", "op", "flush", "flushed"}, give : SUBSET Ops]
    /\ fw \in [lazy : BOOLEAN, list : BOOLEAN]
    /\ eng \in [by : {"none", "chisel", "machine"}, st : {"idle", "copy", "run"}, half : 0 .. 1,
                at : Nat, count : Nat, list : BOOLEAN]
    /\ stale \subseteq {"list", "op"}
    /\ given \in Partial /\ held \in Partial /\ sure \in BOOLEAN
    /\ due \in Seq([want : Partial, said : Partial, kicked : BOOLEAN, direct : BOOLEAN])

\* The cart never has words in the half of the ring that the blitter is reading
\* (blit_queue.zig:29, :65-66, with bchisel.c's wait before the next GO).
HalvesApart == eng.list /\ q.n # 0 => eng.half # q.first

\* Once an op is waited for, nothing that the cart's data cache holds is older than what the
\* op drew, though the sweep after a list is put off to the list that follows it
\* (bchisel.c:61-72, :119-132).  A direct op is waited for by any later hwBlit().
NothingStale == Running => /\ ~fw.lazy => stale = {}
                           /\ "op" \in stale => fw.lazy /\ ~fw.list

\* The library knows when a list may still be running: without `pending` a flush() that has
\* nothing to kick returns at once, and every queued op must have drawn (blit_queue.zig:75-81).
PendingKnown == Running /\ ~q.pending /\ q.n = 0 => \A i \in DOMAIN due : due[i].direct

\* One op at a time: a GO never reaches a blitter at work, which would drop it
\* (zm_blit_regs.v:107).
GoWhenIdle == call.pc = "wait" /\ Ready => eng.st = "idle"

\* The queue does what OpQueue says: every op once, in order, with the words that are its own,
\* the queue's or the block's, whoever stores to the block and whenever; a direct hwBlit first,
\* and all of them drawn at the end of a flush.
Implements == Promise!Spec

\* "The words set() and the ops gave are kept from list to list, across auto-kicks and flushes
\* (effects/blit_list.zig): a later op sees them whatever the block holds"
\* (libs/zig/blit_queue.zig:19-21).
WordsKept == [][Draw => \A k \in DOMAIN Head(due).said :
                           k \in DOMAIN bank' /\ bank'[k] = Head(due).said[k]]_vars

\* A hwBlit() comes back.
HwBlitReturns == ~Running ~> Running
=============================================================================
