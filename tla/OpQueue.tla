------------------------------- MODULE OpQueue -------------------------------
(***************************************************************************)
(* What the blitter's queue does for a cart (libs/zig/blit_queue.zig:12-24,*)
(* effects/blit_list.zig:5-15), without rings, lists or who runs them:     *)
(*                                                                         *)
(*   - queued ops are carried out once each, in the order they were given; *)
(*   - an op sees the words that it and the ops before it gave, whole if   *)
(*     they were given since the last kick.  A word given before that kick *)
(*     is stated again, as far as it is kept, if the block holds another   *)
(*     when the first op is queued after it;                               *)
(*   - any other word is the register block's, as it was at the kick;      *)
(*   - a fill's own words are not the queue's for the kicks to come;       *)
(*   - a direct hwBlit() runs before what is queued and not kicked;        *)
(*   - after flush() everything that was queued has drawn.                 *)
(***************************************************************************)
EXTENDS Naturals, Sequences

CONSTANTS Words,    \* words of the register block
          Boot,     \* what they hold at first
          Values,   \* what a word may hold
          Narrow    \* the words whose lower half is all that is kept over a kick

VARIABLES block,    \* the register block
          given,    \* the words that the cart gave the queue, a partial function
          held,     \* what was stated since the last kick
          due,      \* the ops not yet carried out, oldest first
          bank,     \* what the blitter works with
          sure      \* flush() has returned, and nothing was queued since

qvars == <<block, given, held, due, bank, sure>>

Partial == UNION {[D -> Values] : D \in SUBSET Words}

Kept(k, v) == IF k \in Narrow THEN [v EXCEPT !.hi = 0] ELSE v

\* ws laid over own, and the function that says nothing.
Over(ws, own) == [k \in DOMAIN ws \cup DOMAIN own |-> IF k \in DOMAIN ws THEN ws[k] ELSE own[k]]
Nothing == [k \in {} |-> Boot[k]]

\* An op that is due: the words it must see (of an un-kicked one, those that the block will not
\* fill in), and what the cart has said so far.
Queued(want, said) == [want |-> want, said |-> said, kicked |-> FALSE, direct |-> FALSE]
DirectOp == [want |-> block, said |-> Nothing, kicked |-> TRUE, direct |-> TRUE]

\* The words an un-kicked op does not speak for are fixed by the block at its kick.
Fixed(e) == IF e.kicked THEN e ELSE [e EXCEPT !.kicked = TRUE, !.want = Over(@, block)]

NoneKicked == \A i \in DOMAIN due : ~due[i].kicked
AllKicked  == \A i \in DOMAIN due : due[i].kicked

\* What the first op after a kick finds stated: the kept words that the block does not hold.
Restated == {k \in DOMAIN given : Kept(k, block[k]) # Kept(k, given[k])}
Stated == IF AllKicked THEN [k \in Restated |-> Kept(k, given[k])] ELSE held
-----------------------------------------------------------------------------
Init == /\ block = Boot
        /\ given = Nothing /\ held = Nothing /\ due = << >>
        /\ bank = Nothing
        /\ sure = TRUE

\* The cart, or other code that drives the blitter, stores to the block.
Store == \E k \in Words, v \in Values :
            /\ block' = [block EXCEPT ![k] = v]
            /\ UNCHANGED <<given, held, due, bank, sure>>

\* An op of either kind: what it states stands until the kick.
Put(ws) == /\ held' = Over(ws, Stated)
           /\ due' = Append(due, Queued(Over(ws, Stated), Over(ws, given)))

Op(ws) == Put(ws) /\ given' = Over(ws, given)

Fill(ws) == Put(ws) /\ given' = [k \in DOMAIN given \ DOMAIN ws |-> given[k]]

Give == /\ \E ws \in Partial : Op(ws) \/ Fill(ws)
        /\ sure' = FALSE
        /\ UNCHANGED <<block, bank>>

Kick == /\ due' = [i \in DOMAIN due |-> Fixed(due[i])]
        /\ held' = Nothing
        /\ UNCHANGED <<block, given, bank, sure>>

Direct == /\ NoneKicked
          /\ due' = <<DirectOp>> \o due
          /\ UNCHANGED <<block, given, held, bank, sure>>

\* The oldest op is carried out, with the words it must see.
Draw == /\ due # << >> /\ Head(due).kicked
        /\ bank' = Head(due).want
        /\ due' = Tail(due)
        /\ UNCHANGED <<block, given, held, sure>>

\* The blitter's working copy may change between ops.
Load == /\ bank' \in Partial
        /\ UNCHANGED <<block, given, held, due, sure>>

Flushed == /\ \A i \in DOMAIN due : due[i].direct
           /\ sure' = TRUE
           /\ UNCHANGED <<block, given, held, due, bank>>

Next == Store \/ Give \/ Kick \/ Direct \/ Draw \/ Load \/ Flushed

Spec == Init /\ [][Next]_qvars
=============================================================================
