------------------------------ MODULE FileBlock ------------------------------
(* KOS's C: on the board.  The cart's CPU cannot see the SD card: its      *)
(* firmware (fpga/cycles/bkosdrive.c, bkosfile.c) writes a request block at *)
(* the top of the cart's window and spins, and glass, a Linux program with  *)
(* one thread for C: (fpga/glass/src/kos_drive.zig, kos_file.zig), polls    *)
(* the sector block and the file block in turn, serves what it finds and    *)
(* answers.  No lock and no interrupt: a magic word, a check word, a        *)
(* sequence number and deadlines are all the protocol there is, and the     *)
(* firmware restarts under glass at every cart load and reset.              *)
EXTENDS Integers, Sequences

CONSTANTS MaxCalls,    \* bound: the calls carts make in a behaviour
          MaxRestarts, \* bound: cart loads and resets
          MaxLate      \* bound: deadlines that pass although glass is there

ASSUME BoundsAssumption == MaxCalls \in Nat /\ MaxRestarts \in Nat /\ MaxLate \in Nat

VARIABLES
  blk,    \* the two blocks' words, as memory holds them
  cgen,   \* the C: generation word
  buf,    \* whose bytes the cart's buffer holds: the call's number, 0 nobody's
  fw,     \* the firmware: pc, the block and call it waits for, KF_TAKEN seen
  seqs,   \* the firmware's g_seq of each block
  serves, \* the blocks glass's C: thread polls: none, the sectors', or both
  gl,     \* the thread: pc, the block it is at, the request it copied
  gen,    \* glass's generation
  ran,    \* what was done to the card, in order: [call, data]
  disk,   \* how much of ran the card itself holds
  raw,    \* how much of ran the raw reader's cached sectors show, -1 none cached
  calls,  \* history: each call's block, boot, answer, generation, what went wrong
          \* with it, and the calls it must see
  result, \* history: glass's answer to each call
  saw,    \* history: how much of ran a read call's sectors show
  boot,   \* history: restarts so far
  late    \* history: deadlines passed with glass there

card == <<gen, ran, disk, raw>>
glass == <<serves, gl>>
vars == <<blk, cgen, buf, fw, seqs, serves, gl, gen, ran, disk, raw, calls, result, saw, boot, late>>

Blocks == {"sector", "file"}
Results == {"done", "refused", "cut", "read"}
Words == Results \union {"none"}  \* a block's done word; "none": cleared, read as 0

\* A block of zeroes; `whole`: its check word fits the other words.
NoBlock == [magic |-> FALSE, whole |-> FALSE, seq |-> 0, call |-> 0, done |-> "none", ack |-> 0, taken |-> 0]
Polling(b) == [pc |-> "poll", at |-> b, seq |-> 0, call |-> 0, got |-> 0, res |-> "none"]
Running == [pc |-> "run", at |-> "file", call |-> 0, taken |-> FALSE]

Init ==
  /\ blk = [b \in Blocks |-> NoBlock]
  /\ cgen = 0 /\ buf = 0
  /\ fw = Running
  /\ seqs = [b \in Blocks |-> 0]
  /\ serves \in {{}, {"sector"}, Blocks}
  /\ gl = Polling("sector")
  /\ gen = 0 /\ ran = <<>> /\ disk = 0 /\ raw = -1
  /\ calls = <<>> /\ result = <<>> /\ saw = <<>>
  /\ boot = 0 /\ late = 0

-----------------------------------------------------------------------------
(* The firmware, while the cart's CPU waits in the call. *)

\* The writes that a cart was truly told of.
Written == {c \in DOMAIN calls : calls[c].ans = "done" /\ calls[c].flaw = "none"}

\* The protocol has two holes, and history tells which calls fell into one.
\* A call is "crossed" when glass still serves, at its block, a call of the same
\* number from before a restart (each restart counts from 0 again).
Crosses(b, seq) == gl.call # 0 /\ gl.at = b /\ gl.seq = seq /\ calls[gl.call].boot # boot

\* It is "torn" when the firmware gives it up after glass's look at the block
\* and before glass has copied its bytes.
Tears == \/ gl.at = fw.at /\ gl.pc = "copy"
         \/ gl.call = fw.call /\ gl.pc \in {"take", "data"}

NewCall(b) == [at |-> b, boot |-> boot, ans |-> "out", gen |-> 0, need |-> Written,
               flaw |-> IF Crosses(b, seqs[b] + 1) THEN "crossed" ELSE "none"]

\* Mutant: the answer words are not cleared for a new request.
IssueKeepsAck(b) ==
  /\ fw.pc = "run"
  /\ Len(calls) < MaxCalls
  /\ buf' = Len(calls) + 1
  /\ calls' = Append(calls, NewCall(b))
  /\ result' = Append(result, "none")
  /\ saw' = Append(saw, 0)
  /\ seqs' = [seqs EXCEPT ![b] = @ + 1]
  /\ blk' = [blk EXCEPT ![b] = [@ EXCEPT !.magic = FALSE, !.whole = FALSE, !.seq = seqs[b] + 1]]
  /\ fw' = [pc |-> "fill", at |-> b, call |-> Len(calls) + 1, taken |-> FALSE]
  /\ UNCHANGED <<cgen, glass, card, boot, late>>

\* The cart calls, its bytes in its buffer; the firmware takes the magic off
\* and rewrites the block word by word.
Issue(b) ==
  /\ fw.pc = "run"
  /\ Len(calls) < MaxCalls
  /\ buf' = Len(calls) + 1
  /\ calls' = Append(calls, NewCall(b))
  /\ result' = Append(result, "none")
  /\ saw' = Append(saw, 0)
  /\ seqs' = [seqs EXCEPT ![b] = @ + 1]
  /\ blk' = [blk EXCEPT ![b] = [NoBlock EXCEPT !.seq = seqs[b] + 1]]
  /\ fw' = [pc |-> "fill", at |-> b, call |-> Len(calls) + 1, taken |-> FALSE]
  /\ UNCHANGED <<cgen, glass, card, boot, late>>

\* The fields, the check and, last, the magic.
Publish ==
  /\ fw.pc = "fill"
  /\ blk' = [blk EXCEPT ![fw.at] = [@ EXCEPT !.magic = TRUE, !.whole = TRUE, !.call = fw.call]]
  /\ fw' = [fw EXCEPT !.pc = "wait"]
  /\ UNCHANGED <<cgen, buf, seqs, glass, card, calls, result, saw, boot, late>>

FlawOf(a) == IF a \in {"late", "noglass"} /\ Tears THEN "torn" ELSE calls[fw.call].flaw

\* The call returns `a`: the magic comes off, and the generation word is read
\* unless nobody took the request.
Return(a) ==
  /\ blk' = [blk EXCEPT ![fw.at].magic = FALSE]
  /\ calls' = [calls EXCEPT ![fw.call] =
                [@ EXCEPT !.ans = a, !.gen = IF a = "noglass" THEN 0 ELSE cgen, !.flaw = FlawOf(a)]]
  /\ fw' = Running
  /\ UNCHANGED <<cgen, buf, seqs, glass, card, result, saw, boot>>

Waiting == fw.pc = "wait" /\ blk[fw.at].ack # seqs[fw.at]

TakeAnswer ==
  /\ fw.pc = "wait"
  /\ blk[fw.at].ack = seqs[fw.at]
  /\ Return(blk[fw.at].done)
  /\ UNCHANGED late

SeeTaken ==
  /\ Waiting
  /\ fw.at = "file" /\ ~fw.taken
  /\ blk[fw.at].taken = seqs[fw.at]
  /\ fw' = [fw EXCEPT !.taken = TRUE]
  /\ UNCHANGED <<blk, cgen, buf, seqs, glass, card, calls, result, saw, boot, late>>

\* A deadline: 250 ms with nobody taking the file request (EWRPRO), 10 s for a
\* taken one (EWRITF), 500 ms for sectors (none read).
GiveUp ==
  /\ Waiting
  /\ fw.at = "file" /\ ~fw.taken => blk["file"].taken # seqs["file"]
  /\ fw.at \in serves => late < MaxLate
  /\ late' = IF fw.at \in serves THEN late + 1 ELSE late
  /\ Return(IF fw.at = "file" /\ ~fw.taken THEN "noglass" ELSE "late")

\* glass loads a cart (the window rewritten, zeros where no image is) or resets
\* the machine over the memory it has: the firmware starts from its own zeroes.
Restart(cold) ==
  /\ boot < MaxRestarts
  /\ boot' = boot + 1
  /\ blk' = IF cold THEN [b \in Blocks |-> NoBlock] ELSE blk
  /\ cgen' = IF cold THEN 0 ELSE cgen
  /\ buf' = IF cold THEN 0 ELSE buf
  /\ fw' = Running
  /\ seqs' = [b \in Blocks |-> 0]
  /\ calls' = IF fw.pc = "run" THEN calls ELSE [calls EXCEPT ![fw.call].ans = "lost"]
  /\ UNCHANGED <<glass, card, result, saw, late>>

-----------------------------------------------------------------------------
(* glass's C: thread. *)

OtherBlock(b) == IF b = "sector" THEN "file" ELSE "sector"

\* Mutant: the thread looks at the same block until it finds a request there.
LookStays ==
  /\ gl.pc = "poll"
  /\ gl' = IF gl.at \in serves /\ blk[gl.at].magic THEN [gl EXCEPT !.pc = "copy"] ELSE Polling(gl.at)
  /\ UNCHANGED <<blk, cgen, card>>

\* poll: no magic, no request; otherwise the block is copied, in Copy.
Look ==
  /\ gl.pc = "poll"
  /\ gl' = IF gl.at \in serves /\ blk[gl.at].magic THEN [gl EXCEPT !.pc = "copy"] ELSE Polling(OtherBlock(gl.at))
  /\ UNCHANGED <<blk, cgen, card>>

\* Mutant: an answered request is served as long as its magic stands.
CopyAnswered ==
  /\ gl.pc = "copy"
  /\ LET w == blk[gl.at] IN
       gl' = IF w.whole /\ w.seq # 0
             THEN [gl EXCEPT !.pc = IF gl.at = "file" THEN "take" ELSE "read", !.seq = w.seq, !.call = w.call]
             ELSE Polling(OtherBlock(gl.at))
  /\ UNCHANGED <<blk, cgen, card>>

\* The copy: served if its check holds and it is not the answered one.
Copy ==
  /\ gl.pc = "copy"
  /\ LET w == blk[gl.at] IN
       gl' = IF w.whole /\ w.seq # 0 /\ w.ack # w.seq
             THEN [gl EXCEPT !.pc = IF gl.at = "file" THEN "take" ELSE "read", !.seq = w.seq, !.call = w.call]
             ELSE Polling(OtherBlock(gl.at))
  /\ UNCHANGED <<blk, cgen, card>>

Take ==
  /\ gl.pc = "take"
  /\ blk' = [blk EXCEPT !["file"].taken = gl.seq]
  /\ gl' = [gl EXCEPT !.pc = "data"]
  /\ UNCHANGED <<cgen, card>>

\* The paths and the data, out of the cart's memory.
CopyData ==
  /\ gl.pc = "data"
  /\ gl' = [gl EXCEPT !.pc = "serve", !.got = buf]
  /\ UNCHANGED <<blk, cgen, card>>

\* The operation over Linux's view of the card: refused (a bad path or a card
\* that will not go read-write, before anything else; or by a rule of run's),
\* done, or failed half way.
Serve ==
  /\ gl.pc = "serve"
  /\ \E r \in {"done", "refused", "cut"} :
       /\ ran' = IF r = "refused" THEN ran ELSE Append(ran, [call |-> gl.call, data |-> gl.got])
       /\ result' = [result EXCEPT ![gl.call] = r]
       /\ \E pc \in IF r = "refused" THEN {"flush", "done"} ELSE {"flush"} :
            gl' = [gl EXCEPT !.pc = pc, !.res = r]
  /\ UNCHANGED <<blk, cgen, gen, disk, raw, saw>>

\* Mutant: the raw reader keeps its cached sectors.
FlushKeepsCache ==
  /\ gl.pc = "flush"
  /\ disk' = Len(ran) /\ UNCHANGED raw
  /\ gen' = IF gl.res = "done" THEN gen + 1 ELSE gen
  /\ cgen' = IF gl.res = "done" THEN gen + 1 ELSE cgen
  /\ gl' = [gl EXCEPT !.pc = "done"]
  /\ UNCHANGED <<blk, ran>>

\* Mutant: the word is written before the count is stepped.
FlushOldGen ==
  /\ gl.pc = "flush"
  /\ disk' = Len(ran) /\ raw' = -1
  /\ gen' = IF gl.res = "done" THEN gen + 1 ELSE gen
  /\ cgen' = IF gl.res = "done" THEN gen ELSE cgen
  /\ gl' = [gl EXCEPT !.pc = "done"]
  /\ UNCHANGED <<blk, ran>>

\* syncfs, read-only again, the raw reader's cache dropped; a write done is counted.
Flush ==
  /\ gl.pc = "flush"
  /\ disk' = Len(ran) /\ raw' = -1
  /\ gen' = IF gl.res = "done" THEN gen + 1 ELSE gen
  /\ cgen' = IF gl.res = "done" THEN gen + 1 ELSE cgen
  /\ gl' = [gl EXCEPT !.pc = "done"]
  /\ UNCHANGED <<blk, ran>>

\* Mutant: an empty cache is handed out without a read of the card.
ReadUnfilled ==
  /\ gl.pc = "read"
  /\ \E r \in {"read", "refused"} :
       /\ result' = [result EXCEPT ![gl.call] = r]
       /\ saw' = IF r = "read" THEN [saw EXCEPT ![gl.call] = raw] ELSE saw
       /\ gl' = [gl EXCEPT !.pc = "done", !.res = r]
  /\ UNCHANGED <<blk, cgen, gen, ran, disk, raw>>

\* Sectors off the partition, through the kernel's cache of it, into the window.
Read ==
  /\ gl.pc = "read"
  /\ raw' = IF raw < 0 THEN disk ELSE raw
  /\ \E r \in {"read", "refused"} :
       /\ result' = [result EXCEPT ![gl.call] = r]
       /\ saw' = IF r = "read" THEN [saw EXCEPT ![gl.call] = raw'] ELSE saw
       /\ gl' = [gl EXCEPT !.pc = "done", !.res = r]
  /\ UNCHANGED <<blk, cgen, gen, ran, disk>>

Done ==
  /\ gl.pc = "done"
  /\ blk' = [blk EXCEPT ![gl.at].done = gl.res]
  /\ gl' = [gl EXCEPT !.pc = "ack"]
  /\ UNCHANGED <<cgen, card>>

Ack ==
  /\ gl.pc = "ack"
  /\ blk' = [blk EXCEPT ![gl.at].ack = gl.seq]
  /\ gl' = Polling(OtherBlock(gl.at))
  /\ UNCHANGED <<cgen, card>>

Glass ==
  /\ serves # {}
  /\ \/ (Look \/ Copy \/ Take \/ CopyData \/ Flush \/ Done \/ Ack) /\ UNCHANGED <<result, saw>>
     \/ Serve
     \/ Read
  /\ UNCHANGED <<buf, fw, seqs, serves, calls, boot, late>>

Firmware == (\E b \in Blocks : Issue(b)) \/ Publish \/ TakeAnswer \/ SeeTaken \/ GiveUp
Next == Firmware \/ Glass \/ \E cold \in BOOLEAN : Restart(cold)

\* The firmware's loop runs and so does glass's thread, and where there is no
\* glass the firmware's clock does too.
Fairness == /\ WF_vars(Publish \/ TakeAnswer)
            /\ WF_vars(Glass)
            /\ WF_vars(fw.at \notin serves /\ GiveUp)

Spec == Init /\ [][Next]_vars /\ Fairness

-----------------------------------------------------------------------------
(* Properties. *)

Calls == 1..MaxCalls
Answers == {"out", "late", "noglass", "lost"} \union Words
Block == [magic : BOOLEAN, whole : BOOLEAN, seq : Nat, call : 0..MaxCalls,
          done : Words, ack : Nat, taken : Nat]
Caller == [pc : {"run", "fill", "wait"}, at : Blocks, call : 0..MaxCalls, taken : BOOLEAN]
Thread == [pc : {"poll", "copy", "take", "data", "serve", "flush", "read", "done", "ack"}, at : Blocks,
           seq : Nat, call : 0..MaxCalls, got : 0..MaxCalls, res : Words]
Call == [at : Blocks, boot : Nat, ans : Answers, gen : Nat, need : SUBSET Calls,
         flaw : {"none", "crossed", "torn"}]

\* Every variable holds a value of its kind, and the histories grow together.
TypeOK ==
  /\ blk \in [Blocks -> Block]
  /\ cgen \in Nat /\ gen \in Nat /\ buf \in 0..MaxCalls
  /\ fw \in Caller
  /\ seqs \in [Blocks -> Nat]
  /\ serves \in {{}, {"sector"}, Blocks}
  /\ gl \in Thread
  /\ ran \in Seq([call : Calls, data : 0..MaxCalls])
  /\ disk \in Nat /\ raw \in Nat \union {-1}
  /\ calls \in Seq(Call)
  /\ result \in Seq(Words) /\ saw \in Seq(Nat)
  /\ Len(result) = Len(calls) /\ Len(saw) = Len(calls) /\ Len(calls) <= MaxCalls
  /\ boot \in Nat /\ late \in Nat

\* The firmware takes only the answer to its own request (test_kos_file.py): an
\* answer a call returned is the one glass gave to that call, over any number of
\* late answers, deadlines and restarts, unless it was crossed at its start.
OwnAnswer == \A c \in DOMAIN calls :
  calls[c].ans \in Words /\ calls[c].flaw = "none" => calls[c].ans \in Results /\ result[c] = calls[c].ans

\* What bkosfile.c:69 says of EWRPRO, "nothing was written", and
\* test_kos_file.py:3 of the answers, "the firmware takes only the answer to its
\* own request": a call that returned one of glass's answers was given it, and
\* one that returned EWRPRO was never carried out.
AnswersTrue == \A c \in DOMAIN calls :
  /\ calls[c].ans \in Words => calls[c].ans \in Results /\ result[c] = calls[c].ans
  /\ calls[c].ans = "noglass" => result[c] = "none"

\* A sector read that was answered (and not crossed) shows every write answered
\* before it was asked.
ReadsSeeWrites == \A c \in DOMAIN calls :
  calls[c].ans = "read" /\ calls[c].flaw = "none" => calls[c].need \subseteq {ran[i].call : i \in 1..saw[c]}

\* The generation told with a write's answer (not crossed) is past every one told
\* before it to the same cart: a cart can tell that the card changed.
GenTold == \A c, d \in DOMAIN calls :
  /\ c < d /\ calls[c].boot = calls[d].boot
  /\ calls[c].at = "file" /\ calls[d].ans = "done" /\ calls[d].flaw = "none"
  => calls[c].gen < calls[d].gen

\* A call that waits returns, or its machine is restarted, and glass gets back
\* to polling whatever it serves.
CallsReturn == fw.pc # "run" ~> fw.pc = "run"

\* The two blocks keep the promise of the calls; one that returned crossed or torn
\* is told nothing by its answer.
AnswerOf(c) == IF calls[c].ans \in {"out", "lost"} \/ calls[c].flaw = "none" THEN calls[c].ans ELSE "unsure"
Promise == INSTANCE FileCall WITH Results <- Results, Changes <- {"done", "cut"}, Bytes <- 0..MaxCalls,
             ans <- [c \in DOMAIN calls |-> AnswerOf(c)], result <- result, ran <- ran
KeepsPromise == Promise!Spec
=============================================================================
