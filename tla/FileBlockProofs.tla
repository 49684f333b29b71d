--------------------------- MODULE FileBlockProofs ---------------------------
(* What FileBlock's runs check, proved for every bound: the types, the       *)
(* firmware's own answers, reads after writes, the generation, and that the  *)
(* blocks implement FileCall, where the calls that start crossed or are given *)
(* up torn promise nothing.  Inv says whose request each block holds, what   *)
(* glass has of it, that an answer appears where the firmware looks only     *)
(* once it is its call's, and what the card holds and shows by then.         *)
EXTENDS FileBlock, TLAPS

\* Glass serves a call from before a restart, of the number the firmware waits for.
ServesSame == gl.call # 0 /\ gl.at = fw.at /\ gl.seq = seqs[fw.at] /\ calls[gl.call].boot # boot

\* The firmware waits for one call, its own: the last, and the only one out.
CallerSound ==
  /\ fw.pc # "run" =>
       /\ fw.call = Len(calls) /\ fw.call > 0
       /\ calls[fw.call].ans = "out" /\ calls[fw.call].at = fw.at /\ calls[fw.call].boot = boot
       /\ blk[fw.at].seq = seqs[fw.at] /\ seqs[fw.at] > 0
       /\ buf = fw.call
       /\ calls[fw.call].flaw \in {"none", "crossed"}
       /\ calls[fw.call].flaw = "none" => ~ServesSame
       /\ calls[fw.call].flaw = "crossed" =>
            ServesSame \/ (blk[fw.at].ack = seqs[fw.at] /\ (gl.call # 0 => gl.at # fw.at))
  /\ \A c \in DOMAIN calls : calls[c].ans = "out" => fw.pc # "run" /\ c = fw.call
  /\ fw.pc = "fill" =>
       /\ ~blk[fw.at].magic /\ ~blk[fw.at].whole
       /\ calls[fw.call].flaw = "none" => blk[fw.at].ack # seqs[fw.at]
       /\ result[fw.call] = "none" /\ gl.call # fw.call
  /\ fw.pc = "wait" => blk[fw.at].magic /\ blk[fw.at].whole /\ blk[fw.at].call = fw.call

\* A whole block holds a call of its own kind; while it can still be copied the
\* call waits, its machine was restarted, or it was given up torn.
Held ==
  \A b \in Blocks : blk[b].whole =>
    /\ blk[b].seq > 0 /\ blk[b].call \in DOMAIN calls /\ calls[blk[b].call].at = b
    /\ calls[blk[b].call].boot = boot => blk[b].seq <= seqs[b]
    /\ blk[b].magic \/ (gl.pc = "copy" /\ gl.at = b /\ blk[b].ack # blk[b].seq) =>
         \/ fw.pc = "wait" /\ fw.at = b /\ blk[b].call = fw.call
         \/ calls[blk[b].call].ans = "lost"
         \/ calls[blk[b].call].flaw = "torn" /\ ~blk[b].magic
    /\ result[blk[b].call] # "none" =>
         \/ blk[b].ack = blk[b].seq
         \/ gl.at = b /\ gl.call = blk[b].call /\ gl.seq = blk[b].seq
    /\ gl.at = b /\ gl.call = blk[b].call => gl.seq = blk[b].seq
    /\ gl.at = b /\ gl.call # 0 /\ gl.call # blk[b].call => result[blk[b].call] = "none"

Magic == \A b \in Blocks : blk[b].magic => blk[b].whole

\* A call whose cart no longer waits, and its bytes are not copied out yet.
Loose(c) == calls[c].ans = "lost" \/ calls[c].flaw = "torn"

\* What glass serves: a call not yet carried out until it is served, its answer after.
Serving ==
  /\ gl.call = 0 <=> gl.pc \in {"poll", "copy"}
  /\ gl.pc \in {"take", "data", "serve", "flush"} => gl.at = "file"
  /\ gl.pc = "read" => gl.at = "sector"
  /\ gl.call # 0 =>
       /\ gl.call \in DOMAIN calls /\ gl.seq > 0
       /\ calls[gl.call].at = gl.at
       /\ calls[gl.call].ans = "noglass" => calls[gl.call].flaw = "torn"
       /\ gl.pc \in {"take", "data", "serve", "read"} => result[gl.call] = "none"
       /\ gl.pc \in {"flush", "done", "ack"} => result[gl.call] = gl.res /\ gl.res # "none"
       /\ gl.pc = "flush" => gl.res # "read"
       /\ calls[gl.call].boot = boot => gl.seq <= seqs[gl.at]
       /\ calls[gl.call].boot = boot /\ gl.seq = seqs[gl.at] =>
            /\ blk[gl.at].whole /\ blk[gl.at].call = gl.call
            /\ gl.pc = "ack" => blk[gl.at].done = gl.res
            /\ gl.at = "file" /\ gl.pc # "take" => blk["file"].taken = gl.seq
       /\ gl.pc \in {"take", "data"} => Loose(gl.call) \/ (fw.pc = "wait" /\ fw.call = gl.call)
       /\ gl.pc = "serve" => Loose(gl.call) \/ gl.got = gl.call

\* An answer in the block of a waiting call that is not crossed is that call's,
\* and glass has left it.
Told ==
  fw.pc = "wait" /\ calls[fw.call].flaw = "none" /\ blk[fw.at].ack = seqs[fw.at] =>
    /\ result[fw.call] = blk[fw.at].done /\ result[fw.call] # "none"
    /\ gl.call # 0 => gl.at # fw.at

\* What the calls came to.
Refused == \A c \in DOMAIN calls : calls[c].ans = "noglass" /\ calls[c].flaw # "torn" => result[c] = "none"
Kinds == \A c \in DOMAIN calls : /\ calls[c].boot <= boot /\ (calls[c].ans = "lost" => calls[c].boot < boot)
                                 /\ result[c] = "read" => calls[c].at = "sector"
                                 /\ result[c] \in {"done", "cut"} => calls[c].at = "file"

\* The calls whose changes are among the first n made to the card.
OnCard(r, n) == {r[i].call : i \in 1..n}

\* What is on the card, and what the raw reader shows of it.
Shown ==
  /\ disk <= Len(ran)
  /\ raw \in {-1, disk}
  /\ \A c \in DOMAIN calls :
       /\ result[c] = "done" =>
            c \in OnCard(ran, disk) \/ (gl.pc = "flush" /\ gl.call = c /\ c \in OnCard(ran, Len(ran)))
       /\ calls[c].ans = "done" /\ calls[c].flaw = "none" => c \in OnCard(ran, disk)
       /\ calls[c].need \subseteq OnCard(ran, disk)
       /\ saw[c] <= Len(ran)
       /\ result[c] = "read" => calls[c].need \subseteq OnCard(ran, saw[c])

\* The generation word, and what was told of it.
Counted ==
  /\ cgen <= gen
  /\ \A c \in DOMAIN calls : calls[c].boot = boot => calls[c].gen <= cgen
  /\ fw.pc = "wait" /\ result[fw.call] = "done" /\ ~(gl.pc = "flush" /\ gl.call = fw.call) =>
       \A c \in DOMAIN calls : c < fw.call /\ calls[c].boot = boot => calls[c].gen < cgen

\* Who has which request; the rest of Inv stands on it.
Sound == TypeOK /\ CallerSound /\ Held /\ Magic /\ Serving /\ Told /\ Refused /\ Kinds /\ OwnAnswer
Inv == Sound /\ Shown /\ Counted /\ GenTold
-----------------------------------------------------------------------------
(* What each step does, field by field. *)

GlassOnly == UNCHANGED <<buf, fw, seqs, serves, calls, boot, late>>
Histories == UNCHANGED <<calls, result, saw, ran, boot>>

\* The thread moves on, what it serves stays.
Same(pc) == gl'.pc = pc /\ gl'.at = gl.at /\ gl'.seq = gl.seq /\ gl'.call = gl.call /\ gl'.got = gl.got

\* The thread is back at polling the other block.
Back == gl'.pc = "poll" /\ gl'.at = OtherBlock(gl.at) /\ gl'.call = 0 /\ gl'.seq = 0

LEMMA OtherIs == \A b \in Blocks : OtherBlock(b) \in Blocks /\ OtherBlock(b) # b
BY DEF Blocks, OtherBlock

LEMMA Typed ==
  ASSUME TypeOK
  PROVE  /\ gl.at \in Blocks /\ gl.seq \in Nat /\ gl.call \in 0..MaxCalls /\ gl.got \in 0..MaxCalls
         /\ gl.res \in Words
         /\ fw.at \in Blocks /\ fw.call \in 0..MaxCalls /\ fw.taken \in BOOLEAN
BY DEF TypeOK, Thread, Caller, Words

LEMMA LookIs ==
  ASSUME TypeOK, Look, GlassOnly, UNCHANGED <<result, saw>>
  PROVE  /\ gl.pc = "poll" /\ Histories /\ UNCHANGED <<blk, cgen, gen, disk, raw, buf, fw, seqs>>
         /\ (Same("copy") /\ blk[gl.at].magic) \/ Back
         /\ TypeOK'
<1>1. gl' \in Thread
  <2>1. CASE gl' = [gl EXCEPT !.pc = "copy"]
    BY <2>1 DEF TypeOK, Thread
  <2>2. CASE gl' = Polling(OtherBlock(gl.at))
    BY <2>2, OtherIs, BoundsAssumption DEF TypeOK, Thread, Polling, Words
  <2> QED
    BY <2>1, <2>2 DEF Look
<1>2. (Same("copy") /\ blk[gl.at].magic) \/ Back
  BY DEF TypeOK, Look, Polling, Same, Back
<1> QED
  BY <1>1, <1>2 DEF TypeOK, Look, GlassOnly, Histories, card

LEMMA CopyIs ==
  ASSUME TypeOK, Copy, GlassOnly, UNCHANGED <<result, saw>>
  PROVE  /\ gl.pc = "copy" /\ Histories /\ UNCHANGED <<blk, cgen, gen, disk, raw, buf, fw, seqs>>
         /\ \/ /\ blk[gl.at].whole /\ blk[gl.at].seq # 0 /\ blk[gl.at].ack # blk[gl.at].seq
               /\ gl'.pc = IF gl.at = "file" THEN "take" ELSE "read"
               /\ gl'.at = gl.at /\ gl'.seq = blk[gl.at].seq /\ gl'.call = blk[gl.at].call
            \/ Back
         /\ TypeOK'
<1> DEFINE w == blk[gl.at]
<1>0. w \in Block /\ gl.at \in Blocks
  BY Typed DEF TypeOK
<1>1. CASE w.whole /\ w.seq # 0 /\ w.ack # w.seq
  <2>1. gl' = [gl EXCEPT !.pc = IF gl.at = "file" THEN "take" ELSE "read", !.seq = w.seq, !.call = w.call]
    BY <1>1 DEF Copy
  <2>2. gl' \in Thread
    BY <1>0, <2>1 DEF TypeOK, Thread, Block
  <2>3. /\ gl'.pc = IF gl.at = "file" THEN "take" ELSE "read"
        /\ gl'.at = gl.at /\ gl'.seq = blk[gl.at].seq /\ gl'.call = blk[gl.at].call
    BY <1>0, <2>1 DEF TypeOK, Block
  <2> QED
    BY <1>1, <2>2, <2>3 DEF TypeOK, Copy, GlassOnly, Histories, card
<1>2. CASE ~(w.whole /\ w.seq # 0 /\ w.ack # w.seq)
  <2>1. gl' = Polling(OtherBlock(gl.at))
    BY <1>2 DEF Copy
  <2>2. gl' \in Thread /\ Back
    BY <1>0, <2>1, OtherIs, BoundsAssumption DEF Polling, Thread, Back, Words
  <2> QED
    BY <2>2 DEF TypeOK, Copy, GlassOnly, Histories, card
<1> QED
  BY <1>1, <1>2

LEMMA TakeIs ==
  ASSUME TypeOK, Take, GlassOnly, UNCHANGED <<result, saw>>
  PROVE  /\ gl.pc = "take" /\ Histories /\ UNCHANGED <<cgen, gen, disk, raw, buf, fw, seqs>>
         /\ Same("data")
         /\ \A b \in Blocks : /\ blk'[b].magic = blk[b].magic /\ blk'[b].whole = blk[b].whole /\ blk'[b].seq = blk[b].seq
                              /\ blk'[b].call = blk[b].call /\ blk'[b].done = blk[b].done /\ blk'[b].ack = blk[b].ack
         /\ blk'["file"].taken = gl.seq
         /\ TypeOK'
<1>1. gl' \in Thread /\ Same("data")
  BY DEF TypeOK, Thread, Take, Same
<1>2. blk' \in [Blocks -> Block]
  BY Typed DEF TypeOK, Take, Blocks, Block
<1>3. /\ \A b \in Blocks : /\ blk'[b].magic = blk[b].magic /\ blk'[b].whole = blk[b].whole /\ blk'[b].seq = blk[b].seq
                           /\ blk'[b].call = blk[b].call /\ blk'[b].done = blk[b].done /\ blk'[b].ack = blk[b].ack
      /\ blk'["file"].taken = gl.seq
  BY Typed DEF TypeOK, Take, Blocks, Block
<1> QED
  BY <1>1, <1>2, <1>3 DEF TypeOK, Take, GlassOnly, Histories, card

LEMMA CopyDataIs ==
  ASSUME TypeOK, CopyData, GlassOnly, UNCHANGED <<result, saw>>
  PROVE  /\ gl.pc = "data" /\ Histories /\ UNCHANGED <<blk, cgen, gen, disk, raw, buf, fw, seqs>>
         /\ gl'.pc = "serve" /\ gl'.at = gl.at /\ gl'.seq = gl.seq /\ gl'.call = gl.call /\ gl'.got = buf
         /\ TypeOK'
<1>1. gl' \in Thread
      /\ gl'.pc = "serve" /\ gl'.at = gl.at /\ gl'.seq = gl.seq /\ gl'.call = gl.call /\ gl'.got = buf
  BY DEF TypeOK, Thread, CopyData
<1> QED
  BY <1>1 DEF TypeOK, CopyData, GlassOnly, Histories, card

LEMMA DoneIs ==
  ASSUME TypeOK, Done, GlassOnly, UNCHANGED <<result, saw>>
  PROVE  /\ gl.pc = "done" /\ Histories /\ UNCHANGED <<cgen, gen, disk, raw, buf, fw, seqs>>
         /\ Same("ack") /\ gl'.res = gl.res
         /\ \A b \in Blocks : /\ blk'[b].magic = blk[b].magic /\ blk'[b].whole = blk[b].whole /\ blk'[b].seq = blk[b].seq
                              /\ blk'[b].call = blk[b].call /\ blk'[b].taken = blk[b].taken /\ blk'[b].ack = blk[b].ack
                              /\ b # gl.at => blk'[b].done = blk[b].done
         /\ blk'[gl.at].done = gl.res
         /\ TypeOK'
<1>1. gl' \in Thread
      /\ Same("ack") /\ gl'.res = gl.res
  BY DEF TypeOK, Thread, Done, Same
<1>2. blk' \in [Blocks -> Block]
  BY Typed DEF TypeOK, Done, Block
<1>3. /\ \A b \in Blocks : /\ blk'[b].magic = blk[b].magic /\ blk'[b].whole = blk[b].whole /\ blk'[b].seq = blk[b].seq
                           /\ blk'[b].call = blk[b].call /\ blk'[b].taken = blk[b].taken /\ blk'[b].ack = blk[b].ack
                           /\ b # gl.at => blk'[b].done = blk[b].done
      /\ blk'[gl.at].done = gl.res
  BY Typed DEF TypeOK, Done, Block
<1> QED
  BY <1>1, <1>2, <1>3 DEF TypeOK, Done, GlassOnly, Histories, card

LEMMA AckIs ==
  ASSUME TypeOK, Ack, GlassOnly, UNCHANGED <<result, saw>>
  PROVE  /\ gl.pc = "ack" /\ Histories /\ UNCHANGED <<cgen, gen, disk, raw, buf, fw, seqs>>
         /\ Back
         /\ \A b \in Blocks : /\ blk'[b].magic = blk[b].magic /\ blk'[b].whole = blk[b].whole /\ blk'[b].seq = blk[b].seq
                              /\ blk'[b].call = blk[b].call /\ blk'[b].taken = blk[b].taken /\ blk'[b].done = blk[b].done
                              /\ b # gl.at => blk'[b].ack = blk[b].ack
         /\ blk'[gl.at].ack = gl.seq
         /\ TypeOK'
<1>1. gl' \in Thread /\ Back
  BY OtherIs, BoundsAssumption DEF TypeOK, Thread, Ack, Polling, Back, Words
<1>2. blk' \in [Blocks -> Block]
  BY Typed DEF TypeOK, Ack, Block
<1>3. /\ \A b \in Blocks : /\ blk'[b].magic = blk[b].magic /\ blk'[b].whole = blk[b].whole /\ blk'[b].seq = blk[b].seq
                           /\ blk'[b].call = blk[b].call /\ blk'[b].taken = blk[b].taken /\ blk'[b].done = blk[b].done
                           /\ b # gl.at => blk'[b].ack = blk[b].ack
      /\ blk'[gl.at].ack = gl.seq
  BY Typed DEF TypeOK, Ack, Block
<1> QED
  BY <1>1, <1>2, <1>3 DEF TypeOK, Ack, GlassOnly, Histories, card

\* A sequence with one entry changed, and with one more.
LEMMA SeqSet ==
  ASSUME NEW S, NEW s \in Seq(S), NEW c \in DOMAIN s, NEW r \in S, NEW t, t = [s EXCEPT ![c] = r]
  PROVE  /\ t \in Seq(S) /\ Len(t) = Len(s) /\ DOMAIN t = DOMAIN s
         /\ t[c] = r /\ \A d \in DOMAIN s : d # c => t[d] = s[d]
OBVIOUS

LEMMA AppendIs ==
  ASSUME NEW S, NEW s \in Seq(S), NEW r \in S
  PROVE  LET t == Append(s, r) IN
         /\ t \in Seq(S) /\ Len(t) = Len(s) + 1 /\ DOMAIN s = 1..Len(s) /\ DOMAIN t = 1..(Len(s) + 1)
         /\ t[Len(s) + 1] = r /\ \A d \in 1..Len(s) : t[d] = s[d]
OBVIOUS

LEMMA ResultSet ==
  ASSUME TypeOK, NEW c \in DOMAIN calls, NEW r \in Results, result' = [result EXCEPT ![c] = r]
  PROVE  /\ result' \in Seq(Words) /\ Len(result') = Len(result)
         /\ result'[c] = r /\ \A d \in DOMAIN calls : d # c => result'[d] = result[d]
<1>1. r \in Words /\ c \in DOMAIN result /\ DOMAIN calls = DOMAIN result
  BY DEF TypeOK, Words
<1> QED
  BY <1>1 DEF TypeOK

LEMMA ServeIs ==
  ASSUME TypeOK, Serving, Serve, GlassOnly
  PROVE  /\ gl.pc = "serve" /\ UNCHANGED <<blk, cgen, gen, disk, raw, buf, fw, seqs, calls, saw, boot>>
         /\ Same("flush") \/ (Same("done") /\ gl'.res = "refused")
         /\ gl'.res \in {"done", "refused", "cut"}
         /\ result'[gl.call] = gl'.res
         /\ \A d \in DOMAIN calls : d # gl.call => result'[d] = result[d]
         /\ ran' = IF gl'.res = "refused" THEN ran ELSE Append(ran, [call |-> gl.call, data |-> gl.got])
         /\ TypeOK'
<1>0. gl.call \in DOMAIN calls /\ gl.call \in Calls
  BY Typed DEF Serving, Serve, TypeOK, Calls
<1>1. PICK r \in {"done", "refused", "cut"} :
        /\ ran' = IF r = "refused" THEN ran ELSE Append(ran, [call |-> gl.call, data |-> gl.got])
        /\ result' = [result EXCEPT ![gl.call] = r]
        /\ \E pc \in IF r = "refused" THEN {"flush", "done"} ELSE {"flush"} :
             gl' = [gl EXCEPT !.pc = pc, !.res = r]
  BY DEF Serve
<1>2. gl' \in Thread /\ (Same("flush") \/ (Same("done") /\ gl'.res = "refused")) /\ gl'.res = r
  <2>1. r \in Words
    BY DEF Results, Words
  <2>2. CASE gl' = [gl EXCEPT !.pc = "flush", !.res = r]
    BY <2>1, <2>2 DEF TypeOK, Thread, Same
  <2>3. CASE gl' = [gl EXCEPT !.pc = "done", !.res = r] /\ r = "refused"
    BY <2>1, <2>3 DEF TypeOK, Thread, Same
  <2> QED
    BY <1>1, <2>2, <2>3
<1>3. /\ result' \in Seq(Words) /\ Len(result') = Len(result)
      /\ result'[gl.call] = r /\ \A d \in DOMAIN calls : d # gl.call => result'[d] = result[d]
  BY <1>0, <1>1, ResultSet DEF Results
<1>4. ran' \in Seq([call : Calls, data : 0..MaxCalls])
  <2>1. [call |-> gl.call, data |-> gl.got] \in [call : Calls, data : 0..MaxCalls]
    BY <1>0, Typed
  <2> QED
    BY <1>1, <2>1, AppendIs DEF TypeOK
<1> QED
  BY <1>1, <1>2, <1>3, <1>4 DEF TypeOK, Serve, GlassOnly

LEMMA FlushIs ==
  ASSUME TypeOK, Flush, GlassOnly, UNCHANGED <<result, saw>>
  PROVE  /\ gl.pc = "flush" /\ Histories /\ UNCHANGED <<blk, buf, fw, seqs>>
         /\ Same("done") /\ gl'.res = gl.res
         /\ disk' = Len(ran) /\ raw' = -1
         /\ gen' = IF gl.res = "done" THEN gen + 1 ELSE gen
         /\ cgen' = IF gl.res = "done" THEN gen + 1 ELSE cgen
         /\ TypeOK'
<1>1. gl' \in Thread /\ Same("done") /\ gl'.res = gl.res
  BY DEF TypeOK, Thread, Flush, Same
<1> QED
  BY <1>1 DEF TypeOK, Flush, GlassOnly, Histories

LEMMA ReadIs ==
  ASSUME TypeOK, Serving, Read, GlassOnly
  PROVE  /\ gl.pc = "read" /\ UNCHANGED <<blk, cgen, gen, ran, disk, buf, fw, seqs, calls, boot>>
         /\ raw' = IF raw < 0 THEN disk ELSE raw
         /\ Same("done") /\ gl'.res \in {"read", "refused"}
         /\ result'[gl.call] = gl'.res
         /\ \A d \in DOMAIN calls : d # gl.call => result'[d] = result[d] /\ saw'[d] = saw[d]
         /\ saw'[gl.call] = IF gl'.res = "read" THEN raw' ELSE saw[gl.call]
         /\ TypeOK'
<1>0. gl.call \in DOMAIN calls /\ DOMAIN saw = DOMAIN calls
  BY Typed DEF Serving, Read, TypeOK
<1>1. PICK r \in {"read", "refused"} :
        /\ result' = [result EXCEPT ![gl.call] = r]
        /\ saw' = IF r = "read" THEN [saw EXCEPT ![gl.call] = raw'] ELSE saw
        /\ gl' = [gl EXCEPT !.pc = "done", !.res = r]
  BY DEF Read
<1>2. gl' \in Thread /\ Same("done") /\ gl'.res = r
  BY <1>1 DEF TypeOK, Thread, Same, Results, Words
<1>3. /\ result' \in Seq(Words) /\ Len(result') = Len(result)
      /\ result'[gl.call] = r /\ \A d \in DOMAIN calls : d # gl.call => result'[d] = result[d]
  BY <1>0, <1>1, ResultSet DEF Results
<1>4. raw' \in Nat
  BY DEF TypeOK, Read
<1>5. /\ saw' \in Seq(Nat) /\ Len(saw') = Len(saw)
      /\ saw'[gl.call] = IF r = "read" THEN raw' ELSE saw[gl.call]
      /\ \A d \in DOMAIN calls : d # gl.call => saw'[d] = saw[d]
  BY <1>0, <1>1, <1>4 DEF TypeOK
<1> QED
  BY <1>1, <1>2, <1>3, <1>4, <1>5 DEF TypeOK, Read, GlassOnly

\* One call's record changed.
LEMMA CallSet ==
  ASSUME TypeOK, NEW c \in DOMAIN calls, NEW r \in Call, calls' = [calls EXCEPT ![c] = r]
  PROVE  /\ calls' \in Seq(Call) /\ Len(calls') = Len(calls) /\ DOMAIN calls' = DOMAIN calls
         /\ calls'[c] = r
         /\ \A d \in DOMAIN calls : d # c => calls'[d] = calls[d]
<1>1. calls \in Seq(Call)
  BY DEF TypeOK
<1> QED
  BY <1>1

\* The record as a call leaves it.
Ends(c, a, g, f) ==
  /\ DOMAIN calls' = DOMAIN calls
  /\ \A d \in DOMAIN calls : /\ calls'[d].at = calls[d].at /\ calls'[d].boot = calls[d].boot
                             /\ calls'[d].need = calls[d].need
                             /\ d # c => /\ calls'[d].ans = calls[d].ans /\ calls'[d].gen = calls[d].gen
                                         /\ calls'[d].flaw = calls[d].flaw
  /\ calls'[c].ans = a /\ calls'[c].gen = g /\ calls'[c].flaw = f

\* Only the magic of the block changed.
MagicOff ==
  \A b \in Blocks : /\ blk'[b].whole = blk[b].whole /\ blk'[b].seq = blk[b].seq
                   /\ blk'[b].call = blk[b].call /\ blk'[b].taken = blk[b].taken
                   /\ blk'[b].ack = blk[b].ack /\ blk'[b].done = blk[b].done
                   /\ (blk'[b].magic <=> blk[b].magic /\ b # fw.at)

LEMMA ReturnIs ==
  ASSUME TypeOK, CallerSound, fw.pc = "wait", NEW a \in Answers, Return(a), late' \in Nat
  PROVE  /\ UNCHANGED <<cgen, buf, seqs, serves, gl, gen, ran, disk, raw, result, saw, boot>>
         /\ fw'.pc = "run" /\ fw'.call = 0
         /\ Ends(fw.call, a, IF a = "noglass" THEN 0 ELSE cgen, FlawOf(a)) /\ MagicOff
         /\ TypeOK'
<1> DEFINE g == IF a = "noglass" THEN 0 ELSE cgen
           f == FlawOf(a)
<1>0. fw.call \in DOMAIN calls /\ g \in Nat /\ fw.at \in Blocks
  BY Typed DEF CallerSound, TypeOK
<1>1. calls[fw.call] \in Call
  BY <1>0 DEF TypeOK
<1>c. f \in {"none", "crossed", "torn"}
  BY <1>1 DEF Call, FlawOf
<1>b. calls' = [calls EXCEPT ![fw.call] = [calls[fw.call] EXCEPT !.ans = a, !.gen = g, !.flaw = f]]
  BY DEF Return
<1> HIDE DEF g, f
<1> DEFINE r == [calls[fw.call] EXCEPT !.ans = a, !.gen = g, !.flaw = f]
<1>a. /\ r \in Call /\ r.ans = a /\ r.gen = g /\ r.flaw = f /\ r.at = calls[fw.call].at /\ r.boot = calls[fw.call].boot
      /\ r.need = calls[fw.call].need
  BY <1>0, <1>1, <1>c DEF Call
<1> HIDE DEF r
<1>d. calls' = [calls EXCEPT ![fw.call] = r]
  BY <1>b DEF r
<1>2. /\ calls' \in Seq(Call) /\ Len(calls') = Len(calls) /\ Ends(fw.call, a, g, f)
  BY <1>0, <1>a, <1>d, CallSet DEF Ends
<1>3. fw' \in Caller /\ fw'.pc = "run" /\ fw'.call = 0
  BY BoundsAssumption DEF Return, Running, Caller, Blocks
<1>4. blk' \in [Blocks -> Block]
  BY <1>0 DEF TypeOK, Return, Block
<1>5. MagicOff
  BY <1>0 DEF TypeOK, Return, Block, MagicOff
<1> QED
  BY <1>2, <1>3, <1>4, <1>5 DEF TypeOK, Return, glass, card, g, f

\* The call an Issue makes.
New == Len(calls) + 1

LEMMA IssueIs ==
  ASSUME TypeOK, NEW b \in Blocks, Issue(b)
  PROVE  /\ fw.pc = "run"
         /\ UNCHANGED <<cgen, serves, gl, gen, ran, disk, raw, boot>>
         /\ buf' = New /\ New \in Calls /\ New > 0 /\ Len(calls') = New
         /\ DOMAIN calls' = DOMAIN calls \union {New} /\ \A c \in DOMAIN calls : c < New /\ c # New /\ c # 0
         /\ \A c \in DOMAIN calls : calls'[c] = calls[c] /\ result'[c] = result[c] /\ saw'[c] = saw[c]
         /\ calls'[New].at = b /\ calls'[New].boot = boot /\ calls'[New].ans = "out" /\ calls'[New].gen = 0
         /\ calls'[New].flaw = IF Crosses(b, seqs[b] + 1) THEN "crossed" ELSE "none"
         /\ calls'[New].need = Written /\ result'[New] = "none" /\ saw'[New] = 0
         /\ ~blk'[b].magic /\ ~blk'[b].whole /\ blk'[b].ack = 0 /\ blk'[b].seq = seqs[b] + 1
         /\ blk'[b].taken = 0
         /\ seqs'[b] = seqs[b] + 1 /\ seqs[b] \in Nat
         /\ \A o \in Blocks : o # b => blk'[o] = blk[o] /\ seqs'[o] = seqs[o]
         /\ fw'.pc = "fill" /\ fw'.at = b /\ fw'.call = New
         /\ TypeOK'
<1> DEFINE n == Len(calls) + 1
           r == NewCall(b)
<1>0. /\ calls \in Seq(Call) /\ result \in Seq(Words) /\ saw \in Seq(Nat)
      /\ Len(result) = Len(calls) /\ Len(saw) = Len(calls) /\ Len(calls) \in Nat /\ Len(calls) < MaxCalls
      /\ MaxCalls \in Nat
  BY BoundsAssumption DEF TypeOK, Issue
<1>1. n \in Calls /\ DOMAIN calls = 1..Len(calls)
  BY <1>0 DEF Calls
<1>2. Written \in SUBSET Calls
  BY <1>0, <1>1 DEF Written, Calls
<1>3. r \in Call
  BY <1>2 DEF NewCall, Call, TypeOK, Answers
<1>4. calls' = Append(calls, r) /\ result' = Append(result, "none") /\ saw' = Append(saw, 0)
  BY DEF Issue
<1> HIDE DEF r
<1>5. /\ calls' \in Seq(Call) /\ Len(calls') = n /\ DOMAIN calls' = DOMAIN calls \union {n}
      /\ n > 0 /\ \A c \in DOMAIN calls : c < n /\ c # n /\ c # 0
      /\ calls'[n] = r /\ \A c \in DOMAIN calls : calls'[c] = calls[c]
  BY <1>0, <1>1, <1>3, <1>4, AppendIs
<1>6. /\ result' \in Seq(Words) /\ Len(result') = n
      /\ result'[n] = "none" /\ \A c \in DOMAIN calls : result'[c] = result[c]
  <2>1. "none" \in Words
    BY DEF Words
  <2> QED
    BY <1>0, <1>1, <1>4, <2>1, AppendIs
<1>7. /\ saw' \in Seq(Nat) /\ Len(saw') = n /\ saw'[n] = 0 /\ \A c \in DOMAIN calls : saw'[c] = saw[c]
  BY <1>0, <1>1, <1>4, AppendIs
<1>8. blk' \in [Blocks -> Block] /\ seqs' \in [Blocks -> Nat]
  <2>1. NoBlock \in Block /\ seqs[b] + 1 \in Nat
    BY BoundsAssumption DEF TypeOK, Block, NoBlock, Words
  <2>2. [NoBlock EXCEPT !.seq = seqs[b] + 1] \in Block
    BY <2>1 DEF Block
  <2> QED
    BY <2>1, <2>2 DEF TypeOK, Issue
<1>9. /\ ~blk'[b].magic /\ ~blk'[b].whole /\ blk'[b].ack = 0 /\ blk'[b].seq = seqs[b] + 1
      /\ blk'[b].taken = 0
      /\ seqs'[b] = seqs[b] + 1 /\ seqs[b] \in Nat
      /\ \A o \in Blocks : o # b => blk'[o] = blk[o] /\ seqs'[o] = seqs[o]
  BY DEF TypeOK, Issue, NoBlock
<1>10. fw' \in Caller /\ fw'.pc = "fill" /\ fw'.at = b /\ fw'.call = n
  BY <1>1 DEF Issue, Caller, Calls
<1>11. /\ r.at = b /\ r.boot = boot /\ r.ans = "out" /\ r.gen = 0 /\ r.need = Written
       /\ r.flaw = IF Crosses(b, seqs[b] + 1) THEN "crossed" ELSE "none"
  BY DEF r, NewCall
<1>12. buf' = n /\ n \in 0..MaxCalls /\ n <= MaxCalls
  BY <1>1 DEF Issue, Calls
<1>13. TypeOK'
  BY <1>5, <1>6, <1>7, <1>8, <1>10, <1>12 DEF TypeOK, Issue, glass, card
<1> QED
  BY <1>1, <1>5, <1>6, <1>7, <1>9, <1>10, <1>11, <1>12, <1>13 DEF New, Issue, glass, card

LEMMA PublishIs ==
  ASSUME TypeOK, Publish
  PROVE  /\ fw.pc = "fill" /\ fw.at \in Blocks
         /\ UNCHANGED <<cgen, buf, seqs, serves, gl, gen, ran, disk, raw, calls, result, saw, boot>>
         /\ fw'.pc = "wait" /\ fw'.at = fw.at /\ fw'.call = fw.call
         /\ \A o \in Blocks : o # fw.at => blk'[o] = blk[o]
         /\ blk'[fw.at].magic /\ blk'[fw.at].whole /\ blk'[fw.at].call = fw.call
         /\ blk'[fw.at].seq = blk[fw.at].seq /\ blk'[fw.at].ack = blk[fw.at].ack
         /\ blk'[fw.at].done = blk[fw.at].done /\ blk'[fw.at].taken = blk[fw.at].taken
         /\ TypeOK'
<1>1. fw' \in Caller /\ fw'.pc = "wait" /\ fw'.at = fw.at /\ fw'.call = fw.call
  BY DEF TypeOK, Publish, Caller
<1>2. blk' \in [Blocks -> Block]
  BY Typed DEF TypeOK, Publish, Block
<1>3. /\ \A o \in Blocks : o # fw.at => blk'[o] = blk[o]
      /\ blk'[fw.at].magic /\ blk'[fw.at].whole /\ blk'[fw.at].call = fw.call
      /\ blk'[fw.at].seq = blk[fw.at].seq /\ blk'[fw.at].ack = blk[fw.at].ack
      /\ blk'[fw.at].done = blk[fw.at].done /\ blk'[fw.at].taken = blk[fw.at].taken
  BY Typed DEF TypeOK, Publish, Block
<1> QED
  BY <1>1, <1>2, <1>3, Typed DEF TypeOK, Publish, glass, card

LEMMA SeeTakenIs ==
  ASSUME TypeOK, SeeTaken
  PROVE  /\ UNCHANGED <<blk, cgen, buf, seqs, serves, gl, gen, ran, disk, raw, calls, result, saw, boot>>
         /\ fw.pc = "wait" /\ fw'.pc = "wait" /\ fw'.at = fw.at /\ fw'.call = fw.call
         /\ TypeOK'
<1>1. fw' \in Caller /\ fw'.pc = fw.pc /\ fw'.at = fw.at /\ fw'.call = fw.call
  BY DEF TypeOK, SeeTaken, Caller
<1> QED
  BY <1>1 DEF TypeOK, SeeTaken, Waiting, glass, card

LEMMA RestartIs ==
  ASSUME TypeOK, CallerSound, NEW cold \in BOOLEAN, Restart(cold)
  PROVE  /\ UNCHANGED <<serves, gl, gen, ran, disk, raw, result, saw>>
         /\ boot' = boot + 1
         /\ blk' = IF cold THEN [b \in Blocks |-> NoBlock] ELSE blk
         /\ cgen' \in {0, cgen}
         /\ fw'.pc = "run" /\ \A b \in Blocks : seqs'[b] = 0
         /\ DOMAIN calls' = DOMAIN calls /\ Len(calls') = Len(calls)
         /\ \A c \in DOMAIN calls : /\ calls'[c].at = calls[c].at /\ calls'[c].boot = calls[c].boot
                                    /\ calls'[c].need = calls[c].need /\ calls'[c].gen = calls[c].gen
                                    /\ calls'[c].flaw = calls[c].flaw
                                    /\ calls'[c].ans = IF fw.pc # "run" /\ c = fw.call THEN "lost" ELSE calls[c].ans
         /\ TypeOK'
<1>1. fw' = Running /\ fw' \in Caller /\ fw'.pc = "run" /\ \A b \in Blocks : seqs'[b] = 0
  BY BoundsAssumption DEF Restart, Running, Caller, Blocks
<1>2. seqs' \in [Blocks -> Nat] /\ boot' \in Nat /\ boot' = boot + 1
  BY DEF Restart, TypeOK
<1>3. blk' \in [Blocks -> Block] /\ blk' = IF cold THEN [b \in Blocks |-> NoBlock] ELSE blk
  <2>1. NoBlock \in Block
    BY BoundsAssumption DEF NoBlock, Block, Words
  <2> QED
    BY <2>1 DEF Restart, TypeOK
<1>4. cgen' \in {0, cgen} /\ cgen' \in Nat /\ buf' \in 0..MaxCalls
  BY BoundsAssumption DEF Restart, TypeOK
<1>5. /\ calls' \in Seq(Call)
      /\ DOMAIN calls' = DOMAIN calls /\ Len(calls') = Len(calls)
      /\ \A c \in DOMAIN calls : /\ calls'[c].at = calls[c].at /\ calls'[c].boot = calls[c].boot
                                 /\ calls'[c].need = calls[c].need /\ calls'[c].gen = calls[c].gen
                                    /\ calls'[c].flaw = calls[c].flaw
                                 /\ calls'[c].ans = IF fw.pc # "run" /\ c = fw.call THEN "lost" ELSE calls[c].ans
  <2>1. CASE fw.pc = "run"
    BY <2>1 DEF Restart, TypeOK
  <2>2. CASE fw.pc # "run"
    <3> DEFINE r == [calls[fw.call] EXCEPT !.ans = "lost"]
    <3>1. fw.call \in DOMAIN calls /\ calls[fw.call] \in Call
      BY <2>2, Typed DEF CallerSound, TypeOK
    <3>2. /\ r \in Call /\ r.ans = "lost" /\ r.at = calls[fw.call].at /\ r.boot = calls[fw.call].boot
          /\ r.need = calls[fw.call].need /\ r.gen = calls[fw.call].gen /\ r.flaw = calls[fw.call].flaw
      BY <3>1 DEF Call, Answers
    <3>3. calls' = [calls EXCEPT ![fw.call] = r]
      BY <2>2 DEF Restart
    <3> HIDE DEF r
    <3>4. /\ calls' \in Seq(Call) /\ Len(calls') = Len(calls) /\ DOMAIN calls' = DOMAIN calls
          /\ calls'[fw.call] = r /\ \A d \in DOMAIN calls : d # fw.call => calls'[d] = calls[d]
      BY <3>1, <3>2, <3>3, CallSet
    <3> QED
      BY <2>2, <3>2, <3>4
  <2> QED
    BY <2>1, <2>2
<1>6. TypeOK'
  BY <1>1, <1>2, <1>3, <1>4, <1>5 DEF TypeOK, Restart, glass, card
<1> QED
  BY <1>1, <1>2, <1>3, <1>4, <1>5, <1>6 DEF Restart, glass, card

-----------------------------------------------------------------------------
(* Sound, step by step. *)

LEMMA TypedCalls ==
  ASSUME TypeOK
  PROVE  /\ boot \in Nat
         /\ \A c \in DOMAIN calls : calls[c].boot \in Nat
         /\ "none" \notin Results /\ "out" \notin Words /\ "late" \notin Words /\ "noglass" \notin Words
         /\ "lost" \notin Words /\ Results \subseteq Words
<1>1. boot \in Nat /\ \A c \in DOMAIN calls : calls[c] \in Call
  BY DEF TypeOK
<1> QED
  BY <1>1 DEF Call, Results, Words

\* A call in the firmware's hands.
LEMMA Waits ==
  ASSUME Sound, fw.pc # "run"
  PROVE  /\ fw.call \in DOMAIN calls /\ fw.at \in Blocks
         /\ calls[fw.call].ans = "out" /\ calls[fw.call].at = fw.at /\ calls[fw.call].boot = boot
<1>1. calls \in Seq(Call) /\ fw.at \in Blocks
  BY Typed DEF Sound, TypeOK
<1> QED
  BY <1>1 DEF Sound, CallerSound

LEMMA TakeAnswerIs ==
  ASSUME Sound, TakeAnswer
  PROVE  /\ UNCHANGED <<cgen, buf, seqs, serves, gl, gen, ran, disk, raw, result, saw, boot>>
         /\ fw.pc = "wait" /\ fw'.pc = "run" /\ blk[fw.at].ack = seqs[fw.at]
         /\ Ends(fw.call, calls'[fw.call].ans, cgen, calls[fw.call].flaw) /\ calls'[fw.call].ans \in Words
         /\ calls[fw.call].flaw = "none" => calls'[fw.call].ans \in Results /\ calls'[fw.call].ans = result[fw.call]
         /\ calls[fw.call].flaw = "none" /\ gl.call # 0 => gl.at # fw.at
         /\ gl.call # fw.call
         /\ MagicOff
         /\ TypeOK'
<1> DEFINE a == blk[fw.at].done
<1>1. fw.pc = "wait" /\ Return(a) /\ late' \in Nat /\ blk[fw.at].ack = seqs[fw.at]
  BY DEF TakeAnswer, Sound, TypeOK
<1>2. a \in Words
  BY Typed DEF Sound, TypeOK, Block
<1>3. calls[fw.call].flaw = "none" =>
        /\ result[fw.call] = a /\ a # "none"
        /\ gl.call # 0 => gl.at # fw.at
  BY <1>1 DEF Sound, Told
<1>4. a \in Answers /\ (a # "none" => a \in Results) /\ a \notin {"late", "noglass"}
  BY <1>2 DEF Words, Results, Answers
<1>5. gl.call # fw.call
  <2> SUFFICES ASSUME gl.call = fw.call PROVE FALSE
    OBVIOUS
  <2>1. /\ fw.call \in DOMAIN calls /\ fw.call # 0 /\ calls[fw.call].at = fw.at /\ calls[fw.call].boot = boot
        /\ calls[fw.call].flaw \in {"none", "crossed"}
    BY <1>1, Waits DEF Sound, CallerSound
  <2>2. gl.at = fw.at
    BY <2>1 DEF Sound, Serving
  <2>3. calls[fw.call].flaw = "crossed"
    BY <1>3, <2>1, <2>2
  <2> QED
    BY <1>1, <2>1, <2>2, <2>3 DEF Sound, CallerSound, ServesSame
<1> HIDE DEF a
<1>6. FlawOf(a) = calls[fw.call].flaw
  BY <1>4 DEF FlawOf
<1>7. Ends(fw.call, a, cgen, calls[fw.call].flaw)
  <2>1. (IF a = "noglass" THEN 0 ELSE cgen) = cgen
    BY <1>4
  <2>2. Ends(fw.call, a, IF a = "noglass" THEN 0 ELSE cgen, FlawOf(a))
    BY <1>1, <1>4, ReturnIs DEF Sound
  <2> QED
    BY <1>6, <2>1, <2>2
<1>8. calls'[fw.call].ans = a /\ Ends(fw.call, calls'[fw.call].ans, cgen, calls[fw.call].flaw)
  BY <1>7 DEF Ends
<1>9. calls[fw.call].flaw = "none" => a \in Results /\ a = result[fw.call]
  BY <1>3, <1>4
<1>10. TypeOK /\ CallerSound
  BY DEF Sound
<1>11. /\ UNCHANGED <<cgen, buf, seqs, serves, gl, gen, ran, disk, raw, result, saw, boot>>
       /\ fw'.pc = "run" /\ MagicOff /\ TypeOK'
  BY <1>1, <1>4, <1>10, ReturnIs
<1> QED
  BY <1>1, <1>2, <1>3, <1>5, <1>8, <1>9, <1>11

LEMMA GiveUpIs ==
  ASSUME Sound, GiveUp
  PROVE  /\ UNCHANGED <<cgen, buf, seqs, serves, gl, gen, ran, disk, raw, result, saw, boot>>
         /\ fw.pc = "wait" /\ fw'.pc = "run"
         /\ Ends(fw.call, calls'[fw.call].ans, calls'[fw.call].gen, calls'[fw.call].flaw)
         /\ calls'[fw.call].ans \in {"late", "noglass"} /\ calls'[fw.call].gen \in {0, cgen}
         /\ calls'[fw.call].flaw = IF Tears THEN "torn" ELSE calls[fw.call].flaw
         /\ calls'[fw.call].ans = "noglass" /\ ~Tears => result[fw.call] = "none" /\ gl.call # fw.call
         /\ blk[fw.at].ack # seqs[fw.at]
         /\ MagicOff
         /\ TypeOK'
<1> DEFINE a == IF fw.at = "file" /\ ~fw.taken THEN "noglass" ELSE "late"
<1>1. fw.pc = "wait" /\ Return(a) /\ late' \in Nat /\ blk[fw.at].ack # seqs[fw.at]
  BY DEF GiveUp, Waiting, Sound, TypeOK
<1>2. a \in {"late", "noglass"} /\ a \in Answers
  BY DEF Answers
<1>3. ASSUME a = "noglass", ~Tears PROVE result[fw.call] = "none" /\ gl.call # fw.call
  <2>1. fw.at = "file" /\ blk["file"].taken # seqs["file"]
    BY <1>3 DEF GiveUp
  <2>2. /\ fw.call \in DOMAIN calls /\ calls[fw.call].at = "file" /\ calls[fw.call].boot = boot /\ fw.call # 0
        /\ blk["file"].seq = seqs["file"] /\ blk["file"].whole /\ blk["file"].call = fw.call
    BY <1>1, <2>1 DEF Sound, CallerSound, TypeOK
  <2>3. gl.call # fw.call
    <3> SUFFICES ASSUME gl.call = fw.call PROVE FALSE
      OBVIOUS
    <3>1. gl.call # 0 /\ gl.at = "file" /\ gl.seq = seqs["file"]
      BY <2>2 DEF Sound, Serving, Held, Blocks
    <3>2. gl.pc # "take"
      BY <1>3 DEF Tears
    <3> QED
      BY <2>1, <2>2, <3>1, <3>2 DEF Sound, Serving
  <2>4. result[fw.call] = "none"
    BY <1>1, <2>1, <2>2, <2>3 DEF Sound, Held, Blocks
  <2> QED
    BY <2>3, <2>4
<1> HIDE DEF a
<1>4. FlawOf(a) = IF Tears THEN "torn" ELSE calls[fw.call].flaw
  BY <1>2 DEF FlawOf
<1>5. Ends(fw.call, a, IF a = "noglass" THEN 0 ELSE cgen, IF Tears THEN "torn" ELSE calls[fw.call].flaw)
  BY <1>1, <1>2, <1>4, ReturnIs DEF Sound
<1>6. /\ calls'[fw.call].ans = a /\ calls'[fw.call].gen \in {0, cgen}
      /\ calls'[fw.call].flaw = IF Tears THEN "torn" ELSE calls[fw.call].flaw
      /\ Ends(fw.call, calls'[fw.call].ans, calls'[fw.call].gen, calls'[fw.call].flaw)
  BY <1>5 DEF Ends
<1>7. TypeOK /\ CallerSound
  BY DEF Sound
<1>8. /\ UNCHANGED <<cgen, buf, seqs, serves, gl, gen, ran, disk, raw, result, saw, boot>>
      /\ fw'.pc = "run" /\ MagicOff /\ TypeOK'
  BY <1>1, <1>2, <1>7, ReturnIs
<1> QED
  BY <1>1, <1>2, <1>3, <1>6, <1>8

LEMMA LookSound ==
  ASSUME Sound, Look, GlassOnly, UNCHANGED <<result, saw>>
  PROVE  Sound'
<1>0. TypeOK /\ Serving
  BY DEF Sound
<1> USE <1>0
<1>1. CallerSound'
  <2>1. gl.call = 0 /\ gl'.call = 0
    BY LookIs DEF Serving, Same, Back
  <2> QED
    BY <2>1, LookIs DEF Sound, CallerSound, GlassOnly, ServesSame
<1>2. Held'
  <2>1. CASE Same("copy") /\ blk[gl.at].magic
    BY <2>1, LookIs DEF Sound, Held, Histories, Same
  <2>2. CASE Back
    <3>1. gl.call = 0 /\ \A b \in Blocks : blk[b].whole => blk[b].call # 0
      BY LookIs DEF Sound, Serving, Held, TypeOK
    <3> QED
      BY <2>2, <3>1, LookIs DEF Sound, Held, Histories, Back
  <2> QED
    BY <2>1, <2>2, LookIs
<1>3. Magic'
  BY LookIs DEF Sound, Magic
<1>4. Serving'
  BY LookIs DEF Serving, Same, Back, Loose
<1>5. Told'
  BY LookIs DEF Sound, Told, Same, Back, GlassOnly
<1>6. Refused'
  BY LookIs DEF Sound, Refused, GlassOnly
<1>7. OwnAnswer'
  BY LookIs DEF Sound, OwnAnswer, GlassOnly
<1>8. Kinds'
  BY LookIs DEF Sound, Kinds, GlassOnly
<1> QED
  BY LookIs, <1>1, <1>2, <1>3, <1>4, <1>5, <1>6, <1>7, <1>8 DEF Sound

LEMMA CopySound ==
  ASSUME Sound, Copy, GlassOnly, UNCHANGED <<result, saw>>
  PROVE  Sound'
<1>0. TypeOK /\ Serving
  BY DEF Sound
<1> USE <1>0
<1> DEFINE w == blk[gl.at]
<1>a. gl.pc = "copy" /\ gl.call = 0 /\ gl.at \in Blocks
  BY CopyIs, Typed DEF Serving
<1>b. ASSUME w.whole, w.seq # 0, w.ack # w.seq
      PROVE  /\ w.call \in DOMAIN calls /\ w.call # 0 /\ calls[w.call].at = gl.at /\ result[w.call] = "none"
             /\ \/ fw.pc = "wait" /\ fw.at = gl.at /\ w.call = fw.call
                \/ Loose(w.call) /\ ~(fw.pc # "run" /\ fw.at = gl.at)
  <2>1. w.call \in DOMAIN calls /\ calls[w.call].at = gl.at
    BY <1>a, <1>b DEF Sound, Held
  <2>2. w.call # 0
    BY <2>1 DEF TypeOK
  <2>3. result[w.call] = "none"
    BY <1>a, <1>b, <2>2 DEF Sound, Held
  <2>4. \/ fw.pc = "wait" /\ fw.at = gl.at /\ w.call = fw.call
        \/ Loose(w.call)
    BY <1>a, <1>b DEF Sound, Held, Loose
  <2>5. fw.pc # "run" /\ fw.at = gl.at => fw.pc = "wait" /\ w.call = fw.call
    BY <1>b, Typed DEF Sound, CallerSound, TypeOK, Caller
  <2> QED
    BY <2>1, <2>2, <2>3, <2>4, <2>5
<1>1. CallerSound'
  <2>1. CASE Back
    <3>1. ~ServesSame /\ ~ServesSame' /\ gl'.call = 0
      BY <2>1, <1>a DEF ServesSame, Back
    <3> QED
      BY <3>1, <1>a, CopyIs DEF Sound, CallerSound, Histories
  <2>2. CASE ~Back
    <3>1. /\ w.whole /\ w.seq # 0 /\ w.ack # w.seq /\ gl'.at = gl.at /\ gl'.call = w.call /\ gl'.seq = w.seq
      BY <2>2, CopyIs
    <3>2. fw.pc # "run" /\ fw.at = gl.at => /\ fw.pc = "wait" /\ w.call = fw.call /\ calls[w.call].boot = boot
                                            /\ calls[fw.call].flaw # "crossed"
      BY <3>1, <1>a, <1>b DEF Sound, CallerSound, ServesSame
    <3>3. fw.pc # "run" => (ServesSame' <=> ServesSame)
      BY <3>1, <3>2, <1>a, CopyIs DEF ServesSame, Histories
    <3>4. fw.pc # "run" /\ calls[fw.call].flaw = "crossed" /\ gl'.call # 0 => gl'.at # fw.at
      BY <3>1, <3>2
    <3>5. fw.pc = "fill" => gl'.call # fw.call
      BY <3>1, <3>2, <1>b, CopyIs DEF Sound, CallerSound
    <3> QED
      BY <3>3, <3>4, <3>5, <1>a, CopyIs DEF Sound, CallerSound, Histories, ServesSame
  <2> QED
    BY <2>1, <2>2
<1>2. Held'
  <2>1. CASE Back
    <3>1. \A b \in Blocks : blk[b].whole => blk[b].call # 0
      BY DEF Sound, Held, TypeOK
    <3> QED
      BY <2>1, <3>1, <1>a, CopyIs DEF Sound, Held, Histories, Back
  <2>2. CASE ~Back
    <3>1. /\ w.whole /\ w.seq # 0 /\ w.ack # w.seq /\ gl'.at = gl.at /\ gl'.call = w.call /\ gl'.seq = w.seq
          /\ gl'.pc # "copy" /\ gl.at \in Blocks
      BY <2>2, <1>a, CopyIs
    <3>2. \A b \in Blocks : blk[b].whole /\ b # gl.at => blk[b].call # w.call
      BY <3>1, <1>b DEF Sound, Held
    <3> QED
      BY <3>1, <3>2, <1>a, <1>b, CopyIs DEF Sound, Held, Histories
  <2> QED
    BY <2>1, <2>2
<1>3. Magic'
  BY CopyIs DEF Sound, Magic
<1>4. Serving'
  <2>1. CASE Back
    BY <2>1, <1>a, CopyIs DEF Serving, Back
  <2>2. CASE ~Back
    <3>1. /\ w.whole /\ w.seq # 0 /\ w.ack # w.seq /\ gl'.at = gl.at /\ gl'.call = w.call /\ gl'.seq = w.seq
          /\ gl'.pc = IF gl.at = "file" THEN "take" ELSE "read"
      BY <2>2, CopyIs
    <3>2. gl.at \in {"file", "sector"} /\ w.seq > 0
      BY <3>1, <1>a DEF Sound, Held, Blocks
    <3>3. calls[w.call].boot = boot => w.seq <= seqs[gl.at]
      BY <3>1, <1>a DEF Sound, Held
    <3>4. /\ calls[w.call].ans = "noglass" => calls[w.call].flaw = "torn"
          /\ Loose(w.call) \/ (fw.pc = "wait" /\ fw.call = w.call)
      BY <3>1, <1>b DEF Sound, CallerSound, Loose
    <3> QED
      BY <3>1, <3>2, <3>3, <3>4, <1>a, <1>b, CopyIs DEF Serving, Loose, Histories
  <2> QED
    BY <2>1, <2>2
<1>5. Told'
  BY CopyIs DEF Sound, CallerSound, Told, Back, GlassOnly
<1>6. Refused'
  BY CopyIs DEF Sound, Refused, GlassOnly
<1>7. OwnAnswer'
  BY CopyIs DEF Sound, OwnAnswer, GlassOnly
<1>8. Kinds'
  BY CopyIs DEF Sound, Kinds, GlassOnly
<1> QED
  BY CopyIs, <1>1, <1>2, <1>3, <1>4, <1>5, <1>6, <1>7, <1>8 DEF Sound

LEMMA TakeSound ==
  ASSUME Sound, Take, GlassOnly, UNCHANGED <<result, saw>>
  PROVE  Sound'
<1>0. TypeOK /\ Serving
  BY DEF Sound
<1> USE <1>0
<1>1. CallerSound'
  BY TakeIs, Typed DEF Sound, CallerSound, GlassOnly, Same, ServesSame
<1>2. Held'
  BY TakeIs DEF Sound, Held, GlassOnly, Same
<1>3. Magic'
  BY TakeIs DEF Sound, Magic
<1>4. Serving'
  BY TakeIs, Typed DEF Serving, GlassOnly, Same, Loose
<1>5. Told'
  BY TakeIs, Typed DEF Sound, Told, Same, GlassOnly
<1>6. Refused'
  BY TakeIs DEF Sound, Refused, GlassOnly
<1>7. OwnAnswer'
  BY TakeIs DEF Sound, OwnAnswer, GlassOnly
<1>8. Kinds'
  BY TakeIs DEF Sound, Kinds, GlassOnly
<1> QED
  BY TakeIs, <1>1, <1>2, <1>3, <1>4, <1>5, <1>6, <1>7, <1>8 DEF Sound

LEMMA CopyDataSound ==
  ASSUME Sound, CopyData, GlassOnly, UNCHANGED <<result, saw>>
  PROVE  Sound'
<1>0. TypeOK /\ Serving
  BY DEF Sound
<1> USE <1>0
<1>1. CallerSound'
  BY CopyDataIs DEF Sound, CallerSound, GlassOnly, ServesSame
<1>2. Held'
  BY CopyDataIs DEF Sound, Held, GlassOnly
<1>3. Magic'
  BY CopyDataIs DEF Sound, Magic
<1>4. Serving'
  BY CopyDataIs DEF Sound, CallerSound, Serving, GlassOnly, Loose
<1>5. Told'
  BY CopyDataIs DEF Sound, Told, GlassOnly
<1>6. Refused'
  BY CopyDataIs DEF Sound, Refused, GlassOnly
<1>7. OwnAnswer'
  BY CopyDataIs DEF Sound, OwnAnswer, GlassOnly
<1>8. Kinds'
  BY CopyDataIs DEF Sound, Kinds, GlassOnly
<1> QED
  BY CopyDataIs, <1>1, <1>2, <1>3, <1>4, <1>5, <1>6, <1>7, <1>8 DEF Sound

LEMMA ServeSound ==
  ASSUME Sound, Serve, GlassOnly
  PROVE  Sound'
<1>0. TypeOK /\ Serving
  BY DEF Sound
<1> USE <1>0
<1>1. CallerSound'
  BY ServeIs DEF Sound, CallerSound, Same, ServesSame
<1>2. Held'
  BY ServeIs DEF Sound, Held, Serving, Same
<1>3. Magic'
  BY ServeIs DEF Sound, Magic
<1>4. Serving'
  BY ServeIs DEF Serving, Same, Loose
<1>5. Told'
  BY ServeIs DEF Sound, CallerSound, Serving, Told, Same
<1>6. Refused'
  BY ServeIs DEF Sound, Serving, Refused
<1>7. OwnAnswer'
  BY ServeIs, TypedCalls DEF Sound, Serving, OwnAnswer
<1>8. Kinds'
  BY ServeIs DEF Sound, Serving, Kinds
<1> QED
  BY ServeIs, <1>1, <1>2, <1>3, <1>4, <1>5, <1>6, <1>7, <1>8 DEF Sound

LEMMA FlushSound ==
  ASSUME Sound, Flush, GlassOnly, UNCHANGED <<result, saw>>
  PROVE  Sound'
<1>0. TypeOK /\ Serving
  BY DEF Sound
<1> USE <1>0
<1>1. CallerSound'
  BY FlushIs DEF Sound, CallerSound, GlassOnly, Same, ServesSame
<1>2. Held'
  BY FlushIs DEF Sound, Held, GlassOnly, Same
<1>3. Magic'
  BY FlushIs DEF Sound, Magic
<1>4. Serving'
  BY FlushIs DEF Serving, GlassOnly, Same, Loose
<1>5. Told'
  BY FlushIs DEF Sound, Told, Same, GlassOnly
<1>6. Refused'
  BY FlushIs DEF Sound, Refused, GlassOnly
<1>7. OwnAnswer'
  BY FlushIs DEF Sound, OwnAnswer, GlassOnly
<1>8. Kinds'
  BY FlushIs DEF Sound, Kinds, GlassOnly
<1> QED
  BY FlushIs, <1>1, <1>2, <1>3, <1>4, <1>5, <1>6, <1>7, <1>8 DEF Sound

LEMMA ReadSound ==
  ASSUME Sound, Read, GlassOnly
  PROVE  Sound'
<1>0. TypeOK /\ Serving
  BY DEF Sound
<1> USE <1>0
<1>1. CallerSound'
  BY ReadIs DEF Sound, CallerSound, Same, ServesSame
<1>2. Held'
  BY ReadIs DEF Sound, Held, Serving, Same
<1>3. Magic'
  BY ReadIs DEF Sound, Magic
<1>4. Serving'
  BY ReadIs DEF Serving, Same, Loose
<1>5. Told'
  BY ReadIs DEF Sound, CallerSound, Serving, Told, Same, GlassOnly
<1>6. Refused'
  BY ReadIs DEF Sound, Serving, Refused
<1>7. OwnAnswer'
  BY ReadIs, TypedCalls DEF Sound, Serving, OwnAnswer
<1>8. Kinds'
  BY ReadIs DEF Sound, Serving, Kinds
<1> QED
  BY ReadIs, <1>1, <1>2, <1>3, <1>4, <1>5, <1>6, <1>7, <1>8 DEF Sound

LEMMA DoneSound ==
  ASSUME Sound, Done, GlassOnly, UNCHANGED <<result, saw>>
  PROVE  Sound'
<1>0. TypeOK /\ Serving
  BY DEF Sound
<1> USE <1>0
<1>1. CallerSound'
  BY DoneIs, Typed DEF Sound, CallerSound, GlassOnly, Same, ServesSame
<1>2. Held'
  BY DoneIs DEF Sound, Held, GlassOnly, Same
<1>3. Magic'
  BY DoneIs DEF Sound, Magic
<1>4. Serving'
  BY DoneIs, Typed DEF Serving, GlassOnly, Same, Loose
<1>5. Told'
  BY DoneIs, Typed DEF Sound, Serving, Told, Same, GlassOnly
<1>6. Refused'
  BY DoneIs DEF Sound, Refused, GlassOnly
<1>7. OwnAnswer'
  BY DoneIs DEF Sound, OwnAnswer, GlassOnly
<1>8. Kinds'
  BY DoneIs DEF Sound, Kinds, GlassOnly
<1> QED
  BY DoneIs, <1>1, <1>2, <1>3, <1>4, <1>5, <1>6, <1>7, <1>8 DEF Sound

LEMMA AckSound ==
  ASSUME Sound, Ack, GlassOnly, UNCHANGED <<result, saw>>
  PROVE  Sound'
<1>0. TypeOK /\ Serving
  BY DEF Sound
<1> USE <1>0
<1>1. CallerSound'
  BY AckIs, Typed DEF Sound, CallerSound, Serving, GlassOnly, Back, ServesSame
<1>2. Held'
  <2>1. \A b \in Blocks : blk[b].whole => blk[b].call # 0
    BY DEF Sound, Held, TypeOK
  <2>2. gl.call # 0
    BY AckIs DEF Serving
  <2> SUFFICES ASSUME NEW b \in Blocks, blk[b].whole
               PROVE  /\ blk[b].seq > 0 /\ blk[b].call \in DOMAIN calls /\ calls[blk[b].call].at = b
                      /\ calls[blk[b].call].boot = boot => blk[b].seq <= seqs[b]
                      /\ blk[b].magic => \/ fw.pc = "wait" /\ fw.at = b /\ blk[b].call = fw.call
                                         \/ calls[blk[b].call].ans = "lost"
                      /\ result[blk[b].call] # "none" => blk'[b].ack = blk[b].seq
    BY <2>1, AckIs DEF Sound, Held, Histories, Back
  <2>3. CASE b = gl.at
    BY <2>2, <2>3, AckIs DEF Sound, Held
  <2>4. CASE b # gl.at
    BY <2>4, AckIs DEF Sound, Held
  <2> QED
    BY <2>3, <2>4
<1>3. Magic'
  BY AckIs DEF Sound, Magic
<1>4. Serving'
  BY AckIs DEF Serving, Back, Loose
<1>5. Told'
  <2> SUFFICES ASSUME fw.pc = "wait", calls[fw.call].flaw = "none", blk'[fw.at].ack = seqs[fw.at]
               PROVE  result[fw.call] = blk'[fw.at].done /\ result[fw.call] # "none"
    BY AckIs DEF Told, Back, GlassOnly
  <2>1. fw.at \in Blocks /\ gl.at \in Blocks /\ gl.call # 0
    BY AckIs, Typed DEF Serving
  <2>2. CASE fw.at # gl.at
    BY <2>1, <2>2, AckIs DEF Sound, Told
  <2>3. CASE fw.at = gl.at
    <3>1. gl.seq = seqs[gl.at] /\ calls[gl.call].boot = boot
      BY <2>1, <2>3, AckIs DEF Sound, CallerSound, ServesSame
    <3> QED
      BY <2>1, <2>3, <3>1, AckIs DEF Sound, CallerSound, Serving
  <2> QED
    BY <2>2, <2>3
<1>6. Refused'
  BY AckIs DEF Sound, Refused, GlassOnly
<1>7. OwnAnswer'
  BY AckIs DEF Sound, OwnAnswer, GlassOnly
<1>8. Kinds'
  BY AckIs DEF Sound, Kinds, GlassOnly
<1> QED
  BY AckIs, <1>1, <1>2, <1>3, <1>4, <1>5, <1>6, <1>7, <1>8 DEF Sound

LEMMA IssueSound ==
  ASSUME Sound, NEW b \in Blocks, Issue(b)
  PROVE  Sound'
<1>0. TypeOK /\ Serving
  BY DEF Sound
<1> USE <1>0
<1>a. /\ \A c \in DOMAIN calls : c # New /\ c # 0 /\ calls'[c].ans # "out"
      /\ gl.call # New /\ (gl.call # 0 => gl.call \in DOMAIN calls)
  <2>1. \A c \in DOMAIN calls : c # New /\ c # 0 /\ calls'[c].ans # "out"
    BY IssueIs DEF Sound, CallerSound
  <2>2. gl.call # 0 => gl.call \in DOMAIN calls
    BY DEF Serving
  <2>3. New # 0
    BY IssueIs
  <2> QED
    BY <2>1, <2>2, <2>3
<1>b. \A o \in Blocks : blk'[o].whole => o # b /\ blk'[o] = blk[o] /\ blk[o].whole /\ blk[o].call \in DOMAIN calls
  BY IssueIs DEF Sound, Held
<1>1. CallerSound'
  <2>1. /\ fw'.call = Len(calls') /\ fw'.call > 0 /\ fw'.at = b /\ fw'.pc = "fill"
        /\ calls'[fw'.call].ans = "out" /\ calls'[fw'.call].at = b /\ calls'[fw'.call].boot = boot
        /\ blk'[b].seq = seqs'[b] /\ seqs'[b] > 0 /\ buf' = fw'.call
    BY IssueIs
  <2>2. /\ calls'[fw'.call].flaw \in {"none", "crossed"}
        /\ calls'[fw'.call].flaw = "crossed" <=> ServesSame'
    <3>1. gl.call # 0 => gl.call \in DOMAIN calls /\ calls'[gl.call] = calls[gl.call]
      BY <1>a, IssueIs
    <3>2. Crosses(b, seqs[b] + 1) <=> ServesSame'
      BY <3>1, IssueIs DEF Crosses, ServesSame
    <3> QED
      BY <3>2, IssueIs
  <2>3. \A c \in DOMAIN calls' : calls'[c].ans = "out" => c = fw'.call
    BY <1>a, IssueIs
  <2>4. ~blk'[b].magic /\ ~blk'[b].whole /\ blk'[b].ack # seqs'[b] /\ result'[fw'.call] = "none" /\ gl.call # fw'.call
    BY <1>a, IssueIs
  <2> QED
    BY <2>1, <2>2, <2>3, <2>4, IssueIs DEF CallerSound
<1>2. Held'
  <2> SUFFICES ASSUME NEW o \in Blocks, blk'[o].whole
               PROVE  /\ blk[o].seq > 0 /\ blk[o].call \in DOMAIN calls' /\ calls'[blk[o].call].at = o
                      /\ calls'[blk[o].call].boot = boot => blk[o].seq <= seqs'[o]
                      /\ blk[o].magic \/ (gl.pc = "copy" /\ gl.at = o /\ blk[o].ack # blk[o].seq) =>
                           \/ calls'[blk[o].call].ans = "lost"
                           \/ calls'[blk[o].call].flaw = "torn" /\ ~blk[o].magic
                      /\ result'[blk[o].call] # "none" =>
                           \/ blk[o].ack = blk[o].seq
                           \/ gl.at = o /\ gl.call = blk[o].call /\ gl.seq = blk[o].seq
                      /\ gl.at = o /\ gl.call = blk[o].call => gl.seq = blk[o].seq
                      /\ gl.at = o /\ gl.call # 0 /\ gl.call # blk[o].call => result'[blk[o].call] = "none"
    BY <1>b, IssueIs DEF Held
  <2>1. o # b /\ blk'[o] = blk[o] /\ blk[o].whole /\ blk[o].call \in DOMAIN calls /\ fw.pc = "run"
    BY <1>b, IssueIs
  <2> QED
    BY <2>1, IssueIs DEF Sound, Held
<1>3. Magic'
  BY IssueIs DEF Sound, Magic
<1>4. Serving'
  <2>1. gl.call # 0 =>
          /\ gl.call \in DOMAIN calls /\ calls'[gl.call] = calls[gl.call] /\ result'[gl.call] = result[gl.call]
          /\ gl.seq \in Nat /\ gl.at \in Blocks
    BY <1>a, IssueIs, Typed
  <2>2. gl.call # 0 /\ calls[gl.call].boot = boot => gl.seq <= seqs'[gl.at] /\ (gl.seq = seqs'[gl.at] => gl.at # b)
    <3>1. gl.call # 0 /\ calls[gl.call].boot = boot => gl.seq <= seqs[gl.at]
      BY <2>1 DEF Serving
    <3>2. seqs[b] \in Nat /\ seqs'[b] = seqs[b] + 1 /\ (gl.at # b /\ gl.call # 0 => seqs'[gl.at] = seqs[gl.at])
      BY <2>1, IssueIs
    <3> QED
      BY <2>1, <3>1, <3>2
  <2>3. gl.call # 0 /\ gl.at # b => blk'[gl.at] = blk[gl.at] /\ seqs'[gl.at] = seqs[gl.at]
    BY <2>1, IssueIs
  <2> QED
    BY <2>1, <2>2, <2>3, <1>a, IssueIs DEF Serving, Loose
<1>5. Told'
  BY IssueIs DEF Told
<1>6. Refused'
  BY IssueIs DEF Sound, Refused
<1>7. OwnAnswer'
  BY TypedCalls, IssueIs DEF Sound, OwnAnswer
<1>8. Kinds'
  BY IssueIs, TypedCalls DEF Sound, Kinds
<1> QED
  BY IssueIs, <1>1, <1>2, <1>3, <1>4, <1>5, <1>6, <1>7, <1>8 DEF Sound

LEMMA PublishSound ==
  ASSUME Sound, Publish
  PROVE  Sound'
<1>0. TypeOK /\ Serving
  BY DEF Sound
<1> USE <1>0
<1>1. CallerSound'
  <2>1. ServesSame' <=> ServesSame
    BY PublishIs DEF ServesSame
  <2> QED
    BY <2>1, PublishIs DEF Sound, CallerSound
<1>2. Held'
  <2>1. /\ fw.call \in DOMAIN calls /\ calls[fw.call].at = fw.at /\ result[fw.call] = "none" /\ gl.call # fw.call
        /\ blk[fw.at].seq = seqs[fw.at] /\ seqs[fw.at] \in Nat /\ seqs[fw.at] > 0
    BY PublishIs, Waits DEF Sound, CallerSound, TypeOK
  <2> SUFFICES ASSUME NEW b \in Blocks, blk'[b].whole
               PROVE  /\ blk'[b].seq > 0 /\ blk'[b].call \in DOMAIN calls /\ calls[blk'[b].call].at = b
                      /\ calls[blk'[b].call].boot = boot => blk'[b].seq <= seqs[b]
                      /\ blk'[b].magic \/ (gl.pc = "copy" /\ gl.at = b /\ blk'[b].ack # blk'[b].seq) =>
                           \/ fw.at = b /\ blk'[b].call = fw.call
                           \/ calls[blk'[b].call].ans = "lost"
                           \/ calls[blk'[b].call].flaw = "torn" /\ ~blk'[b].magic
                      /\ result[blk'[b].call] # "none" =>
                           \/ blk'[b].ack = blk'[b].seq
                           \/ gl.at = b /\ gl.call = blk'[b].call /\ gl.seq = blk'[b].seq
                      /\ gl.at = b /\ gl.call = blk'[b].call => gl.seq = blk'[b].seq
                      /\ gl.at = b /\ gl.call # 0 /\ gl.call # blk'[b].call => result[blk'[b].call] = "none"
    BY PublishIs DEF Held
  <2>2. CASE b = fw.at
    BY <2>1, <2>2, PublishIs
  <2>3. CASE b # fw.at
    BY <2>3, PublishIs DEF Sound, Held
  <2> QED
    BY <2>2, <2>3
<1>3. Magic'
  BY PublishIs DEF Sound, Magic
<1>4. Serving'
  BY PublishIs, Typed DEF Sound, CallerSound, Serving, Loose
<1>5. Told'
  BY PublishIs DEF Sound, CallerSound, Told, GlassOnly
<1>6. Refused'
  BY PublishIs DEF Sound, Refused
<1>7. OwnAnswer'
  BY PublishIs DEF Sound, OwnAnswer
<1>8. Kinds'
  BY PublishIs DEF Sound, Kinds
<1> QED
  BY PublishIs, <1>1, <1>2, <1>3, <1>4, <1>5, <1>6, <1>7, <1>8 DEF Sound

LEMMA SeeTakenSound ==
  ASSUME Sound, SeeTaken
  PROVE  Sound'
<1>0. TypeOK /\ Serving
  BY DEF Sound
<1> USE <1>0
<1>1. CallerSound'
  BY SeeTakenIs DEF Sound, CallerSound, ServesSame
<1>2. Held'
  BY SeeTakenIs DEF Sound, Held
<1>3. Magic'
  BY SeeTakenIs DEF Sound, Magic
<1>4. Serving'
  BY SeeTakenIs DEF Serving, Loose
<1>5. Told'
  BY SeeTakenIs DEF Sound, Told, GlassOnly
<1>6. Refused'
  BY SeeTakenIs DEF Sound, Refused
<1>7. OwnAnswer'
  BY SeeTakenIs DEF Sound, OwnAnswer
<1>8. Kinds'
  BY SeeTakenIs DEF Sound, Kinds
<1> QED
  BY SeeTakenIs, <1>1, <1>2, <1>3, <1>4, <1>5, <1>6, <1>7, <1>8 DEF Sound

LEMMA TakeAnswerSound ==
  ASSUME Sound, TakeAnswer
  PROVE  Sound'
<1>0. TypeOK /\ Serving
  BY DEF Sound
<1> USE <1>0
<1>1. CallerSound'
  <2>1. fw.call \in DOMAIN calls /\ "out" \notin Words
    BY TakeAnswerIs, Waits, TypedCalls
  <2> QED
    BY <2>1, TakeAnswerIs DEF Sound, CallerSound, Ends
<1>2. Held'
  <2>1. /\ fw.call \in DOMAIN calls /\ calls[fw.call].ans = "out" /\ blk[fw.at].seq = seqs[fw.at]
        /\ blk[fw.at].call = fw.call
    BY TakeAnswerIs, Waits DEF Sound, CallerSound
  <2> QED
    BY <2>1, TakeAnswerIs DEF Sound, Held, Ends, MagicOff
<1>3. Magic'
  BY TakeAnswerIs DEF Sound, Magic, MagicOff
<1>4. Serving'
  BY TakeAnswerIs, Typed DEF Sound, CallerSound, Serving, Ends, MagicOff, Loose
<1>5. Told'
  BY TakeAnswerIs DEF Told
<1>6. Refused'
  <2>1. fw.call \in DOMAIN calls /\ "noglass" \notin Words
    BY TakeAnswerIs, Waits, TypedCalls
  <2> QED
    BY <2>1, TakeAnswerIs DEF Sound, Refused, Ends
<1>7. OwnAnswer'
  <2> SUFFICES ASSUME NEW c \in DOMAIN calls, calls'[c].ans \in Words, calls'[c].flaw = "none"
               PROVE  calls'[c].ans \in Results /\ result[c] = calls'[c].ans
    BY TakeAnswerIs, Waits DEF OwnAnswer, Ends
  <2>1. CASE c = fw.call
    BY <2>1, TakeAnswerIs DEF Ends
  <2>2. CASE c # fw.call
    BY <2>2, TakeAnswerIs DEF Sound, OwnAnswer, Ends
  <2> QED
    BY <2>1, <2>2
<1>8. Kinds'
  BY TakeAnswerIs, Waits, TypedCalls DEF Sound, Kinds, Ends
<1> QED
  BY TakeAnswerIs, <1>1, <1>2, <1>3, <1>4, <1>5, <1>6, <1>7, <1>8 DEF Sound

LEMMA GiveUpSound ==
  ASSUME Sound, GiveUp
  PROVE  Sound'
<1>0. TypeOK /\ Serving
  BY DEF Sound
<1> USE <1>0
<1>1. CallerSound'
  BY GiveUpIs DEF Sound, CallerSound, Ends, ServesSame
<1>2. Held'
  <2>1. /\ fw.call \in DOMAIN calls /\ calls[fw.call].ans = "out" /\ blk[fw.at].seq = seqs[fw.at]
        /\ blk[fw.at].call = fw.call
    BY GiveUpIs, Waits DEF Sound, CallerSound
  <2> QED
    BY <2>1, GiveUpIs DEF Sound, Held, Ends, MagicOff, Tears
<1>3. Magic'
  BY GiveUpIs DEF Sound, Magic, MagicOff
<1>4. Serving'
  BY GiveUpIs, Typed DEF Sound, CallerSound, Serving, Ends, MagicOff, Tears, Loose
<1>5. Told'
  BY GiveUpIs DEF Told
<1>6. Refused'
  BY GiveUpIs DEF Sound, Refused, Ends
<1>7. OwnAnswer'
  BY GiveUpIs, TypedCalls DEF Sound, OwnAnswer, Ends
<1>8. Kinds'
  BY GiveUpIs DEF Sound, Kinds, Ends
<1> QED
  BY GiveUpIs, <1>1, <1>2, <1>3, <1>4, <1>5, <1>6, <1>7, <1>8 DEF Sound

LEMMA RestartSound ==
  ASSUME Sound, NEW cold \in BOOLEAN, Restart(cold)
  PROVE  Sound'
<1>0. TypeOK /\ Serving /\ CallerSound
  BY DEF Sound
<1> USE <1>0
<1>1. CallerSound'
  BY RestartIs DEF CallerSound, ServesSame
<1>2. Held'
  <2>1. \A c \in DOMAIN calls : calls'[c].boot # boot'
    BY RestartIs, TypedCalls DEF Sound, Kinds
  <2>2. CASE cold
    <3>1. \A b \in Blocks : blk'[b] = NoBlock
      BY <2>2, RestartIs
    <3>2. ~NoBlock.whole
      BY DEF NoBlock
    <3> QED
      BY <3>1, <3>2 DEF Held
  <2>3. CASE ~cold
    BY <2>1, <2>3, RestartIs DEF Sound, Held
  <2> QED
    BY <2>2, <2>3
<1>3. Magic'
  BY RestartIs DEF Sound, Magic, NoBlock
<1>4. Serving'
  <2>1. gl.call # 0 => /\ gl.call \in DOMAIN calls /\ calls[gl.call].boot <= boot /\ boot' = boot + 1
                       /\ calls[gl.call].boot \in Nat /\ boot \in Nat
    BY RestartIs, TypedCalls DEF Sound, Serving, Kinds
  <2>2. gl.call # 0 => calls'[gl.call].boot # boot'
    BY <2>1, RestartIs
  <2>3. ASSUME gl.call # 0
        PROVE  /\ gl.call \in DOMAIN calls' /\ calls'[gl.call].at = calls[gl.call].at
               /\ calls'[gl.call].ans \in {calls[gl.call].ans, "lost"} /\ calls'[gl.call].flaw = calls[gl.call].flaw
               /\ calls[gl.call].ans = "lost" => calls'[gl.call].ans = "lost"
    BY <2>1, <2>3, RestartIs
  <2>4. ASSUME gl.call # 0, Loose(gl.call) \/ (fw.pc = "wait" /\ fw.call = gl.call)
        PROVE  Loose(gl.call)'
    BY <2>1, <2>4, RestartIs DEF Loose
  <2> QED
    BY <2>2, <2>3, <2>4, RestartIs DEF Serving, Loose
<1>5. Told'
  BY RestartIs DEF Told
<1>6. Refused'
  BY RestartIs DEF Sound, Refused
<1>7. OwnAnswer'
  BY RestartIs, TypedCalls DEF Sound, OwnAnswer
<1>8. Kinds'
  BY RestartIs, TypedCalls DEF Sound, Kinds
<1> QED
  BY RestartIs, <1>1, <1>2, <1>3, <1>4, <1>5, <1>6, <1>7, <1>8 DEF Sound

LEMMA InitSound == Init => Sound
<1> SUFFICES ASSUME Init PROVE Sound
  OBVIOUS
<1>1. NoBlock \in Block /\ Running \in Caller /\ Polling("sector") \in Thread
  BY BoundsAssumption DEF NoBlock, Block, Running, Caller, Polling, Thread, Blocks, Words
<1>2. DOMAIN calls = {} /\ calls = <<>> /\ result = <<>> /\ saw = <<>> /\ ran = <<>>
  BY DEF Init
<1>3. TypeOK
  BY <1>1, <1>2, BoundsAssumption DEF Init, TypeOK
<1>4. CallerSound /\ Refused /\ Kinds /\ OwnAnswer
  BY <1>2 DEF Init, CallerSound, Running, Refused, Kinds, OwnAnswer
<1>5. Held /\ Magic /\ Serving /\ Told
  BY <1>2 DEF Init, Held, Magic, Serving, Told, Running, Polling, NoBlock
<1> QED
  BY <1>3, <1>4, <1>5 DEF Sound

LEMMA NextSound ==
  ASSUME Sound, [Next]_vars
  PROVE  Sound'
<1>1. CASE Firmware
  BY <1>1, IssueSound, PublishSound, SeeTakenSound, TakeAnswerSound, GiveUpSound DEF Firmware
<1>2. CASE Glass
  <2>1. GlassOnly
    BY <1>2 DEF Glass, GlassOnly
  <2>2. CASE Serve \/ Read
    BY <2>1, <2>2, ServeSound, ReadSound
  <2>3. CASE (Look \/ Copy \/ Take \/ CopyData \/ Flush \/ Done \/ Ack) /\ UNCHANGED <<result, saw>>
    BY <2>1, <2>3, LookSound, CopySound, TakeSound, CopyDataSound, FlushSound, DoneSound, AckSound
  <2> QED
    BY <1>2, <2>2, <2>3 DEF Glass
<1>3. ASSUME NEW cold \in BOOLEAN, Restart(cold) PROVE Sound'
  BY <1>3, RestartSound
<1>4. CASE UNCHANGED vars
  BY <1>4 DEF vars, Sound, TypeOK, CallerSound, ServesSame, Loose, Held, Magic, Serving, Told, Refused, Kinds, OwnAnswer
<1> QED
  BY <1>1, <1>2, <1>3, <1>4 DEF Next

-----------------------------------------------------------------------------
(* Shown, Counted and GenTold. *)

LEMMA TypedCard ==
  ASSUME TypeOK
  PROVE  /\ ran \in Seq([call : Calls, data : 0..MaxCalls]) /\ Len(ran) \in Nat
         /\ disk \in Nat /\ gen \in Nat /\ cgen \in Nat /\ boot \in Nat
         /\ \A c \in DOMAIN calls : calls[c].gen \in Nat /\ saw[c] \in Nat /\ c \in Nat
<1>1. \A c \in DOMAIN calls : calls[c] \in Call /\ saw[c] \in Nat /\ c \in Nat
  BY DEF TypeOK
<1> QED
  BY <1>1 DEF TypeOK, Call

LEMMA OnCardGrows ==
  ASSUME NEW S, NEW r \in Seq(S), NEW e \in S, NEW n \in 0..Len(r)
  PROVE  /\ OnCard(Append(r, e), n) = OnCard(r, n)
         /\ OnCard(Append(r, e), Len(r) + 1) = OnCard(r, Len(r)) \union {e.call}
<1>1. /\ Len(r) \in Nat /\ \A i \in 1..Len(r) : Append(r, e)[i] = r[i]
      /\ Append(r, e)[Len(r) + 1] = e
  OBVIOUS
<1>2. \A i \in 1..n : i \in 1..Len(r)
  BY <1>1
<1>3. 1..(Len(r) + 1) = 1..Len(r) \union {Len(r) + 1}
  BY <1>1
<1> QED
  BY <1>1, <1>2, <1>3 DEF OnCard

LEMMA OnCardMonotone ==
  ASSUME NEW r, NEW n \in Nat, NEW m \in Nat, n <= m
  PROVE  OnCard(r, n) \subseteq OnCard(r, m)
BY DEF OnCard

\* Glass serves no call whose answer the firmware takes.
LEMMA AnsweredIsFlushed ==
  ASSUME Sound, TakeAnswer
  PROVE  ~(gl.pc = "flush" /\ gl.call = fw.call) /\ fw.call \in DOMAIN calls /\ fw.call = Len(calls)
BY TakeAnswerIs, Waits DEF Sound, CallerSound

LEMMA ShownKept ==
  ASSUME Sound, Shown, [Next]_vars
  PROVE  Shown'
<1> USE DEF Sound
<1>0. TypeOK /\ Serving /\ CallerSound
  OBVIOUS
<1>1. ASSUME NEW b \in Blocks, Issue(b) PROVE Shown'
  <2>1. Written \subseteq OnCard(ran, disk)
    BY DEF Written, Shown
  <2>2. /\ "out" # "done" /\ "none" \notin {"done", "read"} /\ 0 <= Len(ran)
    BY <1>0, TypedCard
  <2> QED
    BY <1>0, <1>1, <2>1, <2>2, IssueIs DEF Shown
<1>2. CASE Publish
  BY <1>0, <1>2, PublishIs DEF Shown
<1>3. CASE SeeTaken
  BY <1>0, <1>3, SeeTakenIs DEF Shown
<1>4. CASE TakeAnswer
  BY <1>4, TakeAnswerIs, AnsweredIsFlushed DEF Shown, Ends
<1>5. CASE GiveUp
  BY <1>5, GiveUpIs, Waits DEF Shown, Ends
<1>6. ASSUME NEW cold \in BOOLEAN, Restart(cold) PROVE Shown'
  BY <1>0, <1>6, RestartIs DEF Shown
<1>7. CASE Glass
  <2>1. GlassOnly
    BY <1>7 DEF Glass, GlassOnly
  <2>2. CASE Serve
    <3> DEFINE e == [call |-> gl.call, data |-> gl.got]
    <3>1. e \in [call : Calls, data : 0..MaxCalls] /\ e.call = gl.call /\ gl.call \in DOMAIN calls
      BY <1>0, <2>2, Typed DEF Serving, Serve, TypeOK, Calls
    <3> HIDE DEF e
    <3>2. disk \in 0..Len(ran) /\ Len(ran) \in 0..Len(ran) /\ Len(ran) \in Nat
      BY <1>0, TypedCard DEF Shown
    <3>3. CASE gl'.res = "refused"
      BY <1>0, <2>1, <2>2, <3>1, <3>3, ServeIs DEF Shown, Same
    <3>4. CASE gl'.res # "refused"
      <4>1. ran' = Append(ran, e)
        BY <1>0, <2>1, <2>2, <3>4, ServeIs DEF e
      <4>2. Len(ran') = Len(ran) + 1 /\ OnCard(ran', disk) = OnCard(ran, disk) /\ gl.call \in OnCard(ran', Len(ran'))
        <5> DEFINE S == [call : Calls, data : 0..MaxCalls]
        <5>1. ran \in Seq(S) /\ e \in S
          BY <1>0, <3>1, TypedCard
        <5> HIDE DEF S
        <5>2. Len(ran') = Len(ran) + 1
          BY <3>1, <4>1, <5>1
        <5>3. /\ OnCard(ran', disk) = OnCard(ran, disk)
              /\ OnCard(ran', Len(ran) + 1) = OnCard(ran, Len(ran)) \union {e.call}
          BY <3>1, <3>2, <4>1, <5>1, OnCardGrows
        <5> QED
          BY <3>1, <5>2, <5>3
      <4>3. \A c \in DOMAIN calls : saw[c] <= Len(ran') /\ OnCard(ran', saw[c]) = OnCard(ran, saw[c])
        <5>1. TAKE c \in DOMAIN calls
        <5>2. saw[c] \in 0..Len(ran) /\ saw[c] <= Len(ran) /\ saw[c] \in Nat
          BY <1>0, TypedCard DEF Shown
        <5>3. OnCard(Append(ran, e), saw[c]) = OnCard(ran, saw[c])
          <6> DEFINE S == [call : Calls, data : 0..MaxCalls]
          <6>1. ran \in Seq(S) /\ e \in S
            BY <1>0, <3>1, TypedCard
          <6> HIDE DEF S
          <6> QED
            BY <5>2, <6>1, OnCardGrows
        <5> QED
          BY <3>2, <4>1, <4>2, <5>2, <5>3
      <4> QED
        BY <1>0, <2>1, <2>2, <3>1, <3>2, <4>2, <4>3, ServeIs DEF Shown, Same
    <3> QED
      BY <3>3, <3>4
  <2>3. CASE Read
    <3>1. raw' = disk /\ disk <= Len(ran)
      BY <1>0, <2>1, <2>3, ReadIs, TypedCard DEF Shown
    <3> QED
      BY <1>0, <2>1, <2>3, <3>1, ReadIs DEF Shown, Same
  <2>4. CASE Flush /\ UNCHANGED <<result, saw>>
    <3>1. OnCard(ran, disk) \subseteq OnCard(ran, Len(ran)) /\ Len(ran) <= Len(ran)
      BY <1>0, TypedCard, OnCardMonotone DEF Shown
    <3> QED
      BY <1>0, <2>1, <2>4, <3>1, FlushIs DEF Shown, Same, Histories
  <2>5. CASE Look /\ UNCHANGED <<result, saw>>
    BY <1>0, <2>1, <2>5, LookIs DEF Shown, Histories
  <2>6. CASE Copy /\ UNCHANGED <<result, saw>>
    BY <1>0, <2>1, <2>6, CopyIs DEF Shown, Histories
  <2>7. CASE Take /\ UNCHANGED <<result, saw>>
    BY <1>0, <2>1, <2>7, TakeIs DEF Shown, Histories
  <2>8. CASE CopyData /\ UNCHANGED <<result, saw>>
    BY <1>0, <2>1, <2>8, CopyDataIs DEF Shown, Histories
  <2>9. CASE Done /\ UNCHANGED <<result, saw>>
    BY <1>0, <2>1, <2>9, DoneIs DEF Shown, Histories
  <2>10. CASE Ack /\ UNCHANGED <<result, saw>>
    BY <1>0, <2>1, <2>10, AckIs DEF Shown, Histories
  <2> QED
    BY <1>7, <2>2, <2>3, <2>4, <2>5, <2>6, <2>7, <2>8, <2>9, <2>10 DEF Glass
<1>8. CASE UNCHANGED vars
  BY <1>8 DEF vars, card, glass, Shown
<1> QED
  BY <1>1, <1>2, <1>3, <1>4, <1>5, <1>6, <1>7, <1>8 DEF Next, Firmware

LEMMA CountedKept ==
  ASSUME Sound, Counted, GenTold, [Next]_vars
  PROVE  Counted' /\ GenTold'
<1> USE DEF Sound
<1>0. TypeOK /\ Serving /\ CallerSound /\ Kinds
  OBVIOUS
<1>1. ASSUME NEW b \in Blocks, Issue(b) PROVE Counted' /\ GenTold'
  <2>1. Counted'
    BY <1>0, <1>1, IssueIs, TypedCard DEF Counted
  <2>2. GenTold'
    <3> SUFFICES ASSUME NEW c \in DOMAIN calls', NEW d \in DOMAIN calls', c < d, calls'[c].boot = calls'[d].boot,
                        calls'[c].at = "file", calls'[d].ans = "done", calls'[d].flaw = "none"
                 PROVE  calls'[c].gen < calls'[d].gen
      BY DEF GenTold
    <3>1. d \in DOMAIN calls /\ d < New /\ New \in Nat /\ d \in Nat
      BY <1>0, <1>1, IssueIs, TypedCard DEF Calls
    <3>2. c \in DOMAIN calls
      BY <1>0, <1>1, <3>1, IssueIs
    <3> QED
      BY <1>0, <1>1, <3>1, <3>2, IssueIs DEF GenTold
  <2> QED
    BY <2>1, <2>2
<1>2. CASE Publish
  BY <1>0, <1>2, PublishIs DEF Counted, GenTold, CallerSound
<1>3. CASE SeeTaken
  BY <1>0, <1>3, SeeTakenIs DEF Counted, GenTold
<1>4. CASE TakeAnswer
  <2>1. Counted'
    BY <1>0, <1>4, TakeAnswerIs, AnsweredIsFlushed, TypedCard DEF Counted, Ends
  <2>2. result[fw.call] = "done" => \A c \in DOMAIN calls : c < fw.call /\ calls[c].boot = boot => calls[c].gen < cgen
    BY <1>4, TakeAnswerIs, AnsweredIsFlushed DEF Counted
  <2>3. /\ \A d \in DOMAIN calls : d <= fw.call /\ d \in Nat
        /\ fw.call \in DOMAIN calls /\ calls[fw.call].boot = boot
    <3>1. calls \in Seq(Call)
      BY <1>0 DEF TypeOK
    <3>2. fw.call \in DOMAIN calls /\ calls[fw.call].boot = boot /\ fw.call = Len(calls)
      BY <1>4, TakeAnswerIs, AnsweredIsFlushed, Waits
    <3> QED
      BY <3>1, <3>2
  <2>4. GenTold'
    <3> SUFFICES ASSUME NEW c \in DOMAIN calls, NEW d \in DOMAIN calls, c < d, calls[c].boot = calls[d].boot,
                        calls[c].at = "file", calls'[d].ans = "done", calls'[d].flaw = "none"
                 PROVE  calls'[c].gen < calls'[d].gen
      BY <1>4, TakeAnswerIs DEF GenTold, Ends
    <3>1. c # fw.call /\ calls'[c].gen = calls[c].gen
      BY <1>4, <2>3, TakeAnswerIs DEF Ends
    <3>2. CASE d = fw.call
      BY <1>4, <2>2, <2>3, <3>1, <3>2, TakeAnswerIs DEF Ends
    <3>3. CASE d # fw.call
      BY <1>4, <3>1, <3>3, TakeAnswerIs DEF Ends, GenTold
    <3> QED
      BY <3>2, <3>3
  <2> QED
    BY <2>1, <2>4
<1>5. CASE GiveUp
  <2>1. /\ \A d \in DOMAIN calls : d <= fw.call /\ d \in Nat
        /\ fw.call \in DOMAIN calls
    <3>1. calls \in Seq(Call)
      BY <1>0 DEF TypeOK
    <3>2. fw.call \in DOMAIN calls /\ fw.call = Len(calls)
      BY <1>0, <1>5, GiveUpIs, Waits DEF CallerSound
    <3> QED
      BY <3>1, <3>2
  <2>2. Counted'
    BY <1>0, <1>5, <2>1, GiveUpIs, TypedCard DEF Counted, Ends
  <2>3. GenTold'
    BY <1>5, <2>1, GiveUpIs DEF GenTold, Ends
  <2> QED
    BY <2>2, <2>3
<1>6. ASSUME NEW cold \in BOOLEAN, Restart(cold) PROVE Counted' /\ GenTold'
  <2>1. \A c \in DOMAIN calls : calls'[c].boot # boot'
    BY <1>0, <1>6, RestartIs, TypedCalls DEF Kinds
  <2>2. Counted'
    BY <1>0, <1>6, <2>1, RestartIs, TypedCard DEF Counted
  <2>3. GenTold'
    BY <1>0, <1>6, RestartIs DEF GenTold
  <2> QED
    BY <2>2, <2>3
<1>7. CASE Glass
  <2>1. GlassOnly
    BY <1>7 DEF Glass, GlassOnly
  <2>2. GenTold'
    BY <2>1 DEF GlassOnly, GenTold
  <2>3. CASE Serve
    BY <1>0, <2>1, <2>2, <2>3, ServeIs, Waits DEF Counted, Same, GlassOnly
  <2>4. CASE Read
    BY <1>0, <2>1, <2>2, <2>4, ReadIs, Waits DEF Counted, Same, GlassOnly
  <2>5. CASE Flush /\ UNCHANGED <<result, saw>>
    <3>1. gl.call \in DOMAIN calls /\ result[gl.call] = gl.res
      BY <1>0, <2>1, <2>5, FlushIs DEF Serving
    <3>2. cgen' <= gen' /\ cgen <= cgen' /\ (gl.res = "done" => cgen < cgen')
      BY <1>0, <2>1, <2>5, FlushIs, TypedCard DEF Counted
    <3>3. cgen' \in Nat
      BY <1>0, <2>1, <2>5, FlushIs, TypedCard
    <3> QED
      BY <1>0, <2>1, <2>2, <2>5, <3>1, <3>2, <3>3, FlushIs, TypedCard DEF Counted, Same, Histories, GlassOnly
  <2>6. CASE Look /\ UNCHANGED <<result, saw>>
    BY <1>0, <2>1, <2>2, <2>6, LookIs DEF Counted, Histories, GlassOnly
  <2>7. CASE Copy /\ UNCHANGED <<result, saw>>
    BY <1>0, <2>1, <2>2, <2>7, CopyIs DEF Counted, Histories, GlassOnly
  <2>8. CASE Take /\ UNCHANGED <<result, saw>>
    BY <1>0, <2>1, <2>2, <2>8, TakeIs DEF Counted, Histories, GlassOnly
  <2>9. CASE CopyData /\ UNCHANGED <<result, saw>>
    BY <1>0, <2>1, <2>2, <2>9, CopyDataIs DEF Counted, Histories, GlassOnly
  <2>10. CASE Done /\ UNCHANGED <<result, saw>>
    BY <1>0, <2>1, <2>2, <2>10, DoneIs DEF Counted, Histories, GlassOnly
  <2>11. CASE Ack /\ UNCHANGED <<result, saw>>
    BY <1>0, <2>1, <2>2, <2>11, AckIs DEF Counted, Histories, GlassOnly
  <2> QED
    BY <1>7, <2>2, <2>3, <2>4, <2>5, <2>6, <2>7, <2>8, <2>9, <2>10, <2>11 DEF Glass
<1>8. CASE UNCHANGED vars
  BY <1>8 DEF vars, card, glass, Counted, GenTold
<1> QED
  BY <1>1, <1>2, <1>3, <1>4, <1>5, <1>6, <1>7, <1>8 DEF Next, Firmware

-----------------------------------------------------------------------------
(* The theorems. *)

LEMMA InitInv == Init => Inv
<1> SUFFICES ASSUME Init PROVE Inv
  OBVIOUS
<1>1. DOMAIN calls = {} /\ Len(ran) = 0
  BY DEF Init
<1>2. Shown /\ Counted /\ GenTold
  BY <1>1 DEF Init, Shown, Counted, GenTold, Running
<1> QED
  BY <1>2, InitSound DEF Inv

LEMMA NextInv ==
  ASSUME Inv, [Next]_vars
  PROVE  Inv'
BY NextSound, ShownKept, CountedKept DEF Inv

\* Inv is an invariant.
THEOREM Inductive == Spec => []Inv
<1>1. Init => Inv
  BY InitInv
<1>2. Inv /\ [Next]_vars => Inv'
  BY NextInv
<1> QED
  BY <1>1, <1>2, PTL DEF Spec

\* Every variable keeps its kind (FileBlock's TypeOK).
THEOREM TypeCorrect == Spec => []TypeOK
<1>1. Inv => TypeOK
  BY DEF Inv, Sound
<1> QED
  BY <1>1, Inductive, PTL

\* The firmware takes only the answer to its own request.
THEOREM TakesOwnAnswer == Spec => []OwnAnswer
<1>1. Inv => OwnAnswer
  BY DEF Inv, Sound
<1> QED
  BY <1>1, Inductive, PTL

\* A sector read shows every write answered before it was asked.
THEOREM ReadsShowWrites == Spec => []ReadsSeeWrites
<1>1. Inv => ReadsSeeWrites
  BY DEF Inv, Sound, Shown, OwnAnswer, ReadsSeeWrites, OnCard, Results, Words
<1> QED
  BY <1>1, Inductive, PTL

\* The generation told with a write is past every one told before it.
THEOREM TellsGen == Spec => []GenTold
<1>1. Inv => GenTold
  BY DEF Inv
<1> QED
  BY <1>1, Inductive, PTL

-----------------------------------------------------------------------------
(* The blocks keep the promise of the calls: FileCall, with the histories for *)
(* its state.                                                                 *)

Ans == [c \in DOMAIN calls |-> AnswerOf(c)]
Stutter == UNCHANGED <<Ans, result, ran>>

LEMMA AnsKept == UNCHANGED calls => Ans' = Ans
BY DEF Ans, AnswerOf

LEMMA InitPromise == Init => Promise!Init
<1> SUFFICES ASSUME Init PROVE Ans = <<>> /\ result = <<>> /\ ran = <<>>
  BY DEF Promise!Init, Ans
<1>1. DOMAIN calls = {} /\ result = <<>> /\ ran = <<>>
  BY DEF Init
<1> QED
  BY <1>1 DEF Ans

LEMMA IssueAsks ==
  ASSUME TypeOK, NEW b \in Blocks, Issue(b)
  PROVE  Promise!Ask
<1>1. calls \in Seq(Call) /\ result' = Append(result, "none") /\ UNCHANGED ran
  BY DEF TypeOK, Issue, card
<1>2. Ans' = Append(Ans, "out")
  <2>1. Len(calls) \in Nat /\ DOMAIN calls = 1..Len(calls) /\ DOMAIN calls' = 1..(Len(calls) + 1)
    BY <1>1, IssueIs DEF New
  <2>2. Ans \in Seq(Answers \union {"unsure"}) /\ Len(Ans) = Len(calls)
    <3>1. \A c \in 1..Len(calls) : AnswerOf(c) \in Answers \union {"unsure"}
      <4>1. \A c \in 1..Len(calls) : calls[c] \in Call
        BY <1>1
      <4> QED
        BY <4>1 DEF Call, AnswerOf
    <3>2. Ans = [c \in 1..Len(calls) |-> AnswerOf(c)]
      BY <2>1 DEF Ans
    <3> QED
      BY <2>1, <3>1, <3>2
  <2>3. \A i \in 1..(Len(calls) + 1) : AnswerOf(i)' = IF i = Len(calls) + 1 THEN "out" ELSE AnswerOf(i)
    BY <2>1, IssueIs DEF New, AnswerOf
  <2> QED
    BY <2>1, <2>2, <2>3 DEF Ans
<1> QED
  BY <1>1, <1>2 DEF Promise!Ask, Ans

\* What glass carries out was not refused for want of glass.
LEMMA ServedAnswer ==
  ASSUME Sound, gl.pc \in {"serve", "read"}
  PROVE  gl.call \in DOMAIN calls /\ AnswerOf(gl.call) # "noglass"
BY DEF Sound, Serving, AnswerOf

LEMMA ServeDoes ==
  ASSUME Sound, Serve, GlassOnly
  PROVE  Promise!Do(gl.call)
<1>1. /\ gl.call \in DOMAIN calls /\ gl.pc = "serve" /\ result[gl.call] = "none" /\ gl.got \in 0..MaxCalls
      /\ Loose(gl.call) \/ gl.got = gl.call
  BY Typed DEF Sound, Serving, Serve
<1>2. Ans[gl.call] = AnswerOf(gl.call) /\ Ans' = Ans /\ Ans[gl.call] # "noglass"
  BY <1>1, AnsKept, ServedAnswer DEF Ans, GlassOnly, Serve
<1>3. gl.got \in IF Ans[gl.call] \in {"lost", "unsure"} THEN 0..MaxCalls ELSE {gl.call}
  <2>1. Loose(gl.call) => AnswerOf(gl.call) \in {"lost", "unsure"}
    BY <1>1 DEF Sound, CallerSound, Loose, AnswerOf
  <2> QED
    BY <1>1, <1>2, <2>1
<1>4. PICK r \in {"done", "refused", "cut"} :
        /\ ran' = IF r = "refused" THEN ran ELSE Append(ran, [call |-> gl.call, data |-> gl.got])
        /\ result' = [result EXCEPT ![gl.call] = r]
  BY DEF Serve
<1>5. r \in Results /\ (r \in {"done", "cut"} <=> r # "refused")
  BY DEF Results
<1>6. ran' = IF r \in {"done", "cut"} THEN Append(ran, [call |-> gl.call, data |-> gl.got]) ELSE ran
  BY <1>4, <1>5
<1> QED
  BY <1>1, <1>2, <1>3, <1>4, <1>5, <1>6 DEF Promise!Do, Ans

LEMMA ReadDoes ==
  ASSUME Sound, Read, GlassOnly
  PROVE  Promise!Do(gl.call)
<1>1. gl.call \in DOMAIN calls /\ result[gl.call] = "none" /\ gl.call \in 0..MaxCalls
  BY Typed DEF Sound, Serving, Read
<1>2. Ans[gl.call] = AnswerOf(gl.call) /\ Ans' = Ans /\ Ans[gl.call] # "noglass"
  BY <1>1, AnsKept, ServedAnswer DEF Ans, GlassOnly, Read
<1>3. gl.call \in IF Ans[gl.call] \in {"lost", "unsure"} THEN 0..MaxCalls ELSE {gl.call}
  BY <1>1, <1>2
<1>4. PICK r \in {"read", "refused"} : result' = [result EXCEPT ![gl.call] = r]
  BY DEF Read
<1>5. r \in Results /\ r \notin {"done", "cut"} /\ ran' = ran
  BY DEF Results, Read
<1> QED
  BY <1>1, <1>2, <1>3, <1>4, <1>5 DEF Promise!Do, Ans

\* A call that ends as `a` ends in a Return of the promise.
LEMMA Returns ==
  ASSUME TypeOK, NEW c \in DOMAIN calls, calls[c].ans = "out", UNCHANGED <<result, ran>>,
         DOMAIN calls' = DOMAIN calls, AnswerOf(c)' \in {result[c], "late", "noglass", "unsure", "lost"},
         AnswerOf(c)' # "none", AnswerOf(c)' = "noglass" => result[c] = "none",
         \A d \in DOMAIN calls : d # c => calls'[d].ans = calls[d].ans /\ calls'[d].flaw = calls[d].flaw
  PROVE  Promise!Return(c)
<1>1. Ans[c] = "out"
  BY DEF Ans, AnswerOf
<1>2. Ans' = [Ans EXCEPT ![c] = AnswerOf(c)']
  <2>1. \A d \in DOMAIN calls : d # c => AnswerOf(d)' = AnswerOf(d)
    BY DEF AnswerOf
  <2> QED
    BY <2>1 DEF Ans
<1> QED
  BY <1>1, <1>2 DEF Promise!Return, Ans

LEMMA NextPromise ==
  ASSUME Inv, [Next]_vars
  PROVE  [Promise!Next]_(Promise!vars)
<1>0. Sound /\ TypeOK
  BY DEF Inv, Sound
<1> SUFFICES Promise!Next \/ Stutter
  BY DEF Promise!vars, Stutter, Ans
<1>1. ASSUME NEW c \in DOMAIN calls, Promise!Do(c) \/ Promise!Return(c) PROVE Promise!Next
  BY <1>1 DEF Promise!Next, Ans
<1>2. ASSUME NEW b \in Blocks, Issue(b) PROVE Promise!Next
  BY <1>0, <1>2, IssueAsks DEF Promise!Next
<1>3. CASE Publish \/ SeeTaken
  BY <1>3, AnsKept DEF Publish, SeeTaken, card, Stutter
<1>4. CASE TakeAnswer
  <2>0. PICK c \in DOMAIN calls : c = fw.call
    BY <1>0, <1>4, TakeAnswerIs, Waits
  <2>1. calls[c].ans = "out"
    BY <1>0, <1>4, <2>0, TakeAnswerIs, Waits
  <2> DEFINE a == calls'[c].ans
  <2>2. /\ Ends(c, a, cgen, calls[c].flaw) /\ a \in Words
        /\ calls[c].flaw = "none" => a \in Results /\ a = result[c]
    BY <1>0, <1>4, <2>0, TakeAnswerIs
  <2>3. UNCHANGED <<result, ran>>
    BY <1>0, <1>4, TakeAnswerIs
  <2>4. AnswerOf(c)' = IF calls[c].flaw = "none" THEN result[c] ELSE "unsure"
    BY <1>0, <2>2, TypedCalls DEF Ends, AnswerOf
  <2>5. calls[c].flaw = "none" => result[c] \notin {"none", "noglass"}
    BY <1>0, <2>2, TypedCalls
  <2> QED
    BY <1>0, <1>1, <2>1, <2>2, <2>3, <2>4, <2>5, Returns DEF Ends
<1>5. CASE GiveUp
  <2>0. PICK c \in DOMAIN calls : c = fw.call
    BY <1>0, <1>5, GiveUpIs, Waits
  <2>1. calls[c].ans = "out"
    BY <1>0, <1>5, <2>0, GiveUpIs, Waits
  <2> DEFINE a == calls'[c].ans
  <2>2. /\ Ends(c, a, calls'[c].gen, calls'[c].flaw)
        /\ a \in {"late", "noglass"} /\ (Tears => calls'[c].flaw = "torn")
        /\ a = "noglass" /\ ~Tears => result[c] = "none"
    BY <1>0, <1>5, <2>0, GiveUpIs
  <2>4. AnswerOf(c)' \in {a, "unsure"} /\ (AnswerOf(c)' = "noglass" => result[c] = "none")
    BY <2>2 DEF Ends, AnswerOf
  <2>3. UNCHANGED <<result, ran>>
    BY <1>0, <1>5, GiveUpIs
  <2> QED
    BY <1>0, <1>1, <2>1, <2>2, <2>3, <2>4, Returns DEF Ends
<1>6. ASSUME NEW cold \in BOOLEAN, Restart(cold) PROVE Promise!Next \/ Stutter
  <2>0. CallerSound
    BY <1>0 DEF Sound
  <2>1. /\ UNCHANGED <<result, ran>> /\ DOMAIN calls' = DOMAIN calls
        /\ \A c \in DOMAIN calls : /\ calls'[c].ans = IF fw.pc # "run" /\ c = fw.call THEN "lost" ELSE calls[c].ans
                                   /\ calls'[c].flaw = calls[c].flaw
    BY <1>0, <1>6, <2>0, RestartIs
  <2>2. CASE fw.pc = "run"
    BY <2>1, <2>2 DEF Stutter, Ans, AnswerOf
  <2>3. CASE fw.pc # "run"
    <3>0. PICK c \in DOMAIN calls : c = fw.call
      BY <1>0, <2>3, Waits
    <3>1. calls[c].ans = "out"
      BY <1>0, <2>3, <3>0, Waits
    <3>2. AnswerOf(c)' = "lost"
      BY <2>1, <2>3, <3>0 DEF AnswerOf
    <3> QED
      BY <1>0, <1>1, <2>1, <2>3, <3>0, <3>1, <3>2, Returns
  <2> QED
    BY <2>2, <2>3
<1>7. CASE Glass
  <2>1. GlassOnly
    BY <1>7 DEF Glass, GlassOnly
  <2>2. CASE Serve \/ Read
    <3>1. gl.call \in DOMAIN calls
      BY <1>0, <2>2 DEF Sound, Serving, Serve, Read
    <3> QED
      BY <1>0, <1>1, <2>1, <2>2, <3>1, ServeDoes, ReadDoes
  <2>3. CASE (Look \/ Copy \/ Take \/ CopyData \/ Flush \/ Done \/ Ack) /\ UNCHANGED <<result, saw>>
    BY <2>1, <2>3, AnsKept DEF Stutter, GlassOnly, Look, Copy, Take, CopyData, Flush, Done, Ack, card
  <2> QED
    BY <1>7, <2>2, <2>3 DEF Glass
<1>8. CASE UNCHANGED vars
  BY <1>8, AnsKept DEF vars, card, Stutter
<1> QED
  BY <1>2, <1>3, <1>4, <1>5, <1>6, <1>7, <1>8 DEF Next, Firmware

\* The two blocks implement what a cart may rely on (FileCall).
THEOREM ImplementsFileCall == Spec => KeepsPromise
<1>1. Init => Promise!Init
  BY InitPromise
<1>2. Inv /\ [Next]_vars => [Promise!Next]_(Promise!vars)
  BY NextPromise
<1> QED
  BY <1>1, <1>2, Inductive, PTL DEF Spec, KeepsPromise, Promise!Spec
=============================================================================
