---------------------------- MODULE GemdosWrite ----------------------------
(***************************************************************************)
(* GEMDOS's writes, in the cart (rom/kos/gemdos_write.zig, Fclose and      *)
(* Fseek of gemdos_io.zig, Fdelete of gemdos_wops.zig): Fwrite fills one   *)
(* buffer that every handle shares, and what the buffer holds goes to the  *)
(* host as requests on the handle's temporary file (kfs_ops.zig), the last *)
(* of which names it over the real file.                                   *)
(*                                                                         *)
(* A call of the program is a step, except Fwrite, whose loop takes a step *)
(* an iteration half: Take (the buffer changes hands) and Copy.  A request *)
(* is answered within the step that sends it, as the host does.            *)
(*                                                                         *)
(* The files saved are in one folder, where a slot's temporary file is     *)
(* one file; the temporary names are no file a program saves to or         *)
(* deletes.                                                                *)
(***************************************************************************)
EXTENDS Integers

CONSTANTS
  Handles,   \* the handles (0 .. 7)
  Paths,     \* the files of the folder
  Byte,      \* what a byte may be
  Blank,     \* the byte that stands for "not there"
  DataMax,   \* bytes the buffer holds (32768)
  Store0,    \* the files that may be there at the start
  Buffer0,   \* what may be in the buffer's memory at the start
  MaxSize,   \* bound: the size of a file
  MaxCount,  \* bound: bytes that one Fwrite is given
  MaxCalls   \* bound: calls (and restarts) in one behaviour

VARIABLES
  open,      \* the handles that Fcreate gave (File.used and .writing)
  path,      \* WFile.path .. WFile.failed, by handle
  pos,
  size,
  boff,
  blen,
  sent,
  failed,
  wbuf,      \* the buffer
  wowner,    \* the handle it belongs to
  temp,      \* (host) the temporary file of each slot, Blank from tlen on
  tlen,      \* (host) its length, NoTemp if there is none
  store,     \* (host) the files there are
  caller,    \* the handle an Fwrite is busy with, None if none is
  src,       \* the bytes it was given
  count,     \* how many
  done,      \* how many of them are in the buffer
  taken,     \* the buffer was taken in this turn of its loop
  answer,    \* what the last call answered: Ok for 0 or more
  calls      \* calls made so far

file == <<open, path>>
wfile == <<pos, size, boff, blen, sent, failed>>
buffer == <<wbuf, wowner>>
host == <<temp, tlen, store>>
call == <<caller, src, count, done, taken>>
vars == <<file, wfile, buffer, host, call, answer, calls>>

None    == -1
NoTemp  == -1
Ok      == "ok"
Pos     == 0 .. (MaxSize - 1)
Place   == 0 .. (DataMax - 1)
Errors  == {"EIHNDL", "ERANGE", "EACCDN"}   \* EACCDN: any other (EWRITF, EPTHNF)
Empty   == [k \in Pos |-> Blank]
NoBytes == [k \in 0 .. -1 |-> Blank]
NoFile  == [size |-> -1, bytes |-> Empty]
Files   == [size : 0 .. MaxSize, bytes : [Pos -> Byte]]
\* Mutant of Smaller: the buffer's room not looked at.
SmallerOfOne(a, b) == a
Larger(a, b)  == IF a > b THEN a ELSE b
Smaller(a, b) == IF a < b THEN a ELSE b

ASSUME GemdosWriteAssumption ==
  /\ Handles \subseteq Nat
  /\ Blank \in Byte
  /\ DataMax \in Nat \ {0}
  /\ MaxSize \in Nat /\ MaxCount \in Nat /\ MaxCalls \in Nat
  /\ Store0 \subseteq [Paths -> Files \cup {NoFile}]
  /\ Buffer0 \subseteq [Place -> Byte]

Idle == caller = None

\* The program makes a call, and there is none it waits for.
Calls == Idle /\ calls < MaxCalls /\ calls' = calls + 1

-----------------------------------------------------------------------------
\* The host's half of a request on slot i's temporary file (kfs_ops.write).

Owns(i) == wowner = i

\* What a flush of handle i sends: nothing, if it failed or has nothing to send.
Length(i)      == IF Owns(i) THEN blen[i] ELSE 0
\* (Mutant of Offset: always at the end.)
OffsetAtEnd(i) == size[i]
Offset(i)      == IF Owns(i) THEN boff[i] ELSE size[i]
Sends(i, last) == failed[i] = Ok /\ (Length(i) # 0 \/ last)

\* The temporary file it lands in: made afresh by the first request.
Begun(i)     == IF sent[i] THEN temp[i] ELSE Empty
BegunLen(i)  == IF sent[i] THEN tlen[i] ELSE 0
InOrder(i)   == ~sent[i] \/ tlen[i] # NoTemp
InRange(i)   == Offset(i) <= BegunLen(i)

\* That file with the bytes laid in.
Laid(i) ==
  [k \in Pos |-> IF Offset(i) <= k /\ k < Offset(i) + Length(i)
                   THEN wbuf[k - Offset(i)] ELSE Begun(i)[k]]
LaidLen(i) == Larger(BegunLen(i), Offset(i) + Length(i))

Takes(i, last) ==
  /\ InOrder(i) /\ InRange(i)
  /\ IF last
       THEN /\ store' = [store EXCEPT ![path[i]] = [size |-> LaidLen(i), bytes |-> Laid(i)]]
            /\ temp' = [temp EXCEPT ![i] = Empty]
            /\ tlen' = [tlen EXCEPT ![i] = NoTemp]
       ELSE /\ temp' = [temp EXCEPT ![i] = Laid(i)]
            /\ tlen' = [tlen EXCEPT ![i] = LaidLen(i)]
            /\ UNCHANGED store

\* A refusal, for what the request asks or because the disk is full; of a
\* first request the temporary file may be left emptied, or dropped.
Reason(i, e) ==
  IF ~InOrder(i) THEN e = "EIHNDL"
  ELSE IF ~InRange(i) THEN e = "ERANGE"
  ELSE e = "EACCDN"

Refuses(i) ==
  /\ \/ UNCHANGED <<temp, tlen>>
     \/ /\ ~sent[i]
        /\ temp' = [temp EXCEPT ![i] = Empty]
        /\ \E n \in {NoTemp, 0} : tlen' = [tlen EXCEPT ![i] = n]
  /\ UNCHANGED store

\* abort.
Drops(i) ==
  /\ temp' = [temp EXCEPT ![i] = Empty]
  /\ tlen' = [tlen EXCEPT ![i] = NoTemp]
  /\ UNCHANGED store

-----------------------------------------------------------------------------
\* flush: handle i's buffered bytes sent; with `last`, from Fclose, the file
\* committed, or what a failed save left at the host dropped (if some of it
\* was ever sent).
Flush(i, last) ==
  \/ /\ ~Sends(i, last)
     /\ IF last /\ sent[i] THEN Drops(i) ELSE UNCHANGED <<temp, tlen, store>>
     /\ UNCHANGED <<sent, failed, blen>>
  \/ /\ Sends(i, last)
     /\ Takes(i, last)
     /\ sent' = [sent EXCEPT ![i] = TRUE]
     /\ blen' = [blen EXCEPT ![i] = IF Owns(i) THEN 0 ELSE @]
     /\ UNCHANGED failed
  \/ /\ Sends(i, last)
     /\ IF last /\ sent[i] THEN Drops(i) ELSE Refuses(i)
     /\ \E e \in Errors : Reason(i, e) /\ failed' = [failed EXCEPT ![i] = e]
     /\ blen' = [blen EXCEPT ![i] = IF Owns(i) THEN 0 ELSE @]
     /\ UNCHANGED sent

-----------------------------------------------------------------------------
Init ==
  /\ open = [i \in Handles |-> FALSE]
  /\ path \in [Handles -> Paths]
  /\ pos = [i \in Handles |-> 0]
  /\ size = [i \in Handles |-> 0]
  /\ boff = [i \in Handles |-> 0]
  /\ blen = [i \in Handles |-> 0]
  /\ sent = [i \in Handles |-> FALSE]
  /\ failed = [i \in Handles |-> Ok]
  /\ wbuf \in Buffer0
  /\ wowner = None
  /\ temp = [i \in Handles |-> Empty]
  /\ tlen = [i \in Handles |-> NoTemp]
  /\ store \in Store0
  /\ caller = None /\ src = NoBytes /\ count = 0 /\ done = 0 /\ taken = FALSE
  /\ answer = Ok
  /\ calls = 0

\* The first free handle; the file is checked here and nothing is sent.
FirstFree(i) == ~open[i] /\ \A j \in Handles : j < i => open[j]

Fcreate(i, p) ==
  /\ Calls
  /\ FirstFree(i)
  /\ open' = [open EXCEPT ![i] = TRUE]
  /\ path' = [path EXCEPT ![i] = p]
  /\ pos' = [pos EXCEPT ![i] = 0]
  /\ size' = [size EXCEPT ![i] = 0]
  /\ boff' = [boff EXCEPT ![i] = 0]
  /\ blen' = [blen EXCEPT ![i] = 0]
  /\ sent' = [sent EXCEPT ![i] = FALSE]
  /\ failed' = [failed EXCEPT ![i] = Ok]
  /\ answer' = Ok
  /\ UNCHANGED <<buffer, host, call>>

-----------------------------------------------------------------------------
\* Fwrite: its loop goes on while there are bytes and the file has not failed.

Fwrite(i, n, s) ==
  /\ Calls
  /\ open[i]
  /\ pos[i] + n <= MaxSize
  /\ caller' = i /\ src' = s /\ count' = n /\ done' = 0
  /\ taken' = FALSE
  /\ UNCHANGED <<file, wfile, buffer, host, answer>>

\* Mutants: another's buffer used; a position before the buffer not noticed;
\* a full buffer not noticed.
MustTakeShared(i)  == pos[i] < boff[i] \/ pos[i] > boff[i] + blen[i] \/ pos[i] - boff[i] = DataMax
MustTakeForward(i) == ~Owns(i) \/ pos[i] > boff[i] + blen[i] \/ pos[i] - boff[i] = DataMax
MustTakeFull(i)    == ~Owns(i) \/ pos[i] < boff[i] \/ pos[i] > boff[i] + blen[i]

\* The buffer is another's, or the position is outside it, or it is full there.
MustTake(i) ==
  \/ ~Owns(i)
  \/ pos[i] < boff[i]
  \/ pos[i] > boff[i] + blen[i]
  \/ pos[i] - boff[i] = DataMax

Take(i) ==
  /\ caller = i
  /\ ~taken /\ done < count /\ failed[i] = Ok
  /\ MustTake(i)
  /\ IF wowner = None THEN UNCHANGED <<host, sent, failed, blen>>
                      ELSE Flush(wowner, FALSE)
  /\ wowner' = i
  /\ boff' = [boff EXCEPT ![i] = pos[i]]
  /\ taken' = TRUE
  /\ UNCHANGED <<file, pos, size, wbuf, caller, src, count, done, answer, calls>>

\* As many bytes as the buffer has room for.
Copy(i) ==
  LET at == pos[i] - boff[i]
      n  == Smaller(count - done, DataMax - at)
  IN  /\ caller = i
      /\ taken \/ (done < count /\ failed[i] = Ok /\ ~MustTake(i))
      /\ wbuf' = [k \in Place |-> IF at <= k /\ k < at + n THEN src[done + (k - at)] ELSE wbuf[k]]
      /\ blen' = [blen EXCEPT ![i] = Larger(@, at + n)]
      /\ pos' = [pos EXCEPT ![i] = @ + n]
      /\ size' = [size EXCEPT ![i] = Larger(@, pos[i] + n)]
      /\ done' = done + n
      /\ taken' = FALSE
      /\ UNCHANGED <<file, boff, sent, failed, wowner, host, caller, src, count, answer, calls>>

Return(i) ==
  /\ caller = i
  /\ ~taken
  /\ done = count \/ failed[i] # Ok
  /\ caller' = None /\ src' = NoBytes /\ count' = 0 /\ done' = 0 /\ taken' = FALSE
  /\ answer' = failed[i]
  /\ UNCHANGED <<file, wfile, buffer, host, calls>>

-----------------------------------------------------------------------------
\* Anywhere in what was written, from the start, the position or the end.
Fseek(i, to) ==
  /\ Calls
  /\ open[i]
  /\ to <= size[i]
  /\ pos' = [pos EXCEPT ![i] = to]
  /\ answer' = Ok
  /\ UNCHANGED <<file, size, boff, blen, sent, failed, buffer, host, call>>

Fclose(i) ==
  /\ Calls
  /\ open[i]
  /\ Flush(i, TRUE)
  /\ wowner' = IF Owns(i) THEN None ELSE wowner
  /\ open' = [open EXCEPT ![i] = FALSE]
  /\ answer' = failed'[i]
  /\ UNCHANGED <<path, pos, size, boff, wbuf, call>>

Fdelete(p) ==
  /\ Calls
  /\ store[p] # NoFile
  /\ store' = [store EXCEPT ![p] = NoFile]
  /\ answer' = Ok
  /\ UNCHANGED <<file, wfile, buffer, temp, tlen, call>>

\* The cart is gone, at any point, and another one starts: its memory is new,
\* the host keeps what it has.
Restart ==
  /\ calls < MaxCalls /\ calls' = calls + 1
  /\ open' = [i \in Handles |-> FALSE]
  /\ pos' = [i \in Handles |-> 0]
  /\ size' = [i \in Handles |-> 0]
  /\ boff' = [i \in Handles |-> 0]
  /\ blen' = [i \in Handles |-> 0]
  /\ sent' = [i \in Handles |-> FALSE]
  /\ failed' = [i \in Handles |-> Ok]
  /\ wowner' = None
  /\ caller' = None /\ src' = NoBytes /\ count' = 0 /\ done' = 0 /\ taken' = FALSE
  /\ answer' = Ok
  /\ UNCHANGED <<path, wbuf, host>>

Loop == \E i \in Handles : Take(i) \/ Copy(i) \/ Return(i)

Next ==
  \/ \E i \in Handles :
       \/ \E p \in Paths : Fcreate(i, p)
       \/ \E n \in 0 .. MaxCount : \E s \in [0 .. (n - 1) -> Byte] : Fwrite(i, n, s)
       \/ \E to \in 0 .. MaxSize : Fseek(i, to)
       \/ Fclose(i)
  \/ Loop
  \/ \E p \in Paths : Fdelete(p)
  \/ Restart

\* An Fwrite, once called, runs: it waits for nothing but the host, which
\* answers within the call.
Spec == Init /\ [][Next]_vars /\ WF_vars(Loop)

-----------------------------------------------------------------------------
\* TypeOK: Dos.files, Dos.wfiles, the buffer, the host's files and the caller's
\* bytes have their shapes.
TypeOK ==
  /\ open \in [Handles -> BOOLEAN]
  /\ path \in [Handles -> Paths]
  /\ pos \in [Handles -> 0 .. MaxSize]
  /\ size \in [Handles -> 0 .. MaxSize]
  /\ boff \in [Handles -> 0 .. MaxSize]
  /\ blen \in [Handles -> 0 .. DataMax]
  /\ sent \in [Handles -> BOOLEAN]
  /\ failed \in [Handles -> Errors \cup {Ok}]
  /\ wbuf \in [Place -> Byte]
  /\ wowner \in Handles \cup {None}
  /\ temp \in [Handles -> [Pos -> Byte]]
  /\ tlen \in [Handles -> 0 .. MaxSize \cup {NoTemp}]
  /\ store \in [Paths -> Files \cup {NoFile}]
  /\ caller \in Handles \cup {None}
  /\ count \in 0 .. MaxCount /\ done \in 0 .. count
  /\ src \in [0 .. (count - 1) -> Byte]
  /\ taken \in BOOLEAN
  /\ answer \in Errors \cup {Ok}
  /\ calls \in 0 .. MaxCalls

\* A file being written that no request of has failed.
Live(i) == open[i] /\ failed[i] = Ok

\* What is written is at the host but for what the buffer holds, and together
\* they have no hole: a handle's bytes in the buffer begin at or before the
\* end of those at the host.
Accounted(i) ==
  /\ InOrder(i)
  /\ IF Owns(i) THEN boff[i] <= BegunLen(i) /\ size[i] = LaidLen(i)
                ELSE blen[i] = 0 /\ size[i] = BegunLen(i)
  /\ \A k \in Pos : k >= BegunLen(i) => Begun(i)[k] = Blank

\* The loop that runs is that of a handle open for writing, its bytes fit in
\* the file, and after Take the buffer is its own, and empty, at the position.
LoopSound ==
  /\ caller = None => count = 0 /\ done = 0 /\ ~taken
  /\ caller # None =>
       /\ open[caller]
       /\ pos[caller] + (count - done) <= MaxSize
  /\ taken =>
       /\ caller # None /\ wowner = caller /\ done < count
       /\ boff[caller] = pos[caller] /\ blen[caller] = 0

\* BufferSound: however writes, seeks and closes of several handles take turns
\* with the one buffer, and whichever requests fail, every byte a live file
\* was given is in one place, at the host or in the buffer, and the position
\* is inside the file (Fwrite, take, flush, seek).
BufferSound ==
  /\ wowner # None => open[wowner]
  /\ \A i \in Handles :
       /\ open[i] => pos[i] <= size[i]
       /\ Live(i) => Accounted(i)
  /\ LoopSound

\* FailsForTheHost: no file fails for what the library itself asked: the
\* offset of every request is inside the temporary file (kfs_ops.zig:53), and
\* a request that is not the first finds that file (kfs_ops.zig:52).
FailsForTheHost ==
  \A i \in Handles : open[i] => failed[i] \notin {"EIHNDL", "ERANGE"}

\* Implements: the buffer, the requests and the temporary files come to what
\* SaveFile promises: Fclose puts exactly what the program wrote in the file's
\* place, or answers an error and leaves the file there was; a failed file is
\* never committed.  The image is the temporary file with the buffer over it.
Image == [i \in Handles |-> IF Live(i) THEN Laid(i) ELSE Empty]
Saves == INSTANCE SaveFile WITH image <- Image
Implements == Saves!Spec

\* FwriteReturns: an Fwrite comes back, whatever the buffer and the host do
\* (each turn of the loop of gemdos_write.zig:55-67 takes a byte or more).
FwriteReturns == ~Idle ~> Idle

=============================================================================
