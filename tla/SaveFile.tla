------------------------------ MODULE SaveFile ------------------------------
(***************************************************************************)
(* What GEMDOS promises a program that saves: a file opened by Fcreate is  *)
(* an image of its own, that Fwrite lays bytes into at the position and    *)
(* Fseek moves in; Fclose puts that image, whole, in the place of the file *)
(* it names and answers ok, or answers an error and leaves the file there  *)
(* was.  There is no buffer, no host and no temporary file here.  A file   *)
(* may fail at any time (the disk is full, say): its later calls answer    *)
(* the error and it is never committed.                                    *)
(***************************************************************************)
EXTENDS Integers

CONSTANTS
  Handles,   \* the handles a program has: naturals
  Paths,     \* the files that may be saved
  Byte,      \* what a byte may be
  Blank,     \* the byte that stands for "not there"
  MaxSize,   \* bound: the size of a file
  MaxCount   \* bound: bytes that one Fwrite is given

VARIABLES
  open,      \* the handles that Create gave
  path,      \* the file a writing handle saves
  pos,       \* its position
  size,      \* the bytes written so far
  failed,    \* Ok, or the first error its file met
  image,     \* the bytes written so far
  store,     \* the files there are
  caller,    \* the handle an Fwrite is busy with, None if none is
  src,       \* the bytes it was given
  count,     \* how many
  done,      \* how many of them it has taken
  answer     \* what the last call answered

vars == <<open, path, pos, size, failed, image, store, caller, src, count, done, answer>>

None   == -1
Ok     == "ok"
Pos    == 0 .. (MaxSize - 1)
Errors == {"EIHNDL", "ERANGE", "EACCDN"}
Empty  == [k \in Pos |-> Blank]
NoBytes == [k \in 0 .. -1 |-> Blank]
NoFile == [size |-> -1, bytes |-> Empty]
Files  == [size : 0 .. MaxSize, bytes : [Pos -> Byte]]
Larger(a, b) == IF a > b THEN a ELSE b

Idle == caller = None
Call == <<caller, src, count, done>>

-----------------------------------------------------------------------------
Init ==
  /\ open = [i \in Handles |-> FALSE]
  /\ path \in [Handles -> Paths]
  /\ pos = [i \in Handles |-> 0]
  /\ size = [i \in Handles |-> 0]
  /\ failed = [i \in Handles |-> Ok]
  /\ image = [i \in Handles |-> Empty]
  /\ store \in [Paths -> Files \cup {NoFile}]
  /\ caller = None /\ src = NoBytes /\ count = 0 /\ done = 0
  /\ answer = Ok

Create(i, p) ==
  /\ Idle
  /\ ~open[i]
  /\ open' = [open EXCEPT ![i] = TRUE]
  /\ path' = [path EXCEPT ![i] = p]
  /\ pos' = [pos EXCEPT ![i] = 0]
  /\ size' = [size EXCEPT ![i] = 0]
  /\ failed' = [failed EXCEPT ![i] = Ok]
  /\ image' = [image EXCEPT ![i] = Empty]
  /\ answer' = Ok
  /\ UNCHANGED <<store, Call>>

\* An Fwrite begins; it lays its bytes in as many pieces as it likes.
Write(i, n, s) ==
  /\ Idle
  /\ open[i]
  /\ caller' = i /\ src' = s /\ count' = n /\ done' = 0
  /\ UNCHANGED <<open, path, pos, size, failed, image, store, answer>>

Put(i, n) ==
  LET end == pos[i] + n
  IN  /\ caller = i
      /\ n <= count - done
      /\ image' = [image EXCEPT ![i] =
           [k \in Pos |-> IF failed[i] = Ok /\ pos[i] <= k /\ k < end
                            THEN src[done + (k - pos[i])] ELSE @[k]]]
      /\ pos' = [pos EXCEPT ![i] = end]
      /\ size' = [size EXCEPT ![i] = Larger(@, end)]
      /\ done' = done + n
      /\ UNCHANGED <<open, path, failed, store, caller, src, count, answer>>

\* Handle j's file fails, whichever call was the reason.
Fail(j, e) ==
  /\ open[j] /\ failed[j] = Ok
  /\ failed' = [failed EXCEPT ![j] = e]
  /\ image' = [image EXCEPT ![j] = Empty]
  /\ UNCHANGED <<open, path, pos, size, store, Call, answer>>

Return(i) ==
  /\ caller = i
  /\ done = count \/ failed[i] # Ok
  /\ caller' = None /\ src' = NoBytes /\ count' = 0 /\ done' = 0
  /\ answer' = failed[i]
  /\ UNCHANGED <<open, path, pos, size, failed, image, store>>

Seek(i, to) ==
  /\ Idle
  /\ open[i]
  /\ to <= size[i]
  /\ pos' = [pos EXCEPT ![i] = to]
  /\ answer' = Ok
  /\ UNCHANGED <<open, path, size, failed, image, store, Call>>

\* The save: whole and answered ok, or not at all and answered an error.
Close(i) ==
  /\ Idle
  /\ open[i]
  /\ \/ /\ failed[i] = Ok
        /\ store' = [store EXCEPT ![path[i]] = [size |-> size[i], bytes |-> image[i]]]
        /\ answer' = Ok
     \/ /\ store' = store
        /\ answer' \in Errors
        /\ failed[i] # Ok => answer' = failed[i]
  /\ open' = [open EXCEPT ![i] = FALSE]
  /\ image' = [image EXCEPT ![i] = Empty]
  /\ failed' = [failed EXCEPT ![i] = answer']
  /\ UNCHANGED <<path, pos, size, Call>>

\* The file p deleted.
Remove(p) ==
  /\ Idle
  /\ store' = [store EXCEPT ![p] = NoFile]
  /\ answer' = Ok
  /\ UNCHANGED <<open, path, pos, size, failed, image, Call>>

\* The program is gone (at any point) and another one starts.
Restart ==
  /\ open' = [i \in Handles |-> FALSE]
  /\ pos' = [i \in Handles |-> 0]
  /\ size' = [i \in Handles |-> 0]
  /\ failed' = [i \in Handles |-> Ok]
  /\ image' = [i \in Handles |-> Empty]
  /\ caller' = None /\ src' = NoBytes /\ count' = 0 /\ done' = 0
  /\ answer' = Ok
  /\ UNCHANGED <<path, store>>

Next ==
  \/ \E i \in Handles :
       \/ \E p \in Paths : Create(i, p)
       \/ \E n \in 0 .. MaxCount : \E s \in [0 .. (n - 1) -> Byte] : Write(i, n, s)
       \/ \E n \in 1 .. MaxCount : Put(i, n)
       \/ \E e \in Errors : Fail(i, e)
       \/ Return(i)
       \/ \E to \in 0 .. MaxSize : Seek(i, to)
       \/ Close(i)
  \/ \E p \in Paths : Remove(p)
  \/ Restart

Spec == Init /\ [][Next]_vars

=============================================================================
