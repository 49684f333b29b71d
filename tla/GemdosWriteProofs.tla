------------------------- MODULE GemdosWriteProofs -------------------------
(***************************************************************************)
(* Proofs about GemdosWrite, for any handles, buffer and files: the shapes *)
(* of its state, the invariant of the shared buffer, and that it           *)
(* implements SaveFile.  TypeOK and BufferSound are inductive together:    *)
(* the lengths that TypeOK bounds stay bounded because BufferSound places  *)
(* the buffer inside the file.                                             *)
(***************************************************************************)
EXTENDS GemdosWrite, TLAPS

Inv == TypeOK /\ BufferSound

-----------------------------------------------------------------------------
\* A live file's laid-out bytes are bytes, and as many as its size.
LEMMA LaidTyped ==
  ASSUME TypeOK, BufferSound, NEW i \in Handles, Live(i)
  PROVE  /\ Laid(i) \in [Pos -> Byte]
         /\ LaidLen(i) = size[i]
         /\ InOrder(i) /\ InRange(i)
<1> USE GemdosWriteAssumption
<1>1. Accounted(i)
  BY DEF BufferSound
<1>2. Begun(i) \in [Pos -> Byte]
  BY DEF TypeOK, Begun, Empty
<1>3. BegunLen(i) \in 0 .. MaxSize
  BY <1>1 DEF TypeOK, BegunLen, Accounted, InOrder, NoTemp
<1>4. Length(i) \in 0 .. DataMax /\ Offset(i) \in 0 .. MaxSize
  BY DEF TypeOK, Length, Offset
<1>5. \A k \in Pos : Offset(i) <= k /\ k < Offset(i) + Length(i) => k - Offset(i) \in Place
  BY <1>4 DEF Pos, Place
<1>6. Laid(i) \in [Pos -> Byte]
  BY <1>2, <1>5 DEF Laid, TypeOK
<1>7. LaidLen(i) = size[i] /\ InRange(i)
  BY <1>1, <1>3 DEF Accounted, LaidLen, Larger, InRange, Offset, Length, TypeOK
<1> QED
  BY <1>1, <1>6, <1>7 DEF Accounted

\* What a request leaves has its shape, and another handle's file is as it was.
LEMMA FlushTyped ==
  ASSUME TypeOK, BufferSound, NEW i \in Handles, open[i], NEW last \in BOOLEAN, Flush(i, last)
  PROVE  /\ sent' \in [Handles -> BOOLEAN]
         /\ failed' \in [Handles -> Errors \cup {Ok}]
         /\ blen' \in [Handles -> 0 .. DataMax]
         /\ temp' \in [Handles -> [Pos -> Byte]]
         /\ tlen' \in [Handles -> 0 .. MaxSize \cup {NoTemp}]
         /\ store' \in [Paths -> Files \cup {NoFile}]
<1> USE GemdosWriteAssumption
<1>0. Empty \in [Pos -> Byte]
  BY DEF Empty
<1>d. ASSUME Drops(i)
      PROVE  /\ temp' \in [Handles -> [Pos -> Byte]]
             /\ tlen' \in [Handles -> 0 .. MaxSize \cup {NoTemp}]
             /\ store' \in [Paths -> Files \cup {NoFile}]
  BY <1>d, <1>0 DEF Drops, TypeOK
<1>r. ASSUME Refuses(i)
      PROVE  /\ temp' \in [Handles -> [Pos -> Byte]]
             /\ tlen' \in [Handles -> 0 .. MaxSize \cup {NoTemp}]
             /\ store' \in [Paths -> Files \cup {NoFile}]
  <2>1. CASE UNCHANGED <<temp, tlen>>
    BY <1>r, <2>1 DEF Refuses, TypeOK
  <2>2. CASE /\ temp' = [temp EXCEPT ![i] = Empty]
             /\ \E n \in {NoTemp, 0} : tlen' = [tlen EXCEPT ![i] = n]
    <3>1. PICK n \in {NoTemp, 0} : tlen' = [tlen EXCEPT ![i] = n]
      BY <2>2
    <3>2. n \in 0 .. MaxSize \cup {NoTemp}
      OBVIOUS
    <3> QED
      BY <1>r, <1>0, <2>2, <3>1, <3>2 DEF Refuses, TypeOK
  <2> QED
    BY <1>r, <2>1, <2>2 DEF Refuses
<1>1. CASE ~Sends(i, last)
  <2>1. sent' = sent /\ failed' = failed /\ blen' = blen
    BY <1>1 DEF Flush
  <2>2. Drops(i) \/ UNCHANGED <<temp, tlen, store>>
    BY <1>1 DEF Flush
  <2>3. CASE Drops(i)
    BY <2>1, <2>3, <1>d DEF TypeOK
  <2>4. CASE UNCHANGED <<temp, tlen, store>>
    BY <2>1, <2>4 DEF TypeOK
  <2> QED
    BY <2>2, <2>3, <2>4
<1>2. CASE Sends(i, last) /\ Takes(i, last) /\ sent' = [sent EXCEPT ![i] = TRUE]
             /\ blen' = [blen EXCEPT ![i] = IF Owns(i) THEN 0 ELSE @] /\ failed' = failed
  <2>1. Laid(i) \in [Pos -> Byte] /\ LaidLen(i) = size[i]
    BY <1>2, LaidTyped DEF Sends, Live
  <2>2. LaidLen(i) \in 0 .. MaxSize
    BY <2>1 DEF TypeOK
  <2>3. [size |-> LaidLen(i), bytes |-> Laid(i)] \in Files
    BY <2>1, <2>2 DEF Files
  <2>4. sent' \in [Handles -> BOOLEAN] /\ blen' \in [Handles -> 0 .. DataMax]
    BY <1>2 DEF TypeOK
  <2>5. CASE last
    <3>1. /\ temp' = [temp EXCEPT ![i] = Empty]
          /\ tlen' = [tlen EXCEPT ![i] = NoTemp]
          /\ store' = [store EXCEPT ![path[i]] = [size |-> LaidLen(i), bytes |-> Laid(i)]]
      BY <1>2, <2>5 DEF Takes
    <3>2. temp' \in [Handles -> [Pos -> Byte]] /\ tlen' \in [Handles -> 0 .. MaxSize \cup {NoTemp}]
      BY <3>1, <1>0 DEF TypeOK
    <3>3. store' \in [Paths -> Files \cup {NoFile}]
      BY <3>1, <2>3 DEF TypeOK
    <3> QED
      BY <1>2, <2>4, <3>2, <3>3 DEF TypeOK
  <2>6. CASE ~last
    <3>1. /\ temp' = [temp EXCEPT ![i] = Laid(i)]
          /\ tlen' = [tlen EXCEPT ![i] = LaidLen(i)]
          /\ store' = store
      BY <1>2, <2>6 DEF Takes
    <3>2. temp' \in [Handles -> [Pos -> Byte]] /\ tlen' \in [Handles -> 0 .. MaxSize \cup {NoTemp}]
      BY <3>1, <2>1, <2>2 DEF TypeOK
    <3> QED
      BY <1>2, <2>4, <3>1, <3>2 DEF TypeOK
  <2> QED
    BY <2>5, <2>6
<1>3. CASE /\ Sends(i, last)
           /\ IF last /\ sent[i] THEN Drops(i) ELSE Refuses(i)
           /\ \E e \in Errors : Reason(i, e) /\ failed' = [failed EXCEPT ![i] = e]
           /\ blen' = [blen EXCEPT ![i] = IF Owns(i) THEN 0 ELSE @]
           /\ sent' = sent
  <2>1. failed' \in [Handles -> Errors \cup {Ok}] /\ blen' \in [Handles -> 0 .. DataMax]
    BY <1>3 DEF TypeOK
  <2>2. CASE Drops(i)
    BY <1>3, <2>1, <2>2, <1>d DEF TypeOK
  <2>3. CASE Refuses(i)
    BY <1>3, <2>1, <2>3, <1>r DEF TypeOK
  <2> QED
    BY <1>3, <2>2, <2>3
<1> QED
  BY <1>1, <1>2, <1>3 DEF Flush

LEMMA FlushOthers ==
  ASSUME TypeOK, NEW i \in Handles, NEW last \in BOOLEAN, Flush(i, last),
         NEW j \in Handles, j # i
  PROVE  /\ sent'[j] = sent[j] /\ failed'[j] = failed[j] /\ blen'[j] = blen[j]
         /\ temp'[j] = temp[j] /\ tlen'[j] = tlen[j]
BY DEF Flush, Takes, Refuses, Drops, TypeOK

\* A flush that is not the last and does not fail: everything is at the host.
LEMMA FlushSelf ==
  ASSUME TypeOK, BufferSound, NEW i \in Handles, open[i], Flush(i, FALSE), failed'[i] = Ok
  PROVE  /\ failed[i] = Ok
         /\ blen'[i] = 0
         /\ IF sent'[i] THEN tlen'[i] = size[i] /\ temp'[i] = Laid(i)
                        ELSE size[i] = 0 /\ Laid(i) = Empty
<1> USE GemdosWriteAssumption
<1>e. Ok \notin Errors
  BY DEF Ok, Errors
<1>1. CASE ~Sends(i, FALSE)
  <2>1. /\ sent' = sent /\ failed' = failed /\ blen' = blen
        /\ temp' = temp /\ tlen' = tlen
    BY <1>1 DEF Flush
  <2>2. Live(i)
    BY <2>1 DEF Live
  <2>3. Accounted(i) /\ Length(i) = 0
    BY <1>1, <2>1, <2>2 DEF BufferSound, Sends
  <2>4. blen[i] = 0
    BY <2>3 DEF Accounted, Length
  <2>5. Laid(i) = Begun(i)
    <3>1. Offset(i) \in Int
      BY DEF Offset, TypeOK
    <3>2. \A k \in Pos : ~(Offset(i) <= k /\ k < Offset(i) + Length(i))
      BY <2>3, <3>1 DEF Pos
    <3>3. Begun(i) \in [Pos -> Byte]
      BY DEF TypeOK, Begun, Empty
    <3> QED
      BY <3>2, <3>3 DEF Laid
  <2>6. size[i] = BegunLen(i)
    BY <2>3, <2>4 DEF Accounted, LaidLen, Larger, Offset, Length, BegunLen, InOrder, NoTemp, TypeOK
  <2> QED
    BY <2>1, <2>4, <2>5, <2>6 DEF Begun, BegunLen
<1>2. CASE Sends(i, FALSE) /\ Takes(i, FALSE) /\ sent' = [sent EXCEPT ![i] = TRUE]
             /\ blen' = [blen EXCEPT ![i] = IF Owns(i) THEN 0 ELSE @] /\ failed' = failed
  <2>1. Live(i)
    BY <1>2 DEF Live
  <2>2. LaidLen(i) = size[i]
    BY <2>1, LaidTyped
  <2>3. sent'[i] /\ tlen'[i] = LaidLen(i) /\ temp'[i] = Laid(i)
    BY <1>2 DEF Takes, TypeOK
  <2>4. blen'[i] = 0
    BY <1>2, <2>1 DEF BufferSound, Accounted, Owns, TypeOK
  <2> QED
    BY <1>2, <2>2, <2>3, <2>4
<1>3. CASE /\ Sends(i, FALSE)
           /\ \E e \in Errors : Reason(i, e) /\ failed' = [failed EXCEPT ![i] = e]
  BY <1>3, <1>e DEF TypeOK
<1> QED
  BY <1>1, <1>2, <1>3 DEF Flush

\* The owner's buffer is empty after a flush, unless its file failed before.
LEMMA FlushEmpties ==
  ASSUME TypeOK, NEW i \in Handles, Owns(i), failed[i] = Ok, Flush(i, FALSE)
  PROVE  blen'[i] = 0
BY DEF Flush, Sends, Length, TypeOK

\* Nothing is laid behind an owner's end.
LEMMA LaidPadded ==
  ASSUME TypeOK, NEW j \in Handles, Owns(j), Accounted(j)
  PROVE  \A k \in Pos : k >= size[j] => Laid(j)[k] = Blank
<1> USE GemdosWriteAssumption
<1>1. BegunLen(j) \in Int
  BY DEF TypeOK, BegunLen, NoTemp
<1>2. size[j] = (IF BegunLen(j) > boff[j] + blen[j] THEN BegunLen(j) ELSE boff[j] + blen[j])
  BY DEF Accounted, LaidLen, Larger, Offset, Length
<1>3. size[j] >= BegunLen(j) /\ size[j] >= boff[j] + blen[j]
  BY <1>1, <1>2 DEF TypeOK
<1>5. size[j] \in Int /\ boff[j] \in Int /\ blen[j] \in Int /\ \A k \in Pos : k \in Int
  BY DEF Pos, TypeOK
<1>4. \A k \in Pos : k >= size[j] => k >= BegunLen(j) /\ ~(k < boff[j] + blen[j])
  BY <1>1, <1>3, <1>5
<1> QED
  BY <1>4 DEF Laid, Offset, Length, Accounted

LEMMA AccountedKept ==
  ASSUME NEW j \in Handles, Accounted(j), Owns(j)' <=> Owns(j),
         sent'[j] = sent[j], tlen'[j] = tlen[j], temp'[j] = temp[j],
         boff'[j] = boff[j], blen'[j] = blen[j], size'[j] = size[j]
  PROVE  Accounted(j)'
<1>1. InOrder(j)' <=> InOrder(j)
  BY DEF InOrder, NoTemp
<1>2. BegunLen(j)' = BegunLen(j) /\ Begun(j)' = Begun(j)
  BY DEF BegunLen, Begun, Empty, Pos
<1>3. LaidLen(j)' = LaidLen(j)
  BY <1>2 DEF LaidLen, Larger, Offset, Length
<1> QED
  BY <1>1, <1>2, <1>3 DEF Accounted, Pos

-----------------------------------------------------------------------------
LEMMA InvInit == Init => Inv
<1> SUFFICES ASSUME Init PROVE Inv
  OBVIOUS
<1> USE GemdosWriteAssumption
<1>1. TypeOK
  <2>1. Empty \in [Pos -> Byte] /\ NoBytes \in [0 .. (0 - 1) -> Byte]
    BY DEF Empty, NoBytes
  <2>2. /\ open \in [Handles -> BOOLEAN] /\ path \in [Handles -> Paths]
        /\ pos \in [Handles -> 0 .. MaxSize] /\ size \in [Handles -> 0 .. MaxSize]
        /\ boff \in [Handles -> 0 .. MaxSize] /\ blen \in [Handles -> 0 .. DataMax]
    BY DEF Init
  <2>3. /\ sent \in [Handles -> BOOLEAN] /\ failed \in [Handles -> Errors \cup {Ok}]
        /\ wbuf \in [Place -> Byte] /\ wowner \in Handles \cup {None}
    BY DEF Init
  <2>4. /\ temp \in [Handles -> [Pos -> Byte]]
        /\ tlen \in [Handles -> 0 .. MaxSize \cup {NoTemp}]
        /\ store \in [Paths -> Files \cup {NoFile}]
    BY <2>1 DEF Init
  <2>5. /\ caller \in Handles \cup {None} /\ count \in 0 .. MaxCount /\ done \in 0 .. count
        /\ answer \in Errors \cup {Ok} /\ calls \in 0 .. MaxCalls
    BY DEF Init
  <2>t. taken \in BOOLEAN
    BY Zenon DEF Init
  <2>6. src \in [0 .. (count - 1) -> Byte]
    BY <2>1 DEF Init
  <2> QED
    BY <2>2, <2>3, <2>4, <2>5, <2>t, <2>6 DEF TypeOK
<1>2. \A i \in Handles : ~open[i]
  BY DEF Init
<1>3. BufferSound
  BY <1>2 DEF Init, BufferSound, LoopSound, Live
<1> QED
  BY <1>1, <1>3 DEF Inv

LEMMA InvFcreate ==
  ASSUME Inv, NEW i \in Handles, NEW p \in Paths, Fcreate(i, p)
  PROVE  Inv'
<1> USE GemdosWriteAssumption DEF Inv
<1>1. TypeOK'
  <2>1. calls' \in 0 .. MaxCalls
    BY DEF TypeOK, Fcreate, Calls
  <2>2. /\ open' \in [Handles -> BOOLEAN] /\ path' \in [Handles -> Paths]
        /\ pos' \in [Handles -> 0 .. MaxSize] /\ size' \in [Handles -> 0 .. MaxSize]
    BY DEF TypeOK, Fcreate
  <2>3. /\ boff' \in [Handles -> 0 .. MaxSize] /\ blen' \in [Handles -> 0 .. DataMax]
        /\ sent' \in [Handles -> BOOLEAN] /\ failed' \in [Handles -> Errors \cup {Ok}]
        /\ answer' \in Errors \cup {Ok}
    BY DEF TypeOK, Fcreate
  <2>4. UNCHANGED <<wbuf, wowner, temp, tlen, store, caller, src, count, done, taken>>
    BY DEF Fcreate, buffer, host, call
  <2> QED
    BY <2>1, <2>2, <2>3, <2>4 DEF TypeOK
<1>2. wowner # i
  BY DEF BufferSound, Fcreate, FirstFree, TypeOK, None
<1>3. Accounted(i)'
  <2>1. ~sent'[i] /\ blen'[i] = 0 /\ size'[i] = 0 /\ wowner' # i
    BY <1>2 DEF Fcreate, TypeOK, buffer
  <2> QED
    BY <2>1 DEF Accounted, InOrder, Owns, BegunLen, Begun, Empty, Pos
<1>4. ASSUME NEW j \in Handles, j # i, Live(j)'
      PROVE  Accounted(j)'
  <2>1. Live(j)
    BY <1>4 DEF Live, Fcreate, TypeOK
  <2> QED
    BY <2>1, <1>4, AccountedKept DEF BufferSound, Fcreate, TypeOK, Owns, buffer, host
<1>5. \A j \in Handles : open'[j] => pos'[j] <= size'[j]
  BY DEF BufferSound, Fcreate, TypeOK
<1>6. wowner' # None => open'[wowner']
  BY DEF BufferSound, Fcreate, TypeOK, buffer
<1>7. LoopSound'
  BY DEF BufferSound, LoopSound, Fcreate, Calls, Idle, call, TypeOK
<1> QED
  BY <1>1, <1>3, <1>4, <1>5, <1>6, <1>7 DEF BufferSound

LEMMA InvFwrite ==
  ASSUME Inv, NEW i \in Handles, NEW n \in 0 .. MaxCount, NEW s \in [0 .. (n - 1) -> Byte],
         Fwrite(i, n, s)
  PROVE  Inv'
<1> USE GemdosWriteAssumption DEF Inv
<1>1. TypeOK'
  <2>1. calls' \in 0 .. MaxCalls
    BY DEF TypeOK, Fwrite, Calls
  <2>2. /\ caller' \in Handles \cup {None} /\ count' \in 0 .. MaxCount /\ done' \in 0 .. count'
        /\ src' \in [0 .. (count' - 1) -> Byte]
    BY DEF Fwrite
  <2>t. taken' \in BOOLEAN
    BY Zenon DEF Fwrite
  <2>3. UNCHANGED <<open, path, pos, size, boff, blen, sent, failed, wbuf, wowner,
                    temp, tlen, store, answer>>
    BY DEF Fwrite, file, wfile, buffer, host
  <2> QED
    BY <2>1, <2>2, <2>t, <2>3 DEF TypeOK
<1>2. ASSUME NEW j \in Handles, Live(j)'
      PROVE  Accounted(j)'
  <2>1. Live(j)
    BY <1>2 DEF Live, Fwrite, file, wfile
  <2> QED
    BY <2>1, AccountedKept DEF BufferSound, Fwrite, Owns, wfile, buffer, host
<1>3. (wowner # None => open[wowner])' /\ \A j \in Handles : (open[j] => pos[j] <= size[j])'
  BY DEF BufferSound, Fwrite, file, wfile, buffer
<1>4. LoopSound'
  BY DEF LoopSound, Fwrite, TypeOK, None, file, wfile
<1> QED
  BY <1>1, <1>2, <1>3, <1>4 DEF BufferSound

LEMMA InvReturn ==
  ASSUME Inv, NEW i \in Handles, Return(i)
  PROVE  Inv'
<1> USE GemdosWriteAssumption DEF Inv
<1>1. TypeOK'
  <2>1. NoBytes \in [0 .. (0 - 1) -> Byte]
    BY DEF NoBytes
  <2> QED
    <3>1. /\ caller' \in Handles \cup {None} /\ count' \in 0 .. MaxCount /\ done' \in 0 .. count'
      BY DEF Return
    <3>t. taken' \in BOOLEAN
      BY Zenon DEF Return
    <3>2. src' \in [0 .. (count' - 1) -> Byte]
      BY <2>1 DEF Return
    <3>3. answer' \in Errors \cup {Ok}
      BY DEF Return, TypeOK
    <3>4. UNCHANGED <<open, path, pos, size, boff, blen, sent, failed, wbuf, wowner,
                      temp, tlen, store, calls>>
      BY DEF Return, file, wfile, buffer, host
    <3> QED
      BY <3>1, <3>t, <3>2, <3>3, <3>4 DEF TypeOK
<1>2. ASSUME NEW j \in Handles, Live(j)'
      PROVE  Accounted(j)'
  <2>1. Live(j)
    BY <1>2 DEF Live, Return, file, wfile
  <2> QED
    BY <2>1, AccountedKept DEF BufferSound, Return, Owns, wfile, buffer, host
<1>3. (wowner # None => open[wowner])' /\ \A j \in Handles : (open[j] => pos[j] <= size[j])'
  BY DEF BufferSound, Return, file, wfile, buffer
<1>4. LoopSound'
  BY DEF LoopSound, Return
<1> QED
  BY <1>1, <1>2, <1>3, <1>4 DEF BufferSound

LEMMA InvFseek ==
  ASSUME Inv, NEW i \in Handles, NEW to \in 0 .. MaxSize, Fseek(i, to)
  PROVE  Inv'
<1> USE GemdosWriteAssumption DEF Inv
<1>1. TypeOK'
  <2>1. calls' \in 0 .. MaxCalls
    BY DEF TypeOK, Fseek, Calls
  <2>2. pos' \in [Handles -> 0 .. MaxSize]
    BY DEF TypeOK, Fseek
  <2>3. answer' \in Errors \cup {Ok}
    BY DEF Fseek
  <2>4. UNCHANGED <<open, path, size, boff, blen, sent, failed, wbuf, wowner, temp, tlen, store, caller, src, count, done, taken>>
    BY DEF Fseek, file, buffer, host, call
  <2> QED
    BY <2>1, <2>2, <2>3, <2>4 DEF TypeOK
<1>2. ASSUME NEW j \in Handles, Live(j)'
      PROVE  Accounted(j)'
  <2>1. Live(j)
    BY <1>2 DEF Live, Fseek, file
  <2> QED
    BY <2>1, AccountedKept DEF BufferSound, Fseek, Owns, buffer, host
<1>3. (wowner # None => open[wowner])' /\ \A j \in Handles : (open[j] => pos[j] <= size[j])'
  BY DEF BufferSound, Fseek, file, buffer, TypeOK
<1>4. LoopSound'
  BY DEF BufferSound, LoopSound, Fseek, Calls, Idle, call, TypeOK
<1> QED
  BY <1>1, <1>2, <1>3, <1>4 DEF BufferSound

LEMMA InvFdelete ==
  ASSUME Inv, NEW p \in Paths, Fdelete(p)
  PROVE  Inv'
<1> USE GemdosWriteAssumption DEF Inv
<1>1. TypeOK'
  BY DEF TypeOK, Fdelete, Calls, file, wfile, buffer, call
<1>2. ASSUME NEW j \in Handles, Live(j)'
      PROVE  Accounted(j)'
  <2>1. Live(j)
    BY <1>2 DEF Live, Fdelete, file, wfile
  <2> QED
    BY <2>1, AccountedKept DEF BufferSound, Fdelete, Owns, wfile, buffer
<1>3. (wowner # None => open[wowner])' /\ \A j \in Handles : (open[j] => pos[j] <= size[j])'
  BY DEF BufferSound, Fdelete, file, wfile, buffer
<1>4. LoopSound'
  BY DEF BufferSound, LoopSound, Fdelete, Calls, Idle, call
<1> QED
  BY <1>1, <1>2, <1>3, <1>4 DEF BufferSound

LEMMA InvRestart == ASSUME Inv, Restart PROVE Inv'
<1> USE GemdosWriteAssumption DEF Inv
<1>1. TypeOK'
  <2>1. NoBytes \in [0 .. (0 - 1) -> Byte]
    BY DEF NoBytes
  <2> QED
    <3>1. /\ open' \in [Handles -> BOOLEAN] /\ pos' \in [Handles -> 0 .. MaxSize]
          /\ size' \in [Handles -> 0 .. MaxSize] /\ boff' \in [Handles -> 0 .. MaxSize]
          /\ blen' \in [Handles -> 0 .. DataMax] /\ sent' \in [Handles -> BOOLEAN]
          /\ failed' \in [Handles -> Errors \cup {Ok}]
      BY DEF Restart
    <3>2. /\ caller' \in Handles \cup {None} /\ count' \in 0 .. MaxCount /\ done' \in 0 .. count'
          /\ answer' \in Errors \cup {Ok} /\ wowner' \in Handles \cup {None}
      BY DEF Restart
    <3>t. taken' \in BOOLEAN
      BY Zenon DEF Restart
    <3>3. src' \in [0 .. (count' - 1) -> Byte]
      BY <2>1 DEF Restart
    <3>4. calls' \in 0 .. MaxCalls
      BY DEF Restart, TypeOK
    <3>5. UNCHANGED <<path, wbuf, temp, tlen, store>>
      BY DEF Restart, host
    <3> QED
      BY <3>1, <3>2, <3>t, <3>3, <3>4, <3>5 DEF TypeOK
<1>2. \A i \in Handles : ~open'[i]
  BY DEF Restart
<1>3. BufferSound'
  BY <1>2 DEF Restart, BufferSound, LoopSound, Live
<1> QED
  BY <1>1, <1>3

\* The buffer changes hands: its owner's bytes are at the host before the new
\* owner's begin.
LEMMA InvTake ==
  ASSUME Inv, NEW i \in Handles, Take(i)
  PROVE  Inv'
<1> USE GemdosWriteAssumption DEF Inv
<1>0. open[i] /\ failed[i] = Ok /\ i # None
  BY DEF Take, BufferSound, LoopSound, None
<1>1. CASE wowner = None
  <2>1. UNCHANGED <<temp, tlen, store, sent, failed, blen>>
    BY <1>1 DEF Take, host
  <2>2. TypeOK'
    BY <2>1 DEF Take, TypeOK, file
  <2>3. Accounted(i)' /\ blen'[i] = 0
    <3>1. Accounted(i) /\ ~Owns(i)
      BY <1>0, <1>1 DEF BufferSound, Live, Owns
    <3>2. wowner' = i /\ boff'[i] = pos[i] /\ size' = size
      BY DEF Take, TypeOK
    <3> QED
      BY <1>0, <2>1, <3>1, <3>2 DEF Accounted, InOrder, BegunLen, Begun, Owns, LaidLen, Larger, Offset,
           Length, TypeOK, BufferSound, Empty, Pos, NoTemp
  <2>4. ASSUME NEW j \in Handles, j # i, Live(j)'
        PROVE  Accounted(j)'
    <3>1. Live(j) /\ Accounted(j)
      BY <2>1, <2>4 DEF Live, Take, file, BufferSound
    <3> QED
      BY <1>1, <2>1, <2>4, <3>1, AccountedKept DEF Take, TypeOK, Owns, None
  <2>5. (wowner # None => open[wowner])' /\ \A j \in Handles : (open[j] => pos[j] <= size[j])'
    BY <1>0 DEF BufferSound, Take, file
  <2>6. LoopSound'
    BY <1>0, <2>3 DEF BufferSound, LoopSound, Take, TypeOK, file
  <2> QED
    BY <2>2, <2>3, <2>4, <2>5, <2>6 DEF BufferSound
<1>2. CASE wowner # None
  <2> DEFINE o == wowner
  <2>1. o \in Handles /\ open[o] /\ Flush(o, FALSE)
    BY <1>2 DEF Take, BufferSound, TypeOK
  <2> HIDE DEF o
  <2>2. TypeOK'
    <3>1. UNCHANGED <<open, path, pos, size, wbuf, caller, src, count, done, answer, calls>>
      BY DEF Take, file
    <3>2. wowner' \in Handles \cup {None} /\ boff' \in [Handles -> 0 .. MaxSize]
      BY DEF Take, TypeOK
    <3>3. taken' \in BOOLEAN
      BY Zenon DEF Take
    <3> QED
      BY <2>1, <3>1, <3>2, <3>3, FlushTyped DEF TypeOK
  <2>3. blen'[i] = 0 /\ (failed'[i] = Ok => Accounted(i)')
    <3>1. wowner' = i /\ boff'[i] = pos[i] /\ size' = size
      BY DEF Take, TypeOK
    <3>2. CASE i = o
      <4>1. blen'[i] = 0
        BY <1>0, <2>1, <3>2, FlushEmpties DEF Owns, o
      <4>2. ASSUME failed'[i] = Ok
            PROVE  Accounted(i)'
        <5>1. IF sent'[i] THEN tlen'[i] = size[i] /\ temp'[i] = Laid(i)
                          ELSE size[i] = 0 /\ Laid(i) = Empty
          BY <2>1, <3>2, <4>2, FlushSelf
        <5>2. \A k \in Pos : k >= size[i] => Laid(i)[k] = Blank
          BY <1>0, <3>2, LaidPadded DEF BufferSound, Live, Owns, o
        <5>3. BegunLen(i)' = size[i]
          BY <5>1 DEF BegunLen
        <5>4. \A k \in Pos : k >= size[i] => Begun(i)'[k] = Blank
          BY <5>1, <5>2 DEF Begun, Empty
        <5>5. InOrder(i)'
          BY <5>1 DEF InOrder, NoTemp, TypeOK
        <5>6. LaidLen(i)' = size[i] /\ boff'[i] <= size[i] /\ Owns(i)'
          BY <1>0, <3>1, <4>1, <5>3 DEF LaidLen, Larger, Offset, Length, Owns, BufferSound, TypeOK
        <5> QED
          BY <3>1, <5>3, <5>4, <5>5, <5>6 DEF Accounted, Pos
      <4> QED
        BY <4>1, <4>2
    <3>3. CASE i # o
      <4>1. Accounted(i) /\ ~Owns(i)
        BY <1>0, <3>3 DEF BufferSound, Live, Owns, o
      <4>2. sent'[i] = sent[i] /\ blen'[i] = blen[i] /\ temp'[i] = temp[i] /\ tlen'[i] = tlen[i]
        BY <2>1, <3>3, FlushOthers
      <4> QED
        BY <1>0, <3>1, <4>1, <4>2 DEF Accounted, InOrder, BegunLen, Begun, Owns, LaidLen, Larger, Offset,
             Length, TypeOK, BufferSound, Empty, Pos, NoTemp
    <3> QED
      BY <3>2, <3>3
  <2>4. ASSUME NEW j \in Handles, j # i, Live(j)'
        PROVE  Accounted(j)'
    <3>1. wowner' # j /\ boff'[j] = boff[j] /\ size' = size /\ open'[j] = open[j]
      BY <2>4 DEF Take, file, TypeOK
    <3>2. CASE j = o
      <4>1. failed'[j] = Ok
        BY <2>4 DEF Live
      <4>2. /\ failed[j] = Ok /\ blen'[j] = 0
            /\ IF sent'[j] THEN tlen'[j] = size[j] /\ temp'[j] = Laid(j)
                           ELSE size[j] = 0 /\ Laid(j) = Empty
        BY <2>1, <3>2, <4>1, FlushSelf
      <4>3. Accounted(j) /\ Owns(j)
        BY <2>4, <3>1, <3>2, <4>2 DEF BufferSound, Live, Owns, o
      <4>4. \A k \in Pos : k >= size[j] => Laid(j)[k] = Blank
        BY <4>3, LaidPadded
      <4>5. BegunLen(j)' = size[j]
        BY <4>2 DEF BegunLen
      <4>6. \A k \in Pos : k >= size[j] => Begun(j)'[k] = Blank
        BY <4>2, <4>4 DEF Begun, Empty
      <4>7. InOrder(j)'
        BY <4>2 DEF InOrder, NoTemp, TypeOK
      <4> QED
        BY <3>1, <4>2, <4>5, <4>6, <4>7 DEF Accounted, Owns, Pos
    <3>3. CASE j # o
      <4>1. /\ sent'[j] = sent[j] /\ failed'[j] = failed[j] /\ blen'[j] = blen[j]
            /\ temp'[j] = temp[j] /\ tlen'[j] = tlen[j]
        BY <2>1, <3>3, FlushOthers
      <4>2. Accounted(j)
        BY <2>4, <3>1, <4>1 DEF BufferSound, Live
      <4> QED
        BY <2>4, <3>1, <3>3, <4>1, <4>2, AccountedKept DEF Owns, o
    <3> QED
      BY <3>2, <3>3
  <2>5. (wowner # None => open[wowner])' /\ \A j \in Handles : (open[j] => pos[j] <= size[j])'
    BY <1>0 DEF BufferSound, Take, file
  <2>6. LoopSound'
    BY <1>0, <2>3 DEF BufferSound, LoopSound, Take, TypeOK, file
  <2>7. Live(i)' => Accounted(i)'
    BY <2>3 DEF Live
  <2> QED
    BY <2>2, <2>4, <2>5, <2>6, <2>7 DEF BufferSound
<1> QED
  BY <1>1, <1>2

\* Bytes into the buffer, as many as it has room for.
LEMMA CopyFits ==
  ASSUME Inv, NEW i \in Handles, Copy(i)
  PROVE  LET at == pos[i] - boff[i]
             n  == Smaller(count - done, DataMax - at)
         IN  /\ open[i] /\ Owns(i)
             /\ at \in 0 .. DataMax - 1 /\ at <= blen[i]
             /\ n \in 1 .. count - done /\ at + n <= DataMax
             /\ pos[i] + n <= MaxSize /\ pos[i] + n = boff[i] + (at + n)
             /\ pos[i] <= size[i]
<1> USE GemdosWriteAssumption DEF Inv
<1>1. open[i] /\ Owns(i) /\ i # None /\ done < count
  BY DEF Copy, BufferSound, LoopSound, Owns, MustTake, None
<1>2. pos[i] - boff[i] \in 0 .. DataMax - 1 /\ pos[i] - boff[i] <= blen[i]
  <2>1. CASE taken
    BY <2>1 DEF Copy, BufferSound, LoopSound, TypeOK
  <2>2. CASE ~taken
    BY <2>2 DEF Copy, MustTake, TypeOK
  <2> QED
    BY <2>1, <2>2
<1>3. pos[i] + (count - done) <= MaxSize /\ pos[i] <= size[i]
  BY <1>1 DEF Copy, BufferSound, LoopSound
<1>4. pos[i] \in Int /\ boff[i] \in Int /\ count \in Int /\ done \in Int /\ DataMax \in Int
      /\ MaxSize \in Int
  BY DEF TypeOK
<1> QED
  BY <1>1, <1>2, <1>3, <1>4 DEF Smaller

LEMMA InvCopy ==
  ASSUME Inv, NEW i \in Handles, Copy(i)
  PROVE  Inv'
<1> USE GemdosWriteAssumption DEF Inv
<1> DEFINE at == pos[i] - boff[i]
           n  == Smaller(count - done, DataMax - at)
<1>1. /\ open[i] /\ Owns(i)
      /\ at \in 0 .. DataMax - 1 /\ at <= blen[i]
      /\ n \in 1 .. count - done /\ at + n <= DataMax
      /\ pos[i] + n <= MaxSize /\ pos[i] + n = boff[i] + (at + n)
      /\ pos[i] <= size[i]
  BY CopyFits
<1>2. /\ caller = i /\ taken' = FALSE
      /\ wbuf' = [k \in Place |-> IF at <= k /\ k < at + n THEN src[done + (k - at)] ELSE wbuf[k]]
      /\ blen' = [blen EXCEPT ![i] = Larger(@, at + n)]
      /\ pos' = [pos EXCEPT ![i] = @ + n]
      /\ size' = [size EXCEPT ![i] = Larger(@, pos[i] + n)]
      /\ done' = done + n
      /\ UNCHANGED <<open, path, boff, sent, failed, wowner, temp, tlen, store, caller, src, count,
                     answer, calls>>
  BY DEF Copy, file, host
<1> HIDE DEF n, at
<1>3. TypeOK'
  <2>1. wbuf' \in [Place -> Byte]
    <3>1. \A k \in Place : at <= k /\ k < at + n => done + (k - at) \in 0 .. (count - 1)
      <4>1. done \in Nat /\ count \in Int /\ at \in Int /\ n \in Int /\ n <= count - done
        BY <1>1 DEF TypeOK
      <4>2. \A k \in Place : k \in Int
        BY DEF Place
      <4> QED
        BY <4>1, <4>2
    <3> QED
      BY <1>2, <3>1 DEF TypeOK
  <2>2. blen' \in [Handles -> 0 .. DataMax]
    BY <1>1, <1>2 DEF TypeOK, Larger
  <2>3. pos' \in [Handles -> 0 .. MaxSize] /\ size' \in [Handles -> 0 .. MaxSize]
    BY <1>1, <1>2 DEF TypeOK, Larger
  <2>4. done' \in 0 .. count
    BY <1>1, <1>2 DEF TypeOK
  <2>5. taken' \in BOOLEAN
    BY Zenon, <1>2
  <2> QED
    BY <1>2, <2>1, <2>2, <2>3, <2>4, <2>5 DEF TypeOK
<1>4. ASSUME Live(i)'
      PROVE  Accounted(i)'
  <2>1. Accounted(i)
    BY <1>1, <1>2, <1>4 DEF BufferSound, Live
  <2>2. BegunLen(i)' = BegunLen(i) /\ Begun(i)' = Begun(i) /\ InOrder(i)' = InOrder(i)
    BY <1>2 DEF BegunLen, Begun, InOrder, Empty, Pos, NoTemp
  <2>3. BegunLen(i) \in Int
    BY DEF TypeOK, BegunLen, NoTemp
  <2>4. boff[i] <= BegunLen(i) /\ size[i] = Larger(BegunLen(i), boff[i] + blen[i])
    BY <1>1, <2>1 DEF Accounted, LaidLen, Offset, Length
  <2>5. size'[i] = Larger(BegunLen(i), boff[i] + blen'[i])
    BY <1>1, <1>2, <2>3, <2>4 DEF Larger, TypeOK
  <2>6. Owns(i)' /\ LaidLen(i)' = size'[i] /\ boff'[i] <= BegunLen(i)'
    BY <1>1, <1>2, <2>2, <2>4, <2>5 DEF LaidLen, Offset, Length, Owns, Larger
  <2> QED
    BY <2>1, <2>2, <2>6 DEF Accounted, Pos
<1>5. ASSUME NEW j \in Handles, j # i, Live(j)'
      PROVE  Accounted(j)'
  <2>1. Live(j) /\ Accounted(j)
    BY <1>2, <1>5 DEF Live, BufferSound
  <2> QED
    BY <1>2, <1>5, <2>1, AccountedKept DEF TypeOK, Owns
<1>6. (wowner # None => open[wowner])' /\ \A j \in Handles : (open[j] => pos[j] <= size[j])'
  BY <1>1, <1>2 DEF BufferSound, Larger, TypeOK
<1>7. LoopSound'
  BY <1>1, <1>2 DEF BufferSound, LoopSound, TypeOK
<1> QED
  BY <1>3, <1>4, <1>5, <1>6, <1>7 DEF BufferSound

LEMMA InvFclose ==
  ASSUME Inv, NEW i \in Handles, Fclose(i)
  PROVE  Inv'
<1> USE GemdosWriteAssumption DEF Inv
<1>1. /\ Flush(i, TRUE) /\ open[i] /\ TRUE \in BOOLEAN
      /\ wowner' = IF Owns(i) THEN None ELSE wowner
      /\ open' = [open EXCEPT ![i] = FALSE]
      /\ answer' = failed'[i]
      /\ UNCHANGED <<path, pos, size, boff, wbuf, caller, src, count, done, taken>>
  BY DEF Fclose, call
<1>2. TypeOK'
  <2>1. /\ sent' \in [Handles -> BOOLEAN]
        /\ failed' \in [Handles -> Errors \cup {Ok}]
        /\ blen' \in [Handles -> 0 .. DataMax]
        /\ temp' \in [Handles -> [Pos -> Byte]]
        /\ tlen' \in [Handles -> 0 .. MaxSize \cup {NoTemp}]
        /\ store' \in [Paths -> Files \cup {NoFile}]
    BY <1>1, FlushTyped
  <2>2. calls' \in 0 .. MaxCalls
    BY DEF Fclose, Calls, TypeOK
  <2>3. open' \in [Handles -> BOOLEAN] /\ wowner' \in Handles \cup {None}
    BY <1>1 DEF TypeOK
  <2>4. answer' \in Errors \cup {Ok}
    BY <1>1, <2>1
  <2> QED
    BY <1>1, <2>1, <2>2, <2>3, <2>4 DEF TypeOK
<1>3. ASSUME NEW j \in Handles, Live(j)'
      PROVE  Accounted(j)'
  <2>1. j # i
    BY <1>1, <1>3 DEF Live, TypeOK
  <2>2. /\ sent'[j] = sent[j] /\ failed'[j] = failed[j] /\ blen'[j] = blen[j]
        /\ temp'[j] = temp[j] /\ tlen'[j] = tlen[j]
    BY <1>1, <2>1, FlushOthers
  <2>3. Accounted(j)
    BY <1>1, <1>3, <2>1, <2>2 DEF BufferSound, Live, TypeOK
  <2>4. Owns(j)' <=> Owns(j)
    BY <1>1, <2>1 DEF Owns, None
  <2> QED
    BY <1>1, <2>2, <2>3, <2>4, AccountedKept
<1>4. (wowner # None => open[wowner])' /\ \A j \in Handles : (open[j] => pos[j] <= size[j])'
  BY <1>1 DEF BufferSound, Owns, TypeOK
<1>5. LoopSound'
  BY <1>1 DEF BufferSound, LoopSound, Fclose, Calls, Idle
<1> QED
  BY <1>2, <1>3, <1>4, <1>5 DEF BufferSound

-----------------------------------------------------------------------------
LEMMA InvStutter == ASSUME Inv, UNCHANGED vars PROVE Inv'
<1> USE DEF Inv
<1>1. UNCHANGED <<open, path, pos, size, boff, blen, sent, failed, wbuf, wowner,
                 temp, tlen, store, caller, src, count, done, taken, answer, calls>>
  BY DEF vars, file, wfile, buffer, host, call
<1>2. TypeOK'
  BY <1>1 DEF TypeOK
<1>3. ASSUME NEW j \in Handles, Live(j)'
      PROVE  Accounted(j)'
  <2>1. Live(j)
    BY <1>1, <1>3 DEF Live
  <2> QED
    BY <1>1, <2>1, AccountedKept DEF BufferSound, Owns
<1>4. BufferSound'
  BY <1>1, <1>3 DEF BufferSound, LoopSound
<1> QED
  BY <1>2, <1>4

LEMMA InvNext == Inv /\ [Next]_vars => Inv'
<1> SUFFICES ASSUME Inv, [Next]_vars PROVE Inv'
  OBVIOUS
<1>1. CASE UNCHANGED vars
  BY <1>1, InvStutter
<1>2. ASSUME NEW i \in Handles, NEW p \in Paths, Fcreate(i, p) PROVE Inv'
  BY <1>2, InvFcreate
<1>3. ASSUME NEW i \in Handles, NEW n \in 0 .. MaxCount, NEW s \in [0 .. (n - 1) -> Byte],
             Fwrite(i, n, s)
      PROVE  Inv'
  BY <1>3, InvFwrite
<1>4. ASSUME NEW i \in Handles, NEW to \in 0 .. MaxSize, Fseek(i, to) PROVE Inv'
  BY <1>4, InvFseek
<1>5. ASSUME NEW i \in Handles, Fclose(i) PROVE Inv'
  BY <1>5, InvFclose
<1>6. ASSUME NEW i \in Handles, Take(i) \/ Copy(i) \/ Return(i) PROVE Inv'
  BY <1>6, InvTake, InvCopy, InvReturn
<1>7. ASSUME NEW p \in Paths, Fdelete(p) PROVE Inv'
  BY <1>7, InvFdelete
<1>8. CASE Restart
  BY <1>8, InvRestart
<1> QED
  BY <1>1, <1>2, <1>3, <1>4, <1>5, <1>6, <1>7, <1>8 DEF Next, Loop

\* TypeCorrect: the state of GEMDOS's write half always has its shape; so no
\* length or position in it leaves the buffer or the file (gemdos_write.zig).
THEOREM TypeCorrect == Spec => []TypeOK
<1>1. Inv => TypeOK
  BY DEF Inv
<1> QED
  BY InvInit, InvNext, <1>1, PTL DEF Spec

\* BufferAlwaysSound: whichever handles write, seek and close in whichever
\* order, and whichever requests fail, every byte a live file was given is at
\* the host or in the buffer, at its place (Fwrite, take, flush).
THEOREM BufferAlwaysSound == Spec => []BufferSound
<1>1. Inv => BufferSound
  BY DEF Inv
<1> QED
  BY InvInit, InvNext, <1>1, PTL DEF Spec

-----------------------------------------------------------------------------
\* A request is in order, so its refusal is not for what it asks.
LEMMA FlushFails ==
  ASSUME Inv, NEW i \in Handles, open[i], NEW last \in BOOLEAN, Flush(i, last)
  PROVE  failed'[i] \in {failed[i], "EACCDN"}
<1> USE DEF Inv
<1>1. CASE failed' = failed
  BY <1>1
<1>2. CASE /\ Sends(i, last)
           /\ \E e \in Errors : Reason(i, e) /\ failed' = [failed EXCEPT ![i] = e]
  <2>1. InOrder(i) /\ InRange(i)
    BY <1>2, LaidTyped DEF Sends, Live
  <2> QED
    BY <1>2, <2>1 DEF Reason, TypeOK
<1> QED
  BY <1>1, <1>2 DEF Flush

LEMMA FailsForTheHostNext ==
  ASSUME Inv, FailsForTheHost, [Next]_vars
  PROVE  FailsForTheHost'
<1> USE DEF Inv
<1>1. ASSUME UNCHANGED <<open, failed>> PROVE FailsForTheHost'
  BY <1>1 DEF FailsForTheHost
<1>2. CASE UNCHANGED vars
  BY <1>1, <1>2 DEF vars, file, wfile
<1>3. ASSUME NEW i \in Handles, NEW p \in Paths, Fcreate(i, p) PROVE FailsForTheHost'
  BY <1>3 DEF Fcreate, FailsForTheHost, TypeOK, Ok
<1>4. ASSUME NEW i \in Handles, NEW n \in 0 .. MaxCount, NEW s \in [0 .. (n - 1) -> Byte],
             Fwrite(i, n, s)
      PROVE  FailsForTheHost'
  BY <1>1, <1>4 DEF Fwrite, file, wfile
<1>5. ASSUME NEW i \in Handles, NEW to \in 0 .. MaxSize, Fseek(i, to) PROVE FailsForTheHost'
  BY <1>1, <1>5 DEF Fseek, file
<1>6. ASSUME NEW i \in Handles, Fclose(i) PROVE FailsForTheHost'
  <2>1. Flush(i, TRUE) /\ TRUE \in BOOLEAN /\ open' = [open EXCEPT ![i] = FALSE]
    BY <1>6 DEF Fclose
  <2>2. \A j \in Handles : j # i => failed'[j] = failed[j]
    BY <2>1, FlushOthers
  <2> QED
    BY <2>1, <2>2 DEF FailsForTheHost, TypeOK
<1>7. ASSUME NEW i \in Handles, Take(i) PROVE FailsForTheHost'
  <2>1. CASE wowner = None
    BY <1>1, <1>7, <2>1 DEF Take, file
  <2>2. CASE wowner # None
    <3>1. wowner \in Handles /\ open[wowner] /\ Flush(wowner, FALSE) /\ FALSE \in BOOLEAN
      BY <1>7, <2>2 DEF Take, BufferSound, TypeOK
    <3>2. failed'[wowner] \in {failed[wowner], "EACCDN"}
      BY <3>1, FlushFails
    <3>3. \A j \in Handles : j # wowner => failed'[j] = failed[j]
      BY <3>1, FlushOthers
    <3>4. open' = open
      BY <1>7 DEF Take, file
    <3> QED
      BY <3>2, <3>3, <3>4 DEF FailsForTheHost
  <2> QED
    BY <2>1, <2>2
<1>8. ASSUME NEW i \in Handles, Copy(i) \/ Return(i) PROVE FailsForTheHost'
  BY <1>1, <1>8 DEF Copy, Return, file, wfile
<1>9. ASSUME NEW p \in Paths, Fdelete(p) PROVE FailsForTheHost'
  BY <1>1, <1>9 DEF Fdelete, file, wfile
<1>10. CASE Restart
  BY <1>10 DEF Restart, FailsForTheHost
<1> QED
  BY <1>2, <1>3, <1>4, <1>5, <1>6, <1>7, <1>8, <1>9, <1>10 DEF Next, Loop

\* NeverOutOfOrder: no save fails because the library asked the host for an
\* offset outside the temporary file or for a temporary file that is not there
\* (the checks of kfs_ops.zig:52-53).
THEOREM NeverOutOfOrder == Spec => []FailsForTheHost
<1>1. Init => FailsForTheHost
  BY DEF Init, FailsForTheHost
<1>2. Inv /\ FailsForTheHost /\ [Next]_vars => (Inv /\ FailsForTheHost)'
  BY InvNext, FailsForTheHostNext
<1> QED
  BY InvInit, <1>1, <1>2, PTL DEF Spec

-----------------------------------------------------------------------------
(***************************************************************************)
(* GemdosWrite implements SaveFile: the image of a live file is its        *)
(* temporary file at the host with the buffer laid over it (Image), which  *)
(* Copy changes as SaveFile's Put does and a request leaves as it was.     *)
(***************************************************************************)

\* Nothing in the buffer: what is at the host is all there is.
LEMMA LaidBare ==
  ASSUME TypeOK, NEW j \in Handles, Length(j) = 0
  PROVE  Laid(j) = Begun(j)
<1>1. Offset(j) \in Int
  BY DEF Offset, TypeOK
<1>2. \A k \in Pos : ~(Offset(j) <= k /\ k < Offset(j) + Length(j))
  BY <1>1, GemdosWriteAssumption DEF Pos
<1>3. Begun(j) \in [Pos -> Byte]
  BY GemdosWriteAssumption DEF TypeOK, Begun, Empty
<1> QED
  BY <1>2, <1>3 DEF Laid

LEMMA LaidBareNext ==
  ASSUME TypeOK', NEW j \in Handles, Length(j)' = 0
  PROVE  Laid(j)' = Begun(j)'
<1>1. Offset(j)' \in Int
  BY DEF Offset, TypeOK
<1>2. \A k \in Pos : ~(Offset(j)' <= k /\ k < Offset(j)' + Length(j)')
  BY <1>1, GemdosWriteAssumption DEF Pos
<1>3. Begun(j)' \in [Pos -> Byte]
  BY GemdosWriteAssumption DEF TypeOK, Begun, Empty, Pos
<1> QED
  BY <1>2, <1>3 DEF Laid, Pos

LEMMA LaidKept ==
  ASSUME NEW j \in Handles, Owns(j)' <=> Owns(j), wbuf' = wbuf,
         sent'[j] = sent[j], temp'[j] = temp[j],
         boff'[j] = boff[j], blen'[j] = blen[j], size'[j] = size[j]
  PROVE  Laid(j)' = Laid(j)
<1>1. Begun(j)' = Begun(j) /\ Length(j)' = Length(j) /\ Offset(j)' = Offset(j)
  BY DEF Begun, Length, Offset, Empty, Pos
<1> QED
  BY <1>1 DEF Laid, Pos

LEMMA ImageIs ==
  ASSUME NEW j \in Handles
  PROVE  /\ Image[j] = IF Live(j) THEN Laid(j) ELSE Empty
         /\ Image'[j] = IF Live(j)' THEN Laid(j)' ELSE Empty
BY DEF Image, Empty, Pos

\* A step that leaves every image as it was.
LEMMA SameImage ==
  ASSUME \A j \in Handles : Image'[j] = Image[j]
  PROVE  Image' = Image
BY DEF Image

LEMMA ImageUnchanged ==
  ASSUME UNCHANGED <<open, wfile, wbuf, wowner, temp>>
  PROVE  Image' = Image
<1>1. ASSUME NEW j \in Handles
      PROVE  Image'[j] = Image[j]
  <2>1. Laid(j)' = Laid(j)
    BY LaidKept DEF Owns, wfile
  <2>2. Live(j)' <=> Live(j)
    BY DEF Live, wfile
  <2> QED
    BY <2>1, <2>2, ImageIs
<1> QED
  BY <1>1, SameImage

-----------------------------------------------------------------------------
LEMMA InitImplements == Init => Saves!Init
<1> SUFFICES ASSUME Init PROVE Saves!Init
  OBVIOUS
<1>1. TypeOK
  BY InvInit DEF Inv
<1>2. Image = [i \in Handles |-> Empty]
  BY DEF Image, Live, Init
<1> QED
  BY <1>1, <1>2 DEF Init, Saves!Init, TypeOK, Saves!None, None, Saves!Ok, Ok, Saves!Empty, Empty,
       Saves!Pos, Pos, Saves!NoBytes, NoBytes, Saves!Files, Files, Saves!NoFile, NoFile

LEMMA FcreateImplements ==
  ASSUME Inv, NEW i \in Handles, NEW p \in Paths, Fcreate(i, p)
  PROVE  Saves!Create(i, p)
<1> USE DEF Inv
<1>1. wowner # i
  BY GemdosWriteAssumption DEF BufferSound, Fcreate, FirstFree, TypeOK, None
<1>2. TypeOK'
  BY InvFcreate
<1>3. Laid(i)' = Empty
  <2>1. ~sent'[i] /\ wowner' # i
    BY <1>1 DEF Fcreate, TypeOK, buffer
  <2>2. Length(i)' = 0 /\ Begun(i)' = Empty
    BY <2>1 DEF Length, Owns, Begun, Empty, Pos
  <2> QED
    BY <1>2, <2>2, LaidBareNext
<1>4. ASSUME NEW j \in Handles, j # i
      PROVE  Image'[j] = Image[j]
  <2>1. Live(j)' <=> Live(j)
    BY <1>4 DEF Live, Fcreate, TypeOK
  <2>2. Laid(j)' = Laid(j)
    BY <1>4, LaidKept DEF Fcreate, TypeOK, Owns, buffer, host
  <2> QED
    BY <2>1, <2>2, ImageIs
<1>5. Image' = [Image EXCEPT ![i] = Empty]
  <2>1. Image'[i] = Empty
    BY <1>3, ImageIs
  <2> QED
    BY <1>4, <2>1 DEF Image
<1> QED
  BY <1>5 DEF Fcreate, FirstFree, Calls, Idle, call, host, Saves!Create, Saves!Idle, Saves!Call,
       Saves!None, None, Saves!Ok, Ok, Saves!Empty, Empty, Saves!Pos, Pos

LEMMA FwriteImplements ==
  ASSUME Inv, NEW i \in Handles, NEW n \in 0 .. MaxCount, NEW s \in [0 .. (n - 1) -> Byte],
         Fwrite(i, n, s)
  PROVE  Saves!Write(i, n, s)
<1>1. Image' = Image
  BY ImageUnchanged DEF Fwrite, file, buffer, host
<1> QED
  BY <1>1 DEF Fwrite, Calls, Idle, file, wfile, host, Saves!Write, Saves!Idle, Saves!None, None

LEMMA ReturnImplements ==
  ASSUME Inv, NEW i \in Handles, Return(i)
  PROVE  Saves!Return(i)
<1>1. Image' = Image
  BY ImageUnchanged DEF Return, file, buffer, host
<1> QED
  BY <1>1 DEF Return, file, wfile, host, Saves!Return, Saves!Ok, Ok, Saves!None, None,
       Saves!NoBytes, NoBytes

LEMMA FdeleteImplements ==
  ASSUME Inv, NEW p \in Paths, Fdelete(p)
  PROVE  Saves!Remove(p)
<1>1. Image' = Image
  BY ImageUnchanged DEF Fdelete, file, buffer
<1> QED
  BY <1>1 DEF Fdelete, Calls, Idle, file, wfile, call, Saves!Remove, Saves!Idle, Saves!Call,
       Saves!None, None, Saves!Ok, Ok, Saves!NoFile, NoFile, Saves!Empty, Empty, Saves!Pos, Pos

LEMMA RestartImplements == ASSUME Inv, Restart PROVE Saves!Restart
<1>1. Image' = [i \in Handles |-> Empty]
  BY DEF Image, Live, Restart, Empty, Pos
<1> QED
  BY <1>1 DEF Restart, host, Saves!Restart, Saves!None, None, Saves!Ok, Ok, Saves!NoBytes, NoBytes,
       Saves!Empty, Empty, Saves!Pos, Pos

LEMMA FseekImplements ==
  ASSUME Inv, NEW i \in Handles, NEW to \in 0 .. MaxSize, Fseek(i, to)
  PROVE  Saves!Seek(i, to)
<1>1. ASSUME NEW j \in Handles
      PROVE  Image'[j] = Image[j]
  <2>1. Laid(j)' = Laid(j)
    BY LaidKept DEF Fseek, buffer, host, Owns
  <2>2. Live(j)' <=> Live(j)
    BY DEF Live, Fseek, file
  <2> QED
    BY <2>1, <2>2, ImageIs
<1> QED
  BY <1>1, SameImage DEF Fseek, Calls, Idle, file, host, call, Saves!Seek, Saves!Idle, Saves!Call,
       Saves!None, None, Saves!Ok, Ok

\* Bytes into the buffer are bytes into the image.
LEMMA CopyImplements ==
  ASSUME Inv, NEW i \in Handles, Copy(i)
  PROVE  \E n \in 1 .. MaxCount : Saves!Put(i, n)
<1> USE GemdosWriteAssumption DEF Inv
<1> DEFINE at == pos[i] - boff[i]
           n  == Smaller(count - done, DataMax - at)
           put == [k \in Pos |-> IF failed[i] = Ok /\ pos[i] <= k /\ k < pos[i] + n
                                    THEN src[done + (k - pos[i])] ELSE Image[i][k]]
<1>1. /\ open[i] /\ Owns(i)
      /\ at \in 0 .. DataMax - 1 /\ at <= blen[i]
      /\ n \in 1 .. count - done /\ at + n <= DataMax
      /\ pos[i] + n <= MaxSize /\ pos[i] + n = boff[i] + (at + n)
      /\ pos[i] <= size[i]
  BY CopyFits
<1>2. /\ caller = i
      /\ wbuf' = [k \in Place |-> IF at <= k /\ k < at + n THEN src[done + (k - at)] ELSE wbuf[k]]
      /\ blen' = [blen EXCEPT ![i] = Larger(@, at + n)]
      /\ pos' = [pos EXCEPT ![i] = @ + n]
      /\ size' = [size EXCEPT ![i] = Larger(@, pos[i] + n)]
      /\ done' = done + n
      /\ UNCHANGED <<open, path, boff, sent, failed, wowner, temp, tlen, store, caller, src, count,
                     answer, calls>>
  BY DEF Copy, file, host
<1>a. /\ pos[i] \in Int /\ boff[i] \in Int /\ blen[i] \in 0 .. DataMax /\ DataMax \in Int
      /\ done \in Int /\ count \in Int /\ count <= MaxCount /\ done >= 0 /\ MaxCount \in Int
      /\ pos[i] = boff[i] + at
  BY DEF TypeOK
<1> HIDE DEF n, at, put
<1>n. n \in 1 .. MaxCount /\ n <= count - done /\ n \in Int /\ at \in Int
  BY <1>1, <1>a
<1>3. Live(i)' <=> Live(i)
  BY <1>2 DEF Live
<1>4. Live(i) <=> failed[i] = Ok
  BY <1>1 DEF Live
<1>5. CASE Live(i)
  <2>1. Begun(i)' = Begun(i) /\ Offset(i)' = boff[i] /\ Offset(i) = boff[i]
        /\ Length(i) = blen[i] /\ Length(i)' = Larger(blen[i], at + n)
    BY <1>1, <1>2, <1>a DEF Begun, Offset, Length, Owns, Empty, Pos, TypeOK
  <2>2. ASSUME NEW k \in Pos
        PROVE  Laid(i)'[k] = put[k]
    <3>1. k \in Int
      BY DEF Pos
    <3>2. Laid(i)'[k] = IF boff[i] <= k /\ k < boff[i] + Larger(blen[i], at + n)
                          THEN wbuf'[k - boff[i]] ELSE Begun(i)[k]
      BY <2>1 DEF Laid, Pos
    <3>3. put[k] = IF pos[i] <= k /\ k < pos[i] + n THEN src[done + (k - pos[i])] ELSE Laid(i)[k]
      BY <1>5, <1>4, ImageIs DEF put
    <3>4. Laid(i)[k] = IF boff[i] <= k /\ k < boff[i] + blen[i] THEN wbuf[k - boff[i]] ELSE Begun(i)[k]
      BY <2>1 DEF Laid
    <3>5. CASE pos[i] <= k /\ k < pos[i] + n
      <4>1. k - boff[i] \in Place /\ at <= k - boff[i] /\ k - boff[i] < at + n
        BY <1>1, <1>a, <1>n, <3>1, <3>5 DEF Place
      <4>2. wbuf'[k - boff[i]] = src[done + ((k - boff[i]) - at)]
        BY <1>2, <4>1
      <4>3. (k - boff[i]) - at = k - pos[i]
        BY <1>a, <1>n, <3>1
      <4>4. boff[i] <= k /\ k < boff[i] + Larger(blen[i], at + n)
        BY <1>1, <1>a, <1>n, <3>1, <3>5 DEF Larger
      <4> QED
        BY <3>2, <3>3, <3>5, <4>2, <4>3, <4>4
    <3>6. CASE ~(pos[i] <= k /\ k < pos[i] + n)
      <4>1. (boff[i] <= k /\ k < boff[i] + Larger(blen[i], at + n))
              <=> (boff[i] <= k /\ k < boff[i] + blen[i])
        BY <1>1, <1>a, <1>n, <3>1, <3>6 DEF Larger
      <4>2. ASSUME boff[i] <= k, k < boff[i] + blen[i]
            PROVE  wbuf'[k - boff[i]] = wbuf[k - boff[i]]
        <5>1. k - boff[i] \in Place /\ ~(at <= k - boff[i] /\ k - boff[i] < at + n)
          BY <1>a, <1>n, <3>1, <3>6, <4>2 DEF Place
        <5> QED
          BY <1>2, <5>1
      <4> QED
        BY <3>2, <3>3, <3>4, <3>6, <4>1, <4>2
    <3> QED
      BY <3>5, <3>6
  <2>3. Laid(i)' = put
    BY <2>2 DEF Laid, put, Pos
  <2> QED
    <3>1. Image'[i] = put
      BY <1>3, <1>5, <2>3, ImageIs
    <3>2. ASSUME NEW j \in Handles, j # i
          PROVE  Image'[j] = Image[j]
      <4>1. (Live(j)' <=> Live(j)) /\ ~Owns(j) /\ ~Owns(j)'
        BY <1>1, <1>2, <3>2 DEF Live, Owns
      <4>2. Length(j) = 0 /\ Length(j)' = 0 /\ Begun(j)' = Begun(j)
        BY <1>2, <4>1 DEF Length, Begun, Empty, Pos
      <4>3. Laid(j)' = Laid(j)
        BY <4>2, LaidBare, LaidBareNext, InvCopy
      <4> QED
        BY <4>1, <4>3, ImageIs
    <3>3. Image' = [Image EXCEPT ![i] = put]
      BY <3>1, <3>2 DEF Image
    <3>4. Saves!Put(i, n)
      BY <1>2, <1>n, <3>3 DEF put, Saves!Put, Saves!Ok, Ok, Saves!Pos, Pos, Saves!Larger, Larger
    <3> QED
      BY <1>n, <3>4
<1>6. CASE ~Live(i)
  <2>1. Image[i] = Empty /\ Image'[i] = Empty /\ failed[i] # Ok
    BY <1>3, <1>4, <1>6, ImageIs
  <2>2. put = Empty
    BY <2>1 DEF put, Empty
  <2>3. ASSUME NEW j \in Handles, j # i
        PROVE  Image'[j] = Image[j]
    <3>1. (Live(j)' <=> Live(j)) /\ ~Owns(j) /\ ~Owns(j)'
      BY <1>1, <1>2, <2>3 DEF Live, Owns
    <3>2. Length(j) = 0 /\ Length(j)' = 0 /\ Begun(j)' = Begun(j)
      BY <1>2, <3>1 DEF Length, Begun, Empty, Pos
    <3>3. Laid(j)' = Laid(j)
      BY <3>2, LaidBare, LaidBareNext, InvCopy
    <3> QED
      BY <3>1, <3>3, ImageIs
  <2>4. Image' = [Image EXCEPT ![i] = put]
    BY <2>1, <2>2, <2>3 DEF Image
  <2>5. Saves!Put(i, n)
    BY <1>2, <1>n, <2>4 DEF put, Saves!Put, Saves!Ok, Ok, Saves!Pos, Pos, Saves!Larger, Larger
  <2> QED
    BY <1>n, <2>5
<1> QED
  BY <1>5, <1>6

\* A request that is answered moves bytes from the buffer to the host, and the
\* image is what it was; one that is refused fails its file.
LEMMA TakeImplements ==
  ASSUME Inv, NEW i \in Handles, Take(i)
  PROVE  \/ UNCHANGED Saves!vars
         \/ \E j \in Handles : \E e \in Errors : Saves!Fail(j, e)
<1> USE GemdosWriteAssumption DEF Inv
<1>0. /\ open[i] /\ failed[i] = Ok /\ i # None
      /\ wowner' = i /\ boff'[i] = pos[i] /\ \A j \in Handles : j # i => boff'[j] = boff[j]
      /\ UNCHANGED <<open, path, pos, size, wbuf, caller, src, count, done, answer>>
  BY DEF Take, BufferSound, LoopSound, None, file, TypeOK
<1>1. TypeOK' /\ (Live(i)' => blen'[i] = 0)
  <2>1. Inv'
    BY InvTake
  <2>2. taken' /\ caller' = i
    BY <1>0 DEF Take
  <2> QED
    BY <2>1, <2>2 DEF BufferSound, LoopSound
<1>2. ASSUME NEW j \in Handles, Live(j), Live(j)',
             wowner # j \/ blen[j] = 0,
             sent'[j] = sent[j], temp'[j] = temp[j], blen'[j] = blen[j]
      PROVE  Laid(j)' = Laid(j)
  <2>1. Length(j) = 0
    BY <1>2 DEF Length, Owns
  <2>2. Length(j)' = 0
    BY <1>0, <1>1, <1>2 DEF Length, Owns
  <2>3. Begun(j)' = Begun(j)
    BY <1>2 DEF Begun, Empty, Pos
  <2> QED
    BY <1>1, <2>1, <2>2, <2>3, LaidBare, LaidBareNext
<1>3. CASE wowner = None
  <2>1. UNCHANGED <<temp, tlen, store, sent, failed, blen>>
    BY <1>3 DEF Take, host
  <2>2. ASSUME NEW j \in Handles
        PROVE  Image'[j] = Image[j]
    <3>1. Live(j)' <=> Live(j)
      BY <1>0, <2>1 DEF Live
    <3>2. wowner # j
      BY <1>3 DEF None
    <3>3. Live(j) => Laid(j)' = Laid(j)
      BY <1>2, <2>1, <3>1, <3>2
    <3> QED
      BY <3>1, <3>3, ImageIs
  <2> QED
    BY <1>0, <2>1, <2>2, SameImage DEF Saves!vars
<1>4. CASE wowner # None
  <2>0. PICK o \in Handles : o = wowner
    BY <1>4 DEF TypeOK
  <2>1. open[o] /\ Flush(o, FALSE) /\ FALSE \in BOOLEAN
    BY <1>4, <2>0 DEF Take, BufferSound
  <2>2. \A j \in Handles : j # o => /\ sent'[j] = sent[j] /\ failed'[j] = failed[j]
                                    /\ blen'[j] = blen[j] /\ temp'[j] = temp[j]
    BY <2>1, FlushOthers
  <2>3. \A j \in Handles : j # o => wowner # j
    BY <2>0
  <2>4. ASSUME NEW j \in Handles, j # o
        PROVE  Image'[j] = Image[j]
    <3>1. Live(j)' <=> Live(j)
      BY <1>0, <2>2, <2>4 DEF Live
    <3>2. Live(j) => Laid(j)' = Laid(j)
      BY <1>2, <2>2, <2>3, <2>4, <3>1
    <3> QED
      BY <3>1, <3>2, ImageIs
  <2>5. store' = store
    BY <2>1 DEF Flush, Takes, Refuses, Drops
  <2>6. CASE failed' = failed
    <3>1. Live(o)' <=> Live(o)
      BY <1>0, <2>6 DEF Live
    <3>2. ASSUME Live(o)
          PROVE  Laid(o)' = Laid(o)
      <4>1. failed'[o] = Ok
        BY <3>2, <2>6 DEF Live
      <4>2. /\ blen'[o] = 0
            /\ IF sent'[o] THEN tlen'[o] = size[o] /\ temp'[o] = Laid(o)
                           ELSE size[o] = 0 /\ Laid(o) = Empty
        BY <2>1, <4>1, FlushSelf
      <4>3. Begun(o)' = Laid(o) /\ Length(o)' = 0
        BY <4>2 DEF Begun, Length, Empty, Pos
      <4> QED
        BY <1>1, <2>1, <4>3, LaidBareNext
    <3>3. Image'[o] = Image[o]
      BY <2>1, <3>1, <3>2, ImageIs
    <3>4. Image' = Image
      BY <2>4, <3>3, SameImage
    <3> QED
      BY <1>0, <2>5, <2>6, <3>4 DEF Saves!vars
  <2>7. CASE failed' # failed
    <3>1. PICK e \in Errors : failed' = [failed EXCEPT ![o] = e]
      BY <2>1, <2>7 DEF Flush
    <3>2. failed[o] = Ok
      BY <2>1, <2>7 DEF Flush, Sends
    <3>3. Image'[o] = Empty
      <4>1. failed'[o] # Ok
        BY <2>1, <3>1 DEF TypeOK, Ok, Errors
      <4> QED
        BY <2>1, <4>1, ImageIs DEF Live
    <3>4. Image' = [Image EXCEPT ![o] = Empty]
      BY <2>4, <3>3 DEF Image
    <3>5. Saves!Fail(o, e)
      BY <1>0, <2>1, <2>5, <3>1, <3>2, <3>4 DEF Saves!Fail, Saves!Ok, Ok, Saves!Empty, Empty, Saves!Pos,
           Pos, Saves!Call
    <3> QED
      BY <2>1, <3>5
  <2> QED
    BY <2>6, <2>7
<1> QED
  BY <1>3, <1>4

LEMMA FcloseImplements ==
  ASSUME Inv, NEW i \in Handles, Fclose(i)
  PROVE  Saves!Close(i)
<1> USE GemdosWriteAssumption DEF Inv
<1>1. /\ Flush(i, TRUE) /\ open[i] /\ TRUE \in BOOLEAN
      /\ wowner' = IF Owns(i) THEN None ELSE wowner
      /\ open' = [open EXCEPT ![i] = FALSE]
      /\ answer' = failed'[i]
      /\ Idle
      /\ UNCHANGED <<path, pos, size, boff, wbuf, caller, src, count, done>>
  BY DEF Fclose, Calls, call
<1>2. ASSUME NEW j \in Handles, j # i
      PROVE  Image'[j] = Image[j]
  <2>1. /\ sent'[j] = sent[j] /\ failed'[j] = failed[j] /\ blen'[j] = blen[j]
        /\ temp'[j] = temp[j] /\ tlen'[j] = tlen[j]
    BY <1>1, <1>2, FlushOthers
  <2>2. Live(j)' <=> Live(j)
    BY <1>1, <1>2, <2>1 DEF Live, TypeOK
  <2>3. Owns(j)' <=> Owns(j)
    BY <1>1, <1>2 DEF Owns, None
  <2>4. Laid(j)' = Laid(j)
    BY <1>1, <2>1, <2>3, LaidKept
  <2> QED
    BY <2>2, <2>4, ImageIs
<1>3. Image' = [Image EXCEPT ![i] = Empty]
  <2>1. Image'[i] = Empty
    BY <1>1, ImageIs DEF Live, TypeOK
  <2> QED
    BY <1>2, <2>1 DEF Image
<1>4. failed' = [failed EXCEPT ![i] = answer']
  BY <1>1 DEF Flush, TypeOK
<1>5. \/ /\ failed[i] = Ok
         /\ store' = [store EXCEPT ![path[i]] = [size |-> size[i], bytes |-> Image[i]]]
         /\ answer' = Ok
      \/ /\ store' = store
         /\ answer' \in Errors
         /\ failed[i] # Ok => answer' = failed[i]
  <2>1. CASE ~Sends(i, TRUE)
    <3>1. failed[i] # Ok /\ failed' = failed
      BY <1>1, <2>1 DEF Sends, Flush
    <3>2. store' = store
      BY <1>1, <2>1 DEF Flush, Drops
    <3>3. failed[i] \in Errors
      BY <3>1 DEF TypeOK
    <3> QED
      BY <1>1, <3>1, <3>2, <3>3
  <2>2. CASE Sends(i, TRUE) /\ Takes(i, TRUE) /\ failed' = failed
    <3>1. Live(i)
      BY <1>1, <2>2 DEF Sends, Live
    <3>2. LaidLen(i) = size[i] /\ Image[i] = Laid(i)
      BY <3>1, LaidTyped, ImageIs
    <3>3. store' = [store EXCEPT ![path[i]] = [size |-> LaidLen(i), bytes |-> Laid(i)]]
      BY <2>2 DEF Takes
    <3> QED
      BY <1>1, <2>2, <3>1, <3>2, <3>3 DEF Live
  <2>3. CASE /\ Sends(i, TRUE)
             /\ IF TRUE /\ sent[i] THEN Drops(i) ELSE Refuses(i)
             /\ \E e \in Errors : Reason(i, e) /\ failed' = [failed EXCEPT ![i] = e]
    <3>1. store' = store
      BY <2>3 DEF Drops, Refuses
    <3>2. failed'[i] \in Errors /\ failed[i] = Ok
      BY <2>3 DEF TypeOK, Sends
    <3> QED
      BY <1>1, <3>1, <3>2
  <2> QED
    BY <1>1, <2>1, <2>2, <2>3 DEF Flush
<1> QED
  BY <1>1, <1>3, <1>4, <1>5 DEF Idle, Saves!Close, Saves!Idle, Saves!Call, Saves!None, None,
       Saves!Ok, Ok, Saves!Empty, Empty, Saves!Pos, Pos, Saves!Errors, Errors

-----------------------------------------------------------------------------
LEMMA NextImplements ==
  ASSUME Inv, [Next]_vars
  PROVE  [Saves!Next]_Saves!vars
<1>1. CASE UNCHANGED vars
  <2>1. UNCHANGED <<open, wfile, wbuf, wowner, temp, path, store, call, answer>>
    BY <1>1 DEF vars, file, buffer, host
  <2>2. Image' = Image
    BY <2>1, ImageUnchanged
  <2> QED
    BY <2>1, <2>2 DEF Saves!vars, wfile, call
<1>2. ASSUME NEW i \in Handles, NEW p \in Paths, Fcreate(i, p) PROVE Saves!Next
  BY <1>2, FcreateImplements DEF Saves!Next
<1>3. ASSUME NEW i \in Handles, NEW n \in 0 .. MaxCount, NEW s \in [0 .. (n - 1) -> Byte],
             Fwrite(i, n, s)
      PROVE  Saves!Next
  BY <1>3, FwriteImplements DEF Saves!Next
<1>4. ASSUME NEW i \in Handles, NEW to \in 0 .. MaxSize, Fseek(i, to) PROVE Saves!Next
  BY <1>4, FseekImplements DEF Saves!Next
<1>5. ASSUME NEW i \in Handles, Fclose(i) PROVE Saves!Next
  BY <1>5, FcloseImplements DEF Saves!Next
<1>6. ASSUME NEW i \in Handles, Take(i) PROVE [Saves!Next]_Saves!vars
  BY <1>6, TakeImplements DEF Saves!Next, Saves!Errors, Errors
<1>7. ASSUME NEW i \in Handles, Copy(i) PROVE Saves!Next
  BY <1>7, CopyImplements DEF Saves!Next
<1>8. ASSUME NEW i \in Handles, Return(i) PROVE Saves!Next
  BY <1>8, ReturnImplements DEF Saves!Next
<1>9. ASSUME NEW p \in Paths, Fdelete(p) PROVE Saves!Next
  BY <1>9, FdeleteImplements DEF Saves!Next
<1>10. CASE Restart
  BY <1>10, RestartImplements DEF Saves!Next
<1> QED
  BY <1>1, <1>2, <1>3, <1>4, <1>5, <1>6, <1>7, <1>8, <1>9, <1>10 DEF Next, Loop

\* SavesAreWhole: GEMDOS's buffer, requests and temporary files implement
\* SaveFile: an Fclose that answers ok has put exactly the bytes written, at
\* the places they were written to, in the file's place; any other has left
\* the file there was, and no call on one handle changes another's file.
THEOREM SavesAreWhole == Spec => Implements
<1>1. Inv /\ [Next]_vars => [Saves!Next]_Saves!vars
  BY NextImplements
<1> QED
  BY InvInit, InvNext, InitImplements, <1>1, PTL DEF Spec, Implements, Saves!Spec

=============================================================================
