--------------------------- MODULE CartSwapProofs ---------------------------
(***************************************************************************)
(* Theorems about CartSwap, for any number of waiting calls, any channels, *)
(* disks and keys: the guard admits one swap at a time, no cart is called  *)
(* in a window that another is being put into, no swap loses a key, and    *)
(* the channel buttons step from the cart that runs.                       *)
(***************************************************************************)
EXTENDS CartSwap, TLAPS

TaskRec == [at : {"none", "list", "tune", "file", "mount", "gem", "link"},
            url : Disks \cup {None},
            prog : {"sector", "cart", "desktop", "program"},
            up : BOOLEAN,
            was : Disks \cup {None}, wasTag : Tags \cup {None},
            step : {-1, 0, 1}]

Swapping == {"file", "mount", "gem", "link"}

\* The page fetches its own disks only; what a visitor brings is an upload.
OwnUrl(next) == next.up \/ next.url \in Tags \cup {Menu, None}

\* A call tuning to a channel, and only such a call, has a channel for its url.
TuneUrl(next) == next.at = "tune" => next.url \in Tags

GuardOK ==
  /\ task \in [Tasks -> TaskRec]
  /\ \A t \in Tasks : OwnUrl(task[t]) /\ TuneUrl(task[t]) /\ (task[t].at = "mount" => task[t].url # None)
  /\ swapping \in BOOLEAN
  /\ OneSwap

\* A window that is taken has been lost, or is being linked.
WindowTracked == window = "taken" => lost \/ \E t \in Tasks : Is(t, "link")

KeysTracked == pressed \subseteq heldDirs \cup blind

\* The inductive invariant.
Inv == TypeOK /\ GuardOK /\ WindowTracked /\ KeysTracked /\ TagFits

-----------------------------------------------------------------------------
\* Call t is the only one that may be swapping.
Only(t) == \A u \in Tasks \ {t} : task[u].at \notin Swapping

\* NoTask is a record of a call that waits for nothing.
LEMMA NoTaskType == NoTask \in TaskRec /\ OwnUrl(NoTask) /\ TuneUrl(NoTask) /\ NoTask.at = "none"
  BY DEF NoTask, TaskRec, OwnUrl, TuneUrl

\* A call that waits alone for a step of its swap keeps the guard sound.
LEMMA AwaitsGuard ==
  ASSUME GuardOK, NEW t \in Tasks, NEW next \in TaskRec, Only(t), next.at \in Swapping,
         OwnUrl(next), next.at = "mount" => next.url # None, Awaits(t, next)
  PROVE  GuardOK' /\ Is(t, next.at)'
  <1>1. task' = [task EXCEPT ![t] = next] /\ swapping' = TRUE
    BY DEF Awaits
  <1>2. task' \in [Tasks -> TaskRec] /\ task'[t] = next
    BY <1>1 DEF GuardOK
  <1>3. \A u \in Tasks \ {t} : task'[u] = task[u]
    BY <1>1 DEF GuardOK
  <1>4. \A u \in Tasks : OwnUrl(task'[u]) /\ TuneUrl(task'[u]) /\ (task'[u].at = "mount" => task'[u].url # None)
    BY <1>2, <1>3 DEF GuardOK, TuneUrl, Swapping
  <1>5. \A u \in Tasks : task'[u].at \in Swapping <=> u = t
    BY <1>2, <1>3 DEF Only
  <1> QED  BY <1>1, <1>2, <1>4, <1>5 DEF GuardOK, OneSwap, InFlight, Is, Swapping

\* The guard released with the only swap's end stays sound.
LEMMA OverGuard ==
  ASSUME GuardOK, NEW t \in Tasks, Only(t), Over(t), swapping' = FALSE
  PROVE  GuardOK'
  <1>1. task' = [task EXCEPT ![t] = NoTask]
    BY DEF Over
  <1>2. task' \in [Tasks -> TaskRec] /\ task'[t] = NoTask
    BY <1>1, NoTaskType DEF GuardOK
  <1>3. \A u \in Tasks \ {t} : task'[u] = task[u]
    BY <1>1 DEF GuardOK
  <1>4. \A u \in Tasks : OwnUrl(task'[u]) /\ TuneUrl(task'[u]) /\ (task'[u].at = "mount" => task'[u].url # None)
    BY <1>2, <1>3, NoTaskType DEF GuardOK
  <1>5. \A u \in Tasks : task'[u].at \notin Swapping
    BY <1>2, <1>3, NoTaskType DEF Only, Swapping
  <1> QED  BY <1>2, <1>4, <1>5 DEF GuardOK, OneSwap, InFlight, Swapping

\* A call that waits for something that holds no guard leaves the guard as it is.
LEMMA UnguardedGuard ==
  ASSUME GuardOK, NEW t \in Tasks, task[t].at \notin Swapping, NEW next \in TaskRec,
         next.at \notin Swapping, OwnUrl(next), TuneUrl(next),
         task' = [task EXCEPT ![t] = next], swapping' = swapping
  PROVE  GuardOK' /\ \A u \in Tasks : task[u].at = "link" => task'[u].at = "link"
  <1>1. task' \in [Tasks -> TaskRec] /\ task'[t] = next
    BY DEF GuardOK
  <1>2. \A u \in Tasks \ {t} : task'[u] = task[u]
    BY DEF GuardOK
  <1>3. \A u \in Tasks : OwnUrl(task'[u]) /\ TuneUrl(task'[u]) /\ (task'[u].at = "mount" => task'[u].url # None)
    BY <1>1, <1>2 DEF GuardOK, Swapping
  <1>4. \A u \in Tasks : task'[u].at \in Swapping <=> task[u].at \in Swapping
    BY <1>1, <1>2
  <1> QED  BY <1>1, <1>2, <1>3, <1>4 DEF GuardOK, OneSwap, InFlight, Swapping

\* A fetch is a wait of a swap, or its end if the disk is known to be bad.
LEMMA FetchGuard ==
  ASSUME GuardOK, NEW t \in Tasks, Only(t), NEW url \in Tags \cup {Menu}, Fetch(t, url)
  PROVE  GuardOK'
  <1>1. CASE url \in bad
    BY <1>1, OverGuard DEF Fetch, KnownBad
  <1>2. CASE url \notin bad
    <2> DEFINE next == [NoTask EXCEPT !.at = "mount", !.url = url]
    <2>1. url \in Disks /\ url # None
      BY CartSwapAssumption DEF CartSwapAssumption, Tags
    <2>2. next \in TaskRec /\ next.at = "mount" /\ next.url = url
      BY <2>1, NoTaskType DEF TaskRec, NoTask
    <2>3. OwnUrl(next)
      BY <2>2 DEF OwnUrl
    <2>4. Awaits(t, next)
      BY <1>2 DEF Fetch
    <2> HIDE DEF next
    <2> QED  BY <2>1, <2>2, <2>3, <2>4, AwaitsGuard DEF Swapping
  <1> QED  BY <1>1, <1>2

-----------------------------------------------------------------------------
\* What TypeOK says besides the guard.
RestOK ==
  /\ demo \in [prog : {"post", "sector", "cart", "desktop", "program"},
               home : Tags \cup {None, Unsure},
               drive : PowerOn \cup {None}]
  /\ window \in {"own", "taken"}
  /\ lost \in BOOLEAN /\ trapped \in BOOLEAN
  /\ mounted \in Disks \cup {None}
  /\ bad \subseteq Tags \cup {Menu}
  /\ currentTag \in Tags \cup {None}
  /\ heldDirs \subseteq Keys /\ pressed \subseteq Keys /\ blind \subseteq Keys

\* The invariant in the parts that the steps below establish.
LEMMA InvParts == Inv <=> GuardOK /\ RestOK /\ WindowTracked /\ KeysTracked /\ TagFits
  BY DEF Inv, GuardOK, RestOK, TypeOK, TaskRec

\* The same of the next state.
LEMMA InvPartsNext == Inv' <=> (GuardOK /\ RestOK /\ WindowTracked /\ KeysTracked /\ TagFits)'
  BY DEF Inv, GuardOK, RestOK, TypeOK, TaskRec

\* The channels, the menu and what is in the drive at power-on are disks.
LEMMA DisksType == Tags \subseteq Disks /\ Menu \in Disks /\ Visitor \subseteq Disks /\ PowerOn \subseteq Disks /\ None \notin Disks
  BY CartSwapAssumption DEF Tags, CartSwapAssumption

\* releaseAll loses no key without noting it.
LEMMA ReleaseKeys ==
  ASSUME RestOK, KeysTracked, NEW callable \in BOOLEAN, ReleaseAll(callable)
  PROVE  KeysTracked' /\ heldDirs' \subseteq Keys /\ pressed' \subseteq Keys /\ blind' \subseteq Keys
  <1>1. CASE callable
    BY <1>1 DEF RestOK, KeysTracked, ReleaseAll
  <1>2. CASE ~callable
    BY <1>2 DEF RestOK, KeysTracked, ReleaseAll
  <1> QED  BY <1>1, <1>2

\* A swap that fails keeps the invariant.
LEMMA SwapFailsParts ==
  ASSUME GuardOK, RestOK, NEW t \in Tasks, Only(t), NEW next \in TaskRec, OwnUrl(next), ~next.up,
         SwapFails(t, next)
  PROVE  GuardOK' /\ bad' \subseteq Tags \cup {Menu}
  <1>1. GuardOK'
    BY OverGuard DEF SwapFails
  <1>2. bad' \subseteq Tags \cup {Menu}
    BY DEF SwapFails, OwnUrl, RestOK
  <1> QED  BY <1>1, <1>2

\* So does an upload that fails once it has started.
LEMMA UploadFailsParts ==
  ASSUME GuardOK, RestOK, NEW t \in Tasks, Only(t), NEW next \in TaskRec, UploadFails(t, next)
  PROVE  GuardOK' /\ bad' \subseteq Tags \cup {Menu} /\ mounted' \in Disks \cup {None}
  <1> DEFINE url == IF next.wasTag = None THEN Menu ELSE next.wasTag
  <1>1. url \in Tags \cup {Menu} /\ next.was \in Disks \cup {None}
    BY DEF TaskRec
  <1>2. Fetch(t, url)
    BY DEF UploadFails
  <1> HIDE DEF url
  <1>3. GuardOK'
    BY <1>1, <1>2, FetchGuard
  <1> QED  BY <1>1, <1>3 DEF UploadFails, RestOK

\* A next cart that does not start leaves the invariant, whichever way it failed.
LEMMA FailsInv ==
  ASSUME Inv, NEW t \in Tasks, Only(t), NEW next \in TaskRec, OwnUrl(next),
         NEW m \in Disks \cup {None}, NEW win \in {"own", "taken"}, trapped' \in BOOLEAN,
         Fails(t, next, m, win)
  PROVE  Inv'
  <1>1. GuardOK /\ RestOK /\ KeysTracked /\ TagFits
    BY InvParts
  <1>2. next.up \in BOOLEAN
    BY DEF TaskRec
  <1>3. GuardOK' /\ (bad' \subseteq Tags \cup {Menu}) /\ mounted' \in Disks \cup {None}
    <2>1. CASE next.up
      BY <1>1, <2>1, UploadFailsParts DEF Fails
    <2>2. CASE ~next.up
      BY <1>1, <2>2, SwapFailsParts DEF Fails
    <2> QED  BY <1>2, <2>1, <2>2
  <1>4. KeysTracked' /\ heldDirs' \subseteq Keys /\ pressed' \subseteq Keys /\ blind' \subseteq Keys
    <2>1. CASE next.up
      BY <1>1, <2>1 DEF Fails, RestOK, KeysTracked
    <2>2. CASE ~next.up
      <3>1. (~trapped) \in BOOLEAN
        BY Zenon
      <3> QED  BY <1>1, <2>2, <3>1, ReleaseKeys DEF Fails
    <2> QED  BY <1>2, <2>1, <2>2
  <1>5. window' = win /\ lost' = (win = "taken") /\ demo' = demo /\ currentTag' = currentTag
    BY DEF Fails
  <1>6. lost' \in BOOLEAN
    BY <1>5
  <1>7. WindowTracked'
    BY <1>5 DEF WindowTracked
  <1>8. TagFits'
    BY <1>1, <1>5 DEF TagFits
  <1>9. RestOK'
    BY <1>1, <1>3, <1>4, <1>5, <1>6 DEF RestOK
  <1> QED  BY <1>3, <1>4, <1>7, <1>8, <1>9, InvPartsNext

\* A cart that is unpacked waits to be linked, or fails.
LEMMA UnpackInv ==
  ASSUME Inv, NEW t \in Tasks, Only(t), NEW next \in TaskRec, OwnUrl(next),
         NEW m \in Disks \cup {None}, Unpack(t, next, m)
  PROVE  Inv'
  <1>1. GuardOK /\ RestOK /\ KeysTracked /\ TagFits
    BY InvParts
  <1>2. PICK win \in {window, "taken"} :
          \/ /\ Awaits(t, [next EXCEPT !.at = "link"])
             /\ window' = win /\ mounted' = m
             /\ UNCHANGED <<demo, lost, trapped, bad, currentTag, keys>>
          \/ Fails(t, next, m, win) /\ UNCHANGED trapped
    BY DEF Unpack
  <1>3. win \in {"own", "taken"}
    BY <1>1 DEF RestOK
  <1>4. CASE /\ Awaits(t, [next EXCEPT !.at = "link"])
             /\ window' = win /\ mounted' = m
             /\ UNCHANGED <<demo, lost, trapped, bad, currentTag, keys>>
    <2> DEFINE linked == [next EXCEPT !.at = "link"]
    <2>1. linked \in TaskRec /\ linked.at = "link" /\ OwnUrl(linked)
      BY DEF TaskRec, OwnUrl
    <2>2. Awaits(t, linked)
      BY <1>4
    <2> HIDE DEF linked
    <2>3. GuardOK' /\ Is(t, "link")'
      BY <1>1, <2>1, <2>2, AwaitsGuard DEF Swapping
    <2>4. RestOK'
      BY <1>1, <1>3, <1>4 DEF RestOK, keys
    <2>5. WindowTracked'
      BY <2>3 DEF WindowTracked
    <2>6. KeysTracked' /\ TagFits'
      BY <1>1, <1>4 DEF KeysTracked, TagFits, keys
    <2> QED  BY <2>3, <2>4, <2>5, <2>6, InvPartsNext
  <1>5. CASE Fails(t, next, m, win) /\ UNCHANGED trapped
    <2>1. trapped' \in BOOLEAN
      BY <1>1, <1>5 DEF RestOK
    <2> QED  BY <1>3, <1>5, <2>1, FailsInv
  <1> QED  BY <1>2, <1>4, <1>5

-----------------------------------------------------------------------------
\* While the guard is down no call swaps; while a call swaps it is the only one.
LEMMA Alone ==
  ASSUME GuardOK, NEW t \in Tasks, ~swapping \/ task[t].at \in Swapping
  PROVE  Only(t)
  BY DEF GuardOK, OneSwap, InFlight, Only, Swapping

\* A call of a swap that starts, with the program that it will run.
LEMMA StartType ==
  ASSUME NEW prog \in {"sector", "cart", "desktop", "program"}
  PROVE  /\ [NoTask EXCEPT !.prog = prog] \in TaskRec
         /\ OwnUrl([NoTask EXCEPT !.prog = prog])
  BY NoTaskType DEF NoTask, TaskRec, OwnUrl

\* A disk starts as a cart or as a boot sector.
LEMMA BootProgType ==
  ASSUME NEW d  PROVE BootProg(d) \in {"sector", "cart", "desktop", "program"}
  BY DEF BootProg

\* A step of a swap that only goes on to wait for the desktop.
LEMMA GemInv ==
  ASSUME Inv, NEW t \in Tasks, Only(t), NEW next \in TaskRec, next.at = "gem", OwnUrl(next),
         Awaits(t, next), mounted' \in Disks \cup {None}, task[t].at # "link",
         UNCHANGED <<cart, bad, currentTag, keys>>
  PROVE  Inv'
  <1>1. GuardOK /\ RestOK /\ WindowTracked /\ KeysTracked /\ TagFits
    BY InvParts
  <1>2. GuardOK'
    BY <1>1, AwaitsGuard DEF Swapping
  <1>3. RestOK'
    BY <1>1 DEF RestOK, cart, keys
  <1>4. KeysTracked' /\ TagFits'
    BY <1>1 DEF KeysTracked, TagFits, cart, keys
  <1>5. WindowTracked'
    BY <1>1 DEF WindowTracked, cart, Only, Is, Swapping
  <1> QED  BY <1>2, <1>3, <1>4, <1>5, InvPartsNext

\* What a request leads to, if no other swap is under way.
LEMMA SwapCartInv ==
  ASSUME Inv, NEW t \in Tasks, ~swapping, NEW req, NEW tag \in Tags, SwapCart(t, req, tag)
  PROVE  Inv'
  <1>1. GuardOK /\ RestOK /\ WindowTracked /\ KeysTracked /\ TagFits
    BY InvParts
  <1>2. Only(t) /\ task[t].at \notin Swapping
    BY <1>1, Alone DEF GuardOK, OneSwap, InFlight, Swapping
  <1>3. mounted \in Disks \cup {None} /\ window \in {"own", "taken"} /\ trapped \in BOOLEAN
    BY <1>1 DEF RestOK
  <1>4. \/ Unpack(t, NoTask, mounted)
        \/ Unpack(t, [NoTask EXCEPT !.prog = BootProg(demo.drive)], mounted)
        \/ /\ Awaits(t, [NoTask EXCEPT !.at = "gem"])
           /\ UNCHANGED <<cart, mounted, bad, currentTag, keys>>
        \/ Unpack(t, [NoTask EXCEPT !.prog = "program"], mounted)
        \/ Fails(t, NoTask, mounted, window) /\ UNCHANGED trapped
        \/ /\ Fetch(t, tag) \/ Fetch(t, Menu)
           /\ UNCHANGED <<cart, mounted, bad, currentTag, keys>>
    BY DEF SwapCart
  <1>5. CASE Unpack(t, NoTask, mounted)
    BY <1>2, <1>3, <1>5, NoTaskType, UnpackInv
  <1>6. CASE Unpack(t, [NoTask EXCEPT !.prog = BootProg(demo.drive)], mounted)
    <2> DEFINE prog == BootProg(demo.drive)
    <2>1. prog \in {"sector", "cart", "desktop", "program"}
      BY BootProgType
    <2>2. Unpack(t, [NoTask EXCEPT !.prog = prog], mounted)
      BY <1>6
    <2> HIDE DEF prog
    <2>3. [NoTask EXCEPT !.prog = prog] \in TaskRec /\ OwnUrl([NoTask EXCEPT !.prog = prog])
      BY <2>1, StartType
    <2> QED  BY <1>2, <1>3, <2>2, <2>3, UnpackInv
  <1>7. CASE /\ Awaits(t, [NoTask EXCEPT !.at = "gem"])
             /\ UNCHANGED <<cart, mounted, bad, currentTag, keys>>
    <2> DEFINE next == [NoTask EXCEPT !.at = "gem"]
    <2>1. next \in TaskRec /\ next.at = "gem" /\ OwnUrl(next)
      BY NoTaskType DEF NoTask, TaskRec, OwnUrl
    <2>2. Awaits(t, next) /\ mounted' \in Disks \cup {None} /\ UNCHANGED <<cart, bad, currentTag, keys>>
      BY <1>3, <1>7
    <2> HIDE DEF next
    <2> QED  BY <1>2, <2>1, <2>2, GemInv DEF Swapping
  <1>8. CASE Unpack(t, [NoTask EXCEPT !.prog = "program"], mounted)
    <2>1. [NoTask EXCEPT !.prog = "program"] \in TaskRec /\ OwnUrl([NoTask EXCEPT !.prog = "program"])
      BY StartType
    <2> QED  BY <1>2, <1>3, <1>8, <2>1, UnpackInv
  <1>9. CASE Fails(t, NoTask, mounted, window) /\ UNCHANGED trapped
    BY <1>2, <1>3, <1>9, NoTaskType, FailsInv
  <1>10. CASE /\ Fetch(t, tag) \/ Fetch(t, Menu)
              /\ UNCHANGED <<cart, mounted, bad, currentTag, keys>>
    <2>1. GuardOK'
      BY <1>1, <1>2, <1>10, FetchGuard
    <2>2. RestOK'
      BY <1>1, <1>10 DEF RestOK, cart, keys
    <2>3. KeysTracked' /\ TagFits'
      BY <1>1, <1>10 DEF KeysTracked, TagFits, cart, keys
    <2>4. WindowTracked'
      BY <1>1, <1>2, <1>10 DEF WindowTracked, cart, Only, Is, Swapping
    <2> QED  BY <2>1, <2>2, <2>3, <2>4, InvPartsNext
  <1> QED  BY <1>4, <1>5, <1>6, <1>7, <1>8, <1>9, <1>10

-----------------------------------------------------------------------------
\* The steps that resume a swap.

\* What is known of a call that is swapping.
LEMMA SwappingCall ==
  ASSUME Inv, NEW t \in Tasks, task[t].at \in Swapping
  PROVE  /\ GuardOK /\ RestOK /\ WindowTracked /\ KeysTracked /\ TagFits
         /\ Only(t) /\ task[t] \in TaskRec /\ OwnUrl(task[t])
         /\ mounted \in Disks \cup {None} /\ window \in {"own", "taken"} /\ trapped \in BOOLEAN
  <1>1. GuardOK /\ RestOK /\ WindowTracked /\ KeysTracked /\ TagFits
    BY InvParts
  <1>2. Only(t)
    BY <1>1, Alone
  <1> QED  BY <1>1, <1>2 DEF GuardOK, RestOK

\* A call with another `at` or `prog` is still a call with the same url.
LEMMA CallEdits ==
  ASSUME NEW next \in TaskRec, OwnUrl(next),
         NEW prog \in {"sector", "cart", "desktop", "program"}
  PROVE  /\ [next EXCEPT !.prog = prog] \in TaskRec /\ OwnUrl([next EXCEPT !.prog = prog])
         /\ [next EXCEPT !.at = "gem"] \in TaskRec /\ OwnUrl([next EXCEPT !.at = "gem"])
         /\ [next EXCEPT !.at = "gem"].at = "gem"
  BY DEF TaskRec, OwnUrl

\* What the resumed call does when it has its disk, or a file, d.
LEMMA BootsDiskInv ==
  ASSUME Inv, NEW t \in Tasks, task[t].at \in Swapping, NEW d \in Disks \cup {None},
         Unpack(t, [task[t] EXCEPT !.prog = BootProg(d)], d)
  PROVE  Inv'
  <1> DEFINE prog == BootProg(d)
  <1>1. prog \in {"sector", "cart", "desktop", "program"} /\ Unpack(t, [task[t] EXCEPT !.prog = prog], d)
    BY BootProgType
  <1> HIDE DEF prog
  <1>2. [task[t] EXCEPT !.prog = prog] \in TaskRec /\ OwnUrl([task[t] EXCEPT !.prog = prog]) /\ Only(t)
    BY <1>1, SwappingCall, CallEdits
  <1> QED  BY <1>1, <1>2, UnpackInv

\* With a data disk in the drive, the call goes on to wait for the desktop.
LEMMA DataDiskInv ==
  ASSUME Inv, NEW t \in Tasks, task[t].at \in {"file", "mount"}, NEW d \in Disks,
         Awaits(t, [task[t] EXCEPT !.at = "gem"]), mounted' = d,
         UNCHANGED <<cart, bad, currentTag, keys>>
  PROVE  Inv'
  <1> DEFINE next == [task[t] EXCEPT !.at = "gem"]
  <1>1. task[t].at \in Swapping /\ task[t].at # "link"
    BY DEF Swapping
  <1>2. next \in TaskRec /\ next.at = "gem" /\ OwnUrl(next) /\ Only(t)
    BY <1>1, SwappingCall, CallEdits
  <1>3. Awaits(t, next)
    OBVIOUS
  <1> HIDE DEF next
  <1> QED  BY <1>1, <1>2, <1>3, GemInv

\* What it waited for has failed, and nothing has been written.
LEMMA FailsHere ==
  ASSUME Inv, NEW t \in Tasks, task[t].at \in Swapping, Fails(t, task[t], mounted, window), UNCHANGED trapped
  PROVE  Inv'
  BY SwappingCall, FailsInv

\* The disk is there, or is not.
LEMMA MountInv ==
  ASSUME Inv, NEW t \in Tasks, Mount(t)
  PROVE  Inv'
  <1> DEFINE url == task[t].url
  <1>1. task[t].at = "mount" /\ task[t].at \in Swapping
    BY DEF Mount, Is, Swapping
  <1>2. url \in Disks
    BY <1>1, SwappingCall DEF TaskRec, GuardOK
  <1>3. CASE Unpack(t, [task[t] EXCEPT !.prog = BootProg(url)], url)
    BY <1>1, <1>2, <1>3, BootsDiskInv
  <1>4. CASE /\ Awaits(t, [task[t] EXCEPT !.at = "gem"])
             /\ mounted' = url
             /\ UNCHANGED <<cart, bad, currentTag, keys>>
    BY <1>1, <1>2, <1>4, DataDiskInv
  <1>5. CASE Fails(t, task[t], mounted, window) /\ UNCHANGED trapped
    BY <1>1, <1>5, FailsHere
  <1> QED  BY <1>3, <1>4, <1>5 DEF Mount

\* The desktop is there, or is not.
LEMMA GemStepInv ==
  ASSUME Inv, NEW t \in Tasks, Gem(t)
  PROVE  Inv'
  <1>1. task[t].at \in Swapping
    BY DEF Gem, Is, Swapping
  <1>2. CASE Unpack(t, [task[t] EXCEPT !.prog = "desktop"], mounted)
    <2>1. [task[t] EXCEPT !.prog = "desktop"] \in TaskRec /\ OwnUrl([task[t] EXCEPT !.prog = "desktop"])
      BY <1>1, SwappingCall, CallEdits
    <2> QED  BY <1>1, <1>2, <2>1, SwappingCall, UnpackInv
  <1>3. CASE Fails(t, task[t], mounted, window) /\ UNCHANGED trapped
    BY <1>1, <1>3, FailsHere
  <1> QED  BY <1>2, <1>3 DEF Gem

\* The visitor's file is read, or refused.
LEMMA FileInv ==
  ASSUME Inv, NEW t \in Tasks, File(t)
  PROVE  Inv'
  <1> DEFINE d == task[t].url
  <1>1. task[t].at = "file" /\ task[t].at \in Swapping
    BY DEF File, Is, Swapping
  <1>2. d \in Disks \cup {None}
    BY <1>1, SwappingCall DEF TaskRec
  <1>3. CASE /\ Over(t) /\ swapping' = FALSE
             /\ UNCHANGED <<cart, mounted, bad, currentTag, keys>>
    <2>1. GuardOK'
      BY <1>1, <1>3, SwappingCall, OverGuard
    <2>2. RestOK' /\ KeysTracked' /\ TagFits'
      BY <1>1, <1>3, SwappingCall DEF RestOK, KeysTracked, TagFits, cart, keys
    <2>3. WindowTracked'
      BY <1>1, <1>3, SwappingCall DEF WindowTracked, cart, Only, Is, Swapping
    <2> QED  BY <2>1, <2>2, <2>3, InvPartsNext
  <1>4. CASE d = None /\ Unpack(t, task[t], None)
    BY <1>1, <1>4, SwappingCall, UnpackInv
  <1>5. CASE Unpack(t, [task[t] EXCEPT !.prog = BootProg(d)], d)
    BY <1>1, <1>2, <1>5, BootsDiskInv
  <1>6. CASE /\ d # None
             /\ Awaits(t, [task[t] EXCEPT !.at = "gem"])
             /\ mounted' = d
             /\ UNCHANGED <<cart, bad, currentTag, keys>>
    BY <1>1, <1>2, <1>6, DataDiskInv
  <1> QED  BY <1>3, <1>4, <1>5, <1>6 DEF File

\* The channel that the buttons step from is one, or none.
LEMMA TagOfType ==
  ASSUME NEW url \in Tags \cup {Menu}
  PROVE  TagOf(url) \in Tags \cup {None}
  BY DEF TagOf

\* The next cart takes over, with its window and its channel.
LEMMA BootsInv ==
  ASSUME Inv, NEW t \in Tasks, Is(t, "link"), Boots(t)
  PROVE  Inv'
  <1> DEFINE next == task[t]
             home == IF next.up THEN None ELSE IF next.url = None THEN demo.home ELSE TagOf(next.url)
  <1>1. task[t].at \in Swapping
    BY DEF Is, Swapping
  <1>2. next \in TaskRec /\ OwnUrl(next) /\ Only(t) /\ GuardOK /\ RestOK /\ KeysTracked /\ TagFits
    BY <1>1, SwappingCall
  <1>3. GuardOK'
    BY <1>2, OverGuard DEF Boots
  <1>4. ~next.up /\ next.url # None => TagOf(next.url) \in Tags \cup {None}
    BY <1>2, TagOfType DEF OwnUrl
  <1>5. home \in Tags \cup {None, Unsure} /\ next.prog \in {"post", "sector", "cart", "desktop", "program"}
    BY <1>2, <1>4 DEF RestOK, TaskRec
  <1>6. demo' = [prog |-> next.prog, home |-> home, drive |-> None]
    BY DEF Boots
  <1>7. currentTag' \in Tags \cup {None}
    BY <1>2, <1>4 DEF Boots, NewTag, RestOK
  <1>8. TagFits'
    BY <1>2, <1>6 DEF Boots, NewTag, TagFits
  <1>9. WindowTracked'
    BY DEF Boots, WindowTracked
  <1>10. KeysTracked'
    BY DEF Boots, KeysTracked
  <1> HIDE DEF home
  <1>11. RestOK'
    <2>1. demo' \in [prog : {"post", "sector", "cart", "desktop", "program"},
                     home : Tags \cup {None, Unsure},
                     drive : PowerOn \cup {None}]
      BY <1>5, <1>6
    <2>2. lost' \in BOOLEAN /\ trapped' \in BOOLEAN /\ window' \in {"own", "taken"}
      BY DEF Boots
    <2>3. heldDirs' \subseteq Keys /\ pressed' \subseteq Keys /\ blind' \subseteq Keys
      BY <1>2 DEF Boots, RestOK
    <2>4. mounted' \in Disks \cup {None} /\ bad' \subseteq Tags \cup {Menu}
      BY <1>2 DEF Boots, RestOK
    <2> QED  BY <1>7, <2>1, <2>2, <2>3, <2>4 DEF RestOK
  <1> QED  BY <1>3, <1>8, <1>9, <1>10, <1>11, InvPartsNext

\* It takes over and traps at once.
LEMMA BootTrapsInv ==
  ASSUME Inv, NEW t \in Tasks, Is(t, "link"), BootTraps(t)
  PROVE  Inv'
  <1> DEFINE next == task[t]
  <1>1. task[t].at \in Swapping
    BY DEF Is, Swapping
  <1>2. next \in TaskRec /\ OwnUrl(next) /\ Only(t) /\ GuardOK /\ RestOK /\ KeysTracked /\ TagFits
    BY <1>1, SwappingCall
  <1>3. next.up \in BOOLEAN /\ next.prog \in {"post", "sector", "cart", "desktop", "program"}
    BY <1>2 DEF TaskRec
  <1>4. GuardOK' /\ (bad' \subseteq Tags \cup {Menu}) /\ mounted' \in Disks \cup {None} /\ heldDirs' \subseteq Keys
    <2>1. CASE next.up
      BY <1>2, <2>1, UploadFailsParts DEF BootTraps, RestOK
    <2>2. CASE ~next.up
      BY <1>2, <2>2, SwapFailsParts DEF BootTraps, RestOK
    <2> QED  BY <1>3, <2>1, <2>2
  <1>5. demo' = [prog |-> next.prog, home |-> Unsure, drive |-> None]
    BY DEF BootTraps
  <1>6. WindowTracked'
    BY DEF BootTraps, WindowTracked
  <1>7. KeysTracked' /\ pressed' \subseteq Keys /\ blind' \subseteq Keys
    BY DEF BootTraps, KeysTracked
  <1>8. TagFits'
    BY <1>5 DEF TagFits
  <1>9. RestOK'
    <2>1. demo' \in [prog : {"post", "sector", "cart", "desktop", "program"},
                     home : Tags \cup {None, Unsure},
                     drive : PowerOn \cup {None}]
      BY <1>3, <1>5
    <2>2. lost' \in BOOLEAN /\ trapped' \in BOOLEAN /\ window' \in {"own", "taken"}
      BY DEF BootTraps
    <2>3. currentTag' \in Tags \cup {None}
      BY <1>2 DEF BootTraps, RestOK
    <2> QED  BY <1>4, <1>7, <2>1, <2>2, <2>3 DEF RestOK
  <1> QED  BY <1>4, <1>6, <1>7, <1>8, <1>9, InvPartsNext

\* The compiler answers.
LEMMA LinkInv ==
  ASSUME Inv, NEW t \in Tasks, Link(t)
  PROVE  Inv'
  <1>1. Is(t, "link") /\ task[t].at \in Swapping
    BY DEF Link, Is, Swapping
  <1>2. CASE LinkFails(t)
    BY <1>1, <1>2, FailsHere DEF LinkFails
  <1>3. CASE NotACart(t)
    <2>1. trapped' \in BOOLEAN
      BY <1>3 DEF NotACart
    <2> QED  BY <1>1, <1>3, <2>1, SwappingCall, FailsInv DEF NotACart
  <1> QED  BY <1>1, <1>2, <1>3, BootsInv, BootTrapsInv DEF Link

-----------------------------------------------------------------------------
\* The steps that start a call, the listeners and the frames.

\* A call that begins to wait, or stops, without the guard.
LEMMA UnguardedInv ==
  ASSUME Inv, NEW t \in Tasks, task[t].at \notin Swapping, NEW next \in TaskRec,
         next.at \notin Swapping, OwnUrl(next), TuneUrl(next),
         task' = [task EXCEPT ![t] = next],
         UNCHANGED <<cart, swapping, mounted, bad, currentTag, keys>>
  PROVE  Inv'
  <1>1. GuardOK /\ RestOK /\ WindowTracked /\ KeysTracked /\ TagFits
    BY InvParts
  <1>2. GuardOK' /\ \A u \in Tasks : task[u].at = "link" => task'[u].at = "link"
    BY <1>1, UnguardedGuard
  <1>3. RestOK' /\ KeysTracked' /\ TagFits'
    BY <1>1 DEF RestOK, KeysTracked, TagFits, cart, keys
  <1>4. WindowTracked'
    BY <1>1, <1>2 DEF WindowTracked, cart, Is
  <1> QED  BY <1>2, <1>3, <1>4, InvPartsNext

\* The channel that a button leads to is one.
LEMMA ChannelAtType ==
  ASSUME NEW step \in {-1, 0, 1}
  PROVE  ChannelAt(step) \in Tags
  <1> DEFINE n  == Len(Channels)
             at == {i \in DOMAIN Channels : Channels[i] = currentTag}
  <1>1. n \in Nat /\ n > 0 /\ DOMAIN Channels = 1..n
    BY CartSwapAssumption
  <1>2. CASE at = {}
    BY <1>1, <1>2 DEF ChannelAt, Tags
  <1>3. CASE at # {}
    <2> DEFINE i == CHOOSE j \in at : TRUE
    <2>1. i \in 1..n
      BY <1>1, <1>3
    <2>2. ChannelAt(step) = Channels[(((i - 1) + step + n) % n) + 1]
      BY <1>3 DEF ChannelAt
    <2> HIDE DEF i, n
    <2>3. ((i - 1) + step + n) % n \in 0..(n - 1)
      BY <1>1, <2>1
    <2>4. (((i - 1) + step + n) % n) + 1 \in DOMAIN Channels
      BY <1>1, <2>3
    <2> QED  BY <2>2, <2>4 DEF Tags
  <1> QED  BY <1>2, <1>3

\* A channel button is pressed.
LEMMA ChangeInv ==
  ASSUME Inv, NEW t \in Tasks, NEW step \in {1, -1}, Change(t, step)
  PROVE  Inv'
  <1> DEFINE next == [NoTask EXCEPT !.at = "list", !.step = step]
  <1>1. next \in TaskRec /\ next.at \notin Swapping /\ OwnUrl(next) /\ TuneUrl(next)
    BY NoTaskType DEF NoTask, TaskRec, OwnUrl, TuneUrl, Swapping
  <1>2. task[t].at \notin Swapping
    BY DEF Change, Free, Is, Swapping
  <1>3. task' = [task EXCEPT ![t] = next] /\ UNCHANGED <<cart, swapping, mounted, bad, currentTag, keys>>
    BY DEF Change
  <1> HIDE DEF next
  <1> QED  BY <1>1, <1>2, <1>3, UnguardedInv

\* A call that waits to tune to a channel.
LEMMA TuningType ==
  ASSUME NEW tag \in Tags
  PROVE  LET next == [NoTask EXCEPT !.at = "tune", !.url = tag]
         IN  next \in TaskRec /\ next.at \notin Swapping /\ OwnUrl(next) /\ TuneUrl(next)
  BY NoTaskType, DisksType DEF NoTask, TaskRec, OwnUrl, TuneUrl, Swapping

\* A channel is picked in the selector.
LEMMA SelectInv ==
  ASSUME Inv, NEW t \in Tasks, NEW tag \in Tags, Select(t, tag)
  PROVE  Inv'
  <1> DEFINE next == [NoTask EXCEPT !.at = "tune", !.url = tag]
  <1>1. next \in TaskRec /\ next.at \notin Swapping /\ OwnUrl(next) /\ TuneUrl(next)
    BY TuningType
  <1>2. task[t].at \notin Swapping
    BY DEF Select, Free, Is, Swapping
  <1>3. task' = [task EXCEPT ![t] = next] /\ UNCHANGED <<cart, swapping, mounted, bad, currentTag, keys>>
    BY DEF Select
  <1> HIDE DEF next
  <1> QED  BY <1>1, <1>2, <1>3, UnguardedInv

\* A call that ends without ever having swapped.
LEMMA GivesUpInv ==
  ASSUME Inv, NEW t \in Tasks, task[t].at \notin Swapping, Over(t),
         UNCHANGED <<cart, swapping, mounted, bad, currentTag, keys>>
  PROVE  Inv'
  <1>1. NoTask.at \notin Swapping
    BY NoTaskType DEF Swapping
  <1>2. task' = [task EXCEPT ![t] = NoTask]
    BY DEF Over
  <1> QED  BY <1>1, <1>2, NoTaskType, UnguardedInv

\* The list for the button is there, or is not.
LEMMA ListedInv ==
  ASSUME Inv, NEW t \in Tasks, Listed(t)
  PROVE  Inv'
  <1>1. task[t].at \notin Swapping /\ UNCHANGED <<cart, swapping, mounted, bad, currentTag, keys>>
    BY DEF Listed, Is, Swapping
  <1>2. CASE Over(t)
    BY <1>1, <1>2, GivesUpInv
  <1>3. CASE task' = [task EXCEPT ![t] = [NoTask EXCEPT !.at = "tune", !.url = ChannelAt(task[t].step)]]
    <2> DEFINE tag  == ChannelAt(task[t].step)
               next == [NoTask EXCEPT !.at = "tune", !.url = tag]
    <2>1. task[t].step \in {-1, 0, 1}
      BY InvParts DEF GuardOK, TaskRec
    <2>2. tag \in Tags
      BY <2>1, ChannelAtType
    <2>3. task' = [task EXCEPT ![t] = next]
      BY <1>3
    <2> HIDE DEF tag
    <2>4. next \in TaskRec /\ next.at \notin Swapping /\ OwnUrl(next) /\ TuneUrl(next)
      BY <2>2, TuningType
    <2> HIDE DEF next
    <2> QED  BY <1>1, <2>3, <2>4, UnguardedInv
  <1> QED  BY <1>2, <1>3 DEF Listed

\* The list for the channel is there, or is not.
LEMMA TunedInv ==
  ASSUME Inv, NEW t \in Tasks, Tuned(t)
  PROVE  Inv'
  <1>1. task[t].at = "tune" /\ task[t].at \notin Swapping
    BY DEF Tuned, Is, Swapping
  <1>2. CASE Over(t) /\ UNCHANGED <<cart, swapping, mounted, bad, currentTag, keys>>
    BY <1>1, <1>2, GivesUpInv
  <1>3. CASE ~swapping /\ SwapCart(t, "channel", task[t].url)
    <2>1. task[t].url \in Tags
      BY <1>1, InvParts DEF GuardOK, TuneUrl
    <2> QED  BY <1>3, <2>1, SwapCartInv
  <1> QED  BY <1>2, <1>3 DEF Tuned

\* The running cart asks for another.
LEMMA CartRequestInv ==
  ASSUME Inv, NEW t \in Tasks, CartRequest(t)
  PROVE  Inv'
  <1>1. PICK req \in Asks(demo.prog), tag \in Tags : SwapCart(t, req, tag)
    BY DEF CartRequest
  <1> QED  BY <1>1, SwapCartInv DEF CartRequest, Callable

\* A visitor picks a file.
LEMMA UploadInv ==
  ASSUME Inv, NEW t \in Tasks, NEW d \in Visitor \cup {None}, Upload(t, d)
  PROVE  Inv'
  <1> DEFINE next == [NoTask EXCEPT !.at = "file", !.url = d, !.up = TRUE,
                                    !.was = mounted, !.wasTag = currentTag]
  <1>1. GuardOK /\ RestOK /\ WindowTracked /\ KeysTracked /\ TagFits
    BY InvParts
  <1>2. next \in TaskRec /\ next.at = "file" /\ OwnUrl(next)
    BY <1>1, NoTaskType, DisksType DEF RestOK, NoTask, TaskRec, OwnUrl
  <1>3. Awaits(t, next) /\ UNCHANGED <<cart, mounted, bad, currentTag, keys>>
    BY DEF Upload
  <1>4. Only(t) /\ task[t].at # "link"
    BY <1>1, Alone DEF Upload, MayUpload, Free, Is
  <1> HIDE DEF next
  <1>5. GuardOK'
    BY <1>1, <1>2, <1>3, <1>4, AwaitsGuard DEF Swapping
  <1>6. RestOK' /\ KeysTracked' /\ TagFits'
    BY <1>1, <1>3 DEF RestOK, KeysTracked, TagFits, cart, keys
  <1>7. WindowTracked'
    BY <1>1, <1>3, <1>4 DEF WindowTracked, cart, Only, Is, Swapping
  <1> QED  BY <1>5, <1>6, <1>7, InvPartsNext

\* A step that starts, resumes and ends no call.
LEMMA CallsUnchanged ==
  ASSUME Inv, UNCHANGED <<swapping, task>>
  PROVE  GuardOK'
  BY InvParts DEF GuardOK, OneSwap, InFlight

\* The keys: a listener leaves the rest as it is.
LEMMA KeysInv ==
  ASSUME Inv, UNCHANGED <<cart, swapping, task, mounted, bad, currentTag>>,
         KeysTracked', heldDirs' \subseteq Keys, pressed' \subseteq Keys, blind' \subseteq Keys
  PROVE  Inv'
  <1>1. RestOK /\ WindowTracked /\ TagFits
    BY InvParts
  <1>2. RestOK' /\ WindowTracked' /\ TagFits'
    BY <1>1 DEF RestOK, WindowTracked, TagFits, cart, Is
  <1> QED  BY <1>2, CallsUnchanged, InvPartsNext

\* A key goes down.
LEMMA KeyDownInv ==
  ASSUME Inv, NEW k \in Keys, KeyDown(k)
  PROVE  Inv'
  <1>1. KeysTracked /\ RestOK
    BY InvParts
  <1>2. KeysTracked' /\ heldDirs' \subseteq Keys /\ pressed' \subseteq Keys /\ blind' \subseteq Keys
    BY <1>1 DEF KeyDown, KeysTracked, RestOK
  <1> QED  BY <1>2, KeysInv DEF KeyDown

\* A key comes up.
LEMMA KeyUpInv ==
  ASSUME Inv, NEW k \in Keys, KeyUp(k)
  PROVE  Inv'
  <1>1. KeysTracked /\ RestOK
    BY InvParts
  <1>2. KeysTracked' /\ heldDirs' \subseteq Keys /\ pressed' \subseteq Keys /\ blind' \subseteq Keys
    <2>1. CASE Callable
      BY <1>1, <2>1 DEF KeyUp, StillHeld, KeysTracked, RestOK
    <2>2. CASE ~Callable
      BY <1>1, <2>2 DEF KeyUp, StillHeld, KeysTracked, RestOK
    <2> QED  BY <2>1, <2>2
  <1> QED  BY <1>2, KeysInv DEF KeyUp

\* The focus goes.
LEMMA BlurInv ==
  ASSUME Inv, Blur
  PROVE  Inv'
  <1>1. Callable \in BOOLEAN
    BY Zenon DEF Callable
  <1>2. KeysTracked' /\ heldDirs' \subseteq Keys /\ pressed' \subseteq Keys /\ blind' \subseteq Keys
    BY <1>1, InvParts, ReleaseKeys DEF Blur
  <1> QED  BY <1>2, KeysInv DEF Blur

\* The running cart traps.
LEMMA TrapInv ==
  ASSUME Inv, Trap
  PROVE  Inv'
  <1>1. RestOK /\ WindowTracked /\ KeysTracked /\ TagFits
    BY InvParts
  <1>2. RestOK' /\ WindowTracked' /\ KeysTracked' /\ TagFits'
    BY <1>1 DEF Trap, RestOK, WindowTracked, KeysTracked, TagFits, keys, Is
  <1>3. GuardOK'
    BY CallsUnchanged DEF Trap
  <1> QED  BY <1>2, <1>3, InvPartsNext

\* The disk in the drive is another.
LEMMA MediaInv ==
  ASSUME Inv, mounted' \in Disks \cup {None},
         UNCHANGED <<cart, swapping, task, bad, currentTag, keys>>
  PROVE  Inv'
  <1>1. RestOK /\ WindowTracked /\ KeysTracked /\ TagFits
    BY InvParts
  <1>2. RestOK' /\ WindowTracked' /\ KeysTracked' /\ TagFits'
    BY <1>1 DEF RestOK, WindowTracked, KeysTracked, TagFits, cart, keys, Is
  <1> QED  BY <1>2, CallsUnchanged, InvPartsNext

-----------------------------------------------------------------------------
\* The invariant.
LEMMA InvInit == Init => Inv
  <1> SUFFICES ASSUME Init PROVE Inv
    OBVIOUS
  <1>1. task \in [Tasks -> TaskRec] /\ \A t \in Tasks : task[t] = NoTask
    BY NoTaskType DEF Init
  <1>2. GuardOK
    <2>1. \A t \in Tasks : OwnUrl(task[t]) /\ TuneUrl(task[t]) /\ (task[t].at = "mount" => task[t].url # None)
      BY <1>1, NoTaskType
    <2>2. \A t \in Tasks : ~InFlight(t)
      BY <1>1, NoTaskType DEF InFlight
    <2> QED  BY <1>1, <2>1, <2>2 DEF GuardOK, OneSwap, Init
  <1>3. RestOK
    <2>1. currentTag \in Tags \cup {None}
      BY DEF Init
    <2>2. demo \in [prog : {"post", "sector", "cart", "desktop", "program"},
                    home : Tags \cup {None, Unsure},
                    drive : PowerOn \cup {None}]
      BY <2>1 DEF Init
    <2>3. mounted \in Disks \cup {None}
      BY DisksType DEF Init
    <2> QED  BY <2>1, <2>2, <2>3 DEF RestOK, Init
  <1>4. TagFits
    <2>1. CASE demo = [prog |-> "post", home |-> currentTag, drive |-> mounted]
      BY <2>1 DEF TagFits
    <2>2. CASE mounted = None /\ demo = [prog |-> "cart", home |-> None, drive |-> None]
      BY <2>2, CartSwapAssumption, DisksType DEF TagFits, Init
    <2> QED  BY <2>1, <2>2 DEF Init
  <1>5. WindowTracked /\ KeysTracked
    BY DEF Init, WindowTracked, KeysTracked
  <1> QED  BY <1>2, <1>3, <1>4, <1>5, InvParts

\* Every step keeps the invariant.
LEMMA InvNext == Inv /\ [Next]_vars => Inv'
  <1> SUFFICES ASSUME Inv, [Next]_vars PROVE Inv'
    OBVIOUS
  <1>1. CASE UNCHANGED vars
    <2>1. mounted \in Disks \cup {None}
      BY InvParts DEF RestOK
    <2> QED  BY <1>1, <2>1, MediaInv DEF vars
  <1>2. ASSUME NEW t \in Tasks, Resume(t)  PROVE Inv'
    BY <1>2, MountInv, GemStepInv, LinkInv, FileInv DEF Resume
  <1>3. ASSUME NEW t \in Tasks, Listed(t) \/ Tuned(t) \/ CartRequest(t)  PROVE Inv'
    BY <1>3, ListedInv, TunedInv, CartRequestInv
  <1>4. ASSUME NEW t \in Tasks, NEW step \in {1, -1}, Change(t, step)  PROVE Inv'
    BY <1>4, ChangeInv
  <1>5. ASSUME NEW t \in Tasks, NEW tag \in Tags, Select(t, tag)  PROVE Inv'
    BY <1>5, SelectInv
  <1>6. ASSUME NEW t \in Tasks, NEW d \in Visitor \cup {None}, Upload(t, d)  PROVE Inv'
    BY <1>6, UploadInv
  <1>7. ASSUME NEW d \in Visitor, Insert(d)  PROVE Inv'
    BY <1>7, DisksType, MediaInv DEF Insert
  <1>8. CASE Eject
    BY <1>8, MediaInv DEF Eject
  <1>9. ASSUME NEW k \in Keys, KeyDown(k) \/ KeyUp(k)  PROVE Inv'
    BY <1>9, KeyDownInv, KeyUpInv
  <1> QED
    BY <1>1, <1>2, <1>3, <1>4, <1>5, <1>6, <1>7, <1>8, <1>9, TrapInv, BlurInv DEF Next

\* Inv holds in every state that the page can reach.
THEOREM Invariant == Spec => []Inv
  BY InvInit, InvNext, PTL DEF Spec

\* The loader's globals and the calls that wait keep their shapes; only disks
\* of the page's own are remembered as bad (swapCart's badCarts).
THEOREM TypeCorrect == Spec => []TypeOK
  <1>1. Inv => TypeOK
    BY DEF Inv
  <1> QED  BY <1>1, Invariant, PTL

\* The guard is set exactly while a swap or an upload is under way, and no two
\* are, however many calls wait for the channel list (swapCart, tuneToChannel,
\* bootUserFile).
THEOREM OneSwapAtATime == Spec => []OneSwap
  <1>1. Inv => OneSwap
    BY DEF Inv, GuardOK
  <1> QED  BY <1>1, Invariant, PTL

\* Whoever asks first whether the cart may be called finds its window its own,
\* or lost by a swap that failed: never one that is being replaced (step,
\* cartCallable).
THEOREM WindowAlwaysOwned == Spec => []WindowOwned
  <1>1. Inv => WindowOwned
    BY DEF Inv, TypeOK, GuardOK, OneSwap, InFlight, WindowTracked, WindowOwned, Callable, Is
  <1> QED  BY <1>1, Invariant, PTL

\* No swap, failed or not, makes the page forget a key that the cart takes to
\* be down (keyup, swapCart's finally, releaseAll).
THEOREM KeysAlwaysKnown == Spec => []KeysKnown
  <1>1. Inv => KeysKnown
    BY DEF Inv, KeysTracked, KeysKnown
  <1> QED  BY <1>1, Invariant, PTL

\* The channel buttons step from the channel that runs (currentTag).
THEOREM TagAlwaysFits == Spec => []TagFits
  <1>1. Inv => TagFits
    BY DEF Inv
  <1> QED  BY <1>1, Invariant, PTL

=============================================================================
