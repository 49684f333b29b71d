------------------------------ MODULE CartSwap ------------------------------
(***************************************************************************)
(* The page's cart swaps (docs/sealed-loader.js, docs/upload-cart.js): the *)
(* running cart is replaced, in the one cart window they share, by the     *)
(* menu's, a channel's, the desktop's, a program's or a visitor's, while   *)
(* keys, media changes and further requests come in.                       *)
(*                                                                         *)
(* An async function runs from one await to the next without a break, so a *)
(* step here is one such stretch: a TASK is a call of such a function that *)
(* waits, and what it waits for may come to nothing.  Listeners and frames *)
(* are steps of their own.                                                 *)
(***************************************************************************)
EXTENDS Integers, Sequences

CONSTANTS
  Tasks,      \* bound: calls that wait at the same time, as numbered slots
  Channels,   \* the channels' tags in order (docs/channels.json)
  Kind,       \* by disk: "cart", "sector" (a boot sector that chainloads its
              \* cart), "sectorOS" (one that hands over to the desktop), "data"
  Menu,       \* the menu's disk
  Visitor,    \* disks a visitor may upload or insert
  PowerOn,    \* bound: disks in drive A at power-on
  Keys,       \* the keys (and directions) whose release a cart is told
  None

Tags  == {Channels[i] : i \in DOMAIN Channels}
Disks == DOMAIN Kind

ASSUME CartSwapAssumption ==
  /\ Tasks \subseteq Int
  /\ Channels \in Seq(Disks) /\ Len(Channels) > 0
  /\ {Menu} \cup Visitor \cup PowerOn \subseteq Disks
  /\ Menu \notin Tags
  /\ None \notin Disks

VARIABLES
  demo,        \* what runs: the kind of program, the channel it came with, and
               \* kosDrive, the disk at power-on, which only the POST boots
  window,      \* "own": demo's; "taken": bytes of another cart are in it
  lost,        \* (history) the swap that took it has failed
  trapped,     \* cartTrapped
  swapping,
  task,        \* the calls that wait
  mounted,     \* mountedDisk
  bad,         \* badCarts
  currentTag,
  heldDirs,    \* heldDirs and heldKeys
  pressed,     \* the keys that the running cart takes to be down
  blind        \* (history) of these, those dropped from heldDirs while the
               \* cart could not be called

cart  == <<demo, window, lost, trapped>>
keys  == <<heldDirs, pressed, blind>>
vars  == <<cart, swapping, task, mounted, bad, currentTag, keys>>

Unsure == "unsure"   \* the channel of a cart that trapped while it booted

NoTask == [at |-> "none", url |-> None, prog |-> "cart", up |-> FALSE,
           was |-> None, wasTag |-> None, step |-> 0]
Is(t, at) == task[t].at = at

\* The slot that a new call takes.
Free(t) == Is(t, "none") /\ \A u \in Tasks : u < t => ~Is(u, "none")

\* A swap or an upload that is under way.
InFlight(t) == task[t].at \in {"file", "mount", "gem", "link"}

Bootable(d)  == Kind[d] # "data"
BootProg(d)  == IF Kind[d] = "cart" THEN "cart" ELSE "sector"
Callable     == ~swapping /\ ~trapped
TagOf(url)   == IF url = Menu THEN None ELSE url
Over(t)      == task' = [task EXCEPT ![t] = NoTask]

-----------------------------------------------------------------------------
\* Keys.

\* releaseAll, `callable` or not.
ReleaseAll(callable) ==
  /\ heldDirs' = {}
  /\ pressed' = IF callable THEN pressed \ heldDirs ELSE pressed
  /\ blind' = IF callable THEN blind ELSE blind \cup (pressed \cap heldDirs)

KeyDown(k) ==
  /\ pressed' = pressed \cup {k}
  /\ heldDirs' = heldDirs \cup {k}
  /\ blind' = blind \ {k}
  /\ UNCHANGED <<cart, swapping, task, mounted, bad, currentTag>>

\* What the page still holds after a key came up (Mutant: always one less).
StillHeldLess(k) == heldDirs \ {k}
StillHeld(k) == IF Callable THEN heldDirs \ {k} ELSE heldDirs

KeyUp(k) ==
  /\ heldDirs' = StillHeld(k)
  /\ pressed' = IF Callable THEN pressed \ {k} ELSE pressed
  /\ blind' = IF Callable THEN blind \ {k} ELSE blind
  /\ UNCHANGED <<cart, swapping, task, mounted, bad, currentTag>>

\* The page loses the focus, and sees no key come up from then on.
Blur ==
  /\ ReleaseAll(Callable)
  /\ UNCHANGED <<cart, swapping, task, mounted, bad, currentTag>>

-----------------------------------------------------------------------------
\* A swap, from await to await.

\* Call t goes on waiting, as `next` (Mutant: its caller does not wait for it).
AwaitsUnheld(t, next) == task' = [task EXCEPT ![t] = next] /\ swapping' = FALSE
Awaits(t, next) == task' = [task EXCEPT ![t] = next] /\ swapping' = TRUE

\* A disk known to be bad is not tried again (Mutant: the guard kept).
KnownBadHeld(t) == Over(t) /\ swapping' = TRUE
KnownBad(t) == Over(t) /\ swapping' = FALSE

\* Call t starts to fetch the disk at `url`.
Fetch(t, url) ==
  IF url \in bad THEN KnownBad(t)
  ELSE Awaits(t, [NoTask EXCEPT !.at = "mount", !.url = url])

\* swapCart's catch and finally.
SwapFails(t, next) ==
  /\ bad' = IF next.url = None THEN bad ELSE bad \cup {next.url}
  /\ swapping' = FALSE
  /\ Over(t)

\* bootUserFile when the upload fails once it has started: the disk put back,
\* and a swap to where the visitor was.
UploadFails(t, next) ==
  /\ mounted' = next.was
  /\ Fetch(t, IF next.wasTag = None THEN Menu ELSE next.wasTag)
  /\ UNCHANGED bad

\* The next cart does not start, the old one is there as before, but for its
\* window being `win`; m is the disk that is in the drive by now.
Fails(t, next, m, win) ==
  /\ window' = win
  /\ lost' = (win = "taken")
  /\ IF next.up
       THEN UploadFails(t, next) /\ UNCHANGED <<heldDirs, pressed, blind>>
       ELSE SwapFails(t, next) /\ mounted' = m /\ ReleaseAll(~trapped)
  /\ UNCHANGED <<demo, currentTag>>

\* instantiateCart up to its await: a packed cart is depacked into the window,
\* any other passes; the ROM may refuse it, before it writes or after.
Unpack(t, next, m) ==
  \E win \in {window, "taken"} :
    \/ /\ Awaits(t, [next EXCEPT !.at = "link"])
       /\ window' = win
       /\ mounted' = m
       /\ UNCHANGED <<demo, lost, trapped, bad, currentTag, keys>>
    \/ /\ Fails(t, next, m, win)
       /\ UNCHANGED trapped

\* What swapCart does for a request, if no other swap is under way.
SwapCart(t, req, tag) ==
  LET chains == req = "chain" /\ mounted # None /\ Kind[mounted] \in {"sector", "sectorOS"}
      goes   == IF ~chains THEN IF req = "chain" THEN "menu" ELSE req
                ELSE IF Kind[mounted] = "sectorOS" THEN "desktop" ELSE "chain"
      own    == demo.drive # None /\ Bootable(demo.drive)
      Stays  == UNCHANGED <<cart, mounted, bad, currentTag, keys>>
  IN  \/ /\ goes = "chain"
         /\ Unpack(t, NoTask, mounted)
      \/ /\ goes = "drive" /\ own
         /\ Unpack(t, [NoTask EXCEPT !.prog = BootProg(demo.drive)], mounted)
      \/ /\ goes = "desktop" \/ (goes = "drive" /\ ~own)
         /\ Awaits(t, [NoTask EXCEPT !.at = "gem"])
         /\ Stays
      \/ /\ goes = "program" /\ mounted # None
         /\ Unpack(t, [NoTask EXCEPT !.prog = "program"], mounted)
      \/ /\ goes = "program"               \* there is no such program
         /\ Fails(t, NoTask, mounted, window)
         /\ UNCHANGED trapped
      \/ /\ goes \in {"channel", "menu"}
         /\ Fetch(t, IF goes = "channel" THEN tag ELSE Menu)
         /\ Stays

\* The disk is fetched and parsed, or is not.
Mount(t) ==
  LET url == task[t].url
  IN  /\ Is(t, "mount")
      /\ \/ /\ Bootable(url)
            /\ Unpack(t, [task[t] EXCEPT !.prog = BootProg(url)], url)
         \/ /\ ~Bootable(url)
            /\ Awaits(t, [task[t] EXCEPT !.at = "gem"])
            /\ mounted' = url
            /\ UNCHANGED <<cart, bad, currentTag, keys>>
         \/ /\ Fails(t, task[t], mounted, window)
            /\ UNCHANGED trapped

\* The desktop's wasm is fetched, or is not.
Gem(t) ==
  /\ Is(t, "gem")
  /\ \/ Unpack(t, [task[t] EXCEPT !.prog = "desktop"], mounted)
     \/ Fails(t, task[t], mounted, window) /\ UNCHANGED trapped

\* Mutants: the menu's disk taken for a channel; an upload keeps the channel.
NewTagMenu(next) == IF next.up THEN None ELSE IF next.url = None THEN currentTag ELSE next.url
NewTagKept(next) == IF next.url = None \/ next.up THEN currentTag ELSE TagOf(next.url)

\* The channel +/- step from once the next cart is up.
NewTag(next) ==
  IF next.up THEN None ELSE IF next.url = None THEN currentTag ELSE TagOf(next.url)

\* The cart is instantiated and boots.
Boots(t) ==
  LET next == task[t]
      home == IF next.up THEN None ELSE IF next.url = None THEN demo.home ELSE TagOf(next.url)
  IN  /\ demo' = [prog |-> next.prog, home |-> home, drive |-> None]
      /\ window' = "own" /\ lost' = FALSE /\ trapped' = FALSE
      /\ currentTag' = NewTag(next)
      /\ heldDirs' = IF next.up THEN heldDirs ELSE {}
      /\ pressed' = {} /\ blind' = {}
      /\ swapping' = FALSE
      /\ Over(t)
      /\ UNCHANGED <<mounted, bad>>

\* It is instantiated, and traps in its boot(): it is the running cart.
BootTraps(t) ==
  LET next == task[t]
  IN  /\ demo' = [prog |-> next.prog, home |-> Unsure, drive |-> None]
      /\ window' = "own" /\ lost' = FALSE /\ trapped' = FALSE
      /\ IF next.up THEN UploadFails(t, next) /\ UNCHANGED heldDirs
                    ELSE SwapFails(t, next) /\ heldDirs' = {} /\ UNCHANGED mounted
      /\ pressed' = {} /\ blind' = {}
      /\ UNCHANGED currentTag

\* It does not link.
LinkFails(t) == Fails(t, task[t], mounted, window) /\ UNCHANGED trapped

\* An upload that links and is no cart: the old one no longer counts as trapped.
NotACart(t) ==
  /\ task[t].up
  /\ trapped' = FALSE
  /\ Fails(t, task[t], mounted, "taken")

Link(t) == Is(t, "link") /\ (Boots(t) \/ BootTraps(t) \/ LinkFails(t) \/ NotACart(t))

-----------------------------------------------------------------------------
\* What starts one.

Asks(prog) == CASE prog = "post"    -> {"drive"}
                [] prog = "sector"  -> {"chain"}
                [] prog = "desktop" -> {"program"}
                [] prog = "program" -> {"desktop", "menu"}
                [] prog = "cart"    -> {"channel", "menu"}

\* A frame in which the running cart asks for another.
CartRequest(t) ==
  /\ Callable
  /\ Free(t)
  /\ \E req \in Asks(demo.prog), tag \in Tags : SwapCart(t, req, tag)

\* A frame in which it traps.
Trap ==
  /\ Callable
  /\ demo.prog # "post"
  /\ trapped' = TRUE
  /\ UNCHANGED <<demo, window, lost, swapping, task, mounted, bad, currentTag, keys>>

\* The channel `step` away; the first one from none.
ChannelAt(step) ==
  LET n  == Len(Channels)
      at == {i \in DOMAIN Channels : Channels[i] = currentTag}
  IN  IF at = {} THEN Channels[1]
      ELSE LET i == CHOOSE j \in at : TRUE IN Channels[(((i - 1) + step + n) % n) + 1]

\* changeChannel: a monitor button, or its key where the cart has no use for it.
Change(t, step) ==
  /\ Free(t)
  /\ ~swapping
  /\ task' = [task EXCEPT ![t] = [NoTask EXCEPT !.at = "list", !.step = step]]
  /\ UNCHANGED <<cart, swapping, mounted, bad, currentTag, keys>>

\* tuneToChannel, from the cart selector.
Select(t, tag) ==
  /\ Free(t)
  /\ ~swapping
  /\ task' = [task EXCEPT ![t] = [NoTask EXCEPT !.at = "tune", !.url = tag]]
  /\ UNCHANGED <<cart, swapping, mounted, bad, currentTag, keys>>

\* changeChannel has the list, or has not; then tuneToChannel waits for it.
Listed(t) ==
  /\ Is(t, "list")
  /\ \/ Over(t)
     \/ /\ ~swapping
        /\ task' = [task EXCEPT ![t] = [NoTask EXCEPT !.at = "tune",
                                                       !.url = ChannelAt(task[t].step)]]
  /\ UNCHANGED <<cart, swapping, mounted, bad, currentTag, keys>>

\* tuneToChannel has it; another swap may have started meanwhile.
Tuned(t) ==
  /\ Is(t, "tune")
  /\ \/ /\ Over(t)
        /\ UNCHANGED <<cart, swapping, mounted, bad, currentTag, keys>>
     \/ ~swapping /\ SwapCart(t, "channel", task[t].url)

\* (Mutant: an upload does not look for a swap under way.)
MayUploadAlways == TRUE
MayUpload == ~swapping

\* A visitor picks a file: bootUserFile, up to the reading of it.
Upload(t, d) ==
  /\ Free(t)
  /\ MayUpload
  /\ Awaits(t, [NoTask EXCEPT !.at = "file", !.url = d, !.up = TRUE,
                              !.was = mounted, !.wasTag = currentTag])
  /\ UNCHANGED <<cart, mounted, bad, currentTag, keys>>

\* It is read and refused, or started: a disk, or a bare cart.
File(t) ==
  LET d == task[t].url
  IN  /\ Is(t, "file")
      /\ \/ /\ Over(t) /\ swapping' = FALSE
            /\ UNCHANGED <<cart, mounted, bad, currentTag, keys>>
         \/ /\ d = None
            /\ Unpack(t, task[t], None)
         \/ /\ d # None /\ Bootable(d)
            /\ Unpack(t, [task[t] EXCEPT !.prog = BootProg(d)], d)
         \/ /\ d # None /\ ~Bootable(d)
            /\ Awaits(t, [task[t] EXCEPT !.at = "gem"])
            /\ mounted' = d
            /\ UNCHANGED <<cart, bad, currentTag, keys>>

\* kosMedia, once the disk it fetched is there (it reads and writes nothing
\* until then): it is in the drive, under the running cart.
Insert(d) ==
  /\ mounted' = d
  /\ UNCHANGED <<cart, swapping, task, bad, currentTag, keys>>
Eject ==
  /\ mounted' = None
  /\ UNCHANGED <<cart, swapping, task, bad, currentTag, keys>>

-----------------------------------------------------------------------------
\* The page as it is once it runs: KOS's POST with the disk (or none) in drive
\* A, or the menu's cart.
Init ==
  /\ mounted \in PowerOn \cup {None}
  /\ currentTag = IF mounted \in Tags THEN mounted ELSE None
  /\ \/ demo = [prog |-> "post", home |-> currentTag, drive |-> mounted]
     \/ mounted = None /\ demo = [prog |-> "cart", home |-> None, drive |-> None]
  /\ window = "own" /\ lost = FALSE /\ trapped = FALSE /\ swapping = FALSE
  /\ task = [t \in Tasks |-> NoTask]
  /\ bad = {}
  /\ heldDirs = {} /\ pressed = {} /\ blind = {}

Resume(t) == Mount(t) \/ Gem(t) \/ Link(t) \/ File(t)

Next ==
  \/ \E t \in Tasks :
       \/ Resume(t)
       \/ Listed(t) \/ Tuned(t)
       \/ CartRequest(t)
       \/ \E step \in {1, -1} : Change(t, step)
       \/ \E tag \in Tags : Select(t, tag)
       \/ \E d \in Visitor \cup {None} : Upload(t, d)
  \/ \E d \in Visitor : Insert(d)
  \/ Trap \/ Eject \/ Blur
  \/ \E k \in Keys : KeyDown(k) \/ KeyUp(k)

\* What a swap waits for (a file, a fetch, the compiler) comes or fails.
Spec == Init /\ [][Next]_vars /\ \A t \in Tasks : WF_vars(Resume(t))

-----------------------------------------------------------------------------
\* TypeOK: the loader's globals and the waiting calls have their shapes.
TypeOK ==
  /\ demo \in [prog : {"post", "sector", "cart", "desktop", "program"},
               home : Tags \cup {None, Unsure},
               drive : PowerOn \cup {None}]
  /\ window \in {"own", "taken"}
  /\ lost \in BOOLEAN /\ trapped \in BOOLEAN /\ swapping \in BOOLEAN
  /\ task \in [Tasks -> [at : {"none", "list", "tune", "file", "mount", "gem", "link"},
                         url : Disks \cup {None},
                         prog : {"sector", "cart", "desktop", "program"},
                         up : BOOLEAN,
                         was : Disks \cup {None}, wasTag : Tags \cup {None},
                         step : {-1, 0, 1}]]
  /\ mounted \in Disks \cup {None}
  /\ bad \subseteq Tags \cup {Menu}
  /\ currentTag \in Tags \cup {None}
  /\ heldDirs \subseteq Keys /\ pressed \subseteq Keys /\ blind \subseteq Keys

\* OneSwap: `swapping` is set while a swap or an upload is under way and at no
\* other time, and no two ever are: channel changes, the cart's own requests,
\* the selector and uploads all pass the one guard, whatever they waited for
\* before (swapCart, tuneToChannel, bootUserFile).
OneSwap ==
  /\ swapping <=> \E t \in Tasks : InFlight(t)
  /\ \A t, u \in Tasks : InFlight(t) /\ InFlight(u) => t = u

\* WindowOwned: a frame, a release or an audio mirror, which all ask whether
\* the cart may be called, never finds the window taken by a cart still being
\* unpacked or linked (step, cartCallable, audioState), only by one that failed.
WindowOwned == Callable => window = "own" \/ lost

\* KeysKnown: whatever key the running cart takes to be down the page will
\* release, at its keyup or when the focus goes: no swap, failed or not, loses
\* track of one; only releaseAll does, when the focus goes during a swap.
KeysKnown == Callable => pressed \subseteq heldDirs \cup blind

\* TagFits: + and - step from the channel that runs: currentTag follows the
\* cart through channel changes, chainloads, programs and uploads, and stays
\* with it when a swap fails (a cart that trapped in its boot left aside).
TagFits == demo.home # Unsure => currentTag = demo.home

\* SwapEnds: the guard is released, on every path (swapCart's finally).
SwapEnds == swapping ~> ~swapping

\* OldCartWhole: after a swap that failed the running cart runs on, in memory
\* that is its own (sealed-loader.js:260, "The running cart keeps going.").
OldCartWhole == Callable /\ demo.prog # "post" => window = "own"

=============================================================================
