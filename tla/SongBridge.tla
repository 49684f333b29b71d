----------------------------- MODULE SongBridge -----------------------------
(* The browser's song bridge (docs/sealed-loader.js).  Once a frame the     *)
(* loader takes from the cart a song asked for by name, calls into the SNDH *)
(* that plays, and a batch of effects, samples and song images; what it     *)
(* makes of them reaches the audio worklet as messages, in the order they   *)
(* are posted.  A song by name is fetched, for as long as that takes, an    *)
(* effect waits for the load before it on a chain of promises, and a call   *)
(* for its image's; meanwhile the cart asks for more, is replaced, or sound *)
(* is turned off and on, while its own start goes on, fails, or waits for a *)
(* worklet that never says it is ready.  One action is one task of the      *)
(* page's event loop with the promise jobs it leaves, which run before the  *)
(* next task.                                                               *)
EXTENDS Naturals, Sequences, FiniteSets, FiniteSetsExt

CONSTANTS Mods,        \* song files an effect waits for: .mod, .xm, .kt
          Sndhs,       \* .sndh files
          Others,      \* .ymraw, .sap, .hip, .raw files
          Batches,     \* what a frame's queue can hold: sequences of Commands
          MaxRequests, \* bound: songGen
          MaxCommands, \* bound: calls and effect commands asked
          MaxBreaks    \* bound: carts started after the first, and sound turned off

Commands == {"effect", "sample", "song"}
Names == Mods \union Sndhs \union Others

ASSUME NamesAssumption == Mods \cap Sndhs = {} /\ Mods \cap Others = {} /\ Sndhs \cap Others = {}
ASSUME BatchesAssumption == Batches \subseteq Seq(Commands)
ASSUME BoundsAssumption == MaxRequests \in Nat /\ MaxCommands \in Nat /\ MaxBreaks \in Nat

VARIABLES
  audio,      \* "off", "starting" (audioCtx, no audioNode), "on" (an audioNode),
              \* "doubled": a second start made another node in the same context
  starts,     \* startAudio's runs: "loading", "booting" (its worklet made), "done", "failed"
  reqs,       \* every request that stepped songGen: its kind, name, what became of it,
              \* and the start it waits for, 0 none
  resident,   \* sndhResident: its gen, 0 none
  songPosted, \* the gen whose load songPosted is the promise of, 0 resolved
  sfxChain,   \* the batches not yet posted, one after the other: messages
  calls,      \* how many sndhCalls wait for the load of each gen
  wire,       \* what the worklet was sent since it was made
  asked,      \* history: calls and effect commands taken from carts
  breaks      \* history: carts started, and sound turned off

bridge == <<reqs, resident, songPosted, sfxChain, calls, wire, asked>>
vars == <<audio, starts, bridge, breaks>>

Init ==
  /\ audio = "off" /\ starts = <<>>
  /\ reqs = <<>> /\ resident = 0 /\ songPosted = 0
  /\ sfxChain = <<>> /\ calls = [g \in 1..MaxRequests |-> 0] /\ wire = <<>>
  /\ asked = 0 /\ breaks = 0

-----------------------------------------------------------------------------
(* A task builds the bridge's next state in steps, from a record of it. *)

Now == [reqs |-> reqs, resident |-> resident, posted |-> songPosted, chain |-> sfxChain,
        calls |-> calls, wire |-> wire, asked |-> asked]

Becomes(s) == /\ reqs' = s.reqs /\ resident' = s.resident /\ songPosted' = s.posted
              /\ sfxChain' = s.chain /\ calls' = s.calls /\ wire' = s.wire /\ asked' = s.asked

HasNode == audio \in {"on", "doubled"}
songGen(s) == Len(s.reqs)
InFlight(r) == r.st \in {"starting", "fetch"}

\* A message: the request it is about (an effect's: the last one before it), the
\* load it waited for, its number among the commands.
Msg(t, g) == [type |-> t, gen |-> g, after |-> 0, n |-> 0]
Post(s, ms) == [s EXCEPT !.wire = IF HasNode THEN @ \o ms ELSE @]

Request(s, k, n, st, a) ==
  [s EXCEPT !.reqs = Append(@, [kind |-> k, name |-> n, st |-> st, start |-> a]), !.resident = 0]
Stop(s, n) == Request(s, "stop", n, "ended", 0)

\* What becomes of a song asked for during start a: it waits, goes on, or fails with it.
AfterStart(a) ==
  IF starts[a] = "done" THEN "fetch" ELSE IF starts[a] = "failed" THEN "failed" ELSE "starting"

\* playMod, playXm, playYm...: once asked, they wait for the audio's start, then fetch.
Play(s, k, n) ==
  LET st == AfterStart(Len(starts)) IN Request(s, k, n, st, IF st = "starting" THEN Len(starts) ELSE 0)

PlaySongByName(s, n) ==
  IF n = "refused" THEN Stop(s, "none")
  ELSE IF n = "none" THEN Post(Stop(s, n), <<Msg("reset", songGen(s) + 1)>>)
  ELSE IF n \in Mods THEN [Play(s, "mod", n) EXCEPT !.posted = songGen(s) + 1]
  ELSE IF n \in Sndhs THEN [Play(s, "sndh", n) EXCEPT !.resident = songGen(s) + 1]
  ELSE Play(s, "other", n)

Resident(s, name) == s.resident # 0 /\ s.reqs[s.resident].name = name

\* n more calls wait for the load of gen g.
Calling(s, g, n) == [s EXCEPT !.calls = [h \in 1..MaxRequests |-> IF h = g THEN @[h] + n ELSE @[h]]]

\* The image is asked for, the first call its first INIT; the others wait for it.
CallAbsent(s, name, n) ==
  LET t == Play(s, "sndh", name) IN Calling([t EXCEPT !.resident = songGen(t), !.asked = @ + n], songGen(t), n - 1)

\* Mutant: an image that is on its way can be called at once.
SndhCallAtOnce(s, name, n) ==
  IF n = 0 THEN s
  ELSE IF Resident(s, name)
  THEN Post([s EXCEPT !.asked = @ + n], [i \in 1..n |-> Msg("call", s.resident)])
  ELSE CallAbsent(s, name, n)

\* A frame's n sndhCalls: on the image that is playing or on its way, or on one that is neither.
SndhCallByName(s, name, n) ==
  IF n = 0 THEN s
  ELSE IF Resident(s, name) THEN Calling([s EXCEPT !.asked = @ + n], s.resident, n)
  ELSE CallAbsent(s, name, n)

\* Mutants: a load that failed is waited for; only the audio's start is.
WaitsForever(s, g) == g # 0 /\ (InFlight(s.reqs[g]) \/ s.reqs[g].st = "failed")
WaitsForAudio(s, g) == g # 0 /\ s.reqs[g].st = "starting"

\* The promise of load g is not settled.
Waits(s, g) == g # 0 /\ InFlight(s.reqs[g])

\* How many of a batch's first i entries are song images.
Songs(batch, i) == Cardinality({j \in 1..i : batch[j] = "song"})

\* What postSfx does at once: a song image steps songGen, and it or a sample takes
\* the memory of the SNDH.
Taken(s, batch) ==
  [s EXCEPT !.reqs = @ \o [i \in 1..Songs(batch, Len(batch)) |-> [kind |-> "bytes", name |-> "none", st |-> "ended", start |-> 0]],
            !.resident = IF \E i \in DOMAIN batch : batch[i] # "effect" THEN 0 ELSE @,
            !.asked = @ + Len(batch)]

\* The messages it makes of the frame's queue.
Msgs(s, batch) ==
  [i \in DOMAIN batch |-> [type |-> IF batch[i] = "song" THEN "load" ELSE batch[i],
                           gen |-> songGen(s) + Songs(batch, i), after |-> s.posted, n |-> s.asked + i]]

\* Mutant: a batch that waits for no song is posted past the chain.
PostSfxPast(s, batch) ==
  IF Waits(s, s.posted) THEN [Taken(s, batch) EXCEPT !.chain = @ \o Msgs(s, batch)]
  ELSE Post(Taken(s, batch), Msgs(s, batch))

\* postSfx: the frame's queue joins the chain.
PostSfx(s, batch) == [Taken(s, batch) EXCEPT !.chain = @ \o Msgs(s, batch)]

\* The promise jobs a task leaves: the calls whose image's load has ended, if it is
\* still the newest request's; then the chain up to the first message that waits for
\* a load.
LiveCalls(s) ==
  LET g == songGen(s)
      posted == g # 0 /\ s.reqs[g].st = "ended"
  IN [i \in 1..(IF posted THEN s.calls[g] ELSE 0) |-> Msg("call", g)]

Waiting(s) == {k \in DOMAIN s.chain : Waits(s, s.chain[k].after)}

\* Mutant: a task sends one message of the chain.
FreeOne(s) == IF s.chain = <<>> \/ 1 \in Waiting(s) THEN 0 ELSE 1

\* How much of the chain waits for nothing.
Free(s) == IF Waiting(s) = {} THEN Len(s.chain) ELSE Min(Waiting(s)) - 1

Jobs(s) ==
  LET t == [s EXCEPT !.calls = [g \in 1..MaxRequests |-> IF g \in DOMAIN s.reqs /\ Waits(s, g) THEN @[g] ELSE 0],
                     !.chain = SubSeq(@, Free(s) + 1, Len(@))]
  IN Post(Post(t, LiveCalls(s)), SubSeq(s.chain, 1, Free(s)))

-----------------------------------------------------------------------------
(* The page's tasks. *)

\* A frame's pump: the song request, then the calls, then the queue.
Frame(name, image, n, batch) ==
  /\ audio # "off"
  /\ asked + n + Len(batch) <= MaxCommands
  /\ Len(reqs) < MaxRequests \/ name = "nothing"
  /\ LET s1 == IF name = "nothing" THEN Now ELSE PlaySongByName(Now, name)
         s2 == SndhCallByName(s1, image, n)
         s3 == PostSfx(s2, batch)
     IN /\ songGen(s3) <= MaxRequests
        /\ Becomes(Jobs(s3))
  /\ UNCHANGED <<audio, starts, breaks>>

Ends(g, st) == [Now EXCEPT !.reqs[g].st = st]

\* Mutant: whatever was fetched is posted.
FetchedAnyway(g) ==
  IF HasNode THEN Post(Ends(g, "ended"), <<Msg("load", g)>>) ELSE Ends(g, "failed")

\* A song's bytes are here: dropped if a newer request was made, posted if there
\* is a worklet, an exception if there is none.
Fetched(g) ==
  IF g # Len(reqs) THEN Ends(g, "ended")
  ELSE IF HasNode THEN Post(Ends(g, "ended"), <<Msg("load", g)>>)
  ELSE Ends(g, "failed")

FetchEnds(g) ==
  /\ reqs[g].st = "fetch"
  /\ \E s \in {Jobs(Fetched(g)), Jobs(Ends(g, "failed"))} : Becomes(s)
  /\ UNCHANGED <<audio, starts, breaks>>

\* Start a has ended: the songs that waited for it go on, or fail with it.
StartEnds(a, st) ==
  [Now EXCEPT !.reqs = [g \in DOMAIN reqs |-> IF reqs[g].st = "starting" /\ reqs[g].start = a
                                              THEN [reqs[g] EXCEPT !.st = st, !.start = 0] ELSE reqs[g]]]

\* startAudio throws: a file that does not come, an audioCtx or audioNode taken away
\* meanwhile, a context that does not resume.
StartFails(a) ==
  /\ starts' = [starts EXCEPT ![a] = "failed"]
  /\ Becomes(Jobs(StartEnds(a, "failed")))
  /\ UNCHANGED <<audio, breaks>>

\* startAudio makes its worklet, in the context there now is, be it a later start's.
MakeNode(a) ==
  /\ audio # "off"
  /\ audio' = IF HasNode THEN "doubled" ELSE "on"
  /\ starts' = [starts EXCEPT ![a] = "booting"]
  /\ wire' = <<>>
  /\ UNCHANGED <<reqs, resident, songPosted, sfxChain, calls, asked, breaks>>

\* The worklet says it is ready, and there still is an audioNode.
AudioReady(a) ==
  /\ HasNode
  /\ starts' = [starts EXCEPT ![a] = "done"]
  /\ Becomes(Jobs(StartEnds(a, "fetch")))
  /\ UNCHANGED <<audio, breaks>>

LoadEnds(a) == starts[a] = "loading" /\ (MakeNode(a) \/ StartFails(a))
BootEnds(a) == starts[a] = "booting" /\ (AudioReady(a) \/ StartFails(a))

\* main, with sound: the context is closed, started or starting.
SoundOff ==
  /\ audio # "off" /\ breaks < MaxBreaks
  /\ audio' = "off" /\ breaks' = breaks + 1
  /\ resident' = 0 /\ wire' = <<>>
  /\ UNCHANGED <<starts, reqs, songPosted, sfxChain, calls, asked>>

SoundOn ==
  /\ audio = "off"
  /\ audio' = "starting" /\ starts' = Append(starts, "loading")
  /\ UNCHANGED <<bridge, breaks>>

\* instantiateCart: the machine takes its sound chip back.
InstantiateCart ==
  /\ breaks < MaxBreaks
  /\ breaks' = breaks + 1
  /\ Becomes(Post([Now EXCEPT !.resident = 0], <<Msg("reset", 0)>>))
  /\ UNCHANGED <<audio, starts>>

Next ==
  \/ \E name \in Names \union {"none", "refused", "nothing"}, image \in Sndhs, n \in 0..MaxCommands, batch \in Batches \union {<<>>} :
       Frame(name, image, n, batch)
  \/ \E g \in DOMAIN reqs : FetchEnds(g)
  \/ \E a \in DOMAIN starts : LoadEnds(a) \/ BootEnds(a)
  \/ SoundOff \/ SoundOn \/ InstantiateCart

\* A fetch ends, one way or the other, and so does the loading of the audio's files;
\* a worklet need not ever say it is ready.
Fairness == /\ \A g \in 1..MaxRequests : WF_vars(g \in DOMAIN reqs /\ FetchEnds(g))
            /\ \A a \in 1..MaxBreaks + 1 : WF_vars(a \in DOMAIN starts /\ LoadEnds(a))

Spec == Init /\ [][Next]_vars /\ Fairness

-----------------------------------------------------------------------------
(* Properties. *)

Request_ == [kind : {"mod", "sndh", "other", "stop", "bytes"}, name : Names \union {"none"},
             st : {"starting", "fetch", "ended", "failed"}, start : Nat]
Message == [type : {"load", "reset", "call", "effect", "sample"}, gen : 0..MaxRequests,
            after : 0..MaxRequests, n : 0..MaxCommands]

\* The bridge's globals keep their kinds; what waits is a request that was made, for
\* a start that goes on.
TypeOK ==
  /\ audio \in {"off", "starting", "on", "doubled"}
  /\ starts \in Seq({"loading", "booting", "done", "failed"})
  /\ audio # "off" => starts # <<>>
  /\ reqs \in Seq(Request_) /\ Len(reqs) <= MaxRequests
  /\ \A g \in DOMAIN reqs : reqs[g].st = "starting" =>
       reqs[g].start \in DOMAIN starts /\ starts[reqs[g].start] \in {"loading", "booting"}
  /\ {resident, songPosted} \subseteq {0} \union DOMAIN reqs
  /\ resident # 0 => reqs[resident].kind = "sndh"
  /\ songPosted # 0 => reqs[songPosted].kind = "mod"
  /\ sfxChain \in Seq(Message)
  /\ sfxChain # <<>> => Waits(Now, sfxChain[1].after)
  /\ calls \in [1..MaxRequests -> Nat]
  /\ \A g \in 1..MaxRequests : calls[g] # 0 => g \in DOMAIN reqs /\ Waits(Now, g)
  /\ wire \in Seq(Message)
  /\ asked \in 0..MaxCommands

ByName(m) == m.type = "load" /\ reqs[m.gen].kind # "bytes"
Command(m) == m.n # 0

\* "A slow earlier song can never start over it": once the worklet was sent anything
\* of a request, no song fetched for an earlier one follows.
SlowSongNeverLast == \A i, j \in DOMAIN wire : i < j /\ ByName(wire[j]) => wire[i].gen <= wire[j].gen

\* sfxChain "keeps them in the cart's order", however slow the songs between.
EffectsInOrder == \A i, j \in DOMAIN wire :
  i < j /\ Command(wire[i]) /\ Command(wire[j]) => wire[i].n < wire[j].n

\* No effect is sent before the load of the last .mod, .xm or .kt asked before it.
EffectAfterLoad == \A i, j \in DOMAIN wire :
  i < j /\ Command(wire[i]) /\ ByName(wire[j]) => wire[i].after < wire[j].gen

\* "So the worklet always sees load -> call": a call follows its image's load, and
\* nothing that was asked after that load lies between.  (Of a node that another
\* start's replaced, the calls go to the one and the loads went to the other.)
CallAfterLoad == audio # "doubled" => \A j \in DOMAIN wire : wire[j].type = "call" =>
  \E i \in 1..j : /\ wire[i].type = "load" /\ wire[i].gen = wire[j].gen
                  /\ \A k \in i..j : wire[k].gen <= wire[j].gen

\* The chain waits for a song that waits for a worklet to say it is ready.
Stuck == /\ sfxChain # <<>>
         /\ LET r == reqs[sfxChain[1].after] IN r.st = "starting" /\ starts[r.start] = "booting"

\* Every effect a cart asked for leaves the chain, sent or dropped with the sound,
\* but behind a worklet that never says it is ready.
EffectsSent == \A n \in 1..MaxCommands :
  n <= asked ~> ((\A i \in DOMAIN sfxChain : sfxChain[i].n # n) \/ []Stuck)

\* "Each message waits for the load of the song requested before it, so an effect
\* never lands on the tune it was not meant for" (postSfx): no effect is sent before
\* the load of the last song requested before it.
EachWaits == \A i, j \in DOMAIN wire :
  i < j /\ Command(wire[i]) /\ ByName(wire[j]) => wire[i].gen < wire[j].gen
=============================================================================
