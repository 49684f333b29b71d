-------------------------- MODULE SongBridgeProofs --------------------------
(* Theorems of SongBridge: what the audio worklet is sent, whatever the      *)
(* songs, the order their fetches end in, the frames' queues, and however    *)
(* often the sound goes off and carts change.  The invariant is stated of    *)
(* the record a task works on: each step of a task keeps Mid, and the        *)
(* promise jobs at its end bring back Sound.                                 *)
EXTENDS SongBridge, FiniteSetTheorems, TLAPS

Types == {"load", "reset", "call", "effect", "sample"}
Wide == [type : Types, gen : Nat, after : Nat, n : Nat]
State == [reqs : Seq(Request_), resident : Nat, posted : Nat, chain : Seq(Wide),
          calls : [1..MaxRequests -> Nat], wire : Seq(Wide), asked : Nat]

Made(s, g) == g \in DOMAIN s.reqs
\* (Or the worklet that has it was replaced by another start's: w is the audio.)
Loaded(w, s, g) == w = "doubled" \/ \E i \in DOMAIN s.wire : s.wire[i].type = "load" /\ s.wire[i].gen = g
NamedLoad(s, m) == m.type = "load" /\ s.reqs[m.gen].kind # "bytes"

\* A message that names requests made and commands asked.
Placed(s, m) == /\ m.gen <= Len(s.reqs) /\ m.after <= Len(s.reqs) /\ m.n <= s.asked
                /\ m.type = "load" => m.gen # 0

\* The song by name that may be called is the newest request, and once its load has
\* ended well the worklet has it.
ResidentOK(w, s) ==
  s.resident # 0 => /\ s.resident = Len(s.reqs) /\ s.reqs[s.resident].kind = "sndh"
                    /\ s.reqs[s.resident].st = "ended" => Loaded(w, s, s.resident)

PostedOK(s) == s.posted # 0 => Made(s, s.posted) /\ s.reqs[s.posted].kind = "mod"

\* On the chain only commands, a song image's load under its own number.
ChainOK(s) == \A k \in DOMAIN s.chain :
  /\ Placed(s, s.chain[k]) /\ s.chain[k].n # 0 /\ s.chain[k].type # "call"
  /\ ~NamedLoad(s, s.chain[k])

\* Nothing on the wire waited for a load that has not ended.
WireOK(s) == \A k \in DOMAIN s.wire : Placed(s, s.wire[k]) /\ ~Waits(s, s.wire[k].after)

\* A call that waits does so for a request made; the newest's, ended, is on the wire.
CallsOK(w, s) == \A g \in 1..MaxRequests : s.calls[g] # 0 =>
  Made(s, g) /\ (g = Len(s.reqs) /\ s.reqs[g].st = "ended" => Loaded(w, s, g))

\* The commands' numbers go up along the wire, then along the chain.
ChainUp(s) == \A i, j \in DOMAIN s.chain : i < j => s.chain[i].n < s.chain[j].n
WireThenChain(s) == \A i \in DOMAIN s.wire, j \in DOMAIN s.chain : s.wire[i].n < s.chain[j].n
WireUp(s) == \A i, j \in DOMAIN s.wire : i < j /\ s.wire[i].n # 0 /\ s.wire[j].n # 0 => s.wire[i].n < s.wire[j].n

SlowNeverLast(s) == \A i, j \in DOMAIN s.wire :
  i < j /\ NamedLoad(s, s.wire[j]) => s.wire[i].gen <= s.wire[j].gen
LoadThenEffect(s) == \A i, j \in DOMAIN s.wire :
  i < j /\ s.wire[i].n # 0 /\ NamedLoad(s, s.wire[j]) => s.wire[i].after < s.wire[j].gen
LoadThenCall(w, s) == w # "doubled" => \A j \in DOMAIN s.wire : s.wire[j].type = "call" =>
  \E i \in 1..j : /\ s.wire[i].type = "load" /\ s.wire[i].gen = s.wire[j].gen
                  /\ \A k \in i..j : s.wire[k].gen <= s.wire[j].gen

\* A worklet that is not there was sent nothing.
Silent(w, s) == w \notin {"on", "doubled"} => s.wire = <<>>

\* What holds all through a task.
Mid(w, s) ==
  /\ s \in State
  /\ ResidentOK(w, s) /\ PostedOK(s) /\ ChainOK(s) /\ WireOK(s) /\ CallsOK(w, s)
  /\ ChainUp(s) /\ WireThenChain(s) /\ WireUp(s)
  /\ SlowNeverLast(s) /\ LoadThenEffect(s) /\ LoadThenCall(w, s) /\ Silent(w, s)

\* Between two tasks: the chain's head waits, and so does every call that is kept.
HeadWaits(s) == s.chain # <<>> => Waits(s, s.chain[1].after)
CallsWait(s) == \A g \in 1..MaxRequests : s.calls[g] # 0 => Made(s, g) /\ Waits(s, g)

\* A request that waits for the audio does so for one of its starts v that goes on.
Pends(v, r) == r.st = "starting" => r.start \in DOMAIN v /\ v[r.start] \in {"loading", "booting"}
Pending(v, s) == \A g \in DOMAIN s.reqs : Pends(v, s.reqs[g])

Phases == {"loading", "booting", "done", "failed"}
StartsOK == starts \in Seq(Phases) /\ (audio # "off" => starts # <<>>)

IInv ==
  /\ audio \in {"off", "starting", "on", "doubled"} /\ StartsOK
  /\ Mid(audio, Now) /\ Pending(starts, Now) /\ HeadWaits(Now) /\ CallsWait(Now)
  /\ Len(reqs) <= MaxRequests /\ asked <= MaxCommands

-----------------------------------------------------------------------------
(* Sequences. *)

\* An element of a concatenation is one of the first or of the second.
LEMMA ConcatAt ==
  ASSUME NEW S, NEW a \in Seq(S), NEW b \in Seq(S), NEW k \in DOMAIN (a \o b)
  PROVE  \/ k \in DOMAIN a /\ (a \o b)[k] = a[k]
         \/ /\ k - Len(a) \in DOMAIN b /\ (a \o b)[k] = b[k - Len(a)]
            /\ k > Len(a)
<1>1. Len(a \o b) = Len(a) + Len(b) /\ Len(a) \in Nat /\ Len(b) \in Nat
  OBVIOUS
<1>2. k \in 1..(Len(a) + Len(b))
  BY <1>1
<1>3. CASE k <= Len(a)
  BY <1>1, <1>2, <1>3
<1>4. CASE k > Len(a)
  <2>1. k - Len(a) \in 1..Len(b)
    BY <1>1, <1>2, <1>4
  <2>2. (a \o b)[k] = b[k - Len(a)]
    BY <1>1, <1>2, <1>4
  <2> QED BY <2>1, <2>2, <1>4
<1> QED BY <1>1, <1>2, <1>3, <1>4

\* A message of the first sequence keeps its place in a concatenation.
LEMMA ConcatFirst ==
  ASSUME NEW S, NEW a \in Seq(S), NEW b \in Seq(S), NEW k \in DOMAIN a
  PROVE  k \in DOMAIN (a \o b) /\ (a \o b)[k] = a[k]
<1>1. Len(a \o b) = Len(a) + Len(b) /\ Len(a) \in Nat /\ Len(b) \in Nat
  OBVIOUS
<1>2. k \in 1..Len(a)
  OBVIOUS
<1> QED BY <1>1, <1>2

-----------------------------------------------------------------------------
(* Steps that send nothing: requests are made, or end, and calls join them.  *)

Grows(w, s, t) ==
  /\ t \in State
  /\ t.wire = s.wire /\ t.chain = s.chain /\ s.asked <= t.asked
  /\ Len(s.reqs) <= Len(t.reqs)
  /\ \A g \in DOMAIN s.reqs :
       /\ t.reqs[g].kind = s.reqs[g].kind
       /\ InFlight(t.reqs[g]) => InFlight(s.reqs[g])
       /\ t.reqs[g].st = "ended" => s.reqs[g].st = "ended" \/ Loaded(w, s, g) \/ g # Len(t.reqs)
  /\ t.resident # 0 => /\ t.resident = Len(t.reqs) /\ t.reqs[t.resident].kind = "sndh"
                       /\ t.resident = s.resident \/ t.reqs[t.resident].st # "ended"
  /\ PostedOK(t)
  /\ \A g \in 1..MaxRequests : t.calls[g] # 0 =>
       \/ s.calls[g] # 0
       \/ g = Len(t.reqs) /\ (t.reqs[g].st # "ended" \/ g = s.resident)

LEMMA GrowsMid ==
  ASSUME NEW w, NEW s, NEW t, Mid(w, s), Grows(w, s, t)
  PROVE  Mid(w, t)
<1> USE DEF Made
<1>1. /\ s \in State /\ t \in State
      /\ t.wire = s.wire /\ t.chain = s.chain
      /\ s.asked \in Nat /\ t.asked \in Nat /\ s.asked <= t.asked
      /\ Len(s.reqs) \in Nat /\ Len(t.reqs) \in Nat /\ Len(s.reqs) <= Len(t.reqs)
      /\ s.reqs \in Seq(Request_) /\ t.reqs \in Seq(Request_)
      /\ s.wire \in Seq(Wide) /\ s.chain \in Seq(Wide)
  BY DEF Mid, Grows, State
<1>2. \A g \in DOMAIN s.reqs : g \in DOMAIN t.reqs /\ g \in Nat /\ g # 0
  BY <1>1
<1>3. \A g : Loaded(w, t, g) <=> Loaded(w, s, g)
  BY <1>1 DEF Loaded
<1>4. ASSUME NEW m \in Wide, Placed(s, m)
      PROVE  Placed(t, m) /\ (NamedLoad(t, m) <=> NamedLoad(s, m)) /\ (Waits(t, m.after) => Waits(s, m.after))
  <2>1. m.gen \in Nat /\ m.after \in Nat /\ m.n \in Nat
    BY DEF Wide
  <2>2. Placed(t, m)
    BY <1>1, <1>4, <2>1 DEF Placed
  <2>3. m.type = "load" => m.gen \in DOMAIN s.reqs
    BY <1>1, <1>4, <2>1 DEF Placed
  <2>4. NamedLoad(t, m) <=> NamedLoad(s, m)
    BY <2>3 DEF NamedLoad, Grows
  <2>5. m.after # 0 => m.after \in DOMAIN s.reqs
    BY <1>1, <1>4, <2>1 DEF Placed
  <2>6. Waits(t, m.after) => Waits(s, m.after)
    BY <2>5 DEF Waits, Grows
  <2> QED BY <2>2, <2>4, <2>6
<1>5. \A k \in DOMAIN s.wire : s.wire[k] \in Wide
  BY <1>1
<1>6. \A k \in DOMAIN s.chain : s.chain[k] \in Wide
  BY <1>1
<1>7. \A k \in DOMAIN s.wire : NamedLoad(t, s.wire[k]) <=> NamedLoad(s, s.wire[k])
  BY <1>4, <1>5 DEF Mid, WireOK
<1>8. ResidentOK(w, t)
  BY <1>1, <1>2, <1>3 DEF ResidentOK, Mid, Grows, InFlight
<1>9. PostedOK(t)
  BY DEF Grows
<1>10. ChainOK(t)
  BY <1>1, <1>4, <1>6 DEF ChainOK, Mid
<1>11. WireOK(t)
  BY <1>1, <1>4, <1>5 DEF WireOK, Mid
<1>12. CallsOK(w, t)
  <2> SUFFICES ASSUME NEW g \in 1..MaxRequests, t.calls[g] # 0
               PROVE  g \in DOMAIN t.reqs /\ (g = Len(t.reqs) /\ t.reqs[g].st = "ended" => Loaded(w, t, g))
    BY DEF CallsOK
  <2>1. CASE s.calls[g] # 0
    <3>1. g \in DOMAIN s.reqs /\ (g = Len(s.reqs) /\ s.reqs[g].st = "ended" => Loaded(w, s, g))
      BY <2>1 DEF Mid, CallsOK
    <3>2. g = Len(t.reqs) => g = Len(s.reqs)
      BY <3>1, <1>1
    <3> QED BY <3>1, <3>2, <1>2, <1>3 DEF Grows
  <2>2. CASE g = Len(t.reqs) /\ t.reqs[g].st # "ended"
    BY <2>2, <1>1
  <2>3. CASE g = Len(t.reqs) /\ g = s.resident
    <3>1. s.resident # 0 /\ s.resident = Len(s.reqs) /\ (s.reqs[g].st = "ended" => Loaded(w, s, g))
      BY <2>3 DEF Mid, ResidentOK
    <3>2. g \in DOMAIN s.reqs
      BY <3>1, <2>3, <1>1
    <3> QED BY <3>1, <3>2, <2>3, <1>2, <1>3 DEF Grows
  <2> QED BY <2>1, <2>2, <2>3 DEF Grows
<1>13. ChainUp(t) /\ WireThenChain(t) /\ WireUp(t)
  BY <1>1 DEF Mid, ChainUp, WireThenChain, WireUp
<1>14. SlowNeverLast(t)
  BY <1>1, <1>7 DEF Mid, SlowNeverLast
<1>15. LoadThenEffect(t)
  BY <1>1, <1>7 DEF Mid, LoadThenEffect
<1>16. LoadThenCall(w, t)
  BY <1>1 DEF Mid, LoadThenCall
<1>17. Silent(w, t)
  BY <1>1 DEF Mid, Silent
<1> QED
  BY <1>1, <1>8, <1>9, <1>10, <1>11, <1>12, <1>13, <1>14, <1>15, <1>16, <1>17 DEF Mid

-----------------------------------------------------------------------------
(* Steps that send. *)

Sendable(w, s, ms) == \A k \in DOMAIN ms :
  /\ Placed(s, ms[k]) /\ ~Waits(s, ms[k].after)
  /\ \A j \in DOMAIN s.chain : ms[k].n < s.chain[j].n
  /\ ms[k].n # 0 => /\ \A i \in DOMAIN s.wire : s.wire[i].n < ms[k].n
                    /\ \A i \in DOMAIN ms : i < k => ms[i].n < ms[k].n
  /\ NamedLoad(s, ms[k]) => ms[k].gen = Len(s.reqs) /\ Waits(s, ms[k].gen)
  /\ ms[k].type = "call" => ms[k].gen = Len(s.reqs) /\ Loaded(w, s, ms[k].gen)

Sends(s, t, ms) ==
  /\ t \in State /\ ms \in Seq(Wide)
  /\ t.wire = s.wire \o ms
  /\ t.reqs = s.reqs /\ t.resident = s.resident /\ t.posted = s.posted
  /\ t.chain = s.chain /\ t.calls = s.calls /\ t.asked = s.asked

\* A message of the longer wire was there, or is one of those sent.
LEMMA SentAt ==
  ASSUME NEW s, NEW t, NEW ms, s \in State, Sends(s, t, ms), NEW k \in DOMAIN t.wire
  PROVE  /\ k \in Nat /\ t.wire[k] \in Wide
         /\ \/ k \in DOMAIN s.wire /\ t.wire[k] = s.wire[k]
            \/ /\ k - Len(s.wire) \in DOMAIN ms /\ t.wire[k] = ms[k - Len(s.wire)]
               /\ k > Len(s.wire)
<1>1. s.wire \in Seq(Wide) /\ ms \in Seq(Wide) /\ t.wire = s.wire \o ms /\ t.wire \in Seq(Wide)
  BY DEF Sends, State
<1>2. k \in Nat /\ t.wire[k] \in Wide
  BY <1>1
<1> QED BY <1>1, <1>2, ConcatAt

\* What was loaded stays loaded.
LEMMA SentLoaded ==
  ASSUME NEW w, NEW s, NEW t, NEW ms, s \in State, Sends(s, t, ms)
  PROVE  /\ \A i \in DOMAIN s.wire : i \in DOMAIN t.wire /\ t.wire[i] = s.wire[i]
         /\ \A g : Loaded(w, s, g) => Loaded(w, t, g)
<1>1. s.wire \in Seq(Wide) /\ ms \in Seq(Wide) /\ t.wire = s.wire \o ms
  BY DEF Sends, State
<1>2. \A i \in DOMAIN s.wire : i \in DOMAIN t.wire /\ t.wire[i] = s.wire[i]
  BY <1>1, ConcatFirst
<1> QED BY <1>2 DEF Loaded

LEMMA SendsMid ==
  ASSUME NEW w, NEW s, NEW t, NEW ms, Mid(w, s), Sends(s, t, ms), Sendable(w, s, ms), w \in {"on", "doubled"}
  PROVE  Mid(w, t)
<1> DEFINE old(k) == k \in DOMAIN s.wire /\ t.wire[k] = s.wire[k]
           at(k) == k - Len(s.wire)
           new(k) == at(k) \in DOMAIN ms /\ t.wire[k] = ms[at(k)] /\ k > Len(s.wire)
<1>1. /\ s \in State /\ t \in State /\ s.wire \in Seq(Wide) /\ s.chain \in Seq(Wide) /\ ms \in Seq(Wide)
      /\ Len(s.reqs) \in Nat /\ s.asked \in Nat /\ Len(s.wire) \in Nat
  BY DEF Mid, State, Sends
<1>2. /\ t.reqs = s.reqs /\ t.resident = s.resident /\ t.posted = s.posted
      /\ t.chain = s.chain /\ t.calls = s.calls /\ t.asked = s.asked
  BY DEF Sends
<1>3. ASSUME NEW k \in DOMAIN t.wire
      PROVE  k \in Nat /\ t.wire[k] \in Wide /\ (old(k) \/ new(k))
  BY <1>1, <1>3, SentAt
<1>4. /\ \A i \in DOMAIN s.wire : i \in DOMAIN t.wire /\ t.wire[i] = s.wire[i]
      /\ \A g : Loaded(w, s, g) => Loaded(w, t, g)
  BY <1>1, SentLoaded
<1>5. ASSUME NEW m \in Wide
      PROVE  /\ Placed(t, m) <=> Placed(s, m)
             /\ NamedLoad(t, m) <=> NamedLoad(s, m)
             /\ \A g : Waits(t, g) <=> Waits(s, g)
  BY <1>2 DEF Placed, NamedLoad, Waits
<1>6. \A k \in DOMAIN s.wire : k \in Nat /\ s.wire[k] \in Wide
  BY <1>1
<1>7. \A k \in DOMAIN ms : k \in Nat /\ ms[k] \in Wide
  BY <1>1
<1>8. \A k \in DOMAIN s.chain : s.chain[k] \in Wide
  BY <1>1
<1> HIDE DEF old, new
<1>9. ASSUME NEW k \in DOMAIN t.wire
      PROVE  Placed(s, t.wire[k]) /\ ~Waits(s, t.wire[k].after)
  BY <1>3, <1>9 DEF Mid, WireOK, Sendable, old, new
<1>10. ASSUME NEW i \in DOMAIN t.wire, NEW j \in DOMAIN t.wire, i < j
       PROVE  \/ old(i) /\ old(j)
              \/ old(i) /\ new(j)
              \/ new(i) /\ new(j) /\ at(i) < at(j)
  BY <1>1, <1>3, <1>10, <1>6 DEF old, new
<1>11. ResidentOK(w, t) /\ PostedOK(t)
  BY <1>2, <1>4 DEF Mid, ResidentOK, PostedOK, Made
<1>12. ChainOK(t)
  BY <1>2, <1>5, <1>8 DEF Mid, ChainOK
<1>13. WireOK(t)
  BY <1>3, <1>5, <1>9 DEF WireOK
<1>14. CallsOK(w, t)
  BY <1>2, <1>4 DEF Mid, CallsOK, Made
<1>15. ChainUp(t)
  BY <1>2 DEF Mid, ChainUp
<1>16. WireThenChain(t)
  <2> SUFFICES ASSUME NEW i \in DOMAIN t.wire, NEW j \in DOMAIN s.chain
               PROVE  t.wire[i].n < s.chain[j].n
    BY <1>2 DEF WireThenChain
  <2>1. CASE old(i)
    BY <2>1 DEF Mid, WireThenChain, old
  <2>2. CASE new(i)
    BY <2>2 DEF Sendable, new
  <2> QED BY <2>1, <2>2, <1>3
<1>17. WireUp(t)
  <2> SUFFICES ASSUME NEW i \in DOMAIN t.wire, NEW j \in DOMAIN t.wire, i < j, t.wire[i].n # 0, t.wire[j].n # 0
               PROVE  t.wire[i].n < t.wire[j].n
    BY DEF WireUp
  <2>1. CASE old(i) /\ old(j)
    BY <2>1 DEF Mid, WireUp, old
  <2>2. CASE old(i) /\ new(j)
    BY <2>2 DEF Sendable, old, new
  <2>3. CASE new(i) /\ new(j) /\ at(i) < at(j)
    <3> HIDE DEF at
    <3> QED BY <2>3 DEF Sendable, new
  <2> QED BY <2>1, <2>2, <2>3, <1>10
<1>18. SlowNeverLast(t)
  <2> SUFFICES ASSUME NEW i \in DOMAIN t.wire, NEW j \in DOMAIN t.wire, i < j, NamedLoad(s, t.wire[j])
               PROVE  t.wire[i].gen <= t.wire[j].gen
    BY <1>3, <1>5 DEF SlowNeverLast
  <2>1. CASE old(i) /\ old(j)
    BY <2>1 DEF Mid, SlowNeverLast, old
  <2>2. CASE new(j)
    <3>1. t.wire[j].gen = Len(s.reqs)
      BY <2>2 DEF Sendable, new
    <3> QED BY <3>1, <1>9 DEF Placed
  <2> QED BY <2>1, <2>2, <1>10
<1>19. LoadThenEffect(t)
  <2> SUFFICES ASSUME NEW i \in DOMAIN t.wire, NEW j \in DOMAIN t.wire, i < j, t.wire[i].n # 0,
                      NamedLoad(s, t.wire[j])
               PROVE  t.wire[i].after < t.wire[j].gen
    BY <1>3, <1>5 DEF LoadThenEffect
  <2>1. CASE old(i) /\ old(j)
    BY <2>1 DEF Mid, LoadThenEffect, old
  <2>2. CASE new(j)
    <3>1. t.wire[j].gen = Len(s.reqs) /\ Waits(s, t.wire[j].gen)
      BY <2>2 DEF Sendable, new
    <3>2. t.wire[i].after <= Len(s.reqs) /\ t.wire[i].after # Len(s.reqs) /\ t.wire[i].after \in Nat
      BY <3>1, <1>3, <1>9 DEF Placed, Wide
    <3> QED BY <3>1, <3>2, <1>1
  <2> QED BY <2>1, <2>2, <1>10
<1>21. Silent(w, t)
  BY DEF Silent
<1>20. LoadThenCall(w, t)
  <2> SUFFICES ASSUME w # "doubled", NEW j \in DOMAIN t.wire, t.wire[j].type = "call"
               PROVE  \E i \in 1..j : /\ t.wire[i].type = "load" /\ t.wire[i].gen = t.wire[j].gen
                                      /\ \A k \in i..j : t.wire[k].gen <= t.wire[j].gen
    BY DEF LoadThenCall
  <2>1. CASE old(j)
    <3>1. PICK i \in 1..j : /\ s.wire[i].type = "load" /\ s.wire[i].gen = s.wire[j].gen
                            /\ \A k \in i..j : s.wire[k].gen <= s.wire[j].gen
      BY <2>1 DEF Mid, LoadThenCall, old
    <3>2. \A k \in 1..j : t.wire[k] = s.wire[k]
      BY <2>1, <1>1, <1>4 DEF old
    <3> j \in Nat
      BY <1>3
    <3>3. \A k \in i..j : k \in 1..j
      BY <3>1
    <3>4. j \in 1..j
      BY <3>1
    <3> QED BY <3>1, <3>2, <3>3, <3>4
  <2>2. CASE new(j)
    <3>1. t.wire[j].gen = Len(s.reqs) /\ Loaded(w, s, t.wire[j].gen)
      BY <2>2 DEF Sendable, new
    <3>2. PICK i \in DOMAIN s.wire : s.wire[i].type = "load" /\ s.wire[i].gen = t.wire[j].gen
      BY <3>1 DEF Loaded
    <3>3. i \in 1..j
      BY <3>2, <2>2, <1>1, <1>3, <1>6 DEF new
    <3>4. t.wire \in Seq(Wide)
      BY <1>1 DEF State
    <3>5. \A k \in i..j : k \in DOMAIN t.wire
      BY <3>3, <3>4
    <3>6. \A k \in i..j : t.wire[k].gen <= t.wire[j].gen
      BY <3>1, <3>5, <1>9 DEF Placed
    <3> QED BY <3>2, <3>3, <3>6, <1>4
  <2> QED BY <2>1, <2>2, <1>3
<1> QED
  BY <1>1, <1>11, <1>12, <1>13, <1>14, <1>15, <1>16, <1>17, <1>18, <1>19, <1>20, <1>21 DEF Mid

-----------------------------------------------------------------------------
(* The chain: a batch joins it, and its head leaves. *)

\* The messages ms join the chain, numbered on from a.
Joins(s, t, ms, a) ==
  /\ t \in State /\ ms \in Seq(Wide)
  /\ t.chain = s.chain \o ms
  /\ t.reqs = s.reqs /\ t.resident = s.resident /\ t.posted = s.posted
  /\ t.wire = s.wire /\ t.calls = s.calls /\ t.asked = s.asked
  /\ \A k \in DOMAIN s.chain : s.chain[k].n <= a
  /\ \A k \in DOMAIN s.wire : s.wire[k].n <= a
  /\ \A k \in DOMAIN ms : /\ Placed(s, ms[k]) /\ ms[k].n = a + k
                          /\ ms[k].type # "call" /\ ~NamedLoad(s, ms[k])

LEMMA JoinsMid ==
  ASSUME NEW w, NEW s, NEW t, NEW ms, NEW a \in Nat, Mid(w, s), Joins(s, t, ms, a)
  PROVE  Mid(w, t)
<1> DEFINE old(k) == k \in DOMAIN s.chain /\ t.chain[k] = s.chain[k]
           at(k) == k - Len(s.chain)
           new(k) == at(k) \in DOMAIN ms /\ t.chain[k] = ms[at(k)] /\ k > Len(s.chain)
<1>1. /\ s \in State /\ t \in State /\ s.wire \in Seq(Wide) /\ s.chain \in Seq(Wide) /\ ms \in Seq(Wide)
      /\ t.chain \in Seq(Wide) /\ t.chain = s.chain \o ms /\ Len(s.chain) \in Nat
  BY DEF Mid, State, Joins
<1>2. /\ t.reqs = s.reqs /\ t.resident = s.resident /\ t.posted = s.posted
      /\ t.wire = s.wire /\ t.calls = s.calls /\ t.asked = s.asked
  BY DEF Joins
<1>3. ASSUME NEW k \in DOMAIN t.chain
      PROVE  k \in Nat /\ t.chain[k] \in Wide /\ (old(k) \/ new(k))
  <2>1. k \in Nat /\ t.chain[k] \in Wide
    BY <1>1
  <2> QED BY <1>1, <2>1, ConcatAt
<1>4. ASSUME NEW m
      PROVE  /\ Placed(t, m) <=> Placed(s, m)
             /\ NamedLoad(t, m) <=> NamedLoad(s, m)
             /\ \A g : Waits(t, g) <=> Waits(s, g)
  BY <1>2 DEF Placed, NamedLoad, Waits
<1>5. \A g : Loaded(w, t, g) <=> Loaded(w, s, g)
  BY <1>2 DEF Loaded
<1>6. \A k \in DOMAIN ms : k \in Nat /\ k # 0 /\ ms[k] \in Wide
  BY <1>1
<1>7. \A k \in DOMAIN s.chain : k \in Nat /\ k <= Len(s.chain) /\ s.chain[k].n \in Nat
  <2>1. \A k \in DOMAIN s.chain : k \in Nat /\ k <= Len(s.chain) /\ s.chain[k] \in Wide
    BY <1>1
  <2> QED BY <2>1 DEF Wide
<1>8. \A k \in DOMAIN s.wire : s.wire[k].n \in Nat
  <2>1. \A k \in DOMAIN s.wire : s.wire[k] \in Wide
    BY <1>1
  <2> QED BY <2>1 DEF Wide
<1> HIDE DEF old, new, at
<1>9. ASSUME NEW k \in DOMAIN t.chain
      PROVE  Placed(s, t.chain[k]) /\ t.chain[k].n # 0 /\ t.chain[k].type # "call" /\ ~NamedLoad(s, t.chain[k])
  <2>1. CASE old(k)
    BY <2>1 DEF Mid, ChainOK, old
  <2>2. CASE new(k)
    BY <2>2, <1>6 DEF Joins, new
  <2> QED BY <2>1, <2>2, <1>3
<1>10. ResidentOK(w, t) /\ PostedOK(t)
  BY <1>2, <1>5 DEF Mid, ResidentOK, PostedOK, Made
<1>11. ChainOK(t)
  BY <1>4, <1>9 DEF ChainOK
<1>12. WireOK(t)
  BY <1>2, <1>4 DEF Mid, WireOK
<1>13. CallsOK(w, t)
  BY <1>2, <1>5 DEF Mid, CallsOK, Made
<1>14. ChainUp(t)
  <2> SUFFICES ASSUME NEW i \in DOMAIN t.chain, NEW j \in DOMAIN t.chain, i < j
               PROVE  t.chain[i].n < t.chain[j].n
    BY DEF ChainUp
  <2>1. CASE old(i) /\ old(j)
    BY <2>1 DEF Mid, ChainUp, old
  <2>2. CASE old(i) /\ new(j)
    <3>1. t.chain[j].n = a + at(j) /\ at(j) \in Nat /\ at(j) # 0
      BY <2>2, <1>6 DEF Joins, new
    <3>2. t.chain[i].n <= a /\ t.chain[i].n \in Nat
      BY <2>2, <1>7 DEF Joins, old
    <3> QED BY <3>1, <3>2
  <2>3. CASE new(i) /\ new(j)
    <3>1. t.chain[i].n = a + at(i) /\ t.chain[j].n = a + at(j) /\ at(i) \in Nat /\ at(j) \in Nat
      BY <2>3, <1>6 DEF Joins, new
    <3>2. at(i) < at(j)
      BY <1>1, <1>3 DEF at
    <3> QED BY <3>1, <3>2
  <2>4. CASE new(i) /\ old(j)
    BY <2>4, <1>1, <1>3, <1>7 DEF old, new
  <2> QED BY <2>1, <2>2, <2>3, <2>4, <1>3
<1>15. WireThenChain(t)
  <2> SUFFICES ASSUME NEW i \in DOMAIN s.wire, NEW j \in DOMAIN t.chain
               PROVE  s.wire[i].n < t.chain[j].n
    BY <1>2 DEF WireThenChain
  <2>1. CASE old(j)
    BY <2>1 DEF Mid, WireThenChain, old
  <2>2. CASE new(j)
    <3>1. t.chain[j].n = a + at(j) /\ at(j) \in Nat /\ at(j) # 0
      BY <2>2, <1>6 DEF Joins, new
    <3>2. s.wire[i].n <= a /\ s.wire[i].n \in Nat
      BY <1>8 DEF Joins
    <3> QED BY <3>1, <3>2
  <2> QED BY <2>1, <2>2, <1>3
<1>16. WireUp(t)
  BY <1>2 DEF Mid, WireUp
<1>17. SlowNeverLast(t) /\ LoadThenEffect(t) /\ LoadThenCall(w, t)
  BY <1>2, <1>4 DEF Mid, SlowNeverLast, LoadThenEffect, LoadThenCall
<1>18. Silent(w, t)
  BY <1>2 DEF Mid, Silent
<1> QED
  BY <1>1, <1>10, <1>11, <1>12, <1>13, <1>14, <1>15, <1>16, <1>17, <1>18 DEF Mid

\* f messages leave the head of the chain.
Leaves(s, t, f) ==
  /\ t \in State /\ f \in 0..Len(s.chain)
  /\ t.chain = SubSeq(s.chain, f + 1, Len(s.chain))
  /\ t.reqs = s.reqs /\ t.resident = s.resident /\ t.posted = s.posted
  /\ t.wire = s.wire /\ t.calls = s.calls /\ t.asked = s.asked
  /\ \A k \in 1..f : ~Waits(s, s.chain[k].after)

\* The rest of the chain is as sound as the chain was; the messages that leave may be sent.
LEMMA LeavesMid ==
  ASSUME NEW w, NEW s, NEW t, NEW f, Mid(w, s), Leaves(s, t, f)
  PROVE  /\ Mid(w, t)
         /\ SubSeq(s.chain, 1, f) \in Seq(Wide)
         /\ Sendable(w, t, SubSeq(s.chain, 1, f))
         /\ \A k \in DOMAIN t.chain : k \in Nat /\ k + f \in DOMAIN s.chain /\ t.chain[k] = s.chain[k + f]
<1> DEFINE ms == SubSeq(s.chain, 1, f)
<1>1. /\ s \in State /\ t \in State /\ s.chain \in Seq(Wide) /\ f \in 0..Len(s.chain) /\ Len(s.chain) \in Nat
      /\ t.chain = SubSeq(s.chain, f + 1, Len(s.chain))
  BY DEF Mid, State, Leaves
<1>2. /\ t.reqs = s.reqs /\ t.resident = s.resident /\ t.posted = s.posted
      /\ t.wire = s.wire /\ t.calls = s.calls /\ t.asked = s.asked
  BY DEF Leaves
<1>3. \A k \in DOMAIN t.chain : k \in Nat /\ k + f \in DOMAIN s.chain /\ t.chain[k] = s.chain[k + f]
  <2>1. Len(t.chain) = Len(s.chain) - f
    BY <1>1
  <2> SUFFICES ASSUME NEW k \in DOMAIN t.chain
               PROVE  k \in Nat /\ k + f \in DOMAIN s.chain /\ t.chain[k] = s.chain[k + f]
    OBVIOUS
  <2>2. k \in 1..(Len(s.chain) - f)
    BY <1>1, <2>1
  <2>3. t.chain[k] = s.chain[(f + 1) + k - 1]
    BY <1>1, <2>2
  <2>4. (f + 1) + k - 1 = k + f
    BY <1>1, <2>2
  <2> QED BY <2>2, <2>3, <2>4, <1>1
<1>4. ms \in Seq(Wide) /\ \A k \in DOMAIN ms : k \in 1..f /\ k \in DOMAIN s.chain /\ ms[k] = s.chain[k]
  <2>1. ms \in Seq(Wide) /\ Len(ms) = f
    BY <1>1
  <2> SUFFICES ASSUME NEW k \in DOMAIN ms
               PROVE  k \in 1..f /\ k \in DOMAIN s.chain /\ ms[k] = s.chain[k]
    BY <2>1
  <2>2. k \in 1..f
    BY <2>1
  <2> QED BY <2>2, <1>1
<1> HIDE DEF ms
<1>5. ASSUME NEW m
      PROVE  /\ Placed(t, m) <=> Placed(s, m)
             /\ NamedLoad(t, m) <=> NamedLoad(s, m)
             /\ \A g : Waits(t, g) <=> Waits(s, g)
  BY <1>2 DEF Placed, NamedLoad, Waits
<1>6. \A g : Loaded(w, t, g) <=> Loaded(w, s, g)
  BY <1>2 DEF Loaded
<1>7. ResidentOK(w, t) /\ PostedOK(t)
  BY <1>2, <1>6 DEF Mid, ResidentOK, PostedOK, Made
<1>8. ChainOK(t)
  BY <1>3, <1>5 DEF Mid, ChainOK
<1>9. WireOK(t)
  BY <1>2, <1>5 DEF Mid, WireOK
<1>10. CallsOK(w, t)
  BY <1>2, <1>6 DEF Mid, CallsOK, Made
<1>11. ChainUp(t)
  <2> SUFFICES ASSUME NEW i \in DOMAIN t.chain, NEW j \in DOMAIN t.chain, i < j
               PROVE  t.chain[i].n < t.chain[j].n
    BY DEF ChainUp
  <2>1. i + f < j + f
    BY <1>1, <1>3
  <2> QED BY <2>1, <1>3 DEF Mid, ChainUp
<1>12. WireThenChain(t)
  BY <1>2, <1>3 DEF Mid, WireThenChain
<1>13. WireUp(t)
  BY <1>2 DEF Mid, WireUp
<1>14. SlowNeverLast(t) /\ LoadThenEffect(t) /\ LoadThenCall(w, t)
  BY <1>2, <1>5 DEF Mid, SlowNeverLast, LoadThenEffect, LoadThenCall
<1>17. Silent(w, t)
  BY <1>2 DEF Mid, Silent
<1>15. Mid(w, t)
  BY <1>1, <1>17, <1>7, <1>8, <1>9, <1>10, <1>11, <1>12, <1>13, <1>14 DEF Mid
<1>16. Sendable(w, t, ms)
  <2> SUFFICES ASSUME NEW k \in DOMAIN ms
               PROVE  /\ Placed(s, ms[k]) /\ ~Waits(s, ms[k].after)
                      /\ \A j \in DOMAIN t.chain : ms[k].n < t.chain[j].n
                      /\ \A i \in DOMAIN s.wire : s.wire[i].n < ms[k].n
                      /\ \A i \in DOMAIN ms : i < k => ms[i].n < ms[k].n
                      /\ ~NamedLoad(s, ms[k]) /\ ms[k].type # "call"
    BY <1>2, <1>5 DEF Sendable
  <2>1. k \in 1..f /\ k \in DOMAIN s.chain /\ ms[k] = s.chain[k]
    BY <1>4
  <2>2. Placed(s, ms[k]) /\ ~NamedLoad(s, ms[k]) /\ ms[k].type # "call"
    BY <2>1 DEF Mid, ChainOK
  <2>3. ~Waits(s, ms[k].after)
    BY <2>1 DEF Leaves
  <2>4. ASSUME NEW j \in DOMAIN t.chain
        PROVE  ms[k].n < t.chain[j].n
    <3>1. k < j + f
      <4>1. j \in 1..Len(t.chain)
        BY <1>1, <1>15 DEF State
      <4> QED BY <4>1, <2>1, <1>1, <1>3
    <3> QED BY <2>1, <3>1, <1>3 DEF Mid, ChainUp
  <2>5. \A i \in DOMAIN s.wire : s.wire[i].n < ms[k].n
    BY <2>1 DEF Mid, WireThenChain
  <2>6. \A i \in DOMAIN ms : i < k => ms[i].n < ms[k].n
    BY <1>4 DEF Mid, ChainUp
  <2> QED BY <2>2, <2>3, <2>4, <2>5, <2>6
<1> QED BY <1>3, <1>4, <1>15, <1>16 DEF ms

-----------------------------------------------------------------------------
(* The promise jobs. *)

\* A set of naturals with an element has a least one, and Min is it.
LEMMA MinIs ==
  ASSUME NEW T \in SUBSET Nat, T # {}
  PROVE  Min(T) \in T /\ \A y \in T : Min(T) <= y
<1>1. \E x \in T : \A y \in T : ~(<<y, x>> \in OpToRel(<, Nat))
  BY WFMin, NatLessThanWellFounded
<1>2. PICK x \in T : \A y \in T : ~(<<y, x>> \in OpToRel(<, Nat))
  BY <1>1
<1>3. ASSUME NEW y \in T
      PROVE  x <= y
  <2>1. x \in Nat /\ y \in Nat
    OBVIOUS
  <2>2. ~(<<y, x>> \in OpToRel(<, Nat))
    BY <1>2
  <2>3. ~(y < x)
    BY <2>1, <2>2 DEF OpToRel
  <2> QED BY <2>1, <2>3
<1> QED BY <1>2, <1>3 DEF Min

\* Free is the length of the chain's longest head that waits for nothing.
LEMMA FreeIs ==
  ASSUME NEW s, s \in State
  PROVE  /\ Free(s) \in 0..Len(s.chain)
         /\ \A k \in 1..Free(s) : ~Waits(s, s.chain[k].after)
         /\ Free(s) < Len(s.chain) => Waits(s, s.chain[Free(s) + 1].after)
<1>1. s.chain \in Seq(Wide) /\ Len(s.chain) \in Nat /\ DOMAIN s.chain = 1..Len(s.chain)
  BY DEF State
<1>2. \A k \in 1..Len(s.chain) : Waits(s, s.chain[k].after) <=> k \in Waiting(s)
  BY <1>1 DEF Waiting
<1>3. CASE Waiting(s) = {}
  BY <1>1, <1>2, <1>3 DEF Free
<1>4. CASE Waiting(s) # {}
  <2>1. Waiting(s) \in SUBSET Nat /\ Waiting(s) \subseteq 1..Len(s.chain)
    BY <1>1 DEF Waiting
  <2> DEFINE m == Min(Waiting(s))
  <2>2. m \in Waiting(s) /\ \A y \in Waiting(s) : m <= y
    BY <1>4, <2>1, MinIs
  <2> HIDE DEF m
  <2>3. Free(s) = m - 1 /\ m \in 1..Len(s.chain)
    BY <1>4, <2>1, <2>2 DEF Free, m
  <2>4. \A k \in 1..(m - 1) : k \in 1..Len(s.chain) /\ k \notin Waiting(s)
    BY <1>1, <2>2, <2>3
  <2>5. m - 1 \in 0..Len(s.chain) /\ (m - 1) + 1 = m
    BY <1>1, <2>3
  <2> QED BY <1>2, <2>2, <2>3, <2>4, <2>5
<1> QED BY <1>3, <1>4

\* The calls that are posted: as many as wait for the newest request's load, all alike.
LEMMA LiveIs ==
  ASSUME NEW s, s \in State, Len(s.reqs) <= MaxRequests
  PROVE  /\ LiveCalls(s) \in Seq(Wide)
         /\ \A k \in DOMAIN LiveCalls(s) :
              /\ LiveCalls(s)[k] = Msg("call", Len(s.reqs))
              /\ Len(s.reqs) \in 1..MaxRequests
              /\ s.reqs[Len(s.reqs)].st = "ended" /\ s.calls[Len(s.reqs)] # 0
<1> DEFINE g == Len(s.reqs)
           posted == g # 0 /\ s.reqs[g].st = "ended"
           c == IF posted THEN s.calls[g] ELSE 0
<1>1. g \in Nat /\ MaxRequests \in Nat /\ s.calls \in [1..MaxRequests -> Nat]
  BY BoundsAssumption DEF State
<1>2. g # 0 => g \in 1..MaxRequests
  BY <1>1
<1>3. c \in Nat /\ (c # 0 => posted /\ s.calls[g] # 0)
  BY <1>1, <1>2
<1>4. LiveCalls(s) = [i \in 1..c |-> Msg("call", g)]
  BY DEF LiveCalls, songGen
<1> HIDE DEF c
<1>5. Msg("call", g) \in Wide
  BY <1>1 DEF Msg, Wide, Types
<1>6. [i \in 1..c |-> Msg("call", g)] \in Seq(Wide)
  BY <1>3, <1>5
<1>7. \A k \in 1..c : c # 0
  BY <1>3
<1> QED BY <1>2, <1>3, <1>4, <1>6, <1>7

\* What Post does: the worklet, if there is one, is sent the messages.
LEMMA PostIs ==
  ASSUME NEW s, NEW ms, s \in State, ms \in Seq(Wide)
  PROVE  /\ Post(s, ms) \in State
         /\ HasNode => Sends(s, Post(s, ms), ms)
         /\ ~HasNode => Post(s, ms) = s
         /\ Post(s, ms).reqs = s.reqs /\ Post(s, ms).resident = s.resident /\ Post(s, ms).posted = s.posted
         /\ Post(s, ms).chain = s.chain /\ Post(s, ms).calls = s.calls /\ Post(s, ms).asked = s.asked
<1>1. s.wire \in Seq(Wide) /\ s.wire \o ms \in Seq(Wide)
  BY DEF State
<1>2. CASE HasNode
  <2>1. Post(s, ms) = [s EXCEPT !.wire = s.wire \o ms]
    BY <1>2 DEF Post, State
  <2> QED BY <1>1, <1>2, <2>1 DEF State, Sends
<1>3. CASE ~HasNode
  <2>1. Post(s, ms) = s
    BY <1>3 DEF Post, State
  <2> QED BY <1>3, <2>1
<1> QED BY <1>2, <1>3

\* Posting what may be sent keeps the state sound.
LEMMA PostMid ==
  ASSUME NEW s, NEW ms, Mid(audio, s), ms \in Seq(Wide), Sendable(audio, s, ms)
  PROVE  Mid(audio, Post(s, ms))
BY PostIs, SendsMid DEF Mid, HasNode

LEMMA JobsSound ==
  ASSUME NEW s, Mid(audio, s), Len(s.reqs) <= MaxRequests
  PROVE  /\ Mid(audio, Jobs(s)) /\ HeadWaits(Jobs(s)) /\ CallsWait(Jobs(s))
         /\ Jobs(s).reqs = s.reqs /\ Jobs(s).asked = s.asked
<1> DEFINE kept == [g \in 1..MaxRequests |-> IF g \in DOMAIN s.reqs /\ Waits(s, g) THEN s.calls[g] ELSE 0]
           rest == SubSeq(s.chain, Free(s) + 1, Len(s.chain))
           free == SubSeq(s.chain, 1, Free(s))
           a == [s EXCEPT !.calls = kept]
           b == Post(a, LiveCalls(s))
           c == [b EXCEPT !.chain = rest]
           d == Post(c, free)
<1>1. s \in State /\ s.calls \in [1..MaxRequests -> Nat] /\ s.chain \in Seq(Wide) /\ Len(s.chain) \in Nat
  BY DEF Mid, State
<1>2. kept \in [1..MaxRequests -> Nat] /\ \A g \in 1..MaxRequests : kept[g] # 0 => s.calls[g] # 0
  BY <1>1
<1>3. /\ Free(s) \in 0..Len(s.chain)
      /\ \A k \in 1..Free(s) : ~Waits(s, s.chain[k].after)
      /\ Free(s) < Len(s.chain) => Waits(s, s.chain[Free(s) + 1].after)
  BY <1>1, FreeIs
<1>4. rest \in Seq(Wide) /\ free \in Seq(Wide)
  BY <1>1, <1>3
<1>5. LiveCalls(s) \in Seq(Wide)
  BY <1>1, LiveIs
<1>6. /\ a \in State /\ a.reqs = s.reqs /\ a.resident = s.resident /\ a.posted = s.posted /\ a.chain = s.chain
      /\ a.calls = kept /\ a.wire = s.wire /\ a.asked = s.asked
  <2> HIDE DEF kept
  <2> QED BY <1>1, <1>2 DEF State
<1>7. b \in State /\ c \in State /\ d \in State /\ Jobs(s) = d
  <2>1. b \in State
    BY <1>5, <1>6, PostIs
  <2>2. c \in State
    BY <1>4, <2>1 DEF State
  <2>3. d \in State
    BY <1>4, <2>2, PostIs
  <2>4. c = Post([s EXCEPT !.calls = kept, !.chain = rest], LiveCalls(s))
    <3> HIDE DEF kept, rest
    <3> QED BY <1>1 DEF Post, State
  <2> QED BY <2>1, <2>2, <2>3, <2>4 DEF Jobs
<1>8. /\ b.reqs = s.reqs /\ b.resident = s.resident /\ b.posted = s.posted /\ b.chain = s.chain
      /\ b.calls = kept /\ b.asked = s.asked
  BY <1>5, <1>6, PostIs
<1>9. /\ c.reqs = s.reqs /\ c.resident = s.resident /\ c.posted = s.posted /\ c.chain = rest
      /\ c.calls = kept /\ c.asked = s.asked /\ c.wire = b.wire
  BY <1>7, <1>8 DEF State
<1>10. d.reqs = s.reqs /\ d.chain = rest /\ d.calls = kept /\ d.asked = s.asked
  BY <1>4, <1>7, <1>9, PostIs
<1> HIDE DEF kept, rest, free, a, b, c, d
<1>11. Mid(audio, a)
  <2>1. Grows(audio, s, a)
    BY <1>1, <1>2, <1>6 DEF Grows, Mid, State, ResidentOK, PostedOK, Made
  <2> QED BY <2>1, GrowsMid
<1>12. Mid(audio, b)
  <2>1. Sendable(audio, a, LiveCalls(s))
    <3> SUFFICES ASSUME NEW k \in DOMAIN LiveCalls(s)
                 PROVE  LET m == LiveCalls(s)[k] IN
                        /\ Placed(a, m) /\ m.after = 0 /\ m.n = 0 /\ m.type = "call"
                        /\ m.gen = Len(a.reqs) /\ Loaded(audio, a, m.gen)
                        /\ \A j \in DOMAIN a.chain : m.n < a.chain[j].n
      BY DEF Sendable, Waits, NamedLoad
    <3>1. /\ LiveCalls(s)[k] = Msg("call", Len(s.reqs)) /\ Len(s.reqs) \in 1..MaxRequests
          /\ s.reqs[Len(s.reqs)].st = "ended" /\ s.calls[Len(s.reqs)] # 0
      BY <1>1, LiveIs
    <3>2. Loaded(audio, a, Len(s.reqs))
      BY <3>1, <1>6 DEF Mid, CallsOK, Loaded
    <3>3. \A j \in DOMAIN a.chain : 0 < a.chain[j].n
      <4>1. \A j \in DOMAIN s.chain : s.chain[j] \in Wide
        BY <1>1
      <4> QED BY <4>1, <1>6 DEF Mid, ChainOK, Wide
    <3>4. s.asked \in Nat /\ Len(s.reqs) \in Nat
      BY <1>1 DEF State
    <3> QED BY <3>1, <3>2, <3>3, <3>4, <1>6 DEF Msg, Placed
  <2> QED BY <1>5, <1>11, <2>1, PostMid DEF b
<1>13. Leaves(b, c, Free(s))
  BY <1>3, <1>7, <1>8, <1>9 DEF Leaves, Waits, rest
<1>14. /\ Mid(audio, c) /\ Sendable(audio, c, free)
       /\ \A k \in DOMAIN c.chain : k \in Nat /\ k + Free(s) \in DOMAIN b.chain /\ c.chain[k] = b.chain[k + Free(s)]
  BY <1>8, <1>12, <1>13, LeavesMid DEF free
<1>15. Mid(audio, d)
  BY <1>4, <1>14, PostMid DEF d
<1>16. HeadWaits(d)
  <2> SUFFICES ASSUME rest # <<>>
               PROVE  Waits(s, rest[1].after)
    BY <1>10 DEF HeadWaits, Waits
  <2>1. 1 \in DOMAIN rest
    BY <1>4
  <2>2. 1 + Free(s) \in 1..Len(s.chain) /\ rest[1] = s.chain[1 + Free(s)]
    BY <2>1, <1>1, <1>8, <1>9, <1>14
  <2>3. Free(s) < Len(s.chain) /\ 1 + Free(s) = Free(s) + 1
    BY <2>2, <1>1, <1>3
  <2> QED BY <2>2, <2>3, <1>3
<1>17. CallsWait(d)
  BY <1>10 DEF CallsWait, Waits, Made, kept
<1> QED BY <1>7, <1>10, <1>15, <1>16, <1>17

-----------------------------------------------------------------------------
(* A frame's pump. *)

\* One more request is made; it may be the resident SNDH, or the load effects wait for.
Asks(s, t, r) ==
  /\ t \in State /\ r \in Request_
  /\ t.reqs = Append(s.reqs, r)
  /\ t.wire = s.wire /\ t.chain = s.chain /\ s.asked <= t.asked
  /\ t.resident # 0 => t.resident = Len(s.reqs) + 1 /\ r.kind = "sndh" /\ r.st # "ended"
  /\ t.posted # s.posted => t.posted = Len(s.reqs) + 1 /\ r.kind = "mod"
  /\ \A g \in 1..MaxRequests : t.calls[g] # 0 => s.calls[g] # 0 \/ (g = Len(s.reqs) + 1 /\ r.st # "ended")

LEMMA AsksMid ==
  ASSUME NEW s, NEW t, NEW r, Mid(audio, s), Asks(s, t, r)
  PROVE  Mid(audio, t) /\ Len(t.reqs) = Len(s.reqs) + 1
<1>1. /\ s \in State /\ t \in State /\ s.reqs \in Seq(Request_) /\ Len(s.reqs) \in Nat
      /\ t.reqs = Append(s.reqs, r) /\ r \in Request_ /\ s.posted \in Nat
  BY DEF Mid, Asks, State
<1>2. Len(t.reqs) = Len(s.reqs) + 1 /\ t.reqs[Len(s.reqs) + 1] = r /\ Len(s.reqs) + 1 \in DOMAIN t.reqs
  BY <1>1
<1>3. \A g \in DOMAIN s.reqs : g \in DOMAIN t.reqs /\ t.reqs[g] = s.reqs[g]
  BY <1>1
<1>4. PostedOK(t)
  <2>1. CASE t.posted = s.posted
    BY <2>1, <1>3 DEF Mid, PostedOK, Made
  <2>2. CASE t.posted # s.posted
    BY <2>2, <1>2 DEF Asks, PostedOK, Made
  <2> QED BY <2>1, <2>2
<1>5. Grows(audio, s, t)
  BY <1>1, <1>2, <1>3, <1>4 DEF Asks, Grows
<1> QED BY <1>2, <1>5, GrowsMid

LEMMA RequestIs ==
  ASSUME NEW s, s \in State, NEW k, NEW n, NEW st, NEW a,
         [kind |-> k, name |-> n, st |-> st, start |-> a] \in Request_
  PROVE  LET t == Request(s, k, n, st, a) IN
         /\ t \in State /\ t.reqs = Append(s.reqs, [kind |-> k, name |-> n, st |-> st, start |-> a]) /\ t.resident = 0
         /\ t.posted = s.posted /\ t.chain = s.chain /\ t.calls = s.calls /\ t.wire = s.wire /\ t.asked = s.asked
<1>1. Append(s.reqs, [kind |-> k, name |-> n, st |-> st, start |-> a]) \in Seq(Request_)
  BY DEF State
<1> QED BY <1>1 DEF Request, State

LEMMA PlayIs ==
  ASSUME NEW s, s \in State, NEW k \in {"mod", "sndh", "other"}, NEW n \in Names, StartsOK, audio # "off"
  PROVE  LET t == Play(s, k, n) IN
         /\ t \in State /\ t.resident = 0
         /\ \E r \in Request_ : /\ r.kind = k /\ r.st # "ended" /\ Pends(starts, r)
                              /\ t.reqs = Append(s.reqs, r)
         /\ t.posted = s.posted /\ t.chain = s.chain /\ t.calls = s.calls /\ t.wire = s.wire /\ t.asked = s.asked
<1> DEFINE l == Len(starts)
           st == AfterStart(l)
           a == IF st = "starting" THEN l ELSE 0
           r == [kind |-> k, name |-> n, st |-> st, start |-> a]
<1>1. l \in DOMAIN starts /\ l \in Nat /\ starts[l] \in Phases
  BY DEF StartsOK
<1>2. st \in {"starting", "fetch", "failed"} /\ (st = "starting" => starts[l] \in {"loading", "booting"})
  BY <1>1 DEF AfterStart, Phases
<1>3. a \in Nat /\ (st = "starting" => a = l)
  BY <1>1
<1>4. Play(s, k, n) = Request(s, k, n, st, a)
  BY DEF Play
<1> HIDE DEF l, st, a
<1>5. r \in Request_ /\ r.kind = k /\ r.st # "ended" /\ Pends(starts, r)
  BY <1>1, <1>2, <1>3 DEF Request_, Pends
<1> DEFINE t == Request(s, k, n, st, a)
<1>6. /\ t \in State /\ t.reqs = Append(s.reqs, r) /\ t.resident = 0
      /\ t.posted = s.posted /\ t.chain = s.chain /\ t.calls = s.calls /\ t.wire = s.wire /\ t.asked = s.asked
  BY <1>5, RequestIs
<1> HIDE DEF t, r
<1> QED BY <1>4, <1>5, <1>6 DEF t

\* One more request that pends or waits for nothing.
LEMMA AskedPends ==
  ASSUME NEW s, NEW t, NEW v, NEW r, Asks(s, t, r), s \in State, Pending(v, s), Pends(v, r)
  PROVE  Pending(v, t)
<1>1. s.reqs \in Seq(Request_) /\ r \in Request_ /\ t.reqs = Append(s.reqs, r)
  BY DEF Asks, State
<1>2. \A g \in DOMAIN t.reqs : t.reqs[g] = r \/ (g \in DOMAIN s.reqs /\ t.reqs[g] = s.reqs[g])
  BY <1>1
<1> QED BY <1>2 DEF Pending

\* n is what the cart may ask for: a name, a stop, or a name that is refused.
LEMMA SongMid ==
  ASSUME NEW s, Mid(audio, s), NEW n \in Names \union {"none", "refused"},
         StartsOK, audio # "off", Pending(starts, s)
  PROVE  LET t == PlaySongByName(s, n) IN Mid(audio, t) /\ Pending(starts, t) /\ t.asked = s.asked
<1>1. s \in State /\ Len(s.reqs) \in Nat /\ s.asked \in Nat /\ s.reqs \in Seq(Request_)
  BY DEF Mid, State
<1> DEFINE r0 == [kind |-> "stop", name |-> "none", st |-> "ended", start |-> 0]
           u == Stop(s, "none")
<1>2. r0 \in Request_
  BY DEF Request_
<1>3. /\ u \in State /\ u.reqs = Append(s.reqs, r0) /\ u.resident = 0 /\ u.posted = s.posted
      /\ u.chain = s.chain /\ u.calls = s.calls /\ u.wire = s.wire /\ u.asked = s.asked
  BY <1>1, <1>2, RequestIs DEF Stop
<1> HIDE DEF u
<1>4. Mid(audio, u) /\ Len(u.reqs) = Len(s.reqs) + 1 /\ Pending(starts, u)
  <2>1. Asks(s, u, r0)
    BY <1>1, <1>2, <1>3 DEF Asks
  <2>2. Pends(starts, r0)
    BY DEF Pends
  <2> QED BY <1>1, <2>1, <2>2, AsksMid, AskedPends
<1>5. CASE n = "refused"
  BY <1>3, <1>4, <1>5 DEF PlaySongByName, u
<1>6. CASE n = "none"
  <2> DEFINE ms == <<Msg("reset", Len(s.reqs) + 1)>>
  <2>1. Msg("reset", Len(s.reqs) + 1) \in Wide
    BY <1>1 DEF Msg, Wide, Types
  <2>2. ms \in Seq(Wide) /\ \A k \in DOMAIN ms : ms[k] = Msg("reset", Len(s.reqs) + 1)
    BY <2>1
  <2>3. \A j \in DOMAIN u.chain : 0 < u.chain[j].n
    <3>1. \A j \in DOMAIN u.chain : u.chain[j] \in Wide
      BY <1>3 DEF State
    <3> QED BY <3>1, <1>4 DEF Mid, ChainOK, Wide
  <2> HIDE DEF ms
  <2>4. Sendable(audio, u, ms)
    BY <1>1, <1>3, <1>4, <2>2, <2>3 DEF Sendable, Msg, Placed, Waits, NamedLoad
  <2>5. PlaySongByName(s, n) = Post(u, ms)
    BY <1>6 DEF PlaySongByName, songGen, u, ms
  <2>6. Pending(starts, Post(u, ms))
    BY <1>3, <1>4, <2>2, PostIs DEF Pending
  <2> QED BY <1>3, <1>4, <2>2, <2>4, <2>5, <2>6, PostMid, PostIs
<1>7. CASE n \in Names /\ n \notin {"none", "refused"}
  <2>1. CASE n \in Mods
    <3> DEFINE p == Play(s, "mod", n)
               g == Len(s.reqs) + 1
               t == [p EXCEPT !.posted = g]
    <3> g \in Nat
      BY <1>1
    <3>1. /\ p \in State /\ p.resident = 0
          /\ \E r \in Request_ : r.kind = "mod" /\ r.st # "ended" /\ Pends(starts, r) /\ p.reqs = Append(s.reqs, r)
          /\ p.posted = s.posted /\ p.chain = s.chain /\ p.calls = s.calls /\ p.wire = s.wire /\ p.asked = s.asked
      BY <1>1, <1>7, PlayIs
    <3>2. PlaySongByName(s, n) = t
      BY <1>7, <2>1 DEF PlaySongByName, songGen
    <3> HIDE DEF p
    <3> HIDE DEF g
    <3>3. /\ t \in State /\ t.resident = 0 /\ t.posted = g /\ t.reqs = p.reqs
          /\ t.chain = s.chain /\ t.calls = s.calls /\ t.wire = s.wire /\ t.asked = s.asked
      BY <3>1 DEF State
    <3> HIDE DEF t
    <3>4. PICK r \in Request_ : r.kind = "mod" /\ Pends(starts, r) /\ p.reqs = Append(s.reqs, r)
      BY <3>1
    <3>5. Asks(s, t, r)
      BY <1>1, <3>3, <3>4 DEF Asks, g
    <3> QED BY <1>1, <3>2, <3>3, <3>4, <3>5, AsksMid, AskedPends
  <2>2. CASE n \in Sndhs /\ n \notin Mods
    <3> DEFINE p == Play(s, "sndh", n)
               g == Len(s.reqs) + 1
               t == [p EXCEPT !.resident = g]
    <3> g \in Nat
      BY <1>1
    <3>1. /\ p \in State
          /\ \E r \in Request_ : r.kind = "sndh" /\ r.st # "ended" /\ Pends(starts, r) /\ p.reqs = Append(s.reqs, r)
          /\ p.posted = s.posted /\ p.chain = s.chain /\ p.calls = s.calls /\ p.wire = s.wire /\ p.asked = s.asked
      BY <1>1, <1>7, PlayIs
    <3>2. PlaySongByName(s, n) = t
      BY <1>7, <2>2 DEF PlaySongByName, songGen
    <3> HIDE DEF p
    <3> HIDE DEF g
    <3>3. /\ t \in State /\ t.resident = g /\ t.posted = s.posted /\ t.reqs = p.reqs
          /\ t.chain = s.chain /\ t.calls = s.calls /\ t.wire = s.wire /\ t.asked = s.asked
      BY <3>1 DEF State
    <3> HIDE DEF t
    <3>4. PICK r \in Request_ : r.kind = "sndh" /\ r.st # "ended" /\ Pends(starts, r) /\ p.reqs = Append(s.reqs, r)
      BY <3>1
    <3>5. Asks(s, t, r)
      BY <1>1, <3>3, <3>4 DEF Asks, g
    <3> QED BY <1>1, <3>2, <3>3, <3>4, <3>5, AsksMid, AskedPends
  <2>3. CASE n \notin Mods /\ n \notin Sndhs
    <3> DEFINE t == Play(s, "other", n)
    <3>1. /\ t \in State /\ t.resident = 0
          /\ \E r \in Request_ : r.kind = "other" /\ r.st # "ended" /\ Pends(starts, r) /\ t.reqs = Append(s.reqs, r)
          /\ t.posted = s.posted /\ t.chain = s.chain /\ t.calls = s.calls /\ t.wire = s.wire /\ t.asked = s.asked
      BY <1>1, <1>7, PlayIs
    <3>2. PlaySongByName(s, n) = t
      BY <1>7, <2>3 DEF PlaySongByName
    <3> HIDE DEF t
    <3>3. PICK r \in Request_ : Pends(starts, r) /\ t.reqs = Append(s.reqs, r)
      BY <3>1
    <3>4. Asks(s, t, r)
      BY <1>1, <3>1, <3>3 DEF Asks
    <3> QED BY <1>1, <3>1, <3>2, <3>3, <3>4, AsksMid, AskedPends
  <2> QED BY <2>1, <2>2, <2>3
<1> QED BY <1>5, <1>6, <1>7

LEMMA CallingIs ==
  ASSUME NEW s, s \in State, NEW g, NEW n \in Nat
  PROVE  LET t == Calling(s, g, n) IN
         /\ t \in State
         /\ \A h \in 1..MaxRequests : t.calls[h] # 0 => s.calls[h] # 0 \/ h = g
         /\ t.reqs = s.reqs /\ t.resident = s.resident /\ t.posted = s.posted
         /\ t.chain = s.chain /\ t.wire = s.wire /\ t.asked = s.asked
<1> DEFINE c == [h \in 1..MaxRequests |-> IF h = g THEN s.calls[h] + n ELSE s.calls[h]]
<1>1. s.calls \in [1..MaxRequests -> Nat]
  BY DEF State
<1>2. \A h \in 1..MaxRequests : s.calls[h] \in Nat /\ s.calls[h] + n \in Nat
  <2>1. \A h \in 1..MaxRequests : s.calls[h] \in Nat
    BY <1>1
  <2>2. \A x \in Nat : x + n \in Nat
    OBVIOUS
  <2> QED BY <2>1, <2>2
<1>3. c \in [1..MaxRequests -> Nat] /\ \A h \in 1..MaxRequests : h # g => c[h] = s.calls[h]
  BY <1>2
<1>4. Calling(s, g, n) = [s EXCEPT !.calls = c]
  BY DEF Calling, State
<1> HIDE DEF c
<1> QED BY <1>3, <1>4 DEF State

\* The frame's calls: on the resident image, or on one that is now asked for.
LEMMA CallMid ==
  ASSUME NEW s, Mid(audio, s), NEW name \in Sndhs, NEW n \in Nat, StartsOK, audio # "off", Pending(starts, s)
  PROVE  LET t == SndhCallByName(s, name, n) IN Mid(audio, t) /\ Pending(starts, t) /\ t.asked = s.asked + n
<1>1. s \in State /\ Len(s.reqs) \in Nat /\ s.asked \in Nat /\ s.reqs \in Seq(Request_)
  BY DEF Mid, State
<1>2. CASE n = 0
  BY <1>1, <1>2 DEF SndhCallByName
<1>3. CASE n # 0 /\ Resident(s, name)
  <2> DEFINE q == s.asked + n
             u == [s EXCEPT !.asked = q]
             t == Calling(u, s.resident, n)
  <2> q \in Nat
    BY <1>1
  <2> HIDE DEF q
  <2>1. /\ u \in State /\ u.asked = q /\ u.reqs = s.reqs /\ u.resident = s.resident /\ u.posted = s.posted
        /\ u.chain = s.chain /\ u.calls = s.calls /\ u.wire = s.wire
    BY <1>1 DEF State
  <2>2. SndhCallByName(s, name, n) = t
    BY <1>3 DEF SndhCallByName, q
  <2> HIDE DEF u
  <2>3. /\ t \in State
        /\ \A h \in 1..MaxRequests : t.calls[h] # 0 => s.calls[h] # 0 \/ h = s.resident
        /\ t.reqs = s.reqs /\ t.resident = s.resident /\ t.posted = s.posted
        /\ t.chain = s.chain /\ t.wire = s.wire /\ t.asked = s.asked + n
    BY <2>1, CallingIs DEF q
  <2> HIDE DEF t
  <2>4. s.resident = Len(s.reqs) /\ s.reqs[s.resident].kind = "sndh"
    BY <1>3 DEF Mid, ResidentOK, Resident
  <2>5. Grows(audio, s, t)
    BY <1>1, <2>3, <2>4 DEF Grows, Mid, PostedOK, Made
  <2>6. Pending(starts, t)
    BY <2>3 DEF Pending
  <2> QED BY <2>2, <2>3, <2>5, <2>6, GrowsMid
<1>4. CASE n # 0 /\ ~Resident(s, name)
  <2> DEFINE p == Play(s, "sndh", name)
             g == Len(p.reqs)
             q == p.asked + n
             u == [p EXCEPT !.resident = g, !.asked = q]
             t == Calling(u, Len(p.reqs), n - 1)
  <2>1. /\ p \in State
        /\ \E r \in Request_ : r.kind = "sndh" /\ r.st # "ended" /\ Pends(starts, r) /\ p.reqs = Append(s.reqs, r)
        /\ p.posted = s.posted /\ p.chain = s.chain /\ p.calls = s.calls /\ p.wire = s.wire /\ p.asked = s.asked
    BY <1>1, PlayIs DEF Names
  <2>2. SndhCallByName(s, name, n) = t
    BY <1>4 DEF SndhCallByName, CallAbsent, songGen
  <2> HIDE DEF p
  <2>3. PICK r \in Request_ : r.kind = "sndh" /\ r.st # "ended" /\ Pends(starts, r) /\ p.reqs = Append(s.reqs, r)
    BY <2>1
  <2>4. Len(p.reqs) = Len(s.reqs) + 1 /\ n - 1 \in Nat
    BY <1>1, <1>4, <2>3
  <2>8. g \in Nat /\ q \in Nat /\ q = s.asked + n /\ g = Len(s.reqs) + 1
    BY <1>1, <2>1, <2>4
  <2> HIDE DEF g, q
  <2>9. /\ u \in State /\ u.asked = q /\ u.reqs = p.reqs /\ u.resident = g
        /\ u.posted = s.posted /\ u.chain = s.chain /\ u.calls = s.calls /\ u.wire = s.wire
    BY <2>1, <2>8 DEF State
  <2> USE DEF g
  <2> HIDE DEF u
  <2>5. /\ u \in State /\ u.asked = s.asked + n /\ u.reqs = p.reqs /\ u.resident = Len(s.reqs) + 1
        /\ u.posted = s.posted /\ u.chain = s.chain /\ u.calls = s.calls /\ u.wire = s.wire
    BY <2>8, <2>9
  <2>6. /\ t \in State
        /\ \A h \in 1..MaxRequests : t.calls[h] # 0 => s.calls[h] # 0 \/ h = Len(s.reqs) + 1
        /\ t.reqs = p.reqs /\ t.resident = Len(s.reqs) + 1 /\ t.posted = s.posted
        /\ t.chain = s.chain /\ t.wire = s.wire /\ t.asked = s.asked + n
    BY <2>4, <2>5, CallingIs
  <2> HIDE DEF t
  <2>7. Asks(s, t, r)
    BY <1>1, <2>3, <2>6 DEF Asks
  <2> QED BY <1>1, <2>2, <2>3, <2>6, <2>7, AsksMid, AskedPends
<1> QED BY <1>2, <1>3, <1>4

\* Songs counts: none of an empty batch, no more in a part than in the whole, and an
\* entry that is a song image counts itself.
LEMMA SongsIs ==
  ASSUME NEW batch, NEW n \in Nat, NEW i \in 1..n
  PROVE  /\ Songs(batch, n) \in Nat /\ Songs(batch, i) \in Nat
         /\ Songs(batch, i) <= Songs(batch, n)
         /\ batch[i] = "song" => Songs(batch, i) # 0
<1> DEFINE S(k) == {j \in 1..k : batch[j] = "song"}
<1>1. ASSUME NEW k \in Nat
      PROVE  IsFiniteSet(S(k))
  <2>1. IsFiniteSet(1..k)
    BY FS_Interval
  <2> QED BY <2>1, FS_Subset
<1>2. i \in Nat /\ i <= n /\ i \in 1..i
  OBVIOUS
<1>3. S(i) \subseteq S(n)
  BY <1>2
<1>4. IsFiniteSet(S(i)) /\ IsFiniteSet(S(n))
  BY <1>1, <1>2
<1>5. batch[i] = "song" => S(i) # {}
  BY <1>2
<1>6. Songs(batch, i) = Cardinality(S(i)) /\ Songs(batch, n) = Cardinality(S(n))
  BY DEF Songs
<1> HIDE DEF S
<1>7. Cardinality(S(i)) <= Cardinality(S(n))
  BY <1>3, <1>4, FS_Subset
<1>8. S(i) # {} => Cardinality(S(i)) # 0
  BY <1>4, FS_EmptySet
<1>9. Cardinality(S(i)) \in Nat /\ Cardinality(S(n)) \in Nat
  BY <1>4, FS_CardinalityType
<1> QED BY <1>5, <1>6, <1>7, <1>8, <1>9

LEMMA SongsNat ==
  ASSUME NEW batch, NEW n \in Nat
  PROVE  Songs(batch, n) \in Nat
<1>1. IsFiniteSet({j \in 1..n : batch[j] = "song"})
  <2>1. IsFiniteSet(1..n)
    BY FS_Interval
  <2> QED BY <2>1, FS_Subset
<1> QED BY <1>1, FS_CardinalityType DEF Songs

\* The requests a batch makes follow those there were, and none of them is fetched.
LEMMA TakenIs ==
  ASSUME NEW s, s \in State, NEW batch \in Seq(Commands)
  PROVE  LET t == Taken(s, batch) IN
         /\ t \in State
         /\ Len(t.reqs) = Len(s.reqs) + Songs(batch, Len(batch))
         /\ \A g \in DOMAIN s.reqs : t.reqs[g] = s.reqs[g]
         /\ \A g \in DOMAIN t.reqs : g > Len(s.reqs) => t.reqs[g].kind = "bytes" /\ ~InFlight(t.reqs[g])
         /\ t.resident # 0 => t.resident = s.resident /\ t.reqs = s.reqs
         /\ t.posted = s.posted /\ t.chain = s.chain /\ t.calls = s.calls /\ t.wire = s.wire
         /\ t.asked = s.asked + Len(batch)
<1> DEFINE c == Songs(batch, Len(batch))
           r == [kind |-> "bytes", name |-> "none", st |-> "ended", start |-> 0]
           b == [i \in 1..c |-> r]
           q == s.asked + Len(batch)
           h == IF \E i \in DOMAIN batch : batch[i] # "effect" THEN 0 ELSE s.resident
           t == Taken(s, batch)
<1>1. /\ s.reqs \in Seq(Request_) /\ Len(s.reqs) \in Nat /\ s.asked \in Nat /\ s.resident \in Nat
      /\ Len(batch) \in Nat /\ DOMAIN batch = 1..Len(batch)
  BY DEF State
<1>2. c \in Nat
  BY <1>1, SongsNat
<1>3. q \in Nat /\ h \in Nat
  BY <1>1
<1> HIDE DEF c, q
<1>4. r \in Request_ /\ r.kind = "bytes" /\ ~InFlight(r)
  BY DEF Request_, InFlight
<1> HIDE DEF r
<1>5. b \in Seq(Request_) /\ Len(b) = c /\ DOMAIN b = 1..c /\ \A i \in 1..c : b[i] = r
  BY <1>2, <1>4
<1>6. t = [s EXCEPT !.reqs = s.reqs \o b, !.resident = h, !.asked = q]
  BY DEF Taken, State, c, r, q
<1> HIDE DEF b, h, t
<1>7. s.reqs \o b \in Seq(Request_) /\ Len(s.reqs \o b) = Len(s.reqs) + c
  BY <1>1, <1>5
<1>8. /\ t \in State /\ t.reqs = s.reqs \o b /\ t.resident = h /\ t.asked = q
      /\ t.posted = s.posted /\ t.chain = s.chain /\ t.calls = s.calls /\ t.wire = s.wire
  BY <1>3, <1>6, <1>7 DEF State
<1>9. \A g \in DOMAIN s.reqs : t.reqs[g] = s.reqs[g]
  BY <1>1, <1>5, <1>8, ConcatFirst
<1>10. ASSUME NEW g \in DOMAIN t.reqs, g > Len(s.reqs)
       PROVE  t.reqs[g] = r
  <2>1. g \notin DOMAIN s.reqs
    BY <1>1, <1>10
  <2> QED BY <2>1, <1>1, <1>5, <1>8, ConcatAt
<1>11. t.resident # 0 => t.resident = s.resident /\ t.reqs = s.reqs
  <2> SUFFICES ASSUME t.resident # 0
               PROVE  t.resident = s.resident /\ t.reqs = s.reqs
    OBVIOUS
  <2>1. ~(\E i \in DOMAIN batch : batch[i] # "effect") /\ h = s.resident
    BY <1>8 DEF h
  <2>2. {j \in 1..Len(batch) : batch[j] = "song"} = {}
    BY <2>1, <1>1
  <2>3. c = 0
    BY <2>2, FS_EmptySet DEF c, Songs
  <2>4. b = <<>>
    BY <2>3, <1>5
  <2> QED BY <2>1, <2>4, <1>1, <1>8
<1> QED BY <1>4, <1>7, <1>8, <1>9, <1>10, <1>11 DEF c, q, t

\* A batch joins the chain.
LEMMA BatchMid ==
  ASSUME NEW s, Mid(audio, s), NEW batch \in Seq(Commands), Pending(starts, s)
  PROVE  LET t == PostSfx(s, batch) IN Mid(audio, t) /\ Pending(starts, t) /\ t.asked = s.asked + Len(batch)
<1> DEFINE u == Taken(s, batch)
           ms == Msgs(s, batch)
           t == PostSfx(s, batch)
<1>1. /\ s \in State /\ s.reqs \in Seq(Request_) /\ Len(s.reqs) \in Nat /\ s.asked \in Nat /\ s.posted \in Nat
      /\ s.chain \in Seq(Wide) /\ s.wire \in Seq(Wide) /\ Len(batch) \in Nat /\ DOMAIN batch = 1..Len(batch)
  BY DEF Mid, State
<1>2. /\ u \in State
      /\ Len(u.reqs) = Len(s.reqs) + Songs(batch, Len(batch))
      /\ \A g \in DOMAIN s.reqs : u.reqs[g] = s.reqs[g]
      /\ \A g \in DOMAIN u.reqs : g > Len(s.reqs) => u.reqs[g].kind = "bytes" /\ ~InFlight(u.reqs[g])
      /\ u.resident # 0 => u.resident = s.resident /\ u.reqs = s.reqs
      /\ u.posted = s.posted /\ u.chain = s.chain /\ u.calls = s.calls /\ u.wire = s.wire
      /\ u.asked = s.asked + Len(batch)
  BY <1>1, TakenIs
<1>3. Songs(batch, Len(batch)) \in Nat
  BY <1>1, SongsNat
<1>4. t = [u EXCEPT !.chain = u.chain \o ms]
  BY <1>1, <1>2 DEF PostSfx, State
<1>5. \A g \in DOMAIN s.reqs : g \in DOMAIN u.reqs
  <2>1. u.reqs \in Seq(Request_)
    BY <1>2 DEF State
  <2> QED BY <1>1, <1>2, <1>3, <2>1
<1> HIDE DEF u
<1>6. Mid(audio, u)
  <2>1. PostedOK(u)
    BY <1>2, <1>5 DEF Mid, PostedOK, Made
  <2>2. u.resident # 0 => u.resident = Len(u.reqs) /\ u.reqs[u.resident].kind = "sndh"
    BY <1>2 DEF Mid, ResidentOK
  <2>3. Len(s.reqs) <= Len(u.reqs) /\ s.asked <= u.asked
    BY <1>1, <1>2, <1>3
  <2>4. Grows(audio, s, u)
    BY <1>2, <2>1, <2>2, <2>3 DEF Grows
  <2> QED BY <2>4, GrowsMid
<1>7. ASSUME NEW k \in DOMAIN ms
      PROVE  /\ k \in Nat /\ k # 0 /\ ms[k] \in Wide
             /\ Placed(u, ms[k]) /\ ms[k].n = s.asked + k
             /\ ms[k].type # "call" /\ ~NamedLoad(u, ms[k])
  <2>1. k \in 1..Len(batch) /\ batch[k] \in Commands
    BY <1>1 DEF Msgs
  <2> DEFINE c == Songs(batch, k)
             ty == IF batch[k] = "song" THEN "load" ELSE batch[k]
  <2>2. c \in Nat /\ c <= Songs(batch, Len(batch)) /\ (batch[k] = "song" => c # 0)
    BY <1>1, <2>1, SongsIs
  <2>3. ms[k] = [type |-> ty, gen |-> Len(s.reqs) + c, after |-> s.posted, n |-> s.asked + k]
    BY <2>1, <1>1 DEF Msgs, songGen
  <2>4. ty \in Types /\ ty # "call" /\ (ty = "load" => batch[k] = "song")
    BY <2>1 DEF Commands, Types
  <2> HIDE DEF c, ty, ms
  <2>5. Len(s.reqs) + c \in Nat /\ s.asked + k \in Nat /\ k \in Nat /\ k # 0
    BY <1>1, <2>1, <2>2
  <2>6. ms[k] \in Wide
    BY <1>1, <2>3, <2>4, <2>5 DEF Wide
  <2>7. Len(s.reqs) + c <= Len(u.reqs) /\ s.asked + k <= u.asked
    BY <1>1, <1>2, <1>3, <2>1, <2>2
  <2>8. s.posted <= Len(u.reqs)
    BY <1>1, <1>2, <1>3 DEF Mid, PostedOK, Made
  <2>9. ty = "load" => Len(s.reqs) + c # 0 /\ Len(s.reqs) + c > Len(s.reqs)
    BY <1>1, <2>2, <2>4
  <2>10. Placed(u, ms[k])
    BY <2>3, <2>7, <2>8, <2>9 DEF Placed
  <2>11. ty = "load" => Len(s.reqs) + c \in DOMAIN u.reqs
    <3>1. u.reqs \in Seq(Request_)
      BY <1>2 DEF State
    <3> QED BY <3>1, <2>5, <2>7, <2>9
  <2>12. ~NamedLoad(u, ms[k])
    BY <1>2, <2>3, <2>9, <2>11 DEF NamedLoad
  <2> QED BY <2>3, <2>4, <2>5, <2>6, <2>10, <2>12
<1>8. ms \in Seq(Wide)
  <2>1. ms = [i \in 1..Len(batch) |-> ms[i]]
    BY <1>1 DEF Msgs
  <2>2. DOMAIN ms = 1..Len(batch)
    BY <1>1 DEF Msgs
  <2> HIDE DEF ms
  <2> QED BY <1>1, <1>7, <2>1, <2>2
<1> HIDE DEF ms
<1>9. u.chain \o ms \in Seq(Wide)
  BY <1>1, <1>2, <1>8
<1>10. /\ t \in State /\ t.chain = u.chain \o ms
       /\ t.reqs = u.reqs /\ t.resident = u.resident /\ t.posted = u.posted
       /\ t.wire = u.wire /\ t.calls = u.calls /\ t.asked = u.asked
  BY <1>2, <1>4, <1>9 DEF State
<1>11. \A k \in DOMAIN u.chain : u.chain[k].n <= s.asked
  BY <1>2 DEF Mid, ChainOK, Placed
<1>12. \A k \in DOMAIN u.wire : u.wire[k].n <= s.asked
  BY <1>2 DEF Mid, WireOK, Placed
<1>13. Joins(u, t, ms, s.asked)
  BY <1>7, <1>8, <1>10, <1>11, <1>12 DEF Joins
<1>14. Pending(starts, t)
  <2>1. \A g \in DOMAIN u.reqs : g \in DOMAIN s.reqs \/ g > Len(s.reqs)
    <3>1. u.reqs \in Seq(Request_)
      BY <1>2 DEF State
    <3> QED BY <1>1, <3>1
  <2>2. \A g \in DOMAIN u.reqs : Pends(starts, u.reqs[g])
    BY <1>2, <2>1 DEF Pending, Pends, InFlight
  <2> QED BY <1>10, <2>2 DEF Pending
<1> QED BY <1>1, <1>2, <1>6, <1>10, <1>13, <1>14, JoinsMid

-----------------------------------------------------------------------------
(* The tasks. *)

LEMMA NowIs ==
  /\ Now.reqs = reqs /\ Now.resident = resident /\ Now.posted = songPosted /\ Now.chain = sfxChain
  /\ Now.calls = calls /\ Now.wire = wire /\ Now.asked = asked
BY DEF Now

LEMMA BecomesIs ==
  ASSUME NEW s, s \in State, Becomes(s)
  PROVE  Now' = s /\ reqs' = s.reqs /\ asked' = s.asked
BY DEF Becomes, Now, State

LEMMA InitInv == Init => IInv
<1> SUFFICES ASSUME Init PROVE IInv
  OBVIOUS
<1>1. /\ Now.reqs = <<>> /\ Now.resident = 0 /\ Now.posted = 0 /\ Now.chain = <<>>
      /\ Now.calls = [g \in 1..MaxRequests |-> 0] /\ Now.wire = <<>> /\ Now.asked = 0
  BY NowIs DEF Init
<1>2. Now \in State
  BY DEF Init, Now, State
<1>3. DOMAIN <<>> = {} /\ Len(<<>>) = 0
  OBVIOUS
<1>4. Mid(audio, Now)
  BY <1>1, <1>2, <1>3
  DEF Mid, ResidentOK, PostedOK, ChainOK, WireOK, CallsOK, ChainUp, WireThenChain, WireUp,
      SlowNeverLast, LoadThenEffect, LoadThenCall, Silent
<1>5. HeadWaits(Now) /\ CallsWait(Now) /\ Pending(starts, Now)
  BY <1>1, <1>3 DEF HeadWaits, CallsWait, Pending
<1>7. StartsOK
  BY DEF Init, StartsOK
<1>6. audio \in {"off", "starting", "on", "doubled"} /\ Len(reqs) <= MaxRequests /\ asked <= MaxCommands
  BY <1>3, BoundsAssumption DEF Init
<1> QED BY <1>4, <1>5, <1>6, <1>7 DEF IInv

LEMMA FrameInv ==
  ASSUME IInv, NEW name \in Names \union {"none", "refused", "nothing"}, NEW image \in Sndhs,
         NEW n \in 0..MaxCommands, NEW batch \in Batches \union {<<>>}, Frame(name, image, n, batch)
  PROVE  IInv'
<1> DEFINE s1 == IF name = "nothing" THEN Now ELSE PlaySongByName(Now, name)
           s2 == SndhCallByName(s1, image, n)
           s3 == PostSfx(s2, batch)
<1>1. /\ Mid(audio, Now) /\ Pending(starts, Now) /\ Now.asked = asked
      /\ StartsOK /\ audio # "off"
  BY NowIs DEF IInv, Frame
<1>2. n \in Nat /\ batch \in Seq(Commands)
  <2>1. <<>> \in Seq(Commands)
    OBVIOUS
  <2>2. batch \in Seq(Commands)
    BY <2>1, BatchesAssumption
  <2>3. n \in Nat
    BY BoundsAssumption
  <2> QED BY <2>2, <2>3
<1>3. Mid(audio, s1) /\ Pending(starts, s1) /\ s1.asked = asked
  BY <1>1, SongMid
<1> HIDE DEF s1
<1>4. Mid(audio, s2) /\ Pending(starts, s2) /\ s2.asked = asked + n
  BY <1>1, <1>2, <1>3, CallMid
<1> HIDE DEF s2
<1>5. Mid(audio, s3) /\ Pending(starts, s3) /\ s3.asked = asked + n + Len(batch)
  BY <1>2, <1>4, BatchMid
<1> HIDE DEF s3
<1>6. Len(s3.reqs) <= MaxRequests /\ Becomes(Jobs(s3)) /\ audio' = audio /\ starts' = starts /\ asked + n + Len(batch) <= MaxCommands
  BY DEF Frame, songGen, s1, s2, s3
<1>7. /\ Mid(audio, Jobs(s3)) /\ HeadWaits(Jobs(s3)) /\ CallsWait(Jobs(s3))
      /\ Jobs(s3).reqs = s3.reqs /\ Jobs(s3).asked = s3.asked
  BY <1>5, <1>6, JobsSound
<1>8. Now' = Jobs(s3) /\ reqs' = s3.reqs /\ asked' = s3.asked
  BY <1>6, <1>7, BecomesIs DEF Mid
<1>9. Pending(starts, Jobs(s3))
  BY <1>5, <1>7 DEF Pending
<1> QED BY <1>1, <1>5, <1>6, <1>7, <1>8, <1>9 DEF IInv, StartsOK

Ended(s, g, st) == [s EXCEPT !.reqs[g].st = st]

\* A request that ends.
LEMMA EndIs ==
  ASSUME NEW s, s \in State, NEW g \in DOMAIN s.reqs, NEW st \in {"ended", "failed"}
  PROVE  LET t == Ended(s, g, st) IN
         /\ t \in State /\ Len(t.reqs) = Len(s.reqs)
         /\ t.resident = s.resident /\ t.posted = s.posted /\ t.chain = s.chain
         /\ t.calls = s.calls /\ t.wire = s.wire /\ t.asked = s.asked
         /\ \A h \in DOMAIN s.reqs : t.reqs[h].kind = s.reqs[h].kind
         /\ \A h \in DOMAIN s.reqs : h # g => t.reqs[h] = s.reqs[h]
         /\ t.reqs[g].st = st
<1> DEFINE r == [s.reqs[g] EXCEPT !.st = st]
           rs == [s.reqs EXCEPT ![g] = r]
           t == Ended(s, g, st)
<1>1. s.reqs \in Seq(Request_) /\ s.reqs[g] \in Request_
  BY DEF State
<1>2. r \in Request_ /\ r.kind = s.reqs[g].kind /\ r.st = st
  BY <1>1 DEF Request_
<1>3. t = [s EXCEPT !.reqs = rs]
  BY DEF State, Ended
<1> HIDE DEF r
<1>4. /\ rs \in Seq(Request_) /\ Len(rs) = Len(s.reqs) /\ rs[g] = r
      /\ \A h \in DOMAIN s.reqs : h # g => rs[h] = s.reqs[h]
  BY <1>1, <1>2
<1> HIDE DEF rs, t
<1>5. /\ t \in State /\ t.reqs = rs
      /\ t.resident = s.resident /\ t.posted = s.posted /\ t.chain = s.chain
      /\ t.calls = s.calls /\ t.wire = s.wire /\ t.asked = s.asked
  BY <1>3, <1>4 DEF State
<1> QED BY <1>2, <1>4, <1>5 DEF t

\* A request that ends waits for no start.
LEMMA EndPends ==
  ASSUME NEW s, s \in State, NEW g \in DOMAIN s.reqs, NEW st \in {"ended", "failed"}, NEW v, Pending(v, s)
  PROVE  Pending(v, Ended(s, g, st))
<1> DEFINE t == Ended(s, g, st)
<1>1. /\ t \in State /\ Len(t.reqs) = Len(s.reqs) /\ t.reqs[g].st = st
      /\ \A h \in DOMAIN s.reqs : h # g => t.reqs[h] = s.reqs[h]
  BY EndIs
<1> HIDE DEF t
<1>2. DOMAIN t.reqs = DOMAIN s.reqs
  <2>1. t.reqs \in Seq(Request_) /\ s.reqs \in Seq(Request_)
    BY <1>1 DEF State
  <2> QED BY <1>1, <2>1
<1>3. \A h \in DOMAIN t.reqs : Pends(v, t.reqs[h])
  BY <1>1, <1>2 DEF Pending, Pends
<1> QED BY <1>3 DEF Pending, t

\* It may end if it does not end well, or the worklet has its load, or it is not the newest.
LEMMA EndMid ==
  ASSUME NEW s, Mid(audio, s), NEW g \in DOMAIN s.reqs, NEW st \in {"ended", "failed"},
         st = "failed" \/ Loaded(audio, s, g) \/ g # Len(s.reqs)
  PROVE  Mid(audio, Ended(s, g, st))
<1> DEFINE t == Ended(s, g, st)
<1>1. s \in State
  BY DEF Mid
<1>2. /\ t \in State /\ Len(t.reqs) = Len(s.reqs)
      /\ t.resident = s.resident /\ t.posted = s.posted /\ t.chain = s.chain
      /\ t.calls = s.calls /\ t.wire = s.wire /\ t.asked = s.asked
      /\ \A h \in DOMAIN s.reqs : t.reqs[h].kind = s.reqs[h].kind
      /\ \A h \in DOMAIN s.reqs : h # g => t.reqs[h] = s.reqs[h]
      /\ t.reqs[g].st = st
  BY <1>1, EndIs
<1>3. /\ s.reqs \in Seq(Request_) /\ t.reqs \in Seq(Request_) /\ Len(s.reqs) \in Nat /\ s.asked \in Nat
      /\ s.resident \in Nat
  BY <1>1, <1>2 DEF State
<1>4. \A h \in DOMAIN s.reqs : h \in DOMAIN t.reqs
  BY <1>2, <1>3
<1> HIDE DEF t
<1>5. \A h \in DOMAIN s.reqs :
        /\ InFlight(t.reqs[h]) => InFlight(s.reqs[h])
        /\ t.reqs[h].st = "ended" => s.reqs[h].st = "ended" \/ Loaded(audio, s, h) \/ h # Len(t.reqs)
  BY <1>2 DEF InFlight
<1>6. PostedOK(t)
  BY <1>2, <1>4 DEF Mid, PostedOK, Made
<1>7. t.resident # 0 => t.resident = Len(t.reqs) /\ t.reqs[t.resident].kind = "sndh" /\ t.resident = s.resident
  BY <1>2, <1>3 DEF Mid, ResidentOK
<1>8. Grows(audio, s, t)
  BY <1>2, <1>3, <1>5, <1>6, <1>7 DEF Grows
<1> QED BY <1>8, GrowsMid DEF t

LEMMA FetchedMid ==
  ASSUME IInv, NEW g \in DOMAIN reqs, reqs[g].st = "fetch"
  PROVE  Mid(audio, Fetched(g)) /\ Pending(starts, Fetched(g)) /\ Len(Fetched(g).reqs) = Len(reqs) /\ Fetched(g).asked = asked
<1>1. Mid(audio, Now) /\ Pending(starts, Now) /\ Now \in State /\ Now.reqs = reqs /\ Now.asked = asked
  BY NowIs DEF IInv, Mid
<1>2. reqs \in Seq(Request_) /\ Len(reqs) \in Nat /\ g \in Nat /\ g # 0 /\ g <= Len(reqs)
  <2>1. reqs \in Seq(Request_)
    BY <1>1 DEF State
  <2> QED BY <2>1
<1>3. ASSUME NEW st \in {"ended", "failed"}
      PROVE  /\ Ends(g, st) \in State /\ Len(Ends(g, st).reqs) = Len(reqs) /\ Ends(g, st).asked = asked
             /\ Ends(g, st) = Ended(Now, g, st) /\ Pending(starts, Ends(g, st))
  <2>1. Ends(g, st) = Ended(Now, g, st)
    BY DEF Ends, Ended
  <2> QED BY <1>1, <2>1, EndIs, EndPends
<1>4. CASE g # Len(reqs)
  BY <1>1, <1>3, <1>4, EndMid DEF Fetched
<1>5. CASE g = Len(reqs) /\ ~HasNode
  BY <1>1, <1>3, <1>5, EndMid DEF Fetched
<1>6. CASE g = Len(reqs) /\ HasNode
  <2> DEFINE ms == <<Msg("load", g)>>
             u == Post(Now, ms)
             t == Ended(u, g, "ended")
  <2>1. Msg("load", g) \in Wide
    BY <1>2 DEF Msg, Wide, Types
  <2>2. ms \in Seq(Wide) /\ Len(ms) = 1 /\ \A k \in DOMAIN ms : ms[k] = Msg("load", g)
    BY <2>1
  <2>3. ms[1] = Msg("load", g)
    OBVIOUS
  <2> HIDE DEF ms
  <2>4. \A j \in DOMAIN Now.chain : 0 < Now.chain[j].n
    <3>1. \A j \in DOMAIN Now.chain : Now.chain[j] \in Wide
      BY <1>1 DEF State
    <3> QED BY <3>1, <1>1 DEF Mid, ChainOK, Wide
  <2>5. Waits(Now, g)
    BY <1>1, <1>2 DEF Waits, InFlight
  <2>6. Now.asked \in Nat
    BY <1>1 DEF State
  <2>7. Sendable(audio, Now, ms)
    BY <1>1, <1>2, <1>6, <2>2, <2>4, <2>5, <2>6 DEF Sendable, Msg, Placed, Waits
  <2>8. Mid(audio, u) /\ Sends(Now, u, ms) /\ u.reqs = reqs /\ u \in State /\ u.asked = asked
    BY <1>1, <1>6, <2>2, <2>7, PostMid, PostIs
  <2>9. Loaded(audio, u, g)
    <3>1. Now.wire \in Seq(Wide) /\ u.wire = Now.wire \o ms
      BY <1>1, <2>8 DEF State, Sends
    <3> DEFINE l == Len(Now.wire) + 1
    <3>2. l \in DOMAIN u.wire /\ u.wire[l] = ms[1]
      <4>5. ASSUME NEW w \in Seq(Wide), NEW v \in Seq(Wide)
            PROVE  Len(w) \in Nat /\ Len(w \o v) = Len(w) + Len(v) /\ w \o v \in Seq(Wide)
        OBVIOUS
      <4>6. Len(ms) = 1 /\ ms \in Seq(Wide)
        BY <2>2
      <4>1. Len(Now.wire) \in Nat /\ Len(Now.wire \o ms) = Len(Now.wire) + 1 /\ Now.wire \o ms \in Seq(Wide)
        BY <3>1, <4>5, <4>6
      <4>2. l \in 1..(Len(Now.wire) + Len(ms)) /\ l - Len(Now.wire) = 1 /\ l > Len(Now.wire)
        BY <4>1, <2>2
      <4>3. l \in DOMAIN (Now.wire \o ms)
        BY <4>1, <4>2, <2>2
      <4>4. l \notin DOMAIN Now.wire
        BY <4>1, <4>2, <3>1
      <4> QED BY <3>1, <4>2, <4>3, <4>4, <2>2, ConcatAt
    <3> HIDE DEF l
    <3> QED BY <3>2, <2>3 DEF Loaded, Msg
  <2>10. Fetched(g) = t
    BY <1>1, <1>6 DEF Fetched, Post, Ends, Ended, State, ms
  <2> HIDE DEF u
  <2>11. Mid(audio, t)
    BY <2>8, <2>9, EndMid
  <2>12. Len(t.reqs) = Len(reqs) /\ t.asked = asked
    BY <2>8, EndIs
  <2>13. Pending(starts, u)
    BY <1>1, <2>8 DEF Pending
  <2>14. Pending(starts, t)
    BY <2>8, <2>13, EndPends
  <2> QED BY <2>10, <2>11, <2>12, <2>14
<1> QED BY <1>4, <1>5, <1>6

LEMMA FetchInv ==
  ASSUME IInv, NEW g \in DOMAIN reqs, FetchEnds(g)
  PROVE  IInv'
<1>1. PICK s \in {Fetched(g), Ends(g, "failed")} : Becomes(Jobs(s))
  BY DEF FetchEnds
<1>2. reqs[g].st = "fetch" /\ audio' = audio /\ starts' = starts
  BY DEF FetchEnds
<1>3. Mid(audio, Now) /\ Pending(starts, Now) /\ Now \in State /\ Now.reqs = reqs /\ Now.asked = asked
  BY NowIs DEF IInv, Mid
<1>4. Mid(audio, s) /\ Pending(starts, s) /\ Len(s.reqs) = Len(reqs) /\ s.asked = asked
  <2>1. CASE s = Fetched(g)
    BY <1>2, <2>1, FetchedMid
  <2>2. CASE s = Ends(g, "failed")
    <3>1. s = Ended(Now, g, "failed")
      BY <2>2 DEF Ends, Ended
    <3> QED BY <1>3, <3>1, EndMid, EndIs, EndPends
  <2> QED BY <2>1, <2>2
<1>5. /\ Mid(audio, Jobs(s)) /\ HeadWaits(Jobs(s)) /\ CallsWait(Jobs(s))
      /\ Jobs(s).reqs = s.reqs /\ Jobs(s).asked = s.asked
  BY <1>4, JobsSound DEF IInv
<1>6. Now' = Jobs(s) /\ reqs' = s.reqs /\ asked' = s.asked
  BY <1>1, <1>5, BecomesIs DEF Mid
<1>7. Pending(starts, Jobs(s))
  BY <1>4, <1>5 DEF Pending
<1> QED BY <1>2, <1>4, <1>5, <1>6, <1>7 DEF IInv, StartsOK

\* A start that ends leaves no request waiting for it; the others are as they were.
LEMMA StartEndsMid ==
  ASSUME IInv, NEW a, NEW st \in {"fetch", "failed"}
  PROVE  LET t == StartEnds(a, st) IN
         /\ Mid(audio, t) /\ Len(t.reqs) = Len(reqs) /\ t.asked = asked
         /\ \A g \in DOMAIN t.reqs : t.reqs[g].st = "starting" =>
              g \in DOMAIN reqs /\ t.reqs[g] = reqs[g] /\ reqs[g].start # a
<1> DEFINE hit(g) == reqs[g].st = "starting" /\ reqs[g].start = a
           rs == [g \in DOMAIN reqs |-> IF hit(g) THEN [reqs[g] EXCEPT !.st = st, !.start = 0] ELSE reqs[g]]
           t == StartEnds(a, st)
<1>1. /\ Mid(audio, Now) /\ Now \in State
      /\ Now.reqs = reqs /\ Now.resident = resident /\ Now.posted = songPosted /\ Now.chain = sfxChain
      /\ Now.calls = calls /\ Now.wire = wire /\ Now.asked = asked
  BY NowIs DEF IInv, Mid
<1>2. /\ reqs \in Seq(Request_) /\ Len(reqs) \in Nat /\ DOMAIN reqs = 1..Len(reqs) /\ asked \in Nat
      /\ resident \in Nat /\ \A g \in DOMAIN reqs : reqs[g] \in Request_
  <2>1. reqs \in Seq(Request_) /\ asked \in Nat /\ resident \in Nat
    BY <1>1 DEF State
  <2> QED BY <2>1
<1>3. ASSUME NEW g \in DOMAIN reqs
      PROVE  /\ rs[g] \in Request_ /\ rs[g].kind = reqs[g].kind
             /\ InFlight(rs[g]) => InFlight(reqs[g])
             /\ rs[g].st = "ended" => reqs[g].st = "ended"
             /\ rs[g].st = "starting" => rs[g] = reqs[g] /\ reqs[g].start # a
  <2>1. CASE hit(g)
    <3>1. rs[g] = [reqs[g] EXCEPT !.st = st, !.start = 0]
      BY <2>1
    <3> HIDE DEF rs
    <3>2. reqs[g] \in Request_ /\ reqs[g].st = "starting"
      BY <1>2, <2>1
    <3>3. /\ rs[g].kind = reqs[g].kind /\ rs[g].name = reqs[g].name /\ rs[g].st = st /\ rs[g].start = 0
          /\ rs[g] = [kind |-> reqs[g].kind, name |-> reqs[g].name, st |-> st, start |-> 0]
      BY <3>1, <3>2 DEF Request_
    <3> QED BY <3>2, <3>3 DEF Request_, InFlight
  <2>2. CASE ~hit(g)
    <3>1. rs[g] = reqs[g]
      BY <2>2
    <3> HIDE DEF rs
    <3> QED BY <1>2, <2>2, <3>1
  <2> QED BY <2>1, <2>2
<1>4. rs \in Seq(Request_) /\ Len(rs) = Len(reqs) /\ DOMAIN rs = DOMAIN reqs
  <2>1. rs = [g \in DOMAIN reqs |-> rs[g]] /\ DOMAIN rs = DOMAIN reqs
    OBVIOUS
  <2> HIDE DEF rs
  <2>2. rs \in [1..Len(reqs) -> Request_]
    BY <1>2, <1>3, <2>1
  <2> QED BY <1>2, <2>1, <2>2
<1>5. t = [Now EXCEPT !.reqs = rs]
  BY DEF StartEnds
<1> HIDE DEF rs, t, hit
<1>6. /\ t \in State /\ t.reqs = rs /\ t.resident = resident /\ t.posted = songPosted /\ t.chain = sfxChain
      /\ t.calls = calls /\ t.wire = wire /\ t.asked = asked
  BY <1>1, <1>4, <1>5 DEF State
<1>7. PostedOK(t)
  BY <1>1, <1>3, <1>4, <1>6 DEF Mid, PostedOK, Made
<1>8. t.resident # 0 => /\ t.resident = Len(t.reqs) /\ t.reqs[t.resident].kind = "sndh"
                        /\ t.resident = Now.resident
  <2>1. resident # 0 => resident = Len(reqs) /\ reqs[resident].kind = "sndh"
    BY <1>1 DEF Mid, ResidentOK
  <2>2. resident # 0 => resident \in DOMAIN reqs
    BY <1>2, <2>1
  <2> QED BY <2>1, <2>2, <1>1, <1>3, <1>4, <1>6
<1>9. Grows(audio, Now, t)
  <2>1. Len(Now.reqs) <= Len(t.reqs) /\ Now.asked <= t.asked
    BY <1>1, <1>2, <1>4, <1>6
  <2> QED BY <1>1, <1>3, <1>6, <1>7, <1>8, <2>1 DEF Grows
<1>10. Mid(audio, t)
  BY <1>1, <1>9, GrowsMid
<1> QED BY <1>3, <1>4, <1>6, <1>10 DEF t

\* The end of a start, well or not.
LEMMA StartInv ==
  ASSUME IInv, NEW a \in DOMAIN starts, NEW st \in {"fetch", "failed"}, NEW p \in {"done", "failed"},
         starts' = [starts EXCEPT ![a] = p], Becomes(Jobs(StartEnds(a, st))), UNCHANGED audio
  PROVE  IInv'
<1> DEFINE s == StartEnds(a, st)
<1>1. /\ Mid(audio, s) /\ Len(s.reqs) = Len(reqs) /\ s.asked = asked
      /\ \A g \in DOMAIN s.reqs : s.reqs[g].st = "starting" =>
           g \in DOMAIN reqs /\ s.reqs[g] = reqs[g] /\ reqs[g].start # a
  BY StartEndsMid
<1>2. Becomes(Jobs(s)) /\ Len(reqs) <= MaxRequests /\ asked <= MaxCommands
  BY DEF IInv
<1> HIDE DEF s
<1>3. /\ Mid(audio, Jobs(s)) /\ HeadWaits(Jobs(s)) /\ CallsWait(Jobs(s))
      /\ Jobs(s).reqs = s.reqs /\ Jobs(s).asked = s.asked
  BY <1>1, <1>2, JobsSound
<1>4. Now' = Jobs(s) /\ reqs' = s.reqs /\ asked' = s.asked
  BY <1>2, <1>3, BecomesIs DEF Mid
<1>5. StartsOK /\ Pending(starts, Now) /\ Now.reqs = reqs
  BY NowIs DEF IInv
<1>6. /\ starts' \in Seq(Phases) /\ starts' # <<>> /\ DOMAIN starts' = DOMAIN starts
      /\ \A b \in DOMAIN starts : b # a => starts'[b] = starts[b]
  BY <1>5 DEF StartsOK, Phases
<1>7. StartsOK'
  BY <1>6 DEF StartsOK
<1>8. Pending(starts', Jobs(s))
  BY <1>1, <1>3, <1>5, <1>6 DEF Pending, Pends
<1> QED BY <1>1, <1>2, <1>3, <1>4, <1>7, <1>8 DEF IInv

\* A worklet is made; it was sent nothing yet.
LEMMA NodeInv ==
  ASSUME IInv, NEW a \in DOMAIN starts, starts[a] = "loading", MakeNode(a)
  PROVE  IInv'
<1> DEFINE t == Now'
<1>1. /\ Mid(audio, Now) /\ Now \in State /\ CallsWait(Now) /\ HeadWaits(Now) /\ Pending(starts, Now) /\ StartsOK
      /\ Now.reqs = reqs /\ Now.resident = resident /\ Now.posted = songPosted /\ Now.chain = sfxChain
      /\ Now.calls = calls /\ Now.wire = wire /\ Now.asked = asked
      /\ audio \in {"off", "starting", "on", "doubled"}
  BY NowIs DEF IInv, Mid
<1>2. /\ t.reqs = reqs /\ t.resident = resident /\ t.posted = songPosted /\ t.chain = sfxChain
      /\ t.calls = calls /\ t.wire = <<>> /\ t.asked = asked
      /\ reqs' = reqs /\ asked' = asked /\ starts' = [starts EXCEPT ![a] = "booting"]
      /\ audio' = IF HasNode THEN "doubled" ELSE "on"
  BY DEF MakeNode, Now
<1>3. t \in State
  BY <1>1, <1>2 DEF State, Now
<1> HIDE DEF t
<1>4. DOMAIN <<>> = {}
  OBVIOUS
<1>5. audio' \in {"on", "doubled"} /\ (audio' # "doubled" => audio \notin {"on", "doubled"})
  BY <1>2 DEF HasNode
<1>6. audio' # "doubled" => \A g : ~Loaded(audio, Now, g)
  <2> SUFFICES ASSUME audio' # "doubled"
               PROVE  \A g : ~Loaded(audio, Now, g)
    OBVIOUS
  <2>1. Now.wire = <<>> /\ audio # "doubled"
    BY <1>1, <1>5 DEF Mid, Silent
  <2> QED BY <1>4, <2>1 DEF Loaded
<1>7. ResidentOK(audio', t)
  <2>1. audio' = "doubled" => \A g : Loaded(audio', t, g)
    BY DEF Loaded
  <2>2. ResidentOK(audio, Now)
    BY <1>1 DEF Mid
  <2> QED BY <1>1, <1>2, <1>6, <2>1, <2>2 DEF ResidentOK
<1>8. PostedOK(t) /\ ChainOK(t) /\ ChainUp(t)
  BY <1>1, <1>2 DEF Mid, PostedOK, Made, ChainOK, ChainUp, Placed, NamedLoad
<1>9. CallsOK(audio', t)
  BY <1>1, <1>2 DEF CallsWait, CallsOK, Made, Waits, InFlight
<1>10. WireOK(t) /\ WireThenChain(t) /\ WireUp(t) /\ SlowNeverLast(t) /\ LoadThenEffect(t)
  BY <1>2, <1>4 DEF WireOK, WireThenChain, WireUp, SlowNeverLast, LoadThenEffect
<1>11. LoadThenCall(audio', t) /\ Silent(audio', t)
  BY <1>2, <1>4 DEF LoadThenCall, Silent
<1>12. Mid(audio', t)
  BY <1>3, <1>7, <1>8, <1>9, <1>10, <1>11 DEF Mid
<1>13. HeadWaits(t) /\ CallsWait(t)
  BY <1>1, <1>2 DEF HeadWaits, CallsWait, Waits, Made
<1>14. /\ starts' \in Seq(Phases) /\ starts' # <<>> /\ DOMAIN starts' = DOMAIN starts
       /\ \A b \in DOMAIN starts : starts'[b] = starts[b] \/ starts'[b] = "booting"
  BY <1>1, <1>2 DEF StartsOK, Phases
<1>15. StartsOK'
  BY <1>14 DEF StartsOK
<1>16. Pending(starts', t)
  BY <1>1, <1>2, <1>14 DEF Pending, Pends
<1>17. audio' \in {"off", "starting", "on", "doubled"} /\ Len(reqs) <= MaxRequests /\ asked <= MaxCommands
  BY <1>5 DEF IInv
<1> QED BY <1>2, <1>12, <1>13, <1>15, <1>16, <1>17 DEF IInv, t

LEMMA OffInv ==
  ASSUME IInv, SoundOff
  PROVE  IInv'
<1> DEFINE t == Now'
<1>1. /\ Mid(audio, Now) /\ Now \in State /\ CallsWait(Now) /\ HeadWaits(Now) /\ Pending(starts, Now) /\ StartsOK
      /\ Now.reqs = reqs /\ Now.posted = songPosted /\ Now.chain = sfxChain
      /\ Now.calls = calls /\ Now.wire = wire /\ Now.asked = asked
  BY NowIs DEF IInv, Mid
<1>2. /\ t.reqs = reqs /\ t.resident = 0 /\ t.posted = songPosted /\ t.chain = sfxChain
      /\ t.calls = calls /\ t.wire = <<>> /\ t.asked = asked
      /\ audio' = "off" /\ starts' = starts /\ reqs' = reqs /\ asked' = asked
  BY DEF SoundOff, Now
<1>3. t \in State
  BY <1>1, <1>2 DEF State, Now
<1> HIDE DEF t
<1>4. DOMAIN <<>> = {}
  OBVIOUS
<1>5. ResidentOK(audio', t) /\ PostedOK(t)
  BY <1>1, <1>2 DEF Mid, ResidentOK, PostedOK, Made
<1>6. ChainOK(t) /\ ChainUp(t)
  BY <1>1, <1>2 DEF Mid, ChainOK, ChainUp, Placed, NamedLoad
<1>7. CallsOK(audio', t)
  BY <1>1, <1>2 DEF CallsWait, CallsOK, Made, Waits, InFlight
<1>8. WireOK(t) /\ WireThenChain(t) /\ WireUp(t) /\ SlowNeverLast(t) /\ LoadThenEffect(t) /\ LoadThenCall(audio', t) /\ Silent(audio', t)
  BY <1>2, <1>4 DEF WireOK, WireThenChain, WireUp, SlowNeverLast, LoadThenEffect, LoadThenCall, Silent
<1>9. HeadWaits(t) /\ CallsWait(t)
  BY <1>1, <1>2 DEF HeadWaits, CallsWait, Waits, Made
<1>10. Mid(audio', t)
  BY <1>3, <1>5, <1>6, <1>7, <1>8 DEF Mid
<1>11. Pending(starts', t) /\ StartsOK'
  BY <1>1, <1>2 DEF Pending, StartsOK
<1> QED BY <1>2, <1>9, <1>10, <1>11 DEF IInv, t

LEMMA CartInv ==
  ASSUME IInv, InstantiateCart
  PROVE  IInv'
<1> DEFINE u == [Now EXCEPT !.resident = 0]
           ms == <<Msg("reset", 0)>>
           t == Post(u, ms)
<1>1. /\ Mid(audio, Now) /\ Now \in State /\ CallsWait(Now) /\ HeadWaits(Now) /\ Pending(starts, Now) /\ StartsOK
      /\ Now.reqs = reqs /\ Now.asked = asked
  BY NowIs DEF IInv, Mid
<1>2. /\ u \in State /\ u.reqs = Now.reqs /\ u.resident = 0 /\ u.posted = Now.posted /\ u.chain = Now.chain
      /\ u.calls = Now.calls /\ u.wire = Now.wire /\ u.asked = Now.asked
  BY <1>1 DEF State
<1>3. Msg("reset", 0) \in Wide
  BY DEF Msg, Wide, Types
<1>4. ms \in Seq(Wide) /\ \A k \in DOMAIN ms : ms[k] = Msg("reset", 0)
  BY <1>3
<1>5. Becomes(t) /\ audio' = audio /\ starts' = starts
  BY DEF InstantiateCart
<1> HIDE DEF u, ms
<1>6. Len(u.reqs) \in Nat /\ u.asked \in Nat
  BY <1>2 DEF State
<1>7. Mid(audio, u)
  <2>1. Grows(audio, Now, u)
    BY <1>1, <1>2, <1>6 DEF Grows, Mid, PostedOK, Made
  <2> QED BY <1>1, <2>1, GrowsMid
<1>8. \A j \in DOMAIN u.chain : 0 < u.chain[j].n
  <2>1. \A j \in DOMAIN u.chain : u.chain[j] \in Wide
    BY <1>2 DEF State
  <2> QED BY <2>1, <1>7 DEF Mid, ChainOK, Wide
<1>9. Sendable(audio, u, ms)
  BY <1>4, <1>6, <1>8 DEF Sendable, Msg, Placed, Waits, NamedLoad
<1>10. /\ Mid(audio, t) /\ t \in State /\ t.reqs = Now.reqs /\ t.chain = Now.chain /\ t.calls = Now.calls
       /\ t.asked = Now.asked
  BY <1>2, <1>4, <1>7, <1>9, PostMid, PostIs
<1> HIDE DEF t
<1>11. HeadWaits(t) /\ CallsWait(t) /\ Pending(starts, t)
  BY <1>1, <1>10 DEF HeadWaits, CallsWait, Waits, Made, Pending
<1>12. Now' = t /\ reqs' = reqs /\ asked' = asked
  BY <1>1, <1>5, <1>10, BecomesIs
<1> QED BY <1>1, <1>5, <1>10, <1>11, <1>12 DEF IInv, StartsOK

LEMMA NextInv == IInv /\ [Next]_vars => IInv'
<1> SUFFICES ASSUME IInv, [Next]_vars PROVE IInv'
  OBVIOUS
<1>1. ASSUME NEW name \in Names \union {"none", "refused", "nothing"}, NEW image \in Sndhs,
             NEW n \in 0..MaxCommands, NEW batch \in Batches \union {<<>>}, Frame(name, image, n, batch)
      PROVE  IInv'
  BY <1>1, FrameInv
<1>2. ASSUME NEW g \in DOMAIN reqs, FetchEnds(g)
      PROVE  IInv'
  BY <1>2, FetchInv
<1>3. ASSUME NEW a \in DOMAIN starts, LoadEnds(a) \/ BootEnds(a)
      PROVE  IInv'
  <2>1. CASE starts[a] = "loading" /\ MakeNode(a)
    BY <2>1, NodeInv
  <2>2. CASE AudioReady(a)
    BY <2>2, StartInv DEF AudioReady
  <2>3. CASE StartFails(a)
    BY <2>3, StartInv DEF StartFails
  <2> QED BY <1>3, <2>1, <2>2, <2>3 DEF LoadEnds, BootEnds
<1>4. CASE SoundOff
  BY <1>4, OffInv
<1>5. CASE SoundOn
  <2>1. /\ Now' = Now /\ reqs' = reqs /\ asked' = asked /\ audio = "off" /\ audio' = "starting"
        /\ starts' = Append(starts, "loading")
    BY <1>5 DEF SoundOn, bridge, Now
  <2>2. /\ Mid(audio, Now) /\ Pending(starts, Now) /\ StartsOK
    BY DEF IInv
  <2>3. /\ starts' \in Seq(Phases) /\ starts' # <<>>
        /\ \A b \in DOMAIN starts : b \in DOMAIN starts' /\ starts'[b] = starts[b]
    BY <2>1, <2>2 DEF StartsOK, Phases
  <2>4. StartsOK'
    BY <2>3 DEF StartsOK
  <2>5. Pending(starts', Now)
    BY <2>2, <2>3 DEF Pending, Pends
  <2>6. \A g : Loaded(audio', Now, g) <=> Loaded(audio, Now, g)
    BY <2>1 DEF Loaded
  <2>7. ResidentOK(audio', Now) /\ CallsOK(audio', Now)
    BY <2>2, <2>6 DEF Mid, ResidentOK, CallsOK
  <2>8. LoadThenCall(audio', Now) /\ Silent(audio', Now)
    BY <2>1, <2>2 DEF Mid, LoadThenCall, Silent
  <2>9. Mid(audio', Now)
    BY <2>2, <2>7, <2>8 DEF Mid
  <2> QED BY <2>1, <2>4, <2>5, <2>9 DEF IInv
<1>6. CASE InstantiateCart
  BY <1>6, CartInv
<1>7. CASE UNCHANGED vars
  <2>1. Now' = Now /\ reqs' = reqs /\ asked' = asked /\ audio' = audio /\ starts' = starts
    BY <1>7 DEF vars, bridge, Now
  <2> QED BY <2>1 DEF IInv, StartsOK
<1> QED BY <1>1, <1>2, <1>3, <1>4, <1>5, <1>6, <1>7 DEF Next

\* The inductive invariant holds in every state of the page.
THEOREM Invariant == Spec => []IInv
<1>1. Spec => Init /\ [][Next]_vars
  BY DEF Spec
<1> QED BY <1>1, InitInv, NextInv, PTL

-----------------------------------------------------------------------------
(* What the invariant says of the worklet. *)

\* A message that is placed, within the bounds, is one of Message.
LEMMA PlacedMessage ==
  ASSUME IInv, NEW q \in Seq(Wide), \A k \in DOMAIN q : Placed(Now, q[k])
  PROVE  q \in Seq(Message)
<1>1. Len(reqs) <= MaxRequests /\ asked <= MaxCommands /\ MaxRequests \in Nat /\ MaxCommands \in Nat
      /\ Len(reqs) \in Nat /\ asked \in Nat
  BY BoundsAssumption, NowIs DEF IInv, Mid, State
<1>2. ASSUME NEW k \in DOMAIN q
      PROVE  q[k] \in Message
  <2>1. q[k] \in Wide
    OBVIOUS
  <2>2. q[k].gen <= Len(reqs) /\ q[k].after <= Len(reqs) /\ q[k].n <= asked
    BY <1>2, NowIs DEF Placed
  <2>3. q[k].gen \in 0..MaxRequests /\ q[k].after \in 0..MaxRequests /\ q[k].n \in 0..MaxCommands
    <3>1. q[k].gen \in Nat /\ q[k].after \in Nat /\ q[k].n \in Nat
      BY <2>1 DEF Wide
    <3> QED BY <1>1, <2>2, <3>1
  <2> QED BY <2>1, <2>3 DEF Wide, Types, Message
<1> QED BY <1>2

LEMMA InvType == IInv => TypeOK
<1> SUFFICES ASSUME IInv PROVE TypeOK
  OBVIOUS
<1>1. /\ Mid(audio, Now) /\ Now \in State /\ CallsWait(Now) /\ HeadWaits(Now)
      /\ Now.reqs = reqs /\ Now.resident = resident /\ Now.posted = songPosted /\ Now.chain = sfxChain
      /\ Now.calls = calls /\ Now.wire = wire /\ Now.asked = asked
  BY NowIs DEF IInv, Mid
<1>2. /\ reqs \in Seq(Request_) /\ sfxChain \in Seq(Wide) /\ wire \in Seq(Wide) /\ asked \in Nat
      /\ resident \in Nat /\ songPosted \in Nat /\ calls \in [1..MaxRequests -> Nat]
  BY <1>1 DEF State
<1>3. Len(reqs) <= MaxRequests /\ audio \in {"off", "starting", "on", "doubled"} /\ asked \in 0..MaxCommands
  BY <1>2, BoundsAssumption DEF IInv
<1>4. resident # 0 => resident \in DOMAIN reqs /\ reqs[resident].kind = "sndh"
  <2>1. resident # 0 => resident = Len(reqs) /\ reqs[resident].kind = "sndh"
    BY <1>1 DEF Mid, ResidentOK
  <2>2. Len(reqs) \in Nat /\ DOMAIN reqs = 1..Len(reqs)
    BY <1>2
  <2> QED BY <1>2, <2>1, <2>2
<1>5. songPosted # 0 => songPosted \in DOMAIN reqs /\ reqs[songPosted].kind = "mod"
  BY <1>1 DEF Mid, PostedOK, Made
<1>6. sfxChain \in Seq(Message)
  BY <1>1, <1>2, PlacedMessage DEF Mid, ChainOK
<1>7. wire \in Seq(Message)
  BY <1>1, <1>2, PlacedMessage DEF Mid, WireOK
<1>8. sfxChain # <<>> => Waits(Now, sfxChain[1].after)
  BY <1>1 DEF HeadWaits
<1>9. \A g \in 1..MaxRequests : calls[g] # 0 => g \in DOMAIN reqs /\ Waits(Now, g)
  BY <1>1 DEF CallsWait, Made
<1>10. /\ starts \in Seq({"loading", "booting", "done", "failed"}) /\ (audio # "off" => starts # <<>>)
       /\ \A g \in DOMAIN reqs : reqs[g].st = "starting" =>
            reqs[g].start \in DOMAIN starts /\ starts[reqs[g].start] \in {"loading", "booting"}
  BY <1>1 DEF IInv, StartsOK, Phases, Pending, Pends
<1> QED BY <1>2, <1>3, <1>4, <1>5, <1>6, <1>7, <1>8, <1>9, <1>10 DEF TypeOK

LEMMA InvSafe == IInv => SlowSongNeverLast /\ EffectsInOrder /\ EffectAfterLoad /\ CallAfterLoad
<1> SUFFICES ASSUME IInv PROVE SlowSongNeverLast /\ EffectsInOrder /\ EffectAfterLoad /\ CallAfterLoad
  OBVIOUS
<1>1. Mid(audio, Now) /\ Now.reqs = reqs /\ Now.wire = wire
  BY NowIs DEF IInv
<1>2. \A m : ByName(m) <=> NamedLoad(Now, m)
  BY <1>1 DEF ByName, NamedLoad
<1>3. SlowSongNeverLast
  BY <1>1, <1>2 DEF Mid, SlowNeverLast, SlowSongNeverLast
<1>4. EffectsInOrder
  BY <1>1 DEF Mid, WireUp, EffectsInOrder, Command
<1>5. EffectAfterLoad
  BY <1>1, <1>2 DEF Mid, LoadThenEffect, EffectAfterLoad, Command
<1>6. CallAfterLoad
  BY <1>1 DEF Mid, LoadThenCall, CallAfterLoad
<1> QED BY <1>3, <1>4, <1>5, <1>6

\* The bridge's globals keep their kinds, and what waits is a request whose load has
\* not ended: the chain's head, and every call that is kept.
THEOREM TypeCorrect == Spec => []TypeOK
BY Invariant, InvType, PTL

\* Once the worklet was sent anything of a request, no song fetched for an earlier one follows.
THEOREM SlowNeverOver == Spec => []SlowSongNeverLast
BY Invariant, InvSafe, PTL

\* Effects reach the worklet in the order they were asked for, whatever they wait for.
THEOREM EffectsKeepOrder == Spec => []EffectsInOrder
BY Invariant, InvSafe, PTL

\* No effect is sent before the load of the last .mod, .xm or .kt asked before it.
THEOREM EffectsAfterLoads == Spec => []EffectAfterLoad
BY Invariant, InvSafe, PTL

\* A call follows its image's load, with nothing newer between.
THEOREM CallsAfterLoads == Spec => []CallAfterLoad
BY Invariant, InvSafe, PTL
=============================================================================
