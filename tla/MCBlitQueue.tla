----------------------------- MODULE MCBlitQueue -----------------------------
(* Two words of the block: "wh", which every fill states, and "base", which a
   cart sets once.  A list has room for the opening and two or three ops. *)
EXTENDS BlitQueue, TLC

MCWords == {"wh", "base"}
V(h, l) == [hi |-> h, lo |-> l]
MCValues == {V(0, 0), V(0, 1), V(1, 1)}

MCOps == {[fill |-> FALSE, set |-> ("base" :> V(1, 1))],
          [fill |-> FALSE, set |-> ("base" :> V(0, 0)) @@ ("wh" :> V(0, 1))],
          [fill |-> TRUE,  set |-> ("wh" :> V(0, 0))]}

MCBoot == [k \in MCWords |-> V(0, 0)]
MCStores == {<<"base", V(0, 0)>>, <<"base", V(0, 1)>>, <<"wh", V(0, 1)>>}
=============================================================================
