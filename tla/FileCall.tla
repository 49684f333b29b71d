------------------------------ MODULE FileCall ------------------------------
(***************************************************************************)
(* What a cart may rely on when it calls env.kosFileOp and                 *)
(* env.kosDriveRead (docs/KOS_GEMDOS_WRITES.md, rom/kos/kfs_abi.zig): the  *)
(* card is changed at most once a call, with the bytes the call handed     *)
(* over (unless its machine was reset meanwhile); an answer of the card's  *)
(* owner is the answer to that very call; a call refused for want of an    *)
(* owner (EWRPRO) never changes the card; a call that ran out of time      *)
(* (EWRITF) may be done before the answer, after it, or never.             *)
(*                                                                         *)
(* Some calls return with an answer that tells nothing ("unsure"): the     *)
(* protocol has two windows, which FileBlock names, in which an answer may *)
(* be another call's or a refused call may still be done.                  *)
(***************************************************************************)
EXTENDS Naturals, Sequences

CONSTANTS Results, \* the answers the card's owner can give, none a name of Return's
          Changes, \* those of Results after which the card is not as it was
          Bytes    \* what a buffer can hold: the number of the call it was filled for, or 0

VARIABLES ans,    \* call -> "out" while it waits, then what it returned
          result, \* call -> the owner's answer to it, "none" while not done
          ran     \* the changes made to the card: [call, data]

vars == <<ans, result, ran>>

Init == ans = <<>> /\ result = <<>> /\ ran = <<>>

\* A cart asks.
Ask == /\ ans' = Append(ans, "out")
       /\ result' = Append(result, "none")
       /\ UNCHANGED ran

\* The card's owner carries call c out: once, and never after a refusal.  The
\* buffer of a cart whose machine was reset under its call, or which went on
\* without a sure answer, may hold other bytes by then.
Do(c) == /\ result[c] = "none"
         /\ ans[c] # "noglass"
         /\ \E r \in Results, d \in IF ans[c] \in {"lost", "unsure"} THEN Bytes ELSE {c} :
              /\ result' = [result EXCEPT ![c] = r]
              /\ ran' = IF r \in Changes THEN Append(ran, [call |-> c, data |-> d]) ELSE ran
         /\ UNCHANGED ans

\* The call returns: the owner's answer to it, "no glass" when it was not done,
\* "late" at any time, an answer that tells nothing; or its machine is reset
\* while it waits.
Return(c) ==
  /\ ans[c] = "out"
  /\ \E a \in {result[c], "late", "noglass", "unsure", "lost"} :
       /\ a # "none"
       /\ a = "noglass" => result[c] = "none"
       /\ ans' = [ans EXCEPT ![c] = a]
  /\ UNCHANGED <<result, ran>>

Next == Ask \/ \E c \in DOMAIN ans : Do(c) \/ Return(c)

Spec == Init /\ [][Next]_vars
=============================================================================
