----------------------------- MODULE MCCartSwap -----------------------------
(***************************************************************************)
(* A small instance of CartSwap for TLC: a channel that starts with a boot *)
(* sector and one that is a data disk, the menu, which is a plain cart,    *)
(* and a visitor's disk whose sector hands over to the desktop.            *)
(***************************************************************************)
EXTENDS CartSwap

MCChannels == <<"s", "d">>
MCKind == [x \in {"s", "d", "menu", "v"} |->
             CASE x = "s" -> "sector"   [] x = "d" -> "data"
               [] x = "v" -> "sectorOS" [] OTHER   -> "cart"]

=============================================================================
