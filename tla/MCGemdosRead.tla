---------------------------- MODULE MCGemdosRead ----------------------------
(***************************************************************************)
(* A volume of seven clusters: the root with HD, HD with a folder and two  *)
(* files, one of them of two clusters that do not follow each other.       *)
(***************************************************************************)
EXTENDS GemdosRead

CONSTANTS d1, d2, d3, d4   \* what a file's cluster may hold

MCBlocks == {d1, d2, d3, d4}
MCTempName == <<"~KOS0.TMP">>
MCHandles == {1}

FatOf(f) == [k \in 1 .. NFats |-> [x \in Cluster |-> IF x \in DOMAIN f THEN f[x] ELSE Free]]
DiskOf(f, dirs) ==
  [fat    |-> FatOf(f),
   data   |-> [x \in Cluster |-> IF x \in DOMAIN dirs THEN dirs[x] ELSE d4],
   fsinfo |-> Unknown]
File(name, x, n) == ShortSlot("file", name, FALSE, x, n)

Card == DiskOf(2 :> EndMark @@ 3 :> EndMark @@ 4 :> 6 @@ 5 :> EndMark @@ 6 :> EndMark,
               2 :> <<ShortSlot("dir", "HD", FALSE, 3, 0), ZeroSlot, ZeroSlot>>
               @@ 3 :> <<File("A", 4, 2), File("B", 5, 1), ZeroSlot>>
               @@ 4 :> d1 @@ 6 :> d2 @@ 5 :> d3)
Floppy == DiskOf(2 :> EndMark @@ 4 :> 5 @@ 5 :> EndMark,
                 2 :> <<DeadSlot, File("A", 4, 2), ZeroSlot>> @@ 4 :> d3 @@ 5 :> d2)
MCDisk0 == "A" :> Floppy @@ "C" :> Card

At(names) == [abs |-> TRUE, up |-> 0, names |-> names]
Here(names) == [abs |-> FALSE, up |-> 0, names |-> names]
MCOpens == {Here(<<"A">>), At(<<"B">>)}
MCFolders == {At(<<>>), At(<<"HD">>)}
MCLists == {{"file"}}
MCWrites ==
  {[op |-> "delete", path |-> Here(<<"A">>)],
   [op |-> "rename", path |-> At(<<"B">>), path2 |-> At(<<"C">>)],
   [op |-> "mkdir", path |-> At(<<"D">>)],
   [op |-> "rmdir", path |-> At(<<"D">>)],
   [op |-> "write", path |-> <<"B">>, slot |-> 1, first |-> TRUE, last |-> TRUE, off |-> 0,
    data |-> <<d4, d4>>, attr |-> "plain"]}
=============================================================================
