------------------------------- MODULE MCKfs -------------------------------
(***************************************************************************)
(* Small instances of Kfs for TLC: two file names, two folder names, slots *)
(* for three entries in a cluster, files of up to two clusters.            *)
(***************************************************************************)
EXTENDS Kfs

CONSTANTS x, y   \* what a cluster of a file may hold

MCBlocks == {x, y}
MCTempName == [h \in {0, 1} |-> IF h = 0 THEN "~KOS0.TMP" ELSE "~KOS1.TMP"]

-----------------------------------------------------------------------------
\* Disks the system may start with.  C:\ (cluster 2) holds A, one cluster,
\* with a long name in front of it, and a free slot.
FatOf(f) == [k \in 1 .. NFats |-> [c \in Cluster |-> IF c \in DOMAIN f THEN f[c] ELSE Free]]
DiskOf(f, dirs) ==
  [fat    |-> FatOf(f),
   data   |-> [c \in Cluster |-> IF c \in DOMAIN dirs THEN dirs[c] ELSE x],
   fsinfo |-> Cardinality({c \in Cluster : c \notin DOMAIN f})]

OneFile == DiskOf(2 :> EndMark @@ 3 :> EndMark,
                  2 :> <<LongSlot, ShortSlot("file", "A", FALSE, 3, 1), ZeroSlot>>)
\* The same with a folder D, which holds nothing.
OneFolder == DiskOf(2 :> EndMark @@ 3 :> EndMark @@ 4 :> EndMark,
                    2 :> <<LongSlot, ShortSlot("file", "A", FALSE, 3, 1),
                           ShortSlot("dir", "D", FALSE, 4, 0)>>
                    @@ 4 :> <<DotSlot, DotDotSlot(2), ZeroSlot>>)

\* OneFile with the first cluster of a save that handle 0 has begun.
HalfSaved == DiskOf(2 :> EndMark @@ 3 :> EndMark @@ 4 :> EndMark,
                    2 :> <<LongSlot, ShortSlot("file", "A", FALSE, 3, 1),
                           ShortSlot("file", "~KOS0.TMP", FALSE, 4, 1)>> @@ 4 :> y)
\* A folder E in a folder D, and a file A in it.
Nested == DiskOf(2 :> EndMark @@ 3 :> EndMark @@ 4 :> EndMark @@ 5 :> EndMark,
                 2 :> <<ShortSlot("dir", "D", FALSE, 4, 0), ZeroSlot, ZeroSlot>>
                 @@ 4 :> <<DotSlot, DotDotSlot(2), ShortSlot("dir", "E", FALSE, 5, 0)>>
                 @@ 5 :> <<DotSlot, DotDotSlot(4), ShortSlot("file", "A", FALSE, 3, 1)>>)

-----------------------------------------------------------------------------
\* Saves into C:\, whole and in chunks, by two handles; a slot that no handle
\* has, and more data than a request carries.
Save(p, h, first, last, off, data, attr) ==
  [op |-> "write", path |-> p, slot |-> h, first |-> first, last |-> last,
   off |-> off, data |-> data, attr |-> attr]
SaveRequests ==
  {Save(<<"A">>, 0, TRUE, FALSE, 0, <<y>>, "plain"),
   Save(<<"A">>, 0, TRUE, TRUE, 0, <<y>>, "plain"),
   Save(<<"A">>, 0, TRUE, TRUE, 0, <<y, y>>, "plain"),
   Save(<<"A">>, 0, FALSE, FALSE, 1, <<y>>, "plain"),
   Save(<<"A">>, 0, FALSE, TRUE, 1, <<y>>, "plain"),
   Save(<<"A">>, 0, FALSE, TRUE, 0, <<y>>, "readonly"),
   Save(<<"B">>, 1, TRUE, FALSE, 0, <<y, y>>, "plain"),
   Save(<<"B">>, 1, FALSE, TRUE, 1, <<y>>, "plain"),
   Save(<<"B">>, 1, TRUE, TRUE, 0, <<y>>, "plain"),
   Save(<<"A">>, 2, TRUE, TRUE, 0, <<y>>, "plain"),
   Save(<<"A">>, 0, TRUE, TRUE, 0, <<y, y, y>>, "plain"),
   [op |-> "abort", path |-> <<"A">>, slot |-> 0]}

\* Folders D and E, files in them and in C:\.
Rename(p, p2) == [op |-> "rename", path |-> p, path2 |-> p2]
On(op, p)     == [op |-> op, path |-> p]
MoveRequests  == {Rename(<<"A">>, <<"D", "A">>)}
TreeRequests  ==
  {On("mkdir", p) : p \in {<<"D">>, <<"E">>, <<"D", "E">>}}
  \cup {On("rmdir", p) : p \in {<<"D">>, <<"D", "E">>, <<"A">>}}
  \cup {On("delete", p) : p \in {<<"A">>, <<"D", "A">>, <<"E">>}}
  \cup MoveRequests
  \cup {Rename(<<"A">>, <<"B">>), Rename(<<"B">>, <<"D", "B">>),
        Rename(<<"D", "A">>, <<"A">>), Rename(<<"D", "E", "A">>, <<"B">>),
        Rename(<<"E">>, <<"D">>), Rename(<<"D">>, <<"D", "E">>),
        Rename(<<"E">>, <<"D", "E">>), Rename(<<"D", "E">>, <<"E">>)}
  \cup {[op |-> "setattr", path |-> <<"A">>, attr |-> a] : a \in {"readonly", "label"}}
  \cup {Save(<<"D", "B">>, 0, TRUE, TRUE, 0, <<y>>, "plain")}

\* A program that saves to a name the writer itself uses (kfs_path takes it).
TempNameRequests == {Save(<<"~KOS0.TMP">>, 0, TRUE, TRUE, 0, <<y>>, "plain")}

MCRequests == SaveRequests \cup TreeRequests
MCPaths ==
  LET Leaves == {"A", "B", "~KOS0.TMP"}
  IN  {<<n>> : n \in Leaves \cup {"D", "E", "~KOS1.TMP"}}
      \cup {<<d, n>> : d \in {"D", "E"}, n \in Leaves}
      \cup {<<"D", "E">>} \cup {<<"D", "E", n>> : n \in Leaves}
MCDisk0 == {OneFile, OneFolder, HalfSaved, Nested}

=============================================================================
