----------------------------- MODULE FileStore -----------------------------
(***************************************************************************)
(* What the C: writer promises: a store of files and folders by path, in   *)
(* which the request served happens whole if its answer is "ok" and not at *)
(* all if it is an error, and a power cut in the middle of it leaves the   *)
(* store before it or after it, with two windows: a save cut between the   *)
(* deletion of the old file's entry and the naming of the new one leaves   *)
(* the new bytes under the temporary name (docs/KOS_GEMDOS_WRITES.md       *)
(* section 5), and a move between folders that is cut leaves the file (or  *)
(* folder) under both names (which that section does not say).             *)
(*                                                                         *)
(* Kfs, the sector-level writer, is shown to implement this module.        *)
(***************************************************************************)
EXTENDS Naturals, Sequences, SequencesExt

CONSTANTS
  Paths,      \* the paths looked at: sequences of names, from C:\ down
  Requests,   \* the requests a cart may send
  TempName,   \* the temporary file's name, by slot
  Handles,    \* the handles a cart has
  DataMax,    \* the most data a request carries
  MaxNames    \* names a path may have (9)

VARIABLES
  files,      \* what each path names
  served,     \* the request in service, or cut, and its answer to come
  powered     \* FALSE from a cut to the repair

vars == <<files, served, powered>>

None == [kind |-> "none"]
FileNode(ro, data) == [kind |-> "file", ro |-> ro, data |-> data]

At(p) == files[p]
FolderAt(p) == p = << >> \/ (p \in Paths /\ At(p).kind = "dir")
Parent(p) == Front(p)
ReadOnly(attr) == attr = "readonly"

-----------------------------------------------------------------------------
\* A save, in chunks, through a temporary file beside the target.

TempPath(q) == Append(Parent(q.path), TempName[q.slot])

\* `data` laid over `old` at `off`; it grows if it must.
Overlay(old, off, data) ==
  LET end == off + Len(data)
  IN  [j \in 1 .. (IF end > Len(old) THEN end ELSE Len(old)) |->
         IF j \in (off + 1) .. end THEN data[j - off] ELSE old[j]]

StagedBefore(q) == IF q.first THEN << >> ELSE At(TempPath(q)).data
Staged(q)       == Overlay(StagedBefore(q), q.off, q.data)

\* The temporary file may be written beside the target.
Stageable(q) ==
  /\ FolderAt(Parent(q.path))
  /\ q.slot \in Handles /\ Len(q.data) <= DataMax
  /\ \/ At(q.path) = None
     \/ At(q.path).kind = "file" /\ ~At(q.path).ro

WriteAllowed(q) ==
  /\ Stageable(q)
  /\ q.first \/ At(TempPath(q)) # None
  /\ q.off <= Len(StagedBefore(q))

AfterWrite(q) ==
  IF q.last
    THEN [files EXCEPT ![TempPath(q)] = None,
                       ![q.path] = FileNode(ReadOnly(q.attr), Staged(q))]
    ELSE [files EXCEPT ![TempPath(q)] = FileNode(FALSE, Staged(q))]

\* Between the old entry's deletion and the rename.
BetweenWrite(q) ==
  [files EXCEPT ![TempPath(q)] = FileNode(FALSE, Staged(q)), ![q.path] = None]

AbortAllowed(q) == FolderAt(Parent(q.path)) /\ q.slot \in Handles
AfterAbort(q)   == [files EXCEPT ![TempPath(q)] = None]

-----------------------------------------------------------------------------
\* Files and folders.

DeleteAllowed(q) == /\ FolderAt(Parent(q.path))
                    /\ At(q.path).kind = "file" /\ ~At(q.path).ro
RmdirAllowed(q)  == /\ FolderAt(Parent(q.path))
                    /\ At(q.path).kind = "dir"
                    /\ \A p \in Paths : Len(p) > 1 /\ Parent(p) = q.path => At(p) = None
AfterDelete(q)   == [files EXCEPT ![q.path] = None]

MkdirAllowed(q) == /\ FolderAt(Parent(q.path))
                   /\ Len(q.path) < MaxNames
                   /\ At(q.path) = None
AfterMkdir(q)   == [files EXCEPT ![q.path] = [kind |-> "dir", ro |-> FALSE]]

SetattrAllowed(q) == FolderAt(Parent(q.path)) /\ At(q.path) # None /\ q.attr # "label"
AfterSetattr(q)   == [files EXCEPT ![q.path].ro = ReadOnly(q.attr)]

RenameAllowed(q) ==
  /\ FolderAt(Parent(q.path)) /\ FolderAt(Parent(q.path2))
  /\ At(q.path) # None /\ At(q.path2) = None
  /\ ~(At(q.path).kind = "dir" /\ IsPrefix(q.path, Parent(q.path2)))

\* What p would name with the tree at q.path also hung at q.path2.
Copied(q, p) ==
  LET from == q.path \o SubSeq(p, Len(q.path2) + 1, Len(p))
  IN  IF ~IsPrefix(q.path2, p) THEN At(p)
      ELSE IF from \in Paths THEN At(from) ELSE None
BothNames(q)   == [p \in Paths |-> Copied(q, p)]
AfterRename(q) ==
  [p \in Paths |-> IF IsPrefix(q.path, p) THEN None ELSE Copied(q, p)]

-----------------------------------------------------------------------------
\* A request and its answer.

Allowed(q) == CASE q.op = "write"   -> WriteAllowed(q)
                [] q.op = "abort"   -> AbortAllowed(q)
                [] q.op = "delete"  -> DeleteAllowed(q)
                [] q.op = "rename"  -> RenameAllowed(q)
                [] q.op = "mkdir"   -> MkdirAllowed(q)
                [] q.op = "rmdir"   -> RmdirAllowed(q)
                [] q.op = "setattr" -> SetattrAllowed(q)

After(q) == CASE q.op = "write"   -> AfterWrite(q)
              [] q.op = "abort"   -> AfterAbort(q)
              [] q.op = "delete"  -> AfterDelete(q)
              [] q.op = "rename"  -> AfterRename(q)
              [] q.op = "mkdir"   -> AfterMkdir(q)
              [] q.op = "rmdir"   -> AfterDelete(q)
              [] q.op = "setattr" -> AfterSetattr(q)

\* For want of space, an allowed request may be refused.
NeedsSpace(q) == q.op \in {"write", "mkdir", "rename"}
NoSpace == {"EACCDN", "EWRITF"}
Errors  == NoSpace \cup {"EFILNF", "EPTHNF", "EIHNDL", "ERANGE"}
Answers(q) ==
  IF ~Allowed(q) THEN Errors ELSE {"ok"} \cup (IF NeedsSpace(q) THEN NoSpace ELSE {})

\* What an error leaves: a save's first request has deleted the temporary file
\* and, if there was room for its entry, made it anew.
AfterError(q, res) ==
  IF q.op = "write" /\ q.first /\ Stageable(q)
    THEN [files EXCEPT ![TempPath(q)] = IF res = "EACCDN" THEN None ELSE FileNode(FALSE, << >>)]
    ELSE files

AfterAnswer(q, res) == IF res = "ok" THEN After(q) ELSE AfterError(q, res)

\* What a cut may leave of it besides.
MidWrite(q) == q.op = "write" /\ Stageable(q) /\ \A p \in Paths \ {TempPath(q)} : files'[p] = files[p]
MidCommit(q, res) == q.op = "write" /\ q.last /\ res = "ok" /\ files' = BetweenWrite(q)
MidMove(q, res) ==
  q.op = "rename" /\ Parent(q.path) # Parent(q.path2) /\ res = "ok" /\ files' = BothNames(q)

-----------------------------------------------------------------------------
Nobody == [q |-> [op |-> "none"], res |-> "none"]

\* What has a name is in a folder.
Init ==
  /\ \A p \in Paths : At(p) # None => FolderAt(Parent(p))
  /\ served = Nobody
  /\ powered = TRUE

Ask(q) ==
  /\ powered /\ served = Nobody
  /\ \E res \in Answers(q) : served' = [q |-> q, res |-> res]
  /\ UNCHANGED <<files, powered>>

Reply ==
  /\ powered /\ served # Nobody
  /\ files' = AfterAnswer(served.q, served.res)
  /\ served' = Nobody
  /\ UNCHANGED powered

Cut ==
  /\ powered /\ served # Nobody
  /\ \/ files' = files
     \/ files' = AfterAnswer(served.q, served.res)
     \/ MidWrite(served.q)
     \/ MidCommit(served.q, served.res)
     \/ MidMove(served.q, served.res)
  /\ powered' = FALSE
  /\ UNCHANGED served

Repair ==
  /\ ~powered
  /\ powered' = TRUE
  /\ served' = Nobody
  /\ UNCHANGED files

Next == (\E q \in Requests : Ask(q)) \/ Reply \/ Cut \/ Repair

Spec == Init /\ [][Next]_vars

=============================================================================
