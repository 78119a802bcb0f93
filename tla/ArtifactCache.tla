--------------------------- MODULE ArtifactCache ---------------------------
(***************************************************************************)
(* scripts/setup-geyser.sh and scripts/setup-token-2022.sh: fill a cache   *)
(* with one artifact, by download or by building it from source, unless it *)
(* is there already.                                                       *)
(*                                                                         *)
(* Several runs may overlap, and a run may be killed at any point.  A file *)
(* is a name for an inode: a run that writes goes on writing to the inode  *)
(* it opened, whatever becomes of the name.                                *)
(***************************************************************************)
EXTENDS Naturals

CONSTANTS
  Runs,      \* runs of the script, some of them at the same time
  MaxInodes  \* bound on the files ever created

Inodes == 1..MaxInodes

VARIABLES
  how,      \* "download" or "build"; a platform has one of them
  file,     \* the inode of the artifact; 0 if there is none
  tmp,      \* the inode of the temporary name
  content,  \* of each inode: "empty", "part" or "whole"
  opened,   \* the run that truncated each inode last
  created,  \* the inodes created so far
  source,   \* the clone: "absent", "part" or "whole"
  pc,       \* where each run is
  writes,   \* the inode each run writes; 0 for none
  cutOff,   \* the points at which runs were killed, or their writes failed
  overlap   \* two runs were under way at once

fs == <<file, tmp, content, opened, created, source>>
vars == <<how, fs, pc, writes, cutOff, overlap>>

Nobody == "nobody"

Init ==
  /\ how \in {"download", "build"}
  /\ file = 0 /\ tmp = 0 /\ created = 0
  /\ content = [i \in Inodes |-> "empty"]
  /\ opened = [i \in Inodes |-> Nobody]
  /\ source = "absent"
  /\ pc = [r \in Runs |-> "idle"]
  /\ writes = [r \in Runs |-> 0]
  /\ cutOff = {} /\ overlap = FALSE

Under == {r \in Runs : pc[r] \notin {"idle", "ok", "failed"}}

Goto(r, label) == pc' = [pc EXCEPT ![r] = label]
-----------------------------------------------------------------------------
(* The test of -s. *)
Warm == file # 0 /\ content[file] # "empty"

Check(r) ==
  /\ pc[r] = "idle"
  /\ Goto(r, IF Warm THEN "ok" ELSE IF how = "download" THEN "request" ELSE "clone")
  /\ overlap' = (overlap \/ Under # {})
  /\ UNCHANGED <<how, fs, writes, cutOff>>

(* A name is opened for writing: its inode is truncated, or a new one made. *)
Open(r, inode) ==
  LET i == IF inode = 0 THEN created + 1 ELSE inode
  IN /\ i \in Inodes
     /\ created' = IF inode = 0 THEN i ELSE created
     /\ content' = [content EXCEPT ![i] = "empty"]
     /\ opened' = [opened EXCEPT ![i] = r]
     /\ writes' = [writes EXCEPT ![r] = i]

(* Mutant: the download goes straight to the name of the artifact. *)
RequestInPlace(r) ==
  /\ pc[r] = "request"
  /\ \/ Open(r, file) /\ file' = writes'[r] /\ Goto(r, "write")
     \/ Goto(r, "failed") /\ UNCHANGED <<file, content, opened, created, writes>>
  /\ UNCHANGED <<how, tmp, source, cutOff, overlap>>

(* curl writes to the temporary name; -f makes an HTTP error a failure. *)
Request(r) ==
  /\ pc[r] = "request"
  /\ \/ Open(r, tmp) /\ tmp' = writes'[r] /\ Goto(r, "write")
     \/ Goto(r, "failed") /\ UNCHANGED <<tmp, content, opened, created, writes>>
  /\ UNCHANGED <<how, file, source, cutOff, overlap>>

(* Bytes arrive.  What a run wrote before another truncated the file is gone. *)
WriteSome(r) ==
  /\ pc[r] \in {"write", "copying"}
  /\ content[writes[r]] = "empty"
  /\ content' = [content EXCEPT ![writes[r]] = "part"]
  /\ UNCHANGED <<how, file, tmp, opened, created, source, pc, writes, cutOff, overlap>>

WriteLast(r) ==
  /\ pc[r] \in {"write", "copying"}
  /\ content' = [content EXCEPT ![writes[r]] =
       IF opened[writes[r]] = r THEN "whole" ELSE IF @ = "empty" THEN "part" ELSE @]
  /\ Goto(r, IF pc[r] = "write" THEN "move" ELSE "ok")
  /\ UNCHANGED <<how, file, tmp, opened, created, source, writes, cutOff, overlap>>

(* The connection breaks, or the disk is full: the script ends there. *)
WriteFails(r) ==
  /\ pc[r] \in {"write", "copying"}
  /\ Goto(r, "failed")
  /\ cutOff' = cutOff \cup {pc[r]}
  /\ UNCHANGED <<how, fs, writes, overlap>>

(* mv fails when another run has moved the file away. *)
Move(r) ==
  /\ pc[r] = "move"
  /\ IF tmp = 0 THEN Goto(r, "failed") /\ UNCHANGED <<file, tmp>>
                ELSE Goto(r, "ok") /\ file' = tmp /\ tmp' = 0
  /\ UNCHANGED <<how, content, opened, created, source, writes, cutOff, overlap>>
-----------------------------------------------------------------------------
(* A directory that is there is a clone.  git leaves none when it fails. *)
Clone(r) ==
  /\ pc[r] = "clone"
  /\ IF source # "absent" THEN Goto(r, "build") /\ UNCHANGED source
     ELSE Goto(r, "cloning") /\ source' = "part"
  /\ UNCHANGED <<how, file, tmp, content, opened, created, writes, cutOff, overlap>>

CloneEnds(r) ==
  /\ pc[r] = "cloning"
  /\ \/ Goto(r, "build") /\ source' = "whole"
     \/ Goto(r, "failed") /\ source' = "absent"
  /\ UNCHANGED <<how, file, tmp, content, opened, created, writes, cutOff, overlap>>

(* cargo cannot build half a clone.  cp then writes to the name itself. *)
Build(r) ==
  /\ pc[r] = "build"
  /\ \/ /\ source = "whole"
        /\ Open(r, file)
        /\ file' = writes'[r]
        /\ Goto(r, "copying")
     \/ Goto(r, "failed") /\ UNCHANGED <<file, content, opened, created, writes>>
  /\ UNCHANGED <<how, tmp, source, cutOff, overlap>>

Kill(r) ==
  /\ r \in Under
  /\ Goto(r, "failed")
  /\ cutOff' = cutOff \cup {pc[r]}
  /\ UNCHANGED <<how, fs, writes, overlap>>

RunStep(r) ==
  \/ Check(r) \/ Request(r) \/ WriteSome(r) \/ WriteLast(r) \/ WriteFails(r) \/ Move(r)
  \/ Clone(r) \/ CloneEnds(r) \/ Build(r)

Next == \E r \in Runs : RunStep(r) \/ Kill(r)

Spec == Init /\ [][Next]_vars
=============================================================================
