----------------------------- MODULE FileTasks ------------------------------
(***************************************************************************)
(* The tasks whose effect is a file: file.copy, file.move and file.delete  *)
(* (src/src/runtime/file_ops.c), http.get and http.post (http_ops.c).  A   *)
(* name leads to an inode and an inode holds content, so that one file can *)
(* have two names.  Any call may fail, and the process may end anywhere.   *)
(***************************************************************************)
EXTENDS Naturals, Sequences, SequencesExt

CONSTANTS
  Body,     \* what the source holds, or the server sends
  Old,      \* what the destination held before
  Chunk,    \* the most one read returns
  NoFile    \* a name that leads nowhere

ASSUME FileAssumption ==
  /\ Body \in Seq(Range(Body)) /\ Old \in Seq(Range(Old))
  /\ Chunk \in Nat \ {0}
  /\ NoFile \notin {1, 2}

VARIABLES
  fpc,      \* the step of the task
  task,     \* its operation
  dir,      \* name -> inode
  inode,    \* inode -> content
  crossing, \* source and destination are on different file systems
  infd,     \* the inode being read
  outfd,    \* the inode being written
  offset,   \* how much was read, or received
  buffer,   \* read or received and not yet in the file
  had,      \* the source existed at the start
  flushLost,\* the last flush of a response failed
  frc       \* what the task answered

fileVars == <<fpc, task, dir, inode, crossing, infd, outfd, offset, buffer, had, flushLost, frc>>

Operations == {"copy", "move", "delete", "get", "post"}
Content(name) == IF dir[name] = NoFile THEN NoFile ELSE inode[dir[name]]

FileIdle ==
  /\ fpc = "idle" /\ task = "none" /\ dir = [n \in {"src", "dst"} |-> NoFile]
  /\ inode = [i \in {1, 2} |-> << >>] /\ crossing = FALSE
  /\ infd = NoFile /\ outfd = NoFile /\ offset = 0 /\ buffer = << >>
  /\ had = FALSE /\ flushLost = FALSE /\ frc = "none"

\* The source may be missing; the destination may be missing, another file, or
\* the source under another name.
FileInit ==
  /\ task \in Operations
  /\ dir \in [{"src", "dst"} -> {1, 2, NoFile}] /\ dir["src"] # 2
  /\ dir["dst"] = 1 => dir["src"] = 1
  /\ inode = [i \in {1, 2} |-> IF i = 1 THEN Body ELSE Old]
  /\ crossing \in (IF dir["dst"] = 1 THEN {FALSE} ELSE BOOLEAN)
  /\ fpc = CASE task = "copy" -> "open source" [] task = "move" -> "rename"
             [] task = "delete" -> "delete" [] OTHER -> "open target"
  /\ infd = NoFile /\ outfd = NoFile /\ offset = 0 /\ buffer = << >>
  /\ had = (dir["src"] # NoFile) /\ flushLost = FALSE /\ frc = "none"

Return(rc) == fpc' = "returned" /\ frc' = rc
Unlink(name) == dir' = [dir EXCEPT ![name] = NoFile]
\* As FailAndRemove would be if a move went on after its copy failed.
FailAndRemove_MoveGoesOn ==
  /\ dir' = [n \in DOMAIN dir |-> IF n = "dst" \/ task = "move" THEN NoFile ELSE dir[n]]
  /\ Return("io")

\* The file that is removed on a failure is whatever the name leads to then.
FailAndRemove == Unlink("dst") /\ Return("io")

----------------------------------------------------------------------------
(***************************************************************************)
(* file.copy, and the second half of a move across file systems.           *)
(***************************************************************************)
OpenSource ==
  /\ fpc = "open source"
  /\ \/ Return("io") /\ UNCHANGED infd      \* missing, unreadable, or fstat fails
     \/ /\ dir["src"] # NoFile
        /\ infd' = dir["src"] /\ fpc' = "open target" /\ UNCHANGED frc
  /\ UNCHANGED <<task, dir, inode, crossing, outfd, offset, buffer, had, flushLost>>

\* The destination is truncated as soon as it is open.
OpenTarget ==
  /\ fpc = "open target"
  /\ \/ Return("io") /\ UNCHANGED <<dir, inode, outfd>>
     \/ LET i == IF dir["dst"] = NoFile THEN 2 ELSE dir["dst"]
        IN /\ dir' = [dir EXCEPT !["dst"] = i]
           /\ inode' = [inode EXCEPT ![i] = << >>]
           /\ outfd' = i
           /\ fpc' = IF task \in {"get", "post"} THEN "request" ELSE "read"
           /\ UNCHANGED frc
  /\ UNCHANGED <<task, crossing, infd, offset, buffer, had, flushLost>>

ReadChunk ==
  /\ fpc = "read"
  /\ LET rest == SubSeq(inode[infd], offset + 1, Len(inode[infd]))
         n == IF Len(rest) < Chunk THEN Len(rest) ELSE Chunk
     IN \/ FailAndRemove /\ UNCHANGED <<buffer, offset>>
        \/ /\ n = 0 /\ fpc' = "close" /\ UNCHANGED <<dir, buffer, offset, frc>>
        \/ /\ n > 0 /\ buffer' = SubSeq(rest, 1, n) /\ offset' = offset + n
           /\ fpc' = "write" /\ UNCHANGED <<dir, frc>>
  /\ UNCHANGED <<task, inode, crossing, infd, outfd, had, flushLost>>

\* write(2) may take only a part.
WriteChunk ==
  /\ fpc = "write"
  /\ \/ FailAndRemove /\ UNCHANGED <<inode, buffer>>
     \/ \E w \in 1..Len(buffer) :
          /\ inode' = [inode EXCEPT ![outfd] = @ \o SubSeq(buffer, 1, w)]
          /\ buffer' = SubSeq(buffer, w + 1, Len(buffer))
          /\ fpc' = IF w = Len(buffer) THEN "read" ELSE "write"
          /\ UNCHANGED <<dir, frc>>
  /\ UNCHANGED <<task, crossing, infd, outfd, offset, had, flushLost>>

CloseTarget ==
  /\ fpc = "close"
  /\ \/ FailAndRemove
     \/ /\ IF task = "move" THEN fpc' = "unlink source" /\ UNCHANGED frc ELSE Return("ok")
        /\ UNCHANGED dir
  /\ UNCHANGED <<task, inode, crossing, infd, outfd, offset, buffer, had, flushLost>>

----------------------------------------------------------------------------
(***************************************************************************)
(* file.move and file.delete.                                              *)
(***************************************************************************)
\* rename(2): nothing happens when both names are one file.
Rename ==
  /\ fpc = "rename"
  /\ \/ Return("io") /\ UNCHANGED dir
     \/ /\ dir["src"] # NoFile /\ ~crossing /\ Return("ok")
        /\ dir' = IF dir["src"] = dir["dst"] THEN dir
                  ELSE [dir EXCEPT !["dst"] = dir["src"], !["src"] = NoFile]
     \/ /\ dir["src"] # NoFile /\ crossing
        /\ fpc' = "open source" /\ UNCHANGED <<dir, frc>>
  /\ UNCHANGED <<task, inode, crossing, infd, outfd, offset, buffer, had, flushLost>>

UnlinkSource ==
  /\ fpc = "unlink source"
  /\ \/ Return("io") /\ UNCHANGED dir
     \/ Unlink("src") /\ Return("ok")
  /\ UNCHANGED <<task, inode, crossing, infd, outfd, offset, buffer, had, flushLost>>

Delete ==
  /\ fpc = "delete"
  /\ \/ Return("io") /\ UNCHANGED dir
     \/ dir["src"] # NoFile /\ Unlink("src") /\ Return("ok")
  /\ UNCHANGED <<task, inode, crossing, infd, outfd, offset, buffer, had, flushLost>>

----------------------------------------------------------------------------
(***************************************************************************)
(* http.get and http.post: the body passes through the buffer of a stdio   *)
(* stream, which libcurl fills and which is written when it likes.         *)
(***************************************************************************)
\* Headers and, for a post, the file with the body.
Request ==
  /\ fpc = "request"
  /\ \/ FailAndRemove
     \/ fpc' = "transfer" /\ UNCHANGED <<dir, frc>>
  /\ UNCHANGED <<task, inode, crossing, infd, outfd, offset, buffer, had, flushLost>>

\* write_cb takes the next part of the response.
Receive ==
  /\ fpc = "transfer" /\ offset < Len(Body)
  /\ buffer' = Append(buffer, Body[offset + 1]) /\ offset' = offset + 1
  /\ UNCHANGED <<fpc, task, dir, inode, crossing, infd, outfd, had, flushLost, frc>>

StreamFlushes ==
  /\ fpc = "transfer" /\ buffer # << >>
  /\ inode' = [inode EXCEPT ![outfd] = @ \o buffer] /\ buffer' = << >>
  /\ UNCHANGED <<fpc, task, dir, crossing, infd, outfd, offset, had, flushLost, frc>>

\* The transfer breaks off, a write failed under it, or the status is not 2xx.
TransferFails ==
  /\ fpc = "transfer"
  /\ FailAndRemove
  /\ UNCHANGED <<task, inode, crossing, infd, outfd, offset, buffer, had, flushLost>>

\* The whole body has come with a good status.  What the stream still holds is
\* written by fclose, whose result is not looked at.
TransferDone ==
  /\ fpc = "transfer" /\ offset = Len(Body)
  /\ \/ inode' = [inode EXCEPT ![outfd] = @ \o buffer] /\ UNCHANGED flushLost
     \/ buffer # << >> /\ flushLost' = TRUE /\ UNCHANGED inode
  /\ buffer' = << >>
  /\ Return("ok")
  /\ UNCHANGED <<task, dir, crossing, infd, outfd, offset, had>>

----------------------------------------------------------------------------
\* The process ends where it is.
Crash ==
  /\ fpc \notin {"idle", "returned", "crashed"}
  /\ fpc' = "crashed"
  /\ UNCHANGED <<task, dir, inode, crossing, infd, outfd, offset, buffer, had, flushLost, frc>>

FileNext ==
  \/ OpenSource \/ OpenTarget \/ ReadChunk \/ WriteChunk \/ CloseTarget
  \/ Rename \/ UnlinkSource \/ Delete
  \/ Request \/ Receive \/ StreamFlushes \/ TransferFails \/ TransferDone
  \/ Crash
=============================================================================
