------------------------------ MODULE LocalIO -------------------------------
(***************************************************************************)
(* What one machine does by itself: a task stage runs a shell command or   *)
(* an operation on a file, a text file is converted, rows are written to a *)
(* file and read back.  Each run is one of them; RunStages takes the       *)
(* answer of a task from here as given.                                    *)
(***************************************************************************)
EXTENDS ShellTask, FileTasks, TextCodec, RowFiles

localVars == <<shellVars, fileVars, codecVars, rowVars>>

Init ==
  \/ ShellInit /\ FileIdle /\ CodecIdle /\ RowsIdle
  \/ ShellIdle /\ FileInit /\ CodecIdle /\ RowsIdle
  \/ ShellIdle /\ FileIdle /\ CodecInit /\ RowsIdle
  \/ ShellIdle /\ FileIdle /\ CodecIdle /\ RowsInit

\* The task or the file is finished, or the process has ended.
Stopped ==
  /\ \/ spc = "returned" \/ fpc \in {"returned", "crashed"}
     \/ tpc \in {"read", "written", "cut", "failed"} \/ rpc = "done"
  /\ UNCHANGED localVars

Next ==
  \/ ShellNext /\ UNCHANGED <<fileVars, codecVars, rowVars>>
  \/ FileNext /\ UNCHANGED <<shellVars, codecVars, rowVars>>
  \/ CodecNext /\ UNCHANGED <<shellVars, fileVars, rowVars>>
  \/ RowsNext /\ UNCHANGED <<shellVars, fileVars, codecVars>>
  \/ Stopped

Spec == Init /\ [][Next]_localVars /\ ShellFairness

----------------------------------------------------------------------------
\* The answer of a shell task is about its child: success only for a child that
\* was left to end by itself with status 0 and has been reaped, a timeout only
\* after the deadline, a cancellation only after a request, and no answer while
\* the child still runs (unless waiting itself failed).
ShellAnswersForTheChild ==
  /\ src = "ok" => status = "ok" /\ ~termed
  /\ src = "failed" => status # "ok"
  /\ src = "timeout" => time >= timeout
  /\ src = "cancelled" => cancel
  /\ src \in {"ok", "failed", "timeout", "cancelled"} => child = "reaped"

\* A task with a timeout ends, even if its program ignores SIGTERM and never
\* ends by itself, unless a cancel request comes.
TimeoutEnds == Timed /\ []~cancel => <>(spc = "returned")

\* The destination is never left in part: after success it holds the whole
\* source or response (a copy of a file onto itself and a lost last flush
\* apart), after a failure it is as before, whole, or gone.  A move never loses
\* the file: at every moment, and wherever the process ends, the whole source is
\* under one of the two names.
FilesAreWhole ==
  /\ fpc = "returned" =>
       /\ frc = "ok" /\ (task = "move" \/ (task = "copy" /\ infd # outfd)
                          \/ (task \in {"get", "post"} /\ ~flushLost)) => Content("dst") = Body
       /\ frc = "ok" /\ task = "copy" /\ infd # outfd => Content("src") = Body
       /\ frc = "io" => Content("dst") \in {NoFile, Old, Body}
  /\ task = "move" /\ had => Body \in {Content("src"), Content("dst")}
=============================================================================
