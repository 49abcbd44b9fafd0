----------------------------- MODULE ShellTask ------------------------------
(***************************************************************************)
(* The shell task (src/src/runtime/shell.c): a child process in a group of *)
(* its own, waited for without limit or polled against a deadline, sent    *)
(* SIGTERM and, after a grace period, SIGKILL.  The child, the clock and   *)
(* the host's cancel request run beside the task.                          *)
(***************************************************************************)
EXTENDS Integers

CONSTANTS
  RawTimeouts, \* the `timeout:` texts tasks may have: a number and a unit, or absent
  NoTimeout,
  Minute,    \* ticks in a minute
  Longest,   \* the longest timeout that is accepted
  Grace      \* ticks between SIGTERM and SIGKILL

ASSUME ShellAssumption ==
  /\ \A raw \in RawTimeouts : raw.number \in Int
  /\ Minute \in Nat /\ Longest \in Int /\ Grace \in Nat

VARIABLES
  spc,       \* the step of sh_run
  child,     \* the child: none, forked, grouped, running, zombie, reaped
  status,    \* how it ended
  stubborn,  \* the program ignores SIGTERM
  termed,    \* SIGTERM has reached it
  timeout,   \* the configured timeout
  limit,     \* the time the current wait is measured against
  byTimeout, \* killed_by_timeout
  time,
  cancel,    \* the host asked to cancel
  src        \* what the task answered

shellVars == <<spc, child, status, stubborn, termed, timeout, limit, byTimeout, time, cancel, src>>

ShellIdle ==
  /\ spc = "idle" /\ child = "none" /\ status = "none" /\ stubborn = FALSE /\ termed = FALSE
  /\ timeout = NoTimeout /\ limit = 0 /\ byTimeout = FALSE /\ time = 0
  /\ cancel = FALSE /\ src = "none"

\* parse_timeout: seconds unless minutes are asked for, nothing when refused.
ParseTimeout(raw) ==
  LET ticks == raw.number * (IF raw.unit = "m" THEN Minute ELSE 1)
  IN IF raw.unit = "absent" THEN {NoTimeout}
     ELSE IF raw.number < 0 \/ raw.unit \notin {"", "s", "m"} \/ ticks > Longest THEN {}
     ELSE {ticks}

\* sh_init refuses a timeout it cannot read; the task is then never run.
ShellInit ==
  /\ \E raw \in RawTimeouts :
       IF ParseTimeout(raw) = {}
         THEN spc = "returned" /\ src = "invalid" /\ timeout = NoTimeout
         ELSE spc = "fork" /\ src = "none" /\ timeout \in ParseTimeout(raw)
  /\ child = "none" /\ status = "none" /\ stubborn \in BOOLEAN
  /\ termed = FALSE /\ limit = 0 /\ byTimeout = FALSE /\ time = 0 /\ cancel = FALSE

Timed == timeout # NoTimeout
Answer(rc) == spc' = "returned" /\ src' = rc

----------------------------------------------------------------------------
(***************************************************************************)
(* The child.  It joins its own group before it becomes the program; a     *)
(* program that is gone stays a zombie until it is waited for.             *)
(***************************************************************************)
Ends(how) == child' = "zombie" /\ status' = how

ChildSetsGroup ==
  /\ child = "forked" /\ child' = "grouped"
  /\ UNCHANGED <<spc, status, stubborn, termed, timeout, limit, byTimeout, time, cancel, src>>

ChildExecs ==
  /\ child = "grouped"
  /\ \/ child' = "running" /\ UNCHANGED status
     \/ Ends("failed")                      \* execvp failed: exit 127
  /\ UNCHANGED <<spc, stubborn, termed, timeout, limit, byTimeout, time, cancel, src>>

ChildExits ==
  /\ child = "running"
  /\ \E how \in {"ok", "failed", "signal"} : Ends(how)
  /\ UNCHANGED <<spc, stubborn, termed, timeout, limit, byTimeout, time, cancel, src>>

\* SIGTERM ends what does not ignore it, by the signal or by its handler.
ChildObeys ==
  /\ child = "running" /\ termed /\ ~stubborn
  /\ \E how \in {"ok", "failed", "signal"} : Ends(how)
  /\ UNCHANGED <<spc, stubborn, termed, timeout, limit, byTimeout, time, cancel, src>>

----------------------------------------------------------------------------
(***************************************************************************)
(* Signals go to the group: before the child has set it there is none.     *)
(***************************************************************************)
SendTerm ==
  CASE child = "grouped" -> Ends("signal") /\ termed' = TRUE
    [] child = "running" -> termed' = TRUE /\ UNCHANGED <<child, status>>
    [] OTHER -> UNCHANGED <<child, status, termed>>

\* As SendKill would be with the wrong signal.
SendKill_Term ==
  IF child = "grouped" \/ (child = "running" /\ ~stubborn) THEN Ends("signal")
  ELSE UNCHANGED <<child, status>>

SendKill ==
  IF child \in {"grouped", "running"} THEN Ends("signal") ELSE UNCHANGED <<child, status>>

----------------------------------------------------------------------------
(***************************************************************************)
(* sh_run.                                                                 *)
(***************************************************************************)
Fork ==
  /\ spc = "fork"
  /\ \/ Answer("internal") /\ UNCHANGED <<child, limit>>
     \/ /\ child' = "forked" /\ spc' = "wait" /\ UNCHANGED src
        /\ limit' = IF Timed THEN time + timeout ELSE 0
  /\ UNCHANGED <<status, stubborn, termed, timeout, byTimeout, time, cancel>>

\* As Verdict would be if the exit status came before the deadline.
Verdict_StatusFirst == IF status = "ok" THEN "ok" ELSE IF byTimeout THEN "timeout" ELSE "failed"

\* The answer after the child has been reaped.
Verdict == IF byTimeout THEN "timeout" ELSE IF status = "ok" THEN "ok" ELSE "failed"

\* waitpid finds the child gone: any of the waits.
Reap ==
  /\ spc \in {"wait", "grace", "killed", "cancelled"} /\ child = "zombie"
  /\ child' = "reaped"
  /\ Answer(IF spc = "cancelled" THEN "cancelled" ELSE Verdict)
  /\ UNCHANGED <<status, stubborn, termed, timeout, limit, byTimeout, time, cancel>>

\* waitpid reports an error of its own.
WaitFails ==
  /\ spc = "wait"
  /\ Answer("internal")
  /\ UNCHANGED <<child, status, stubborn, termed, timeout, limit, byTimeout, time, cancel>>

\* Only a task with a timeout polls; without one waitpid blocks.
Poll ==
  /\ spc = "wait" /\ Timed /\ child # "zombie"
  /\ spc' = "decide"
  /\ UNCHANGED <<child, status, stubborn, termed, timeout, limit, byTimeout, time, cancel, src>>

Expire ==
  /\ spc = "decide" /\ time >= limit
  /\ SendTerm
  /\ byTimeout' = TRUE /\ limit' = time + Grace /\ spc' = "grace"
  /\ UNCHANGED <<stubborn, timeout, time, cancel, src>>

SeeCancel ==
  /\ spc = "decide" /\ time < limit /\ cancel
  /\ SendTerm
  /\ byTimeout' = FALSE /\ spc' = "cancelled"
  /\ UNCHANGED <<stubborn, timeout, limit, time, cancel, src>>

PollAgain ==
  /\ spc = "decide" /\ time < limit /\ ~cancel
  /\ spc' = "wait"
  /\ UNCHANGED <<child, status, stubborn, termed, timeout, limit, byTimeout, time, cancel, src>>

Escalate ==
  /\ spc = "grace" /\ child # "zombie" /\ time >= limit
  /\ SendKill
  /\ spc' = "killed"
  /\ UNCHANGED <<stubborn, termed, timeout, limit, byTimeout, time, cancel, src>>

----------------------------------------------------------------------------
\* The clock goes on while a limit is ahead, and not before the child has made
\* its group: that takes no second.
Tick ==
  /\ spc \in {"wait", "decide", "grace"} /\ child # "forked" /\ time < limit
  /\ time' = time + 1
  /\ UNCHANGED <<spc, child, status, stubborn, termed, timeout, limit, byTimeout, cancel, src>>

RequestCancel ==
  /\ spc \notin {"idle", "returned"} /\ ~cancel
  /\ cancel' = TRUE
  /\ UNCHANGED <<spc, child, status, stubborn, termed, timeout, limit, byTimeout, time, src>>

Task == Fork \/ Reap \/ Poll \/ Expire \/ SeeCancel \/ PollAgain \/ Escalate
Child == ChildSetsGroup \/ ChildExecs \/ ChildObeys

ShellNext == Task \/ WaitFails \/ Child \/ ChildExits \/ Tick \/ RequestCancel

\* The task and the clock are scheduled; a child sets its group, becomes the
\* program and obeys a signal, but nothing makes it end by itself.
ShellFairness ==
  WF_shellVars(Task) /\ WF_shellVars(Tick) /\ WF_shellVars(ChildSetsGroup)
  /\ WF_shellVars(ChildExecs) /\ WF_shellVars(ChildObeys)
=============================================================================
