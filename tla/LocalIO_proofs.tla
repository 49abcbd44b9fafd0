--------------------------- MODULE LocalIO_proofs ----------------------------
(***************************************************************************)
(* The answers of the shell task and the files of the file and http tasks, *)
(* for any timeouts, periods of grace and chunk size, and for sources and  *)
(* responses of any length.                                                *)
(***************************************************************************)
EXTENDS LocalIO, SequenceTheorems, TLAPS

------------------------------------------------------------------------------
(* The inductive invariant of the shell task                                *)

ShellTypes ==
  /\ time \in Nat /\ limit \in Int
  /\ Timed => timeout \in Int

(* The deadline is the limit while the task polls; who is past it has been  *)
(* timed out, and only who polls can be.                                    *)
DeadlineInv ==
  /\ spc \in {"wait", "decide"} /\ Timed => limit >= timeout
  /\ spc = "decide" => Timed
  /\ spc \in {"grace", "killed"} => byTimeout
  /\ byTimeout => Timed /\ time >= timeout
  /\ spc = "cancelled" => cancel

(* Until the task has decided to end the child nobody has signalled it.     *)
SignalInv ==
  spc \in {"idle", "fork", "wait", "decide"} => ~termed /\ ~byTimeout

AnswerInv ==
  /\ src # "none" => spc = "returned"
  /\ src = "timeout" => byTimeout

ShellInv == ShellTypes /\ DeadlineInv /\ SignalInv /\ AnswerInv /\ ShellAnswersForTheChild

------------------------------------------------------------------------------
(* The inductive invariant of the file tasks                                *)

Bytes == Range(Body) \cup Range(Old)
Names == {"src", "dst"}

FileTypes ==
  /\ dir \in [Names -> {1, 2, NoFile}]
  /\ inode \in [{1, 2} -> Seq(Bytes)]
  /\ offset \in Nat /\ buffer \in Seq(Bytes)

\* Which operations come through which steps.
TaskInv ==
  /\ fpc \in {"open source", "read", "write", "close"} => task \in {"copy", "move"}
  /\ fpc = "open target" => task \in Operations \ {"delete"}
  /\ fpc \in {"rename", "unlink source"} => task = "move"
  /\ fpc = "delete" => task = "delete"
  /\ fpc \in {"request", "transfer"} => task \in {"get", "post"}
  /\ fpc \notin {"returned", "crashed"} => frc = "none"

(* Until the target is open nothing has been touched; a move gets there     *)
(* only if the names are on different file systems.                         *)
UntouchedInv ==
  /\ fpc \in {"rename", "delete", "open source", "open target"} =>
       /\ inode[1] = Body /\ inode[2] = Old /\ offset = 0 /\ buffer = << >>
       /\ ~flushLost
       /\ dir["src"] \in {1, NoFile}
       /\ dir["dst"] = 1 => dir["src"] = 1 /\ ~crossing
  /\ fpc \in {"open source", "open target"} /\ task = "move" => crossing
  /\ fpc = "open target" /\ task \in {"copy", "move"} => infd = 1 /\ dir["src"] = 1

\* What is in the file b, with what is in the buffer, is what was read so far.
Holds(b) == offset <= Len(Body) /\ inode[b] \o buffer = SubSeq(Body, 1, offset)

(* While a file is copied the source is whole and the target its beginning; *)
(* a file copied onto itself is empty.                                      *)
CopyInv ==
  fpc \in {"read", "write", "close", "unlink source"} =>
    /\ infd = 1 /\ dir["src"] = 1 /\ dir["dst"] = outfd /\ outfd \in {1, 2}
    /\ task = "move" => outfd = 2
    /\ fpc # "write" => buffer = << >>
    /\ outfd = 2 => /\ inode[1] = Body /\ Holds(2)
                    /\ fpc \in {"close", "unlink source"} => offset = Len(Body)
    /\ outfd = 1 => inode[1] = << >> /\ fpc # "write"

\* While a response is received the target and the buffer hold its beginning.
TransferInv ==
  fpc \in {"request", "transfer"} =>
    /\ dir["dst"] = outfd /\ outfd \in {1, 2} /\ Holds(outfd) /\ ~flushLost

MoveInv == task = "move" /\ had => Body \in {Content("src"), Content("dst")}

DoneInv ==
  fpc = "returned" =>
    /\ frc = "ok" /\ (task = "move" \/ (task = "copy" /\ infd # outfd)
                       \/ (task \in {"get", "post"} /\ ~flushLost)) => Content("dst") = Body
    /\ frc = "ok" /\ task = "copy" /\ infd # outfd => Content("src") = Body
    /\ frc = "io" => Content("dst") \in {NoFile, Old, Body}

FileInv == FileTypes /\ TaskInv /\ UntouchedInv /\ CopyInv /\ TransferInv /\ MoveInv /\ DoneInv

IInv == ShellInv /\ FileInv

------------------------------------------------------------------------------
(* The shell task                                                           *)

(* A timeout that is read is a number of ticks.                             *)
LEMMA TimeoutIsATime ==
  ASSUME NEW r \in RawTimeouts, NEW t \in ParseTimeout(r), t # NoTimeout
  PROVE  t \in Int
<1>1. r.number * 1 \in Int BY ShellAssumption
<1>2. r.number * Minute \in Int BY ShellAssumption, SMT
<1> DEFINE ticks == r.number * (IF r.unit = "m" THEN Minute ELSE 1)
<1>3. ticks \in Int BY <1>1, <1>2
<1>4. t = ticks BY Zenon DEF ParseTimeout
<1> QED BY <1>3, <1>4

LEMMA ShellStarts == ShellInit \/ ShellIdle => ShellInv
<1>1. ASSUME ShellInit PROVE Timed => timeout \in Int
  <2> SUFFICES ASSUME Timed PROVE timeout \in Int OBVIOUS
  <2>1. PICK r \in RawTimeouts :
          IF ParseTimeout(r) = {} THEN timeout = NoTimeout ELSE timeout \in ParseTimeout(r)
    BY <1>1, Zenon DEF ShellInit
  <2>2. CASE ParseTimeout(r) = {} BY <2>1, <2>2 DEF Timed
  <2>3. CASE ParseTimeout(r) # {}
    <3>1. timeout \in ParseTimeout(r) /\ timeout # NoTimeout BY <2>1, <2>3 DEF Timed
    <3> QED BY <3>1, TimeoutIsATime
  <2> QED BY <2>2, <2>3
<1>2. ASSUME ShellInit PROVE ShellInv
  <2>1. \/ spc = "returned" /\ src = "invalid"
        \/ spc = "fork" /\ src = "none"
    BY <1>2, Zenon DEF ShellInit
  <2>2. /\ time = 0 /\ limit = 0 /\ termed = FALSE /\ byTimeout = FALSE /\ cancel = FALSE
    BY <1>2, Zenon DEF ShellInit
  <2> QED
    BY <1>1, <1>2, <2>1, <2>2 DEF ShellInv, ShellTypes, DeadlineInv, SignalInv, AnswerInv,
                                      ShellAnswersForTheChild
<1>3. ASSUME ShellIdle PROVE ShellInv
  BY <1>3 DEF ShellIdle, ShellInv, ShellTypes, DeadlineInv, SignalInv, AnswerInv,
              ShellAnswersForTheChild, Timed
<1> QED BY <1>2, <1>3

(* A step that leaves the task where it is and only lets the child, the     *)
(* clock or the host go on.                                                 *)
Beside ==
  /\ UNCHANGED <<spc, termed, timeout, limit, byTimeout, src>>
  /\ time' \in Nat /\ time' >= time /\ (cancel => cancel')
  /\ child = "reaped" => UNCHANGED <<child, status>>

LEMMA BesideKeeps == ShellInv /\ Beside => ShellInv'
<1> SUFFICES ASSUME ShellInv, Beside PROVE ShellInv' OBVIOUS
<1> USE DEF ShellInv, Beside
<1>1. ShellTypes' BY DEF ShellTypes, Timed
<1>2. DeadlineInv' BY DEF ShellTypes, DeadlineInv, Timed
<1>3. SignalInv' /\ AnswerInv' BY DEF SignalInv, AnswerInv
<1>4. ShellAnswersForTheChild'
  BY DEF ShellTypes, DeadlineInv, ShellAnswersForTheChild, AnswerInv, Timed
<1> QED BY <1>1, <1>2, <1>3, <1>4

LEMMA ShellKeeps == ShellInv /\ (ShellNext \/ UNCHANGED shellVars) => ShellInv'
<1> SUFFICES ASSUME ShellInv, ShellNext \/ UNCHANGED shellVars PROVE ShellInv'
  OBVIOUS
<1>0. ShellTypes /\ DeadlineInv /\ SignalInv /\ AnswerInv /\ ShellAnswersForTheChild
  BY DEF ShellInv
<1>1. CASE ChildSetsGroup \/ ChildExecs \/ ChildExits \/ ChildObeys
  <2>1. Beside
    BY <1>0, <1>1 DEF ChildSetsGroup, ChildExecs, ChildExits, ChildObeys, Beside, Ends, ShellTypes
  <2> QED BY <2>1, BesideKeeps
<1>2. CASE Tick \/ RequestCancel
  <2>1. Beside BY <1>0, <1>2 DEF Tick, RequestCancel, Beside, ShellTypes
  <2> QED BY <2>1, BesideKeeps
<1>3. CASE Fork
  <2>1. ShellTypes' BY <1>0, <1>3 DEF Fork, Answer, ShellTypes, Timed
  <2>2. DeadlineInv'
    BY <1>0, <1>3 DEF Fork, Answer, ShellTypes, DeadlineInv, SignalInv, Timed
  <2>3. SignalInv' /\ AnswerInv'
    BY <1>0, <1>3 DEF Fork, Answer, SignalInv, AnswerInv
  <2>4. ShellAnswersForTheChild'
    BY <1>0, <1>3 DEF Fork, Answer, AnswerInv, ShellAnswersForTheChild
  <2> QED BY <2>1, <2>2, <2>3, <2>4 DEF ShellInv
<1>4. CASE Reap
  <2>0. spc \in {"grace", "killed", "wait", "cancelled"} BY <1>4 DEF Reap
  <2>1. ShellTypes' BY <1>0, <1>4 DEF Reap, ShellTypes, Timed
  <2>2. DeadlineInv' BY <1>0, <1>4 DEF Reap, Answer, ShellTypes, DeadlineInv, Timed
  <2>3. SignalInv' /\ AnswerInv'
    <3>1. src' = "timeout" => byTimeout
      BY <1>0, <1>4 DEF Reap, Answer, Verdict, SignalInv, AnswerInv
    <3> QED BY <3>1, <1>4 DEF Reap, Answer, SignalInv, AnswerInv
  <2>4. CASE spc = "cancelled"
    BY <1>0, <1>4, <2>1, <2>2, <2>3, <2>4
    DEF ShellInv, Reap, Answer, DeadlineInv, ShellAnswersForTheChild
  <2>5. CASE spc \in {"grace", "killed"}
    BY <1>0, <1>4, <2>1, <2>2, <2>3, <2>5
    DEF ShellInv, Reap, Answer, Verdict, DeadlineInv, ShellAnswersForTheChild
  <2>6. CASE spc = "wait"
    BY <1>0, <1>4, <2>1, <2>2, <2>3, <2>6
    DEF ShellInv, Reap, Answer, Verdict, SignalInv, ShellAnswersForTheChild
  <2> QED BY <2>0, <2>4, <2>5, <2>6
<1>5. CASE WaitFails
  BY <1>0, <1>5
  DEF WaitFails, Answer, ShellInv, ShellTypes, DeadlineInv, SignalInv, AnswerInv,
      ShellAnswersForTheChild, Timed
<1>6. CASE Poll \/ PollAgain
  BY <1>0, <1>6
  DEF Poll, PollAgain, ShellInv, ShellTypes, DeadlineInv, SignalInv, AnswerInv,
      ShellAnswersForTheChild, Timed
<1>7. CASE Expire
  <2>1. ShellTypes' BY <1>0, <1>7 DEF Expire, ShellTypes, Timed
  <2>2. DeadlineInv' BY <1>0, <1>7 DEF Expire, ShellTypes, DeadlineInv, Timed
  <2>3. SignalInv' /\ AnswerInv' BY <1>0, <1>7 DEF Expire, SignalInv, AnswerInv
  <2>4. ShellAnswersForTheChild' BY <1>0, <1>7 DEF Expire, AnswerInv, ShellAnswersForTheChild
  <2> QED BY <2>1, <2>2, <2>3, <2>4 DEF ShellInv
<1>8. CASE SeeCancel
  <2>1. ShellTypes' BY <1>0, <1>8 DEF SeeCancel, ShellTypes, Timed
  <2>2. DeadlineInv' BY <1>0, <1>8 DEF SeeCancel, ShellTypes, DeadlineInv, Timed
  <2>3. SignalInv' /\ AnswerInv' BY <1>0, <1>8 DEF SeeCancel, SignalInv, AnswerInv
  <2>4. ShellAnswersForTheChild'
    BY <1>0, <1>8 DEF SeeCancel, AnswerInv, ShellAnswersForTheChild
  <2> QED BY <2>1, <2>2, <2>3, <2>4 DEF ShellInv
<1>9. CASE Escalate
  <2>1. ShellTypes' BY <1>0, <1>9 DEF Escalate, ShellTypes, Timed
  <2>2. DeadlineInv' BY <1>0, <1>9 DEF Escalate, ShellTypes, DeadlineInv, Timed
  <2>3. SignalInv' /\ AnswerInv' BY <1>0, <1>9 DEF Escalate, SignalInv, AnswerInv
  <2>4. ShellAnswersForTheChild'
    BY <1>0, <1>9 DEF Escalate, AnswerInv, ShellAnswersForTheChild
  <2> QED BY <2>1, <2>2, <2>3, <2>4 DEF ShellInv
<1>10. CASE UNCHANGED shellVars
  <2>1. Beside BY <1>0, <1>10 DEF shellVars, Beside, ShellTypes
  <2> QED BY <2>1, BesideKeeps
<1> QED
  BY <1>1, <1>2, <1>3, <1>4, <1>5, <1>6, <1>7, <1>8, <1>9, <1>10 DEF ShellNext, Task, Child

------------------------------------------------------------------------------
(* Sequences of bytes                                                       *)

LEMMA BodyIsBytes == Body \in Seq(Bytes) /\ Old \in Seq(Bytes) /\ << >> \in Seq(Bytes)
<1>0. Body \in Seq(Range(Body)) /\ Old \in Seq(Range(Old)) BY FileAssumption
<1>1. Range(Body) \subseteq Bytes /\ Range(Old) \subseteq Bytes BY Zenon DEF Bytes
<1> QED BY <1>0, <1>1, SeqMonotonic, EmptySeq

(* What is read after the first o elements, n of them.                      *)
LEMMA ChunkIsNext ==
  ASSUME NEW S, NEW s \in Seq(S), NEW o \in 0 .. Len(s), NEW n \in 1 .. Len(s) - o
  PROVE  /\ SubSeq(SubSeq(s, o + 1, Len(s)), 1, n) \in Seq(S)
         /\ SubSeq(s, 1, o) \o SubSeq(SubSeq(s, o + 1, Len(s)), 1, n) = SubSeq(s, 1, o + n)
<1>0. Len(s) \in Nat BY LenProperties
<1>1. SubSeq(SubSeq(s, o + 1, Len(s)), 1, n) = SubSeq(s, o + 1, o + n)
  <2>1. /\ o + 1 \in 1 .. Len(s) /\ Len(s) \in 1 .. Len(s)
        /\ 1 \in 1 .. Len(s) - (o + 1) + 1 /\ n \in 1 .. Len(s) - (o + 1) + 1
        /\ (o + 1) + 1 - 1 = o + 1 /\ (o + 1) + n - 1 = o + n
    BY <1>0
  <2>2. SubSeq(SubSeq(s, o + 1, Len(s)), 1, n) = SubSeq(s, (o + 1) + 1 - 1, (o + 1) + n - 1)
    BY <2>1, SubSeqOfSubSeq
  <2> QED BY <2>1, <2>2
<1>2. SubSeq(s, 1, o) \o SubSeq(s, o + 1, o + n) = SubSeq(s, 1, o + n)
  <2>1. 1 \in 1 .. Len(s) + 1 /\ o \in 1 - 1 .. Len(s) /\ o + n \in o .. Len(s) BY <1>0
  <2> QED BY <2>1, ConcatAdjacentSubSeq
<1>3. SubSeq(s, o + 1, o + n) \in Seq(S)
  <2>1. \A i \in o + 1 .. o + n : s[i] \in S BY <1>0, ElementOfSeq
  <2> QED BY <2>1, SubSeqProperties
<1> QED BY <1>1, <1>2, <1>3

LEMMA RestLength ==
  ASSUME NEW S, NEW s \in Seq(S), NEW o \in 0 .. Len(s)
  PROVE  Len(SubSeq(s, o + 1, Len(s))) = Len(s) - o
<1>1. Len(s) \in Nat BY LenProperties
<1>2. \A i \in o + 1 .. Len(s) : s[i] \in S BY <1>1, ElementOfSeq
<1> QED BY <1>1, <1>2, SubSeqProperties

\* Concatenation under a name of its own: the solver need not look into it.
Joined(s, t) == s \o t

LEMMA JoinLater ==
  ASSUME NEW S, NEW a \in Seq(S), NEW x \in Seq(S), NEW y \in Seq(S)
  PROVE  Joined(Joined(a, x), y) = Joined(a, Joined(x, y))
<1>1. (a \o x) \o y = a \o (x \o y) BY ConcatAssociative
<1> QED BY <1>1 DEF Joined

(* Writing a part of the buffer moves it, and changes nothing else.         *)
LEMMA PartWritten ==
  ASSUME NEW S, NEW a \in Seq(S), NEW b \in Seq(S), NEW w \in 1 .. Len(b)
  PROVE  /\ a \o SubSeq(b, 1, w) \in Seq(S) /\ SubSeq(b, w + 1, Len(b)) \in Seq(S)
         /\ (a \o SubSeq(b, 1, w)) \o SubSeq(b, w + 1, Len(b)) = a \o b
         /\ w = Len(b) => SubSeq(b, w + 1, Len(b)) = << >>
<1>0. Len(b) \in Nat BY LenProperties
<1>1. \A i \in 1 .. Len(b) : b[i] \in S BY ElementOfSeq
<1>2. SubSeq(b, 1, w) \in Seq(S)
  <2>1. \A i \in 1 .. w : b[i] \in S BY <1>0, <1>1
  <2> QED BY <2>1, SubSeqProperties
<1>3. SubSeq(b, w + 1, Len(b)) \in Seq(S)
  <2>1. \A i \in w + 1 .. Len(b) : b[i] \in S BY <1>0, <1>1
  <2> QED BY <1>0, <2>1, SubSeqProperties
<1>4. SubSeq(b, 1, w) \o SubSeq(b, w + 1, Len(b)) = b
  <2>1. 1 \in 1 .. Len(b) + 1 /\ w \in 1 - 1 .. Len(b) /\ Len(b) \in w .. Len(b) BY <1>0
  <2>2. SubSeq(b, 1, w) \o SubSeq(b, w + 1, Len(b)) = SubSeq(b, 1, Len(b))
    BY <2>1, ConcatAdjacentSubSeq
  <2> QED BY <2>2, SubSeqFull
<1>5. (a \o SubSeq(b, 1, w)) \o SubSeq(b, w + 1, Len(b)) = a \o b
  <2>1. PICK x \in Seq(S) : x = SubSeq(b, 1, w) BY <1>2
  <2>2. PICK y \in Seq(S) : y = SubSeq(b, w + 1, Len(b)) BY <1>3
  <2>3. Joined(Joined(a, x), y) = Joined(a, Joined(x, y)) BY JoinLater
  <2>4. Joined(x, y) = b BY <1>4, <2>1, <2>2 DEF Joined
  <2>5. Joined(Joined(a, x), y) = Joined(a, b) BY <2>3, <2>4
  <2> QED BY <2>1, <2>2, <2>5 DEF Joined
<1>6. w = Len(b) => SubSeq(b, w + 1, Len(b)) = << >> BY <1>0, SubSeqEmpty
<1> QED BY <1>2, <1>3, <1>5, <1>6, ConcatProperties

(* The file a and the buffer b together are the first o elements of s.      *)
Makes(a, b, s, o) == a \o b = SubSeq(s, 1, o)

(* One more element.                                                        *)
LEMMA NextByte ==
  ASSUME NEW S, NEW s \in Seq(S), NEW o \in 0 .. Len(s) - 1,
         NEW a \in Seq(S), NEW b \in Seq(S), Makes(a, b, s, o)
  PROVE  Append(b, s[o + 1]) \in Seq(S) /\ Makes(a, Append(b, s[o + 1]), s, o + 1)
<1>0. Len(s) \in Nat BY LenProperties
<1>1. s[o + 1] \in S BY <1>0, ElementOfSeq
<1>2. SubSeq(s, 1, o + 1) = SubSeq(s, 1, o) \o <<s[o + 1]>>
  <2>1. 1 \in 1 .. Len(s) /\ o + 1 \in 1 .. Len(s) /\ (o + 1) - 1 = o BY <1>0
  <2> QED BY <2>1, SubSeqRecursiveSecond
<1>3. <<s[o + 1]>> \in Seq(S) BY <1>1
<1>4. a \o Append(b, s[o + 1]) = (a \o b) \o <<s[o + 1]>>
  <2>1. b \o <<s[o + 1]>> = Append(b, s[o + 1]) BY <1>1, AppendIsConcat, Zenon
  <2>2. PICK e \in Seq(S) : e = <<s[o + 1]>> BY <1>3
  <2>3. Joined(Joined(a, b), e) = Joined(a, Joined(b, e)) BY JoinLater
  <2> QED BY <2>1, <2>2, <2>3 DEF Joined
<1> QED BY <1>1, <1>2, <1>4, AppendProperties DEF Makes

------------------------------------------------------------------------------
(* The file tasks                                                           *)

LEMMA FileStarts == FileInit \/ FileIdle => FileInv
<1>0. NoFile \notin {1, 2} BY FileAssumption
<1>1. ASSUME FileInit PROVE FileInv
  <2>b. /\ dir["src"] \in {1, NoFile} /\ dir["dst"] \in {1, 2, NoFile}
        /\ dir \in [Names -> {1, 2, NoFile}]
    BY <1>1 DEF FileInit, Names
  <2>c. inode[1] = Body /\ inode[2] = Old /\ inode \in [{1, 2} -> Seq(Bytes)]
    <3>1. inode = [i \in {1, 2} |-> IF i = 1 THEN Body ELSE Old] BY <1>1 DEF FileInit
    <3> QED BY <3>1, BodyIsBytes
  <2>d. /\ task \in Operations /\ offset = 0 /\ buffer = << >> /\ flushLost = FALSE
        /\ frc = "none" /\ had = (dir["src"] # NoFile)
    BY <1>1 DEF FileInit
  <2>f. dir["dst"] = 1 => dir["src"] = 1 /\ ~crossing
    BY <1>1 DEF FileInit
  <2>e. /\ task = "copy" => fpc = "open source"
        /\ task = "move" => fpc = "rename"
        /\ task = "delete" => fpc = "delete"
        /\ task \in {"get", "post"} => fpc = "open target"
    BY <1>1 DEF FileInit
  <2>1. FileTypes BY <2>b, <2>c, <2>d, BodyIsBytes DEF FileTypes
  <2>2. TaskInv BY <2>d, <2>e DEF TaskInv, Operations
  <2>3. UntouchedInv BY <2>b, <2>c, <2>d, <2>e, <2>f DEF UntouchedInv, Operations
  <2>4. CopyInv /\ TransferInv /\ DoneInv
    BY <2>d, <2>e DEF CopyInv, TransferInv, DoneInv, Operations
  <2>5. MoveInv BY <1>0, <2>b, <2>c, <2>d DEF MoveInv, Content
  <2> QED BY <2>1, <2>2, <2>3, <2>4, <2>5 DEF FileInv
<1>2. ASSUME FileIdle PROVE FileInv
  <2>1. FileTypes BY <1>2, BodyIsBytes DEF FileIdle, FileTypes, Names
  <2> QED BY <1>2, <2>1 DEF FileIdle, FileInv, TaskInv, UntouchedInv, CopyInv, TransferInv, DoneInv, MoveInv
<1> QED BY <1>1, <1>2

(* A name that is gone, and one that is not.                                *)
LEMMA ContentOf ==
  ASSUME FileTypes, NEW n \in Names
  PROVE  /\ dir[n] = NoFile => Content(n) = NoFile
         /\ dir[n] \in {1, 2} => Content(n) = inode[dir[n]]
BY FileAssumption DEF FileTypes, Content

(* Before anything is touched the target holds one of three things.         *)
LEMMA Before ==
  FileTypes /\ UntouchedInv /\ fpc \in {"rename", "delete", "open source", "open target"}
    => Content("dst") \in {NoFile, Old, Body}
BY ContentOf DEF FileTypes, UntouchedInv, Names

(* A step that answers "io", and removes the target if it was open.         *)
LEMMA FailingKeeps ==
  ASSUME FileInv, FailAndRemove, fpc \in {"read", "write", "close", "request", "transfer"},
         UNCHANGED <<task, inode, crossing, infd, outfd, offset, buffer, had, flushLost>>
  PROVE  FileInv'
<1>1. FileTypes' BY DEF FileInv, FileTypes, FailAndRemove, Unlink
<1>2. dir'["dst"] = NoFile /\ dir'["src"] = dir["src"] /\ fpc' = "returned" /\ frc' = "io"
  BY DEF FileInv, FileTypes, FailAndRemove, Unlink, Return, Names
<1>3. TaskInv' /\ UntouchedInv' /\ CopyInv' /\ TransferInv'
  BY <1>2 DEF TaskInv, UntouchedInv, CopyInv, TransferInv
<1>4. DoneInv' BY <1>2 DEF DoneInv, Content
<1>5. MoveInv'
  <2> SUFFICES ASSUME task = "move" PROVE Body = Content("src")'
    BY DEF MoveInv
  <2>1. dir["src"] = 1 /\ inode[1] = Body
    BY DEF FileInv, CopyInv, TaskInv
  <2> QED BY <1>2, <2>1, FileAssumption DEF Content
<1> QED BY <1>1, <1>3, <1>4, <1>5 DEF FileInv

LEMMA FileKeeps == FileInv /\ (FileNext \/ UNCHANGED fileVars) => FileInv'
<1> SUFFICES ASSUME FileInv, FileNext \/ UNCHANGED fileVars PROVE FileInv'
  OBVIOUS
<1>0. FileTypes /\ TaskInv /\ UntouchedInv /\ CopyInv /\ TransferInv /\ MoveInv /\ DoneInv
  BY DEF FileInv
<1>a. NoFile \notin {1, 2} BY FileAssumption
<1>b. Chunk \in Nat /\ Chunk > 0 BY FileAssumption
<1>1. CASE OpenSource
  <2>1. FileTypes' BY <1>0, <1>1 DEF OpenSource, FileTypes
  <2>2. TaskInv' BY <1>0, <1>1 DEF OpenSource, Return, TaskInv, Operations
  <2>3. UntouchedInv' BY <1>0, <1>1 DEF OpenSource, Return, UntouchedInv
  <2>4. CopyInv' /\ TransferInv' BY <1>1 DEF OpenSource, Return, CopyInv, TransferInv
  <2>5. MoveInv' BY <1>0, <1>1 DEF OpenSource, MoveInv, Content
  <2>6. DoneInv'
    <3>1. Content("dst")' \in {NoFile, Old, Body}
      BY <1>0, <1>1, Before DEF OpenSource, Content
    <3> QED BY <1>0, <1>1, <3>1 DEF OpenSource, Return, DoneInv, TaskInv
  <2> QED BY <2>1, <2>2, <2>3, <2>4, <2>5, <2>6 DEF FileInv
<1>2. CASE OpenTarget
  <2>0. fpc = "open target" BY <1>2 DEF OpenTarget
  <2>1. CASE Return("io") /\ UNCHANGED <<dir, inode, outfd>>
    <3>1. Content("dst")' \in {NoFile, Old, Body}
      BY <1>0, <2>0, <2>1, Before DEF Content
    <3>2. FileTypes' /\ MoveInv' BY <1>0, <1>2, <2>1 DEF OpenTarget, FileTypes, MoveInv, Content
    <3>3. TaskInv' /\ UntouchedInv' /\ CopyInv' /\ TransferInv' /\ DoneInv'
      BY <2>1, <3>1 DEF Return, TaskInv, UntouchedInv, CopyInv, TransferInv, DoneInv
    <3> QED BY <3>2, <3>3 DEF FileInv
  <2>2. CASE ~(Return("io") /\ UNCHANGED <<dir, inode, outfd>>)
    <3>1. PICK i \in {1, 2} :
            /\ i = IF dir["dst"] = NoFile THEN 2 ELSE dir["dst"]
            /\ dir' = [dir EXCEPT !["dst"] = i]
            /\ inode' = [inode EXCEPT ![i] = << >>]
            /\ outfd' = i
            /\ fpc' = IF task \in {"get", "post"} THEN "request" ELSE "read"
            /\ frc' = frc
      BY <1>0, <1>2, <2>2 DEF OpenTarget, FileTypes, Names
    <3>2. FileTypes' BY <1>0, <1>2, <3>1, BodyIsBytes DEF OpenTarget, FileTypes, Names
    <3>3. /\ dir'["dst"] = i /\ dir'["src"] = dir["src"] /\ inode'[i] = << >>
          /\ \A j \in {1, 2} \ {i} : inode'[j] = inode[j]
      BY <1>0, <3>1 DEF FileTypes, Names
    <3>4. TaskInv' BY <1>0, <1>2, <3>1 DEF OpenTarget, TaskInv, Operations
    <3>5. UntouchedInv' /\ DoneInv' BY <3>1 DEF UntouchedInv, DoneInv
    <3>6. offset' = 0 /\ buffer' = << >> /\ ~flushLost'
      BY <1>0, <1>2, <2>0 DEF OpenTarget, UntouchedInv
    <3>7. Holds(i)'
      BY <3>3, <3>6, BodyIsBytes, ConcatEmptySeq, SubSeqEmpty, LenProperties DEF Holds
    <3>8. CopyInv'
      <4> SUFFICES ASSUME task \in {"copy", "move"} PROVE CopyInv'
        BY <1>0, <1>2, <2>0, <3>1 DEF OpenTarget, TaskInv, Operations, CopyInv
      <4>1. infd = 1 /\ dir["src"] = 1 /\ inode[1] = Body /\ (task = "move" => i = 2)
        BY <1>0, <2>0, <3>1 DEF UntouchedInv
      <4>2. task' = task /\ infd' = infd /\ fpc' = "read" /\ outfd' = i
        BY <1>2, <3>1 DEF OpenTarget
      <4>3. i = 2 => inode'[1] = Body BY <3>3, <4>1
      <4>4. i = 2 => Holds(2)' BY <3>7
      <4> QED BY <3>3, <3>6, <4>1, <4>2, <4>3, <4>4 DEF CopyInv
    <3>9. TransferInv' BY <3>1, <3>3, <3>6, <3>7 DEF TransferInv
    <3>10. MoveInv'
      <4> SUFFICES ASSUME task = "move" PROVE Body = Content("src")' BY <1>2 DEF OpenTarget, MoveInv
      <4>1. dir["src"] = 1 /\ inode[1] = Body /\ i = 2 BY <1>0, <2>0, <3>1 DEF UntouchedInv
      <4> QED BY <1>a, <3>3, <4>1 DEF Content
    <3> QED BY <3>2, <3>4, <3>5, <3>8, <3>9, <3>10 DEF FileInv
  <2> QED BY <2>1, <2>2
<1>3. CASE ReadChunk
  <2>0. fpc = "read" /\ infd = 1 /\ inode[1] \in Seq(Bytes)
    BY <1>0, <1>3 DEF ReadChunk, CopyInv, FileTypes
  <2>1. CASE FailAndRemove /\ UNCHANGED <<buffer, offset>>
    BY <1>3, <2>0, <2>1, FailingKeeps DEF ReadChunk
  <2> DEFINE ahead == SubSeq(inode[1], offset + 1, Len(inode[1]))
             k == IF Len(ahead) < Chunk THEN Len(ahead) ELSE Chunk
  <2>2. CASE k = 0 /\ fpc' = "close" /\ UNCHANGED <<dir, buffer, offset, frc>>
    <3>1. UNCHANGED <<task, dir, inode, crossing, infd, outfd, offset, buffer, had, flushLost, frc>>
      BY <1>3, <2>2 DEF ReadChunk
    <3>2. outfd = 2 => offset = Len(Body)
      <4> SUFFICES ASSUME outfd = 2 PROVE offset = Len(Body) OBVIOUS
      <4>1. inode[1] = Body /\ offset <= Len(Body) /\ offset \in Nat
        BY <1>0, <2>0 DEF CopyInv, Holds, FileTypes
      <4>2. Len(ahead) = Len(Body) - offset BY <2>0, <4>1, RestLength, LenProperties
      <4> QED BY <2>2, <4>1, <4>2, FileAssumption, BodyIsBytes, LenProperties
    <3>3. FileTypes' /\ MoveInv' BY <1>0, <3>1 DEF FileTypes, MoveInv, Content
    <3>4. TaskInv' /\ UntouchedInv' /\ TransferInv' /\ DoneInv'
      BY <1>0, <2>0, <2>2, <3>1 DEF TaskInv, UntouchedInv, TransferInv, DoneInv
    <3>5. CopyInv' BY <1>0, <2>0, <2>2, <3>1, <3>2 DEF CopyInv, Holds
    <3> QED BY <3>3, <3>4, <3>5 DEF FileInv
  <2>3. CASE /\ k > 0 /\ buffer' = SubSeq(ahead, 1, k) /\ offset' = offset + k
             /\ fpc' = "write" /\ UNCHANGED <<dir, frc>>
    <3>1. UNCHANGED <<task, dir, inode, crossing, infd, outfd, had, flushLost, frc>>
      BY <1>3, <2>3 DEF ReadChunk
    <3>2. outfd = 2
      <4> SUFFICES ASSUME outfd = 1 PROVE FALSE BY <1>0, <2>0 DEF CopyInv
      <4>1. inode[1] = << >> BY <1>0, <2>0 DEF CopyInv
      <4>2. ahead = << >> BY <1>0, <4>1, SubSeqEmpty, EmptySeq DEF FileTypes
      <4>3. Len(ahead) = 0 BY <4>2, EmptySeq
      <4>4. k = 0
        <5> HIDE DEF ahead
        <5> QED BY <1>b, <4>3
      <4>5. k > 0 BY <2>3, Zenon
      <4> HIDE DEF k
      <4> QED BY <4>4, <4>5
    <3>3. inode[1] = Body /\ offset \in 0 .. Len(Body) /\ buffer = << >> /\ Holds(2)
      BY <1>0, <2>0, <3>2, BodyIsBytes, LenProperties DEF CopyInv, Holds, FileTypes
    <3>4. k \in 1 .. Len(Body) - offset
      <4>1. Len(ahead) = Len(Body) - offset BY <3>3, BodyIsBytes, RestLength
      <4> QED BY <2>3, <3>3, <4>1, FileAssumption, BodyIsBytes, LenProperties
    <3>5. buffer' \in Seq(Bytes) /\ SubSeq(Body, 1, offset) \o buffer' = SubSeq(Body, 1, offset + k)
      BY <2>3, <3>3, <3>4, BodyIsBytes, ChunkIsNext
    <3>6. inode[2] = SubSeq(Body, 1, offset)
      BY <1>0, <3>3, ConcatEmptySeq DEF Holds, FileTypes
    <3>7. Holds(2)'
      <4>1. offset + k <= Len(Body) BY <3>3, <3>4, BodyIsBytes, LenProperties
      <4> QED BY <2>3, <3>1, <3>5, <3>6, <4>1 DEF Holds
    <3>8. FileTypes'
      <4>1. Len(Body) \in Nat BY BodyIsBytes, LenProperties
      <4>2. offset + k \in Nat
        <5> HIDE DEF k
        <5> QED BY <3>3, <3>4, <4>1
      <4>3. offset' \in Nat BY <2>3, <4>2, Zenon
      <4>4. dir' = dir /\ frc' = frc BY <2>3
      <4> QED BY <1>0, <3>1, <3>5, <4>3, <4>4 DEF FileTypes
    <3>9. MoveInv' BY <1>0, <3>1 DEF MoveInv, Content
    <3>10. TaskInv' /\ UntouchedInv' /\ TransferInv' /\ DoneInv'
      BY <1>0, <2>0, <2>3, <3>1 DEF TaskInv, UntouchedInv, TransferInv, DoneInv
    <3>11. CopyInv'
      BY <1>0, <2>0, <2>3, <3>1, <3>2, <3>3, <3>7 DEF CopyInv
    <3> QED BY <3>7, <3>8, <3>9, <3>10, <3>11 DEF FileInv
  <2> QED BY <1>3, <2>0, <2>1, <2>2, <2>3 DEF ReadChunk
<1>4. CASE WriteChunk
  <2>0. /\ fpc = "write" /\ infd = 1 /\ outfd = 2 /\ dir["dst"] = 2 /\ dir["src"] = 1
        /\ inode[1] = Body /\ inode[2] \in Seq(Bytes) /\ buffer \in Seq(Bytes)
    BY <1>0, <1>4 DEF WriteChunk, CopyInv, FileTypes
  <2>1. CASE FailAndRemove /\ UNCHANGED <<inode, buffer>>
    BY <1>4, <2>0, <2>1, FailingKeeps DEF WriteChunk
  <2>2. CASE ~(FailAndRemove /\ UNCHANGED <<inode, buffer>>)
    <3>1. PICK w \in 1 .. Len(buffer) :
            /\ inode' = [inode EXCEPT ![outfd] = @ \o SubSeq(buffer, 1, w)]
            /\ buffer' = SubSeq(buffer, w + 1, Len(buffer))
            /\ fpc' = IF w = Len(buffer) THEN "read" ELSE "write"
            /\ UNCHANGED <<dir, frc>>
      BY <1>4, <2>2 DEF WriteChunk
    <3>2. UNCHANGED <<task, dir, crossing, infd, outfd, offset, had, flushLost, frc>>
      BY <1>4, <3>1 DEF WriteChunk
    <3>3. /\ inode[2] \o SubSeq(buffer, 1, w) \in Seq(Bytes)
          /\ SubSeq(buffer, w + 1, Len(buffer)) \in Seq(Bytes)
          /\ (inode[2] \o SubSeq(buffer, 1, w)) \o SubSeq(buffer, w + 1, Len(buffer))
               = inode[2] \o buffer
          /\ w = Len(buffer) => SubSeq(buffer, w + 1, Len(buffer)) = << >>
      <4>1. PICK f \in Seq(Bytes) : f = inode[2] BY <2>0
      <4>2. PICK b \in Seq(Bytes) : b = buffer BY <2>0
      <4>3. w \in 1 .. Len(b) BY <4>2
      <4>4. /\ f \o SubSeq(b, 1, w) \in Seq(Bytes) /\ SubSeq(b, w + 1, Len(b)) \in Seq(Bytes)
            /\ (f \o SubSeq(b, 1, w)) \o SubSeq(b, w + 1, Len(b)) = f \o b
            /\ w = Len(b) => SubSeq(b, w + 1, Len(b)) = << >>
        BY <4>3, PartWritten
      <4> QED BY <4>1, <4>2, <4>4
    <3>4. /\ inode'[2] = inode[2] \o SubSeq(buffer, 1, w) /\ inode'[1] = inode[1]
          /\ inode' \in [{1, 2} -> Seq(Bytes)]
      BY <1>0, <2>0, <3>1, <3>3 DEF FileTypes
    <3>5. FileTypes' BY <1>0, <3>1, <3>2, <3>3, <3>4 DEF FileTypes
    <3>6. Holds(2)'
      <4>1. Holds(2) BY <1>0, <2>0 DEF CopyInv
      <4>2. inode'[2] \o buffer' = inode[2] \o buffer BY <3>1, <3>3, <3>4
      <4> QED BY <3>2, <4>1, <4>2 DEF Holds
    <3>7. CopyInv' BY <1>0, <2>0, <3>1, <3>2, <3>3, <3>4, <3>6 DEF CopyInv
    <3>8. TaskInv' /\ UntouchedInv' /\ TransferInv' /\ DoneInv'
      BY <1>0, <2>0, <3>1, <3>2 DEF TaskInv, UntouchedInv, TransferInv, DoneInv
    <3>9. MoveInv' BY <1>a, <2>0, <3>2, <3>4 DEF MoveInv, Content
    <3> QED BY <3>5, <3>7, <3>8, <3>9 DEF FileInv
  <2> QED BY <2>1, <2>2
<1>5. CASE CloseTarget
  <2>0. fpc = "close" /\ infd = 1 /\ task \in {"copy", "move"}
    BY <1>0, <1>5 DEF CloseTarget, CopyInv, TaskInv
  <2>1. CASE FailAndRemove
    BY <1>5, <2>0, <2>1, FailingKeeps DEF CloseTarget
  <2>2. CASE ~FailAndRemove
    <3>1. UNCHANGED <<task, dir, inode, crossing, infd, outfd, offset, buffer, had, flushLost>>
      BY <1>5, <2>2 DEF CloseTarget
    <3>2. IF task = "move" THEN fpc' = "unlink source" /\ frc' = frc
          ELSE fpc' = "returned" /\ frc' = "ok"
      BY <1>5, <2>2 DEF CloseTarget, Return
    <3>3. FileTypes' /\ MoveInv' BY <1>0, <3>1 DEF FileTypes, MoveInv, Content
    <3>4. TaskInv' /\ UntouchedInv' /\ TransferInv'
      BY <1>0, <2>0, <3>1, <3>2 DEF TaskInv, UntouchedInv, TransferInv
    <3>5. CopyInv' BY <1>0, <2>0, <3>1, <3>2 DEF CopyInv, Holds
    <3>6. DoneInv'
      <4> SUFFICES ASSUME task = "copy", outfd = 2
                   PROVE  Content("dst")' = Body /\ Content("src")' = Body
        BY <1>0, <2>0, <3>1, <3>2 DEF DoneInv, CopyInv
      <4>1. /\ dir["src"] = 1 /\ dir["dst"] = 2 /\ inode[1] = Body /\ Holds(2)
            /\ offset = Len(Body) /\ buffer = << >> /\ inode[2] \in Seq(Bytes)
        BY <1>0, <2>0 DEF CopyInv, FileTypes
      <4>2. inode[2] = Body
        BY <4>1, BodyIsBytes, ConcatEmptySeq, SubSeqFull DEF Holds
      <4> QED BY <1>a, <3>1, <4>1, <4>2 DEF Content
    <3> QED BY <3>3, <3>4, <3>5, <3>6 DEF FileInv
  <2> QED BY <2>1, <2>2
<1>6. CASE Rename
  <2>0. fpc = "rename" /\ task = "move" /\ dir["src"] \in {1, NoFile}
    BY <1>0, <1>6 DEF Rename, TaskInv, UntouchedInv
  <2>1. UNCHANGED <<task, inode, crossing, infd, outfd, offset, buffer, had, flushLost>>
    BY <1>6 DEF Rename
  <2>2. CASE UNCHANGED dir /\ fpc' \in {"returned", "open source"}
             /\ (fpc' = "returned" => frc' = "io") /\ (fpc' = "open source" => crossing /\ frc' = frc)
    <3>1. FileTypes' /\ MoveInv' BY <1>0, <2>1, <2>2 DEF FileTypes, MoveInv, Content
    <3>2. Content("dst")' \in {NoFile, Old, Body}
      BY <1>0, <2>0, <2>1, <2>2, Before DEF Content
    <3>3. TaskInv' /\ UntouchedInv' /\ TransferInv' /\ CopyInv'
      BY <1>0, <2>0, <2>1, <2>2 DEF TaskInv, UntouchedInv, TransferInv, CopyInv
    <3>4. DoneInv' BY <2>0, <2>2, <3>2 DEF DoneInv
    <3> QED BY <3>1, <3>3, <3>4 DEF FileInv
  <2>3. CASE /\ dir["src"] # NoFile /\ fpc' = "returned" /\ frc' = "ok"
             /\ dir' = IF dir["src"] = dir["dst"] THEN dir
                       ELSE [dir EXCEPT !["dst"] = dir["src"], !["src"] = NoFile]
    <3>1. dir["src"] = 1 /\ inode[1] = Body BY <1>0, <2>0, <2>3 DEF UntouchedInv
    <3>2. FileTypes' /\ dir'["dst"] = 1
      BY <1>0, <2>1, <2>3, <3>1 DEF FileTypes, Names
    <3>3. Content("dst")' = Body BY <1>a, <2>1, <3>1, <3>2 DEF Content
    <3>4. TaskInv' /\ UntouchedInv' /\ TransferInv' /\ CopyInv'
      BY <2>3 DEF TaskInv, UntouchedInv, TransferInv, CopyInv
    <3>5. MoveInv' /\ DoneInv' BY <2>0, <2>1, <2>3, <3>3 DEF MoveInv, DoneInv
    <3> QED BY <3>2, <3>4, <3>5 DEF FileInv
  <2> QED BY <1>6, <2>2, <2>3 DEF Rename, Return
<1>7. CASE UnlinkSource
  <2>0. fpc = "unlink source" /\ task = "move" BY <1>0, <1>7 DEF UnlinkSource, TaskInv
  <2>1. /\ dir["src"] = 1 /\ dir["dst"] = 2 /\ Holds(2)
        /\ offset = Len(Body) /\ buffer = << >> /\ inode[2] \in Seq(Bytes)
    BY <1>0, <2>0 DEF CopyInv, FileTypes
  <2>2. inode[2] = Body BY <2>1, BodyIsBytes, ConcatEmptySeq, SubSeqFull DEF Holds
  <2>3. UNCHANGED <<task, inode, crossing, infd, outfd, offset, buffer, had, flushLost>>
        /\ fpc' = "returned" /\ dir' \in [Names -> {1, 2, NoFile}] /\ dir'["dst"] = 2
    BY <1>0, <1>7, <2>1 DEF UnlinkSource, Return, Unlink, FileTypes, Names
  <2>4. Content("dst")' = Body BY <1>a, <2>2, <2>3 DEF Content
  <2>5. FileTypes' BY <1>0, <2>3 DEF FileTypes
  <2>6. TaskInv' /\ UntouchedInv' /\ TransferInv' /\ CopyInv'
    BY <2>3 DEF TaskInv, UntouchedInv, TransferInv, CopyInv
  <2>7. MoveInv' /\ DoneInv' BY <2>0, <2>3, <2>4 DEF MoveInv, DoneInv
  <2> QED BY <2>5, <2>6, <2>7 DEF FileInv
<1>8. CASE Delete
  <2>0. fpc = "delete" /\ task = "delete" BY <1>0, <1>8 DEF Delete, TaskInv
  <2>1. /\ UNCHANGED <<task, inode, crossing, infd, outfd, offset, buffer, had, flushLost>>
        /\ fpc' = "returned" /\ dir' \in [Names -> {1, 2, NoFile}] /\ dir'["dst"] = dir["dst"]
    BY <1>0, <1>8 DEF Delete, Return, Unlink, FileTypes, Names
  <2>2. Content("dst")' \in {NoFile, Old, Body} BY <1>0, <2>0, <2>1, Before DEF Content
  <2>3. FileTypes' BY <1>0, <2>1 DEF FileTypes
  <2>4. TaskInv' /\ UntouchedInv' /\ TransferInv' /\ CopyInv'
    BY <2>1 DEF TaskInv, UntouchedInv, TransferInv, CopyInv
  <2>5. MoveInv' /\ DoneInv' BY <2>0, <2>1, <2>2 DEF MoveInv, DoneInv
  <2> QED BY <2>3, <2>4, <2>5 DEF FileInv
<1>9. CASE Request
  <2>0. fpc = "request" /\ task \in {"get", "post"} BY <1>0, <1>9 DEF Request, TaskInv
  <2>1. CASE FailAndRemove BY <1>9, <2>0, <2>1, FailingKeeps DEF Request
  <2>2. CASE fpc' = "transfer" /\ UNCHANGED <<dir, frc>>
    <3>1. UNCHANGED <<task, dir, inode, crossing, infd, outfd, offset, buffer, had, flushLost, frc>>
      BY <1>9, <2>2 DEF Request
    <3>2. FileTypes' /\ MoveInv' BY <1>0, <3>1 DEF FileTypes, MoveInv, Content
    <3>3. TaskInv' /\ UntouchedInv' /\ CopyInv' /\ DoneInv'
      BY <1>0, <2>0, <2>2, <3>1 DEF TaskInv, UntouchedInv, CopyInv, DoneInv
    <3>4. TransferInv' BY <1>0, <2>0, <2>2, <3>1 DEF TransferInv, Holds
    <3> QED BY <3>2, <3>3, <3>4 DEF FileInv
  <2> QED BY <1>9, <2>1, <2>2 DEF Request
<1>10. CASE Receive
  <2>0. fpc = "transfer" /\ task \in {"get", "post"} BY <1>0, <1>10 DEF Receive, TaskInv
  <2>1. /\ outfd \in {1, 2} /\ inode[outfd] \in Seq(Bytes) /\ buffer \in Seq(Bytes)
        /\ offset \in Nat /\ offset < Len(Body) /\ Holds(outfd)
    BY <1>0, <1>10, <2>0 DEF Receive, TransferInv, FileTypes
  <2>2. UNCHANGED <<fpc, task, dir, inode, crossing, infd, outfd, had, flushLost, frc>>
        /\ buffer' = Append(buffer, Body[offset + 1]) /\ offset' = offset + 1
    BY <1>10 DEF Receive
  <2>3. offset \in 0 .. Len(Body) - 1 BY <2>1, BodyIsBytes, LenProperties
  <2>4. buffer' \in Seq(Bytes) /\ inode[outfd] \o buffer' = SubSeq(Body, 1, offset + 1)
    <3>1. PICK f \in Seq(Bytes) : f = inode[outfd] BY <2>1
    <3>2. f \o buffer = SubSeq(Body, 1, offset) BY <2>1, <3>1 DEF Holds
    <3>3. /\ Append(buffer, Body[offset + 1]) \in Seq(Bytes)
          /\ f \o Append(buffer, Body[offset + 1]) = SubSeq(Body, 1, offset + 1)
      <4>1. PICK b \in Seq(Bytes) : b = buffer BY <2>1
      <4>2. PICK t \in Seq(Bytes) : t = Body BY BodyIsBytes
      <4>3. PICK o \in 0 .. Len(t) - 1 : o = offset BY <2>3, <4>2
      <4>4. Makes(f, b, t, o) BY <3>2, <4>1, <4>2, <4>3 DEF Makes
      <4>5. Append(b, t[o + 1]) \in Seq(Bytes) /\ Makes(f, Append(b, t[o + 1]), t, o + 1)
        BY <4>4, NextByte
      <4> QED BY <4>1, <4>2, <4>3, <4>5 DEF Makes
    <3> QED BY <2>2, <3>1, <3>3
  <2>5. FileTypes' BY <1>0, <2>1, <2>2, <2>4 DEF FileTypes
  <2>6. MoveInv' BY <1>0, <2>2 DEF MoveInv, Content
  <2>7. TaskInv' /\ UntouchedInv' /\ CopyInv' /\ DoneInv'
    BY <1>0, <2>0, <2>2 DEF TaskInv, UntouchedInv, CopyInv, DoneInv
  <2>8. Holds(outfd)'
    <3>1. offset + 1 <= Len(Body) BY <2>1, BodyIsBytes, LenProperties
    <3> QED BY <2>2, <2>4, <3>1 DEF Holds
  <2>9. TransferInv' BY <1>0, <2>0, <2>2, <2>8 DEF TransferInv
  <2> QED BY <2>5, <2>6, <2>7, <2>9 DEF FileInv
<1>11. CASE StreamFlushes
  <2>0. fpc = "transfer" /\ task \in {"get", "post"} BY <1>0, <1>11 DEF StreamFlushes, TaskInv
  <2>1. /\ outfd \in {1, 2} /\ inode[outfd] \in Seq(Bytes) /\ buffer \in Seq(Bytes) /\ Holds(outfd)
    BY <1>0, <1>11, <2>0 DEF TransferInv, FileTypes
  <2>2. UNCHANGED <<fpc, task, dir, crossing, infd, outfd, offset, had, flushLost, frc>>
        /\ inode' = [inode EXCEPT ![outfd] = @ \o buffer] /\ buffer' = << >>
    BY <1>11 DEF StreamFlushes
  <2>3. inode[outfd] \o buffer \in Seq(Bytes) BY <2>1, ConcatProperties
  <2>4. FileTypes' /\ inode'[outfd] = inode[outfd] \o buffer
    BY <1>0, <2>1, <2>2, <2>3, BodyIsBytes DEF FileTypes
  <2>5. Holds(outfd)'
    <3>1. inode'[outfd] \o buffer' = inode[outfd] \o buffer
      BY <2>2, <2>3, <2>4, ConcatEmptySeq
    <3> QED BY <2>1, <2>2, <3>1 DEF Holds
  <2>6. MoveInv' BY <2>0, <2>2 DEF MoveInv
  <2>7. TaskInv' /\ UntouchedInv' /\ CopyInv' /\ DoneInv'
    BY <1>0, <2>0, <2>2 DEF TaskInv, UntouchedInv, CopyInv, DoneInv
  <2>8. TransferInv' BY <1>0, <2>0, <2>2, <2>5 DEF TransferInv
  <2> QED BY <2>4, <2>6, <2>7, <2>8 DEF FileInv
<1>12. CASE TransferFails
  BY <1>12, FailingKeeps DEF TransferFails
<1>13. CASE TransferDone
  <2>0. fpc = "transfer" /\ task \in {"get", "post"} BY <1>0, <1>13 DEF TransferDone, TaskInv
  <2>1. /\ outfd \in {1, 2} /\ inode[outfd] \in Seq(Bytes) /\ buffer \in Seq(Bytes)
        /\ Holds(outfd) /\ dir["dst"] = outfd /\ offset = Len(Body)
    BY <1>0, <1>13, <2>0 DEF TransferDone, TransferInv, FileTypes
  <2>2. /\ UNCHANGED <<task, dir, crossing, infd, outfd, offset, had>>
        /\ fpc' = "returned" /\ frc' = "ok" /\ buffer' = << >>
        /\ \/ inode' = [inode EXCEPT ![outfd] = @ \o buffer] /\ flushLost' = flushLost
           \/ flushLost' = TRUE /\ inode' = inode
    BY <1>13 DEF TransferDone, Return
  <2>3. inode[outfd] \o buffer = Body BY <2>1, BodyIsBytes, SubSeqFull DEF Holds
  <2>4. FileTypes' /\ (~flushLost' => inode'[outfd] = Body)
    BY <1>0, <2>1, <2>2, <2>3, BodyIsBytes DEF FileTypes
  <2>5. ~flushLost' => Content("dst")' = Body BY <1>a, <2>1, <2>2, <2>4 DEF Content
  <2>6. TaskInv' /\ UntouchedInv' /\ CopyInv' /\ TransferInv'
    BY <2>2 DEF TaskInv, UntouchedInv, CopyInv, TransferInv
  <2>7. DoneInv' /\ MoveInv' BY <2>0, <2>2, <2>5 DEF DoneInv, MoveInv
  <2> QED BY <2>4, <2>6, <2>7 DEF FileInv
<1>14. CASE Crash
  <2>1. UNCHANGED <<task, dir, inode, crossing, infd, outfd, offset, buffer, had, flushLost, frc>>
        /\ fpc' = "crashed"
    BY <1>14 DEF Crash
  <2>2. FileTypes' /\ MoveInv' BY <1>0, <2>1 DEF FileTypes, MoveInv, Content
  <2>3. TaskInv' /\ UntouchedInv' /\ CopyInv' /\ TransferInv' /\ DoneInv'
    BY <2>1 DEF TaskInv, UntouchedInv, CopyInv, TransferInv, DoneInv
  <2> QED BY <2>2, <2>3 DEF FileInv
<1>15. CASE UNCHANGED fileVars
  <2>1. UNCHANGED <<fpc, task, dir, inode, crossing, infd, outfd, offset, buffer, had, flushLost, frc>>
    BY <1>15 DEF fileVars
  <2>2. FileTypes' /\ TaskInv' /\ UntouchedInv' BY <1>0, <2>1 DEF FileTypes, TaskInv, UntouchedInv
  <2>3. CopyInv' /\ TransferInv' BY <1>0, <2>1 DEF CopyInv, TransferInv, Holds
  <2>4. MoveInv' /\ DoneInv' BY <1>0, <2>1 DEF MoveInv, DoneInv, Content
  <2> QED BY <2>2, <2>3, <2>4 DEF FileInv
<1> QED
  BY <1>1, <1>2, <1>3, <1>4, <1>5, <1>6, <1>7, <1>8, <1>9, <1>10, <1>11, <1>12, <1>13, <1>14,
     <1>15 DEF FileNext

------------------------------------------------------------------------------
(* The theorems                                                             *)

LEMMA Inductive == Spec => []IInv
<1>1. Init => IInv
  BY ShellStarts, FileStarts DEF Init, IInv
<1>2. IInv /\ [Next]_localVars => IInv'
  <2> SUFFICES ASSUME IInv, [Next]_localVars PROVE IInv' OBVIOUS
  <2>1. (ShellNext \/ UNCHANGED shellVars) /\ (FileNext \/ UNCHANGED fileVars)
    BY DEF Next, Stopped, localVars
  <2> QED BY <2>1, ShellKeeps, FileKeeps DEF IInv
<1> QED BY <1>1, <1>2, PTL DEF Spec

(* The answer of a shell task is about its child, whenever the child, the   *)
(* clock and the cancel request come in between the steps of sh_run.        *)
THEOREM ShellAnswers == Spec => []ShellAnswersForTheChild
<1>1. IInv => ShellAnswersForTheChild BY DEF IInv, ShellInv
<1> QED BY <1>1, Inductive, PTL

(* A copy, a move or a response is in the file as a whole when the task     *)
(* says so, and a move loses nothing wherever the process ends.             *)
THEOREM FilesStayWhole == Spec => []FilesAreWhole
<1>1. IInv => FilesAreWhole BY DEF IInv, FileInv, DoneInv, MoveInv, FilesAreWhole
<1> QED BY <1>1, Inductive, PTL
==============================================================================
