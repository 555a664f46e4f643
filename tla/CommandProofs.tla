---------------------------- MODULE CommandProofs ----------------------------
(***************************************************************************)
(* For every artifact, number of parts and pool size: however signals, the *)
(* pull, its end and the renderer interleave, the exit code of `bigoci     *)
(* pull` tells why it ended, and its last progress line is the last.       *)
(***************************************************************************)
EXTENDS Command, PullProofs

LEMMA OnePull == p \in Pulls /\ Pulls = {p} /\ Alone
  BY CommandAssumption DEF p, Alone, CommandAssumption

-----------------------------------------------------------------------------
(* The order of the handler's steps. *)

LEMMA OrderFacts ==
    /\ Len(Order) = 5
    /\ Order[1] = "receive" /\ Order[2] = "reset" /\ Order[3] = "record"
    /\ Order[4] = "cancel" /\ Order[5] = "write"
  BY DEF Order

\* The handler cancels once it has recorded.
LEMMA Cancelled ==
    ASSUME Where
    PROVE  /\ HasDone("cancel") <=> handler \in {4, 5}
           /\ HasDone("record") <=> handler \in {3, 4, 5}
  BY OrderFacts DEF HasDone, Where

LEMMA CancelledNext ==
    ASSUME Where'
    PROVE  HasDone("cancel")' <=> handler' \in {4, 5}
<1>1. /\ handler' \in 0 .. 5
      /\ HasDone("cancel")' <=> \E k \in 1 .. handler' : Order[k] = "cancel"
  BY OrderFacts DEF HasDone, Where, Order
<1> QED BY <1>1, OrderFacts

\* One step of the handler.
LEMMA DoesFacts ==
    ASSUME Where, NEW step, Does(step)
    PROVE  /\ handler' \in 0 .. Len(Order)
           /\ step = "receive" => handler = 0 /\ handler' = 1
           /\ step = "cancel" => handler = 3 /\ handler' = 4
           /\ handler \in {4, 5} => handler' \in {4, 5}
  BY OrderFacts DEF Does, Where

-----------------------------------------------------------------------------
(* The invariant, first. *)

LEMMA FirstFile ==
    ASSUME NEW a \in Artifacts
    PROVE  [Resized(a, Len(a)) EXCEPT ![1] = Torn] \in FilesUpTo
<1>1. a \in FilesUpTo /\ Len(a) \in 0 .. MaxLen
  BY ArtifactFacts
<1>2. Resized(a, Len(a)) = a /\ a \in [1 .. Len(a) -> Bytes]
  BY <1>1, ResizedIsFile, FileFacts
<1>3. [a EXCEPT ![1] = Torn] \in [1 .. Len(a) -> Bytes]
  BY <1>2 DEF Bytes
<1> QED BY <1>1, <1>2, <1>3 DEF FilesUpTo

LEMMA FirstPull == CommandInit => PullInv
<1> SUFFICES ASSUME CommandInit PROVE PullInv
  OBVIOUS
<1>1. PICK old \in {<<>>} \cup Artifacts, a \in Artifacts :
        \E left \in {None, [Resized(a, Len(a)) EXCEPT ![1] = Torn]} :
          /\ data = [i \in Inodes |-> CASE i = 1 -> old
                                        [] i = 2 -> IF left = None THEN <<>> ELSE left
                                        [] OTHER -> <<>>]
          /\ dir = [dest |-> IF old = <<>> THEN None ELSE 1,
                    partial |-> IF left = None THEN None ELSE 2]
  BY DEF CommandInit
<1>2. PICK left \in {None, [Resized(a, Len(a)) EXCEPT ![1] = Torn]} :
          /\ data = [i \in Inodes |-> CASE i = 1 -> old
                                        [] i = 2 -> IF left = None THEN <<>> ELSE left
                                        [] OTHER -> <<>>]
          /\ dir = [dest |-> IF old = <<>> THEN None ELSE 1,
                    partial |-> IF left = None THEN None ELSE 2]
  BY <1>1
<1>3. /\ safe = data /\ onDisk = {dir} /\ crashes = 0
      /\ pull = [q \in Pulls |-> Idle]
  BY DEF CommandInit
<1>4. 1 \in Inodes /\ 2 \in Inodes /\ None \notin Inodes
  BY CommandAssumption, PullAssumption DEF CommandAssumption, PullAssumption
<1>5. data \in [Inodes -> FilesUpTo]
  <2>1. old \in FilesUpTo /\ (left # None => left \in FilesUpTo)
    BY EmptyIsFile, ArtifactFacts, FirstFile
  <2> QED BY <1>2, <2>1, EmptyIsFile
<1>6. dir \in Directory
  BY <1>2, <1>4 DEF Directory
<1>7. DirOK(onDisk, dir, data, safe)
  BY <1>2, <1>3, <1>4 DEF DirOK
<1>8. PullOK(Idle, dir, data, safe)
  BY PullAssumption DEF PullOK, HandleOK, WorkOK, Idle, Process, Job, PullAssumption
<1>9. \A q \in Pulls : pull[q] = Idle
  BY <1>3
<1>10. TypeOK
  BY <1>3, <1>5, <1>6, <1>8, PullAssumption DEF TypeOK, PullOK, PullAssumption
<1>11. HandleInv /\ WorkInv
  BY <1>8, <1>9, HandlesAlike, WorkAlike DEF PullOK
<1> QED BY <1>7, <1>10, <1>11, DirAlike DEF PullInv

LEMMA CommandInvFirst == CommandInit => CommandInv
<1> SUFFICES ASSUME CommandInit PROVE CommandInv
  OBVIOUS
<1>1. /\ pull[p].result = "none" /\ pull[p].pc = "idle"
      /\ main = "start" /\ code = None /\ handler = 0 /\ stopped = FALSE
      /\ latest = "none" /\ renderer = "off"
  BY OnePull DEF CommandInit, Idle
<1>2. Where /\ ResultInv /\ SignalInv /\ LineInv
  BY <1>1, OrderFacts
     DEF Where, ResultInv, SignalInv, LineInv, BeforeTransfer, AfterTransfer
<1>3. TapInv
  BY DEF CommandInit, TapInv, Stages
<1>4. StatusTellsWhy /\ LastLineIsTheEnd
  BY <1>1 DEF StatusTellsWhy, LastLineIsTheEnd
<1> QED BY <1>2, <1>3, <1>4, FirstPull DEF CommandInv

-----------------------------------------------------------------------------
(* A step of the pull, or none: the files and the pull's own invariant. *)

\* A step that moves the pull on, as Pulling lets it.
Advance == \/ Open(p) \/ Resolve(p) \/ PullFails(p) \/ Worker(p) \/ Owner(p)
           \/ \E s \in Slots : WriteSome(p, s) \/ Landing(p, s)

\* The pull has ended with a file at the destination, has failed, or is under way.
Ends == \/ pull'[p].result = "done" /\ dir'.dest # None
        \/ pull'[p].result = "failed"
        \/ pull'[p].result = "none" /\ pull'[p].pc # "idle"

LEMMA AdvanceEnds == ASSUME PullInv, pull[p].result = "none", Advance PROVE Ends
<1>1. pull \in [Pulls -> Process] /\ p \in Pulls
  BY OnePull DEF PullInv, TypeOK
<1>2. pull[p].pc = "dirsync" => dir.dest # None
  BY <1>1 DEF PullInv, HandleInv
<1>3. CASE Open(p)
  BY <1>1, <1>3 DEF Open, Idle, Ends
<1>4. CASE Resolve(p)
  BY <1>1, <1>4 DEF Resolve, Ends, Process
<1>5. CASE PullFails(p)
  BY <1>1, <1>5 DEF PullFails, Goto, Ends, Process
<1>6. CASE Worker(p)
  <2>1. pull[p].pc = "fetching"
    BY <1>6 DEF Worker, Take, Verify, InPool, At
  <2>2. pull'[p].pc = pull[p].pc /\ pull'[p].result = pull[p].result
    BY <1>1, <1>6 DEF Worker, Take, Verify, Process
  <2> QED BY <2>1, <2>2 DEF Ends
<1>7. CASE SizeFile(p) \/ GroupDone(p)
  BY <1>1, <1>7 DEF SizeFile, GroupDone, Goto, Ends, Process
<1>8. CASE Sync(p) \/ Rename(p)
  BY <1>1, <1>8 DEF Sync, Rename, Goto, Ends, Process
<1>9. CASE SyncDir(p)
  BY <1>1, <1>2, <1>9 DEF SyncDir, At, Return, Idle, Ends
<1>10. CASE CommitFails(p) \/ Cleanup(p)
  BY <1>1, <1>10 DEF CommitFails, Cleanup, Return, Idle, Ends
<1>11. ASSUME NEW s \in Slots, WriteSome(p, s) \/ Landing(p, s) PROVE Ends
  BY <1>1, <1>11 DEF WriteSome, Landing, PartLands, PartFails, InPool, At, Ends, Process
<1> QED BY <1>3, <1>4, <1>5, <1>6, <1>7, <1>8, <1>9, <1>10, <1>11 DEF Advance, Owner

\* What a request may come to moves the pull on.
LEMMA StepsAdvance ==
    /\ \A w \in Askers : (Answered(w) /\ Receives(w)) \/ (Between(w) /\ Breaks(w)) => Advance
    /\ \A s \in Slots : Answered(s) /\ WriteSome(p, s) => Advance
<1>1. ASSUME NEW w \in Askers, Receives(w) \/ Breaks(w) PROVE Advance
  <2>1. CASE w = 0
    BY <1>1, <2>1 DEF Receives, Breaks, Advance
  <2>2. CASE w # 0
    BY <1>1, <2>2 DEF Askers, Receives, Breaks, Landing, Advance
  <2> QED BY <2>1, <2>2
<1> QED BY <1>1 DEF Advance

LEMMA CancelLeaves ==
    ASSUME PullInv, Cancel(p)
    PROVE  dir' = dir /\ pull'[p].result = pull[p].result /\ pull'[p].pc = pull[p].pc
  BY OnePull DEF PullInv, TypeOK, Cancel, Process

LEMMA KillLeaves ==
    ASSUME PullInv, Kill(p)
    PROVE  dir' = dir /\ pull'[p].result = "none"
  BY OnePull DEF PullInv, TypeOK, Kill, Return, Idle

\* Whatever the command does, it does nothing to the files but what pulls do.
LEMMA CommandPulls == CommandNext => [Next]_vars
<1>1. Advance \/ Cancel(p) \/ Kill(p) => Next
  BY OnePull DEF Advance, Next
<1>2. Press \/ Inherit => [Next]_vars
  BY <1>1 DEF Press, Inherit
<1>3. Begins \/ PullSteps => [Next]_vars
  BY <1>1, StepsAdvance DEF Begins, PullSteps, Pulling, Outcome, NeverBegins, Advance
<1>4. Handles \/ SayInterrupted \/ Expire \/ Tick \/ WriteLine \/ Leave \/ TapSteps
         => UNCHANGED vars
  BY DEF TapSteps, Ask, RequestEnds, TapWrites, TapMoves, Handles, Receive, ResetOrRecord,
         EndCtx, SayInterrupted, Expire, Tick, WriteLine, Leave
<1>5. Runs \/ Writes \/ NoClient \/ Finished => UNCHANGED vars
  BY DEF Runs, Refuse, Accept, Stop, Join, Decide, Exit, Writes, StartTransfer, WriteFinal,
         WriteSummary, WriteResult, WriteReason, NoClient, Finished, commandVars
<1> QED BY <1>2, <1>3, <1>4, <1>5 DEF CommandNext

LEMMA PullKeeps == PullInv /\ [CommandNext]_commandVars => PullInv'
<1>1. [CommandNext]_commandVars => [Next]_vars
  BY CommandPulls DEF commandVars
<1> QED BY <1>1, OnePull, PullInvNext

-----------------------------------------------------------------------------
(* The rest of the invariant, goroutine by goroutine. *)

\* What the goroutines tell each other, apart from the pull's own state.
Telling == Where /\ ResultInv /\ SignalInv /\ LineInv /\ LastLineIsTheEnd

\* Steps that leave the pull alone.
LEMMA Quiet == UNCHANGED vars =>
    pull'[p].result = pull[p].result /\ pull'[p].pc = pull[p].pc /\ dir'.dest = dir.dest
  BY DEF vars

LEMMA PressKeeps == ASSUME PullInv, Telling, Press PROVE Telling'
<1>1. /\ UNCHANGED <<code, handler, taken, stopped, renderer, latest, printed>>
      /\ HasDone("cancel")' <=> HasDone("cancel")
  BY DEF Press, watchVars, HasDone
<1>2. CASE main' = "killed"
  <2>1. pull'[p].result = "done" => dir'.dest # None
    BY <1>2, Quiet, KillLeaves DEF Press, Telling, ResultInv
  <2>2. Where' /\ ResultInv' /\ LineInv' /\ LastLineIsTheEnd'
    BY <1>1, <1>2, <2>1 DEF Telling, Where, ResultInv, LineInv, LastLineIsTheEnd,
           BeforeTransfer, AfterTransfer
  <2>3. SignalInv'
    BY <1>1, <1>2 DEF Telling, SignalInv, BeforeTransfer, AfterTransfer
  <2> QED BY <2>2, <2>3 DEF Telling
<1>3. CASE main' # "killed"
  <2>1. UNCHANGED <<vars, main>>
    BY <1>3 DEF Press
  <2>2. Where' /\ ResultInv' /\ LineInv' /\ LastLineIsTheEnd'
    BY <1>1, <2>1, Quiet DEF Telling, Where, ResultInv, LineInv, LastLineIsTheEnd
  <2>3. SignalInv'
    BY <1>1, <2>1 DEF Telling, SignalInv
  <2> QED BY <2>2, <2>3 DEF Telling
<1> QED BY <1>2, <1>3

LEMMA HandlerKeeps ==
    ASSUME Telling, Handles \/ SayInterrupted \/ Expire
    PROVE  Telling'
<1>1. UNCHANGED <<vars, main, code, renderer, latest, printed>>
  BY DEF Handles, Receive, ResetOrRecord, EndCtx, SayInterrupted, Expire, watchVars
<1>2. handler' \in 0 .. Len(Order) /\ (handler \in {4, 5} => handler' \in {4, 5})
  BY DoesFacts
     DEF Telling, Where, Handles, Receive, ResetOrRecord, EndCtx, SayInterrupted, Expire
<1>3. Where' /\ ResultInv' /\ LineInv' /\ LastLineIsTheEnd'
  BY <1>1, <1>2, Quiet DEF Telling, Where, ResultInv, LineInv, LastLineIsTheEnd
<1>4. SignalInv'
  <2>1. CASE EndCtx
    <3>1. stopped' => main = "transfer" /\ handler' = 4
      BY <2>1, DoesFacts DEF EndCtx, Telling
    <3> QED BY <1>1, <1>3, <3>1, CancelledNext DEF SignalInv, BeforeTransfer, AfterTransfer
  <2>2. CASE ~EndCtx
    <3>1. stopped' = stopped
      BY <2>2 DEF Handles, Receive, ResetOrRecord, SayInterrupted, Expire
    <3>2. stopped => handler \in {4, 5}
      BY Cancelled DEF Telling, SignalInv
    <3>3. stopped => taken' = taken
      <4>1. Receive => handler = 0
        BY DoesFacts DEF Telling, Receive
      <4>2. ~Receive => taken' = taken
        BY <2>2 DEF Handles, ResetOrRecord, SayInterrupted, Expire
      <4> QED BY <3>2, <4>1, <4>2
    <3> QED BY <1>1, <1>2, <1>3, <3>1, <3>2, <3>3, CancelledNext DEF Telling, SignalInv
  <2> QED BY <2>1, <2>2
<1> QED BY <1>3, <1>4 DEF Telling

\* A step of the pull is reported as it is taken.
LEMMA PullingKeeps ==
    ASSUME PullInv, Telling, NEW ACTION step, Pulling(step), step => Advance
    PROVE  Telling'
<1>1. /\ main = "transfer" /\ UNCHANGED <<main, code, handler, taken, stopped, renderer, printed>>
      /\ pull[p].result = "none" /\ Advance
      /\ latest' = IF pull'[p].result = "none" THEN "moving" ELSE "terminal"
  BY DEF Pulling, signalVars
<1>2. Ends
  BY <1>1, AdvanceEnds
<1>3. Where' /\ ResultInv' /\ LastLineIsTheEnd'
  BY <1>1, <1>2 DEF Telling, Where, ResultInv, LastLineIsTheEnd, Ends
<1>4. LineInv'
  BY <1>1, <1>2 DEF LineInv, Ends, BeforeTransfer, AfterTransfer
<1>5. SignalInv'
  <2>1. HasDone("cancel")' <=> HasDone("cancel")
    BY <1>1 DEF HasDone
  <2> QED BY <1>1, <2>1 DEF Telling, SignalInv
<1> QED BY <1>3, <1>4, <1>5 DEF Telling

LEMMA InheritKeeps == ASSUME PullInv, Telling, Inherit PROVE Telling'
<1>1. /\ UNCHANGED <<main, code, handler, taken, stopped, renderer, latest, printed>>
      /\ dir' = dir /\ pull'[p].result = pull[p].result /\ pull'[p].pc = pull[p].pc
  BY CancelLeaves DEF Inherit, signalVars, watchVars
<1>2. HasDone("cancel")' <=> HasDone("cancel")
  BY <1>1 DEF HasDone
<1>3. Where' /\ ResultInv' /\ LineInv' /\ LastLineIsTheEnd'
  BY <1>1 DEF Telling, Where, ResultInv, LineInv, LastLineIsTheEnd
<1> QED BY <1>1, <1>2, <1>3 DEF Telling, SignalInv

\* The renderer writes what it copied while the transfer lasted, and leaves once.
LEMMA RendererKeeps == ASSUME Telling, Tick \/ WriteLine \/ Leave PROVE Telling'
<1>1. UNCHANGED <<vars, main, code, handler, taken, stopped, latest>>
  BY DEF Tick, WriteLine, Leave, signalVars
<1>2. /\ renderer \in {"idle", "moving", "terminal"}
      /\ renderer' \in {"idle", "moving", "terminal", "left"}
      /\ renderer' = "left" => main \notin BeforeTransfer \cup {"transfer"}
  BY DEF Telling, LineInv, Tick, WriteLine, Leave, Where
<1>3. main \notin AfterTransfer \ {"stop"} /\ main \notin BeforeTransfer
  BY <1>2 DEF Telling, LineInv
<1>4. Where' /\ ResultInv' /\ LineInv' /\ LastLineIsTheEnd'
  BY <1>1, <1>2, <1>3, Quiet
     DEF Telling, Where, ResultInv, LineInv, LastLineIsTheEnd, BeforeTransfer, AfterTransfer
<1>5. HasDone("cancel")' <=> HasDone("cancel")
  BY <1>1 DEF HasDone
<1> QED BY <1>1, <1>4, <1>5 DEF Telling, SignalInv

-----------------------------------------------------------------------------
(* run, from the transfer to the exit. *)

\* run and main leave the pull and the handler alone.
LEMMA RunsOnly ==
    ASSUME Telling, Runs \/ Writes \/ NeverBegins \/ NoClient
    PROVE  /\ UNCHANGED <<vars, handler, taken, stopped>>
           /\ HasDone("cancel")' <=> HasDone("cancel")
           /\ latest' = latest
  BY DEF Runs, Refuse, Accept, Stop, Join, Decide, Exit, Writes, StartTransfer, WriteFinal,
         WriteSummary, WriteResult, WriteReason, NeverBegins, NoClient, Proceed, signalVars,
         watchVars, HasDone,
         BeforeTransfer, AfterTransfer

LEMMA RunResult ==
    ASSUME Telling, Runs \/ Writes \/ NeverBegins \/ NoClient
    PROVE  Where' /\ ResultInv'
<1>1. UNCHANGED vars /\ handler' = handler /\ latest' = latest
  BY RunsOnly
<1>2. CASE Refuse \/ Accept \/ NoClient \/ StartTransfer \/ NeverBegins \/ Stop
  BY <1>1, <1>2, Quiet
     DEF Telling, Where, ResultInv, Refuse, Accept, NoClient, StartTransfer, NeverBegins,
         Stop, Proceed,
         BeforeTransfer, AfterTransfer, watchVars
<1>3. CASE Join \/ WriteFinal \/ WriteSummary \/ WriteResult \/ WriteReason \/ Exit
  BY <1>1, <1>3, Quiet
     DEF Telling, Where, ResultInv, Join, WriteFinal, WriteSummary, WriteResult, WriteReason,
         Exit,
         Proceed, BeforeTransfer, AfterTransfer, watchVars
<1>4. CASE Decide
  BY <1>1, <1>4, Quiet
     DEF Telling, Where, ResultInv, Decide, Proceed, BeforeTransfer, AfterTransfer,
         watchVars, exitStatus
<1> QED BY <1>2, <1>3, <1>4 DEF Runs, Writes

LEMMA RunSignal ==
    ASSUME Telling, Runs \/ Writes \/ NeverBegins \/ NoClient
    PROVE  SignalInv'
<1> SUFFICES ASSUME stopped'
             PROVE  /\ main' \notin BeforeTransfer
                    /\ main' \in AfterTransfer => code' # 2
                    /\ main' \in {"say", "told", "exited"} /\ code' # 0
                          => code' = exitStatus(taken)
  BY RunsOnly DEF Telling, SignalInv
<1>1. /\ HasDone("record") /\ main \notin BeforeTransfer
      /\ main \in AfterTransfer => code # 2
      /\ main \in {"say", "told", "exited"} /\ code # 0 => code = exitStatus(taken)
  BY RunsOnly, Cancelled DEF Telling, SignalInv
<1>2. CASE NeverBegins \/ Stop
  BY <1>2 DEF NeverBegins, Stop, Proceed, BeforeTransfer
<1>3. CASE Decide
  BY <1>1, <1>3 DEF Decide, Proceed, exitStatus, BeforeTransfer
<1>4. CASE Refuse \/ Accept \/ NoClient \/ StartTransfer
  BY <1>1, <1>4 DEF Refuse, Accept, NoClient, StartTransfer, Proceed, BeforeTransfer
<1>5. CASE Join \/ WriteFinal \/ WriteSummary \/ WriteResult \/ WriteReason \/ Exit
  BY <1>1, <1>5 DEF Join, WriteFinal, WriteSummary, WriteResult, WriteReason, Exit, Proceed,
         BeforeTransfer, AfterTransfer
<1> QED BY <1>2, <1>3, <1>4, <1>5 DEF Runs, Writes

\* stop waits for the renderer, and its line is the terminal snapshot.
LEMMA RunLine ==
    ASSUME PullInv, Telling, Runs \/ Writes \/ NeverBegins \/ NoClient
    PROVE  LineInv' /\ LastLineIsTheEnd'
<1>1. /\ UNCHANGED vars /\ handler' = handler /\ latest' = latest
      /\ pull'[p].result = pull[p].result /\ pull'[p].pc = pull[p].pc
  BY RunsOnly, Quiet
<1>2. CASE Refuse \/ Accept \/ NoClient \/ StartTransfer
  BY <1>1, <1>2
     DEF Telling, LineInv, LastLineIsTheEnd, Refuse, Accept, NoClient, StartTransfer,
         Proceed, BeforeTransfer, AfterTransfer, watchVars
<1>3. CASE NeverBegins \/ Stop
  BY <1>1, <1>3
     DEF Telling, LineInv, LastLineIsTheEnd, NeverBegins, Stop, At, Proceed, BeforeTransfer,
         AfterTransfer, watchVars
<1>4. CASE Join
  BY <1>1, <1>4
     DEF Telling, LineInv, LastLineIsTheEnd, Join, Proceed, BeforeTransfer, AfterTransfer, watchVars
<1>5. CASE WriteFinal
  BY <1>1, <1>5 DEF Telling, LineInv, LastLineIsTheEnd, WriteFinal, Proceed, BeforeTransfer,
         AfterTransfer
<1>6. CASE WriteSummary \/ WriteResult \/ Decide \/ WriteReason \/ Exit
  BY <1>1, <1>6
     DEF Telling, LineInv, LastLineIsTheEnd, WriteSummary, WriteResult, Decide, WriteReason,
         Exit, Proceed, BeforeTransfer,
         AfterTransfer, watchVars
<1> QED BY <1>2, <1>3, <1>4, <1>5, <1>6 DEF Runs, Writes

-----------------------------------------------------------------------------
(* The theorems. *)

\* A status of success is that of a pull that ended with a file in place.
LEMMA Status == PullInv /\ Telling => StatusTellsWhy
<1> SUFFICES ASSUME PullInv, Telling, main = "exited"
             PROVE  /\ code = 0 => Visible \in Artifacts
                    /\ stopped /\ code # 0 => code = exitStatus(taken)
  BY DEF StatusTellsWhy
<1>1. ASSUME code = 0 PROVE Visible \in Artifacts
  <2>1. dir.dest # None /\ dir \in onDisk
    BY <1>1 DEF Telling, ResultInv, PullInv, TypeOK
  <2> QED BY <2>1 DEF PullInv, DirInv, Visible
<1>2. stopped /\ code # 0 => code = exitStatus(taken)
  BY DEF Telling, SignalInv, BeforeTransfer, AfterTransfer
<1> QED BY <1>1, <1>2

LEMMA TellingNext == PullInv /\ Telling /\ [CommandNext]_commandVars => Telling'
<1> SUFFICES ASSUME PullInv, Telling, [CommandNext]_commandVars PROVE Telling'
  OBVIOUS
<1>1. CASE Press \/ Handles \/ SayInterrupted \/ Expire \/ Inherit \/ Tick \/ WriteLine \/ Leave
  BY <1>1, PressKeeps, HandlerKeeps, InheritKeeps, RendererKeeps
<1>2. CASE Runs \/ Writes \/ NeverBegins \/ NoClient
  BY <1>2, RunResult, RunSignal, RunLine DEF Telling
<1>3. CASE Pulling(Open(p)) \/ PullSteps
  <2>1. CASE Pulling(Open(p))
    BY <2>1, PullingKeeps DEF Advance
  <2>2. CASE Pulling(Worker(p) \/ Owner(p))
    BY <2>2, PullingKeeps DEF Advance
  <2>3. ASSUME NEW w \in Askers, Outcome(w) PROVE Telling'
    BY <2>3, PullingKeeps, StepsAdvance DEF Outcome
  <2>4. ASSUME NEW s \in Slots, Pulling(Answered(s) /\ WriteSome(p, s)) PROVE Telling'
    BY <2>4, PullingKeeps, StepsAdvance
  <2> QED BY <1>3, <2>1, <2>2, <2>3, <2>4 DEF PullSteps
<1>4. CASE TapSteps \/ UNCHANGED commandVars
  <2>1. /\ UNCHANGED <<vars, main, code, handler, taken, stopped, latest, renderer, printed>>
        /\ HasDone("cancel")' <=> HasDone("cancel")
    BY <1>4 DEF TapSteps, Ask, RequestEnds, TapWrites, TapMoves, commandVars, signalVars,
                watchVars, HasDone
  <2>2. Where' /\ ResultInv' /\ LineInv' /\ LastLineIsTheEnd'
    BY <2>1, Quiet DEF Telling, Where, ResultInv, LineInv, LastLineIsTheEnd
  <2> QED BY <2>1, <2>2 DEF Telling, SignalInv
<1> QED BY <1>1, <1>2, <1>3, <1>4 DEF CommandNext, Begins, Finished

\* Lines and requests of the tap come and go together.
LEMMA TapNext == PullInv /\ TapInv /\ [CommandNext]_commandVars => TapInv'
<1> SUFFICES ASSUME PullInv, TapInv, [CommandNext]_commandVars PROVE TapInv'
  OBVIOUS
<1>1. CASE UNCHANGED tapVars /\ (main' = "killed" \/ (pull' = pull /\ main # "killed"))
  BY <1>1 DEF tapVars, TapInv, AtRequest, InPool, At
<1>2. ASSUME NEW w \in Askers, Ask(w) \/ RequestEnds(w) \/ TapWrites(w) PROVE TapInv'
  <2>1. /\ pull' = pull /\ main' = main /\ debug' = debug
        /\ \A v \in Askers : AtRequest(v)' <=> AtRequest(v)
    BY <1>2 DEF Ask, RequestEnds, TapWrites, TapMoves, vars, AtRequest, InPool, At
  <2>2. \E to \in Stages : tap' = [tap EXCEPT ![w] = to]
    BY <1>2 DEF Ask, RequestEnds, TapWrites, TapMoves, Stages
  <2>3. debug /\ (main = "killed" \/ AtRequest(w))
    BY <1>2 DEF TapInv, Ask, RequestEnds, TapWrites, TapMoves
  <2> QED BY <2>1, <2>2, <2>3 DEF TapInv
<1>3. ASSUME NEW ACTION step, Pulling(step) PROVE TapInv'
  <2>1. /\ debug' = debug
        /\ tap' = [w \in Askers |-> IF AtRequest(w)' THEN tap[w] ELSE "quiet"]
    BY <1>3 DEF Pulling
  <2>2. "quiet" \in Stages
    BY DEF Stages
  <2> QED BY <2>1, <2>2 DEF TapInv
<1>4. CASE Inherit
  <2>1. \A w \in Askers : AtRequest(w)' <=> AtRequest(w)
    BY <1>4, OnePull DEF Inherit, Cancel, PullInv, TypeOK, Process, AtRequest, InPool, At
  <2> QED BY <1>4, <2>1 DEF Inherit, tapVars, TapInv
<1>5. CASE Press
  BY <1>1, <1>5 DEF Press, Gone, vars
<1>6. CASE Handles \/ SayInterrupted \/ Expire \/ Tick \/ WriteLine \/ Leave
  BY <1>1, <1>6 DEF Handles, Receive, ResetOrRecord, EndCtx, SayInterrupted, Expire, Tick,
                    WriteLine, Leave, Gone, vars
<1>7. CASE Runs \/ Writes \/ NeverBegins \/ NoClient
  BY <1>1, <1>7 DEF Runs, Refuse, Accept, Stop, Join, Decide, Exit, Writes, StartTransfer,
                    WriteFinal, WriteSummary, WriteResult, WriteReason, NeverBegins, NoClient,
                    Proceed, vars
<1>8. CASE UNCHANGED commandVars
  BY <1>8 DEF commandVars, vars, tapVars, TapInv, AtRequest, InPool, At
<1> QED BY <1>2, <1>3, <1>4, <1>5, <1>6, <1>7, <1>8
        DEF CommandNext, Begins, PullSteps, Outcome, TapSteps, Finished

\* The invariant of the command: what its goroutines know of each other is
\* true in every reachable state (run, watchSignals, watcher).
THEOREM CommandInvHolds == CommandSpec => []CommandInv
<1>1. CommandInit => PullInv /\ Telling /\ TapInv
  BY CommandInvFirst DEF CommandInv, Telling
<1>2. PullInv /\ Telling /\ TapInv /\ [CommandNext]_commandVars
         => PullInv' /\ Telling' /\ TapInv'
  BY PullKeeps, TellingNext, TapNext
<1>3. PullInv /\ Telling /\ TapInv => CommandInv
  BY Status DEF CommandInv, Telling
<1> QED BY <1>1, <1>2, <1>3, PTL DEF CommandSpec

\* The exit status is success only of a file that is there, and that of the
\* first signal when a signal stopped the pull (reportError).
THEOREM StatusIsTrue == CommandSpec => []StatusTellsWhy
  BY CommandInvHolds, PTL DEF CommandInv

\* The line stop writes is the last, and shows the terminal snapshot (stop).
THEOREM LastLineStays == CommandSpec => []LastLineIsTheEnd
  BY CommandInvHolds, PTL DEF CommandInv

\* The destination of `bigoci pull` is absent or a complete file, whatever a
\* run killed before it left behind (Sink.Commit).
THEOREM CommandIsWhole == CommandSpec => []DestinationIsWhole
<1>1. PullInv => DestinationIsWhole
  BY DirAlike DEF PullInv, TypeOK, DirOK, DestinationIsWhole, Visible
<1> QED BY <1>1, CommandInvHolds, PTL DEF CommandInv

\* The command as a whole, handler and deadline and all, implements
\* Destination: it publishes one whole file in one step or leaves the path as
\* it was (run, Sink.Commit).
THEOREM CommandImplements == CommandSpec => DestinationKept
<1>1. PullInv /\ PullInv' /\ [CommandNext]_commandVars => [Promise!DestNext]_(Promise!destVars)
  <2>1. [CommandNext]_commandVars => [Next]_vars
    BY CommandPulls DEF commandVars
  <2> QED BY <2>1, OnePull, PromiseKept
<1>2. CommandInit => Promise!DestInit
  <2>1. CommandInit => onDisk = {dir} /\ pull = [q \in Pulls |-> Idle]
    BY DEF CommandInit
  <2> QED BY <2>1, FirstPull, FirstPromise
<1>3. CommandInv => PullInv
  BY DEF CommandInv
<1> QED BY <1>1, <1>2, <1>3, CommandInvHolds, PTL
        DEF CommandSpec, DestinationKept, Promise!DestSpec

\* Whenever the command is interrupted, killed by a second signal or out of
\* time, what its pull found in place is still there for the next run to
\* resume (watchSignals, withDeadline).
THEOREM CommandLosesNothing == CommandSpec => ResumeLosesNothing
<1>1. PullInv /\ [CommandNext]_commandVars => [NothingLost]_vars
  <2>1. [CommandNext]_commandVars => [Next]_vars
    BY CommandPulls DEF commandVars
  <2> QED BY <2>1, OnePull, StepLosesNothing
<1>2. CommandInv => PullInv
  BY DEF CommandInv
<1> QED BY <1>1, <1>2, CommandInvHolds, PTL DEF CommandSpec, ResumeLosesNothing, NothingLost
=============================================================================
