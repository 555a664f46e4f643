------------------------------- MODULE Command -------------------------------
(***************************************************************************)
(* The process that runs `bigoci pull`: main, the goroutine watchSignals   *)
(* starts, and the one that renders progress, around the pull of Pull.     *)
(*                                                                         *)
(* Standard error is a pipe somebody may stop reading, so any write to it  *)
(* may take for ever, also the lines -debug has the pull's own goroutines  *)
(* write about their requests.  Signals come at any time.                  *)
(***************************************************************************)
EXTENDS Pull

\* The process runs one pull; what a crash of an earlier one left takes up the
\* first two files.
ASSUME CommandAssumption == /\ \E q \in Pulls : Pulls = {q}
                            /\ {1, 2} \subseteq Inodes

VARIABLES main,      \* where run is
          code,      \* the exit code it has decided on
          handler,   \* how many steps of Order the handler has to its credit
          delivered, \* the channel signals are delivered to
          taken,     \* the signal the handler has received from it
          ctx,       \* the context the pull was given is done
          stopped,   \* history: the handler ended it while the pull ran
          latest,    \* the watcher's snapshot
          renderer,  \* what the renderer is doing: the line it writes, if any
          printed,   \* the last progress line on standard error
          debug,     \* the command was given -debug
          tap        \* how far the tap is with the request of each goroutine

signalVars == <<handler, delivered, taken, ctx, stopped>>
watchVars == <<latest, renderer, printed>>
tapVars == <<debug, tap>>
commandVars == <<vars, main, code, signalVars, watchVars, tapVars>>

\* The one pull of the process.
p == CHOOSE q \in Pulls : TRUE

\* Mistake: the caller is told before a second signal can take effect.
MessageFirst == <<"receive", "record", "cancel", "write", "reset">>

\* Mistake: what ends the pull is noted after it has been ended.
CancelFirst == <<"receive", "reset", "cancel", "record", "write">>

\* What the handler does, in this order.
Order == <<"receive", "reset", "record", "cancel", "write">>

Signals == {"SIGINT", "SIGTERM"}
exitStatus(s) == IF s = "SIGTERM" THEN 143 ELSE 130

\* The handler has done this; it does it next.
HasDone(step) == \E k \in 1 .. handler : Order[k] = step
Does(step) == handler < Len(Order) /\ Order[handler + 1] = step /\ handler' = handler + 1

\* Who makes requests: the caller, for the manifest, and one worker per part.
Askers == {0} \cup Slots

Gone == main \in {"exited", "killed"}

\* A leftover of an earlier run may have one part of two.
CommandInit ==
    /\ \E old \in {<<>>} \cup Artifacts, a \in Artifacts :
         \E left \in {None, [Resized(a, Len(a)) EXCEPT ![1] = Torn]} :
           /\ data = [i \in Inodes |-> CASE i = 1 -> old
                                         [] i = 2 -> IF left = None THEN <<>> ELSE left
                                         [] OTHER -> <<>>]
           /\ dir = [dest |-> IF old = <<>> THEN None ELSE 1,
                     partial |-> IF left = None THEN None ELSE 2]
    /\ safe = data /\ onDisk = {dir} /\ crashes = 0
    /\ pull = [q \in Pulls |-> Idle]
    /\ main = "start" /\ code = None
    /\ handler = 0 /\ delivered = None /\ taken = None
    /\ ctx = FALSE /\ stopped = FALSE
    /\ latest = "none" /\ renderer = "off" /\ printed = "none"
    /\ debug \in BOOLEAN /\ tap = [w \in Askers |-> "quiet"]

-----------------------------------------------------------------------------
(* The caller, and the handler of watchSignals. *)

\* A signal: the channel has room for one, and nobody waits for more; once the
\* disposition is the default again, it kills.
Press ==
    /\ ~Gone
    /\ IF HasDone("reset")
       THEN /\ main' = "killed"
            /\ IF At(p, "idle") THEN UNCHANGED vars ELSE Kill(p)
            /\ UNCHANGED delivered
       ELSE /\ \E s \in Signals : delivered' = IF delivered = None THEN s ELSE delivered
            /\ UNCHANGED <<vars, main>>
    /\ UNCHANGED <<code, handler, taken, ctx, stopped, watchVars, tapVars>>

Receive == /\ Does("receive") /\ delivered # None /\ ~Gone
           /\ taken' = delivered /\ delivered' = None
           /\ UNCHANGED <<vars, main, code, ctx, stopped, watchVars, tapVars>>

\* signal.Reset, and sig.record.
ResetOrRecord ==
    /\ Does("reset") \/ Does("record")
    /\ ~Gone
    /\ UNCHANGED <<vars, main, code, delivered, taken, ctx, stopped, watchVars, tapVars>>

\* cancel.
EndCtx == /\ Does("cancel") /\ ~Gone
          /\ ctx' = TRUE /\ stopped' = (main = "transfer")
          /\ UNCHANGED <<vars, main, code, delivered, taken, watchVars, tapVars>>

\* The message about it gets written.
SayInterrupted ==
    /\ Does("write") /\ ~Gone
    /\ UNCHANGED <<vars, main, code, delivered, taken, ctx, stopped, watchVars, tapVars>>

\* withDeadline: the time that was asked for is up.
Expire == /\ main = "transfer" /\ ~ctx
          /\ ctx' = TRUE
          /\ UNCHANGED <<vars, main, code, handler, delivered, taken, stopped, watchVars, tapVars>>

-----------------------------------------------------------------------------
(* The pull, and what it reports. *)

\* The pull has the ctx of the command: it learns of its end, at its next step
\* if it has not begun.
Inherited == ctx => CtxDone(p) \/ pull[p].pc \notin {"resolve", "size", "fetching"}

Inherit == /\ main = "transfer" /\ ~Inherited /\ Cancel(p)
           /\ UNCHANGED <<main, code, signalVars, watchVars, tapVars>>

\* Mistake: writeLine holds the lock of the snapshot while it writes.
HoldsLockWriting == {"moving", "terminal"}

\* Where the renderer, between two of its steps, holds the lock record needs:
\* nowhere, for writeLine lets go of it before it writes.
HoldsLock == {}

\* Goroutine w is where it makes requests; what a request brings it in the end,
\* and how it may fail.
AtRequest(w) == IF w = 0 THEN At(p, "resolve") ELSE InPool(p, w, "fetch")
Receives(w) == IF w = 0 THEN Resolve(p) ELSE PartLands(p, w)
Breaks(w) == IF w = 0 THEN PullFails(p) ELSE PartFails(p, w)

\* A step of the pull, which reports it: record stores the snapshot.
Pulling(step) ==
    /\ main = "transfer" /\ pull[p].result = "none"
    /\ Inherited /\ renderer \notin HoldsLock
    /\ step
    /\ latest' = IF pull'[p].result = "none" THEN "moving" ELSE "terminal"
    /\ tap' = [w \in Askers |-> IF AtRequest(w)' THEN tap[w] ELSE "quiet"]
    /\ UNCHANGED <<main, code, signalVars, renderer, printed, debug>>

\* The request has ended and the tap is done with it, if there is a tap; the
\* goroutine is not inside RoundTrip.
Answered(w) == tap[w] = IF debug THEN "answered" ELSE "quiet"
Between(w) == tap[w] \in {"quiet", "answered"}

Outcome(w) == Pulling((Answered(w) /\ Receives(w)) \/ (Between(w) /\ Breaks(w)))

PullSteps == \/ Pulling(Worker(p) \/ Owner(p))
             \/ \E w \in Askers : Outcome(w)
             \/ \E s \in Slots : Pulling(Answered(s) /\ WriteSome(p, s))

-----------------------------------------------------------------------------
(* The wire tap: inside RoundTrip, in the goroutine whose request it is.  One *)
(* request stands for all that a part or the manifest takes.                  *)

\* How far the tap is with the request of w: "asking" and "answering" are lines
\* to be written.  A goroutine that waits for tap.mu or lineWriter.mu behind the
\* line of another is one whose own is to be written too.
Stages == {"quiet", "asking", "asked", "answering", "answered"}

TapMoves(w, from, to) ==
    /\ main = "transfer" /\ tap[w] = from
    /\ tap' = [tap EXCEPT ![w] = to]
    /\ UNCHANGED <<vars, main, code, signalVars, watchVars, debug>>

\* A request enters the tap, which has a line to write before it goes out.
Ask(w) == debug /\ AtRequest(w) /\ TapMoves(w, "quiet", "asking")

\* The request has been answered, or broken off; that is another line.
RequestEnds(w) == TapMoves(w, "asked", "answering")

\* A line of the tap gets written, whatever has become of ctx.
TapWrites(w) == TapMoves(w, "asking", "asked") \/ TapMoves(w, "answering", "answered")

TapSteps == \E w \in Askers : Ask(w) \/ RequestEnds(w) \/ TapWrites(w)

-----------------------------------------------------------------------------
(* The renderer. *)

\* A tick: the latest snapshot is copied, if there is one, to be written.
Tick == /\ renderer = "idle" /\ latest # "none" /\ ~Gone
        /\ renderer' = latest
        /\ UNCHANGED <<vars, main, code, signalVars, latest, printed, tapVars>>

WriteLine == /\ renderer \in {"moving", "terminal"} /\ ~Gone
             /\ printed' = renderer /\ renderer' = "idle"
             /\ UNCHANGED <<vars, main, code, signalVars, latest, tapVars>>

\* quit is closed; it was a tick that could have been served instead.
Leave == /\ renderer = "idle" /\ main \notin {"start", "preflight", "transfer"} /\ ~Gone
         /\ renderer' = "left"
         /\ UNCHANGED <<vars, main, code, signalVars, latest, printed, tapVars>>

-----------------------------------------------------------------------------
(* run and main. *)

Proceed(from, to) == main = from /\ main' = to

\* The command line is refused: its usage is the answer whatever else happens.
Refuse == /\ Proceed("start", "report")
          /\ code' = 2
          /\ UNCHANGED <<vars, signalVars, watchVars, tapVars>>

\* The command line is in order.
Accept == /\ Proceed("start", "preflight")
          /\ UNCHANGED <<vars, code, signalVars, watchVars, tapVars>>

\* newClient: no credentials are to be had.
NoClient == /\ Proceed("preflight", "report")
            /\ code' = 1
            /\ UNCHANGED <<vars, signalVars, watchVars, tapVars>>

\* What the run is about to do gets written, the tap's first line before it;
\* then the watcher is started, if asked for, and the pull.
StartTransfer == /\ Proceed("preflight", "transfer")
                 /\ renderer' \in {"off", "idle"}
                 /\ UNCHANGED <<vars, code, signalVars, latest, printed, tapVars>>

\* The pull fails before it begins: a bad reference, a sink it cannot make.
NeverBegins == /\ Proceed("transfer", "stop")
               /\ At(p, "idle") /\ pull[p].result = "none"
               /\ code' = 1
               /\ UNCHANGED <<vars, signalVars, watchVars, tapVars>>

Begins == Pulling(Open(p)) \/ NeverBegins

\* The pull has returned; stop closes quit.
Stop == /\ Proceed("transfer", "stop")
        /\ pull[p].result # "none"
        /\ code' = IF pull[p].result = "done" THEN 0 ELSE 1
        /\ UNCHANGED <<vars, signalVars, watchVars, tapVars>>

\* Mistake: stop does not wait until the renderer has left.
JoinNobody == /\ Proceed("stop", "final")
              /\ UNCHANGED <<vars, code, signalVars, watchVars, tapVars>>

Join == /\ Proceed("stop", "final")
        /\ renderer \in {"off", "left"}
        /\ UNCHANGED <<vars, code, signalVars, watchVars, tapVars>>

\* stop's own line, unless nothing was ever reported or nobody watches.
WriteFinal == /\ Proceed("final", IF debug THEN "tally" ELSE "report")
              /\ printed' = IF renderer = "off" THEN printed ELSE latest
              /\ UNCHANGED <<vars, code, signalVars, latest, renderer, tapVars>>

\* The tap's summary.
WriteSummary == /\ Proceed("tally", "report")
                /\ UNCHANGED <<vars, code, signalVars, watchVars, tapVars>>

\* The result, or the first line of reportError.
WriteResult == /\ \/ code = 0 /\ Proceed("report", "told")
                  \/ code = 1 /\ Proceed("report", "decide")
                  \/ code = 2 /\ Proceed("report", "say")
               /\ UNCHANGED <<vars, code, signalVars, watchVars, tapVars>>

\* reportError: a recorded signal outranks the error's shape, a sentinel it
\* matches gives a code of its own.
Decide == /\ Proceed("decide", "say")
          /\ \/ HasDone("record") /\ code' = exitStatus(taken)
             \/ ~HasDone("record") /\ code' \in {1} \cup 3 .. 7
          /\ UNCHANGED <<vars, signalVars, watchVars, tapVars>>

\* The second line of reportError, or the usage.
WriteReason == /\ Proceed("say", "told")
               /\ UNCHANGED <<vars, code, signalVars, watchVars, tapVars>>

\* main: os.Exit.
Exit == /\ Proceed("told", "exited")
        /\ UNCHANGED <<vars, code, signalVars, watchVars, tapVars>>

Finished == Gone /\ UNCHANGED commandVars

\* What takes for ever if nobody reads standard error.
Writes == StartTransfer \/ WriteFinal \/ WriteSummary \/ WriteResult \/ WriteReason
Runs == Refuse \/ Accept \/ Stop \/ Join \/ Decide \/ Exit
Handles == Receive \/ ResetOrRecord \/ EndCtx

CommandNext == \/ Press \/ Handles \/ SayInterrupted \/ Expire
               \/ NoClient \/ Begins \/ Inherit \/ PullSteps \/ TapSteps
               \/ Tick \/ WriteLine \/ Leave
               \/ Runs \/ Writes \/ Finished

CommandSpec == CommandInit /\ [][CommandNext]_commandVars

\* What the goroutines of the process do on their own; a request whose ctx is
\* done ends, as in Pull.
Local == \/ Handles \/ Runs \/ Begins \/ Inherit \/ Pulling(Worker(p) \/ Owner(p))
         \/ \E w \in Askers : Ask(w) \/ (CtxDone(p) /\ RequestEnds(w))
         \/ \E w \in Askers : Pulling(CtxDone(p) /\ Between(w) /\ Breaks(w))

\* Every goroutine is scheduled unless it waits for standard error: together
\* they take these steps finitely often, so none is passed over while others
\* go on.  select does not overlook a closed quit for ever.
CommandFairness == WF_commandVars(Local) /\ SF_commandVars(Leave)

CommandFairSpec == CommandSpec /\ CommandFairness

\* The registry answers every request or drops it.
PeerAnswers == WF_commandVars(\E w \in Askers : RequestEnds(w) \/ Outcome(w))

\* Somebody reads what is written.
StderrDrains == /\ WF_commandVars(WriteLine)
                /\ WF_commandVars(Writes \/ \E w \in Askers : TapWrites(w))

-----------------------------------------------------------------------------
(* Properties. *)

\* The exit code says why: success only of a file that is there, and a failure
\* of a pull that a signal stopped is the first signal's, however the two
\* goroutines interleave (reportError: "A recorded signal outranks the error's
\* shape").
StatusTellsWhy ==
    main = "exited" =>
        /\ code = 0 => Visible \in Artifacts
        /\ stopped /\ code # 0 => code = exitStatus(taken)

\* Once stop has printed its line, that is the last one and shows the terminal
\* snapshot: a tick being served at that moment was waited for (stop: "the
\* last progress line is the terminal snapshot").
LastLineIsTheEnd ==
    main \in {"tally", "report", "decide", "say", "told", "exited"} /\ renderer # "off" =>
        printed = latest /\ printed # "moving"

\* Whoever keeps pressing is rid of the process, although the registry stalls
\* and nobody reads standard error (watchSignals: "Until the disposition is
\* back to the default, a second interrupt lands in a channel nobody reads").
Interruptible == WF_commandVars(Press) => <>Gone

\* A pull that is stopped, or of which a part has failed, returns although
\* requests stay unanswered and the renderer is stuck in a write (fetchParts:
\* "a failed or cancelled pull cannot leave a worker behind"; watcher:
\* "nothing this CLI does can slow a transfer down").  With -debug that is so
\* only if standard error is read: the tap writes its lines in the goroutines
\* of the transfer and asks no ctx.
Stopped == (ctx \/ CtxDone(p)) /\ main = "transfer"

StoppedPullsReturn == /\ Stopped /\ ~debug ~> main # "transfer"
                      /\ StderrDrains => (Stopped ~> main # "transfer")

\* The command ends if the registry answers and standard error is read.
CommandEnds == PeerAnswers /\ StderrDrains => <>Gone

-----------------------------------------------------------------------------
(* Why the invariants hold. *)

AfterTransfer == {"stop", "final", "tally", "report", "decide", "say", "told", "exited"}

BeforeTransfer == {"start", "preflight"}

Where == /\ main \in BeforeTransfer \cup {"transfer", "killed"} \cup AfterTransfer
         /\ handler \in 0 .. Len(Order)
         /\ renderer \in {"off", "idle", "moving", "terminal", "left"}
         /\ latest \in {"none", "moving", "terminal"}

\* The result of a pull that has returned stays what it was, and the exit code
\* is made of it once.
ResultInv ==
    /\ pull[p].result = "done" => dir.dest # None
    /\ main \in {"stop", "final", "tally", "report", "told", "exited"} /\ code = 0
          => pull[p].result = "done"
    /\ main = "decide" => code = 1
    /\ main = "say" => code # 0

\* A signal that stops the pull has been noted before, so whoever decides on
\* the exit code finds it.
SignalInv ==
    stopped => /\ HasDone("cancel") /\ main \notin BeforeTransfer
               /\ main \in AfterTransfer => code # 2
               /\ main \in {"say", "told", "exited"} /\ code # 0
                     => code = exitStatus(taken)

\* The snapshot follows the pull, and a renderer that has left writes nothing.
LineInv ==
    /\ main \in BeforeTransfer \cup {"transfer"} =>
          latest = IF pull[p].result # "none" THEN "terminal"
                   ELSE IF pull[p].pc = "idle" THEN "none" ELSE "moving"
    /\ main \in BeforeTransfer => latest = "none" /\ renderer = "off"
    /\ main \in AfterTransfer => latest # "moving"
    /\ main \in AfterTransfer \ {"stop"} => renderer \in {"off", "left"}

\* The tap has to do with requests under way, and only if it was asked for.
TapInv == /\ debug \in BOOLEAN /\ tap \in [Askers -> Stages]
          /\ \A w \in Askers : tap[w] # "quiet" => debug /\ (main = "killed" \/ AtRequest(w))

CommandInv == /\ PullInv /\ Where /\ ResultInv /\ SignalInv /\ LineInv /\ TapInv
              /\ StatusTellsWhy /\ LastLineIsTheEnd
=============================================================================
