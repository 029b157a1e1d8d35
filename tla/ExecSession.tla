----------------------------- MODULE ExecSession -----------------------------
(***************************************************************************)
(* One command idev runs in the container: API.Exec, the handler of the    *)
(* control websocket, the goroutine that relays window changes, and the    *)
(* two signal handlers of the process around them.  Each is a goroutine of *)
(* its own; what is between two channel operations is one step.            *)
(***************************************************************************)
EXTENDS Naturals

CONSTANTS Sizes,       \* window sizes of the host terminal
          NoSize,      \* no size was sent: Incus uses its default
          MaxChanges,  \* bounds how often the window changes
          MaxSignals   \* bounds how many interrupts arrive

ASSUME SizesAssumption == Sizes # {} /\ NoSize \notin Sizes
ASSUME BoundsAssumption == MaxChanges \in Nat /\ MaxSignals \in Nat

VARIABLES
  main,     \* the goroutine in API.Exec
  control,  \* the control websocket's handler, and its channels with main
  window,   \* the terminal's size, and the goroutine relaying its changes
  sig,      \* interrupts, and who has seen them
  cont      \* the container's end: the process, its output, the websocket

vars == <<main, control, window, sig, cont>>

Pcs == {"build", "raw", "size", "subscribe", "request", "connected", "wait",
        "drain", "unsubscribe", "restore", "await", "awaiting", "finish",
        "returned", "gone", "killed"}

Windowed == Sizes \cup {NoSize}

Mains ==
  [pc : Pcs, tty : BOOLEAN, raw : BOOLEAN, started : BOOLEAN, size : Windowed,
   gaveUp : BOOLEAN, result : {"none", "code", "error", "interrupted"}]

Controls ==
  [pc : {"none", "select", "resize", "signal", "over"}, resizes : BOOLEAN,
   size : Windowed, unread : BOOLEAN, sent : BOOLEAN, done : BOOLEAN]

Windows ==
  [size : Sizes, changes : 0 .. MaxChanges, relay : {"none", "on", "over"},
   caught : BOOLEAN, winch : BOOLEAN, notice : BOOLEAN, closed : BOOLEAN,
   stopped : BOOLEAN]

Sigs ==
  [count : 0 .. MaxSignals, first : BOOLEAN, next : BOOLEAN,
   ended : SUBSET {"signal", "deadline"}, watcher : {"idle", "armed"}]

Conts ==
  [state : {"none", "running", "exited"}, size : Windowed, termed : BOOLEAN,
   drained : BOOLEAN, wire : BOOLEAN]

TypeOK ==
  /\ main \in Mains
  /\ control \in Controls
  /\ window \in Windows
  /\ sig \in Sigs
  /\ cont \in Conts

Init ==
  /\ \E tty \in BOOLEAN :
       main = [pc |-> "build", tty |-> tty, raw |-> FALSE, started |-> FALSE,
               size |-> NoSize, gaveUp |-> FALSE, result |-> "none"]
  /\ control = [pc |-> "none", resizes |-> FALSE, size |-> NoSize,
                unread |-> FALSE, sent |-> FALSE, done |-> FALSE]
  /\ window = [size |-> CHOOSE s \in Sizes : TRUE, changes |-> 0, relay |-> "none",
               caught |-> FALSE, winch |-> FALSE, notice |-> FALSE, closed |-> FALSE,
               stopped |-> FALSE]
  /\ sig = [count |-> 0, first |-> FALSE, next |-> FALSE, ended |-> {},
            watcher |-> "idle"]
  /\ cont = [state |-> "none", size |-> NoSize, termed |-> FALSE,
             drained |-> FALSE, wire |-> TRUE]

Alive == main.pc \notin {"gone", "killed"}
CtxDone == sig.ended # {}
Goes(pc) == main' = [main EXCEPT !.pc = pc]

-----------------------------------------------------------------------------
(* main: from the request to the exit code.                                *)

\* newExecRequest: a user that is no uid ends it before anything is open.
Build ==
  /\ main.pc = "build"
  /\ \/ Goes(IF main.tty THEN "raw" ELSE "request")
     \/ main' = [main EXCEPT !.pc = "returned", !.result = "error"]
  /\ UNCHANGED <<control, window, sig, cont>>

\* A terminal that cannot be made raw: nothing to restore, nothing started.
MakeRaw ==
  /\ main.pc = "raw"
  /\ \/ main' = [main EXCEPT !.pc = "size", !.raw = TRUE]
     \/ main' = [main EXCEPT !.pc = "await", !.result = "error"]
  /\ UNCHANGED <<control, window, sig, cont>>

\* The size the request carries; unreadable, it is left to Incus.
ReadSize ==
  /\ main.pc = "size"
  /\ \E s \in {window.size, NoSize} :
       main' = [main EXCEPT !.pc = "subscribe", !.size = s]
  /\ UNCHANGED <<control, window, sig, cont>>

\* Console.Resized, after the size was read.
Subscribe ==
  /\ main.pc = "subscribe"
  /\ Goes("request")
  /\ window' = [window EXCEPT !.relay = "on"]
  /\ UNCHANGED <<control, sig, cont>>

\* The return that starts the deferred calls, last registered first.
Unwinds(result) ==
  main' = [main EXCEPT !.pc = IF main.tty THEN "unsubscribe" ELSE "await",
                       !.result = result]

\* ExecInstance asks for the size, opens the control websocket before the
\* others, and takes no context.
RequestControl ==
  /\ main.pc = "request"
  /\ Goes("connected")
  /\ control' = [control EXCEPT !.pc = "select", !.resizes = main.tty]
  /\ cont' = [cont EXCEPT !.size = main.size]
  /\ UNCHANGED <<window, sig>>

\* With every websocket open the process runs, and there is one to signal.
RequestDone ==
  /\ main.pc = "connected"
  /\ main' = [main EXCEPT !.pc = "wait", !.started = TRUE]
  /\ cont' = [cont EXCEPT !.state = "running"]
  /\ UNCHANGED <<control, window, sig>>

\* No such instance, not running yet, or a data websocket that will not open.
RequestFails ==
  /\ main.pc \in {"request", "connected"}
  /\ Unwinds("error")
  /\ UNCHANGED <<control, window, sig, cont>>

WaitAnswered ==
  /\ main.pc = "wait"
  /\ cont.state = "exited"
  /\ Goes("drain")
  /\ UNCHANGED <<control, window, sig, cont>>

WaitInterrupted ==
  /\ main.pc = "wait"
  /\ CtxDone
  /\ Unwinds("interrupted")
  /\ UNCHANGED <<control, window, sig, cont>>

\* The daemon stops answering, or fails the operation.
WaitFails ==
  /\ main.pc = "wait"
  /\ Unwinds("error")
  /\ UNCHANGED <<control, window, sig, cont>>

\* A mutant: the exit code is returned as soon as the process has one.
DrainAtOnce ==
  /\ main.pc = "drain"
  /\ Unwinds("code")
  /\ UNCHANGED <<control, window, sig, cont>>

Drained ==
  /\ main.pc = "drain"
  /\ cont.drained
  /\ Unwinds("code")
  /\ UNCHANGED <<control, window, sig, cont>>

DrainInterrupted ==
  /\ main.pc = "drain"
  /\ CtxDone
  /\ Unwinds("interrupted")
  /\ UNCHANGED <<control, window, sig, cont>>

(* main: the deferred calls.                                               *)

\* Ending the subscription: no more notices, and the relay is told.
Unsubscribe ==
  /\ main.pc = "unsubscribe"
  /\ Goes("restore")
  /\ window' = [window EXCEPT !.stopped = TRUE]
  /\ UNCHANGED <<control, sig, cont>>

\* A mutant: the terminal is given back once the signal is out, which it may
\* never be.
RestoreAfterwards ==
  /\ main.pc = "restore"
  /\ Goes("await")
  /\ UNCHANGED <<control, window, sig, cont>>

Restore ==
  /\ main.pc = "restore"
  /\ main' = [main EXCEPT !.pc = "await", !.raw = FALSE]
  /\ UNCHANGED <<control, window, sig, cont>>

\* A mutant: an interrupted exec returns without a word to the handler.
AwaitNothing ==
  /\ main.pc = "await"
  /\ Goes("finish")
  /\ UNCHANGED <<control, window, sig, cont>>

\* A signal is waited for only where a process was started to take it.
Await ==
  /\ main.pc = "await"
  /\ Goes(IF main.started /\ CtxDone THEN "awaiting" ELSE "finish")
  /\ UNCHANGED <<control, window, sig, cont>>

AwaitedSent ==
  /\ main.pc = "awaiting"
  /\ control.sent
  /\ Goes("finish")
  /\ UNCHANGED <<control, window, sig, cont>>

\* A mutant: no bound on the wait for the signal.
GraceUnbounded ==
  /\ main.pc = "awaiting"
  /\ control.sent
  /\ Goes("finish")
  /\ UNCHANGED <<control, window, sig, cont>>

\* signalGrace has run out.
GraceOver ==
  /\ main.pc = "awaiting"
  /\ main' = [main EXCEPT !.pc = "finish", !.gaveUp = TRUE]
  /\ UNCHANGED <<control, window, sig, cont>>

\* A mutant: done is closed only by an exec that was interrupted.
FinishIfInterrupted ==
  /\ main.pc = "finish"
  /\ Goes("returned")
  /\ control' = [control EXCEPT !.done = CtxDone]
  /\ UNCHANGED <<window, sig, cont>>

Finish ==
  /\ main.pc = "finish"
  /\ Goes("returned")
  /\ control' = [control EXCEPT !.done = TRUE]
  /\ UNCHANGED <<window, sig, cont>>

\* The command reports and the process ends, its goroutines with it.
Exit ==
  /\ main.pc = "returned"
  /\ Goes("gone")
  /\ UNCHANGED <<control, window, sig, cont>>

-----------------------------------------------------------------------------
(* The handler of the control websocket.                                   *)

HandlerOver(c) == [c EXCEPT !.pc = "over", !.sent = TRUE]

\* A mutant: done wins over an interruption that is ready too.
HandleDoneAsDone ==
  /\ control.pc = "select"
  /\ control.done
  /\ control' = HandlerOver(control)
  /\ UNCHANGED <<main, window, sig, cont>>

HandleDone ==
  /\ control.pc = "select"
  /\ control.done
  /\ control' = IF CtxDone THEN [control EXCEPT !.pc = "signal"] ELSE HandlerOver(control)
  /\ UNCHANGED <<main, window, sig, cont>>

HandleCtx ==
  /\ control.pc = "select"
  /\ CtxDone
  /\ control' = [control EXCEPT !.pc = "signal"]
  /\ UNCHANGED <<main, window, sig, cont>>

\* Mutants: a size that cannot be read ends the handler, or is sent as 0.
HandleResizeOrQuit ==
  /\ control.pc = "select"
  /\ control.resizes
  /\ window.notice
  /\ window' = [window EXCEPT !.notice = FALSE]
  /\ \/ control' = [control EXCEPT !.pc = "resize", !.size = window.size]
     \/ control' = HandlerOver(control)
  /\ UNCHANGED <<main, sig, cont>>

HandleResizeAsZero ==
  /\ control.pc = "select"
  /\ control.resizes
  /\ window.notice
  /\ window' = [window EXCEPT !.notice = FALSE]
  /\ \E s \in {window.size, 0} :
       control' = [control EXCEPT !.pc = "resize", !.size = s]
  /\ UNCHANGED <<main, sig, cont>>

\* The size is read when the notice is taken; one that cannot be is skipped.
HandleResize ==
  /\ control.pc = "select"
  /\ control.resizes
  /\ window.notice
  /\ window' = [window EXCEPT !.notice = FALSE]
  /\ \/ control' = [control EXCEPT !.pc = "resize", !.size = window.size]
     \/ control' = [control EXCEPT !.unread = TRUE]
  /\ UNCHANGED <<main, sig, cont>>

\* A closed channel would be ready for ever.
HandleClosed ==
  /\ control.pc = "select"
  /\ control.resizes
  /\ ~window.notice
  /\ window.closed
  /\ control' = [control EXCEPT !.resizes = FALSE]
  /\ UNCHANGED <<main, window, sig, cont>>

\* A mutant: a notice that arrived while a size was sent goes with it.
SendResizeTakingNotice ==
  /\ control.pc = "resize"
  /\ \/ /\ cont.wire
        /\ cont' = [cont EXCEPT !.size = control.size]
        /\ control' = [control EXCEPT !.pc = "select"]
     \/ /\ ~cont.wire
        /\ control' = HandlerOver(control)
        /\ UNCHANGED cont
  /\ window' = [window EXCEPT !.notice = FALSE]
  /\ UNCHANGED <<main, sig>>

\* A send that fails ends the handler, and nothing else.
SendResize ==
  /\ control.pc = "resize"
  /\ \/ /\ cont.wire
        /\ cont' = [cont EXCEPT !.size = control.size]
        /\ control' = [control EXCEPT !.pc = "select"]
     \/ /\ ~cont.wire
        /\ control' = HandlerOver(control)
        /\ UNCHANGED cont
  /\ UNCHANGED <<main, window, sig>>

\* forwardInterrupt ignores the outcome; finish closes sent either way.
SendSignal ==
  /\ control.pc = "signal"
  /\ control' = HandlerOver(control)
  /\ cont' = [cont EXCEPT !.termed = @ \/ cont.wire]
  /\ UNCHANGED <<main, window, sig>>

Select == HandleDone \/ HandleCtx \/ HandleResize \/ HandleClosed
Send == SendResize \/ SendSignal

-----------------------------------------------------------------------------
(* The terminal, and the goroutine that relays its changes.  Both channels *)
(* hold one entry, and a full one drops the next.  Changes that nobody      *)
(* follows, without a terminal or once unsubscribed, are left out.         *)

WindowChange ==
  /\ main.tty /\ ~window.stopped
  /\ window.changes < MaxChanges
  /\ \E s \in Sizes \ {window.size} :
       LET told == window.relay # "none"
       IN  window' = [window EXCEPT !.size = s, !.changes = @ + 1,
                                    !.caught = @ \/ told, !.winch = @ \/ told]
  /\ UNCHANGED <<main, control, sig, cont>>

RelayNotice ==
  /\ window.relay = "on"
  /\ window.winch
  /\ window' = [window EXCEPT !.winch = FALSE, !.notice = TRUE]
  /\ UNCHANGED <<main, control, sig, cont>>

RelayEnds ==
  /\ window.relay = "on"
  /\ window.stopped
  /\ window' = [window EXCEPT !.relay = "over", !.closed = TRUE]
  /\ UNCHANGED <<main, control, sig, cont>>

Relay == RelayNotice \/ RelayEnds

-----------------------------------------------------------------------------
(* Interrupts: signal.NotifyContext, and exitOnNextSignal's goroutine.     *)

\* A mutant: every signal goes where the first went, and nobody reads it.
SignalToFirst ==
  /\ sig.count < MaxSignals
  /\ sig' = [sig EXCEPT !.count = @ + 1, !.first = TRUE]
  /\ UNCHANGED <<main, control, window, cont>>

\* A later signal is lost unless the watcher has asked for it.
Signal ==
  /\ sig.count < MaxSignals
  /\ sig' = [sig EXCEPT !.count = @ + 1, !.first = TRUE,
                        !.next = @ \/ sig.watcher = "armed"]
  /\ UNCHANGED <<main, control, window, cont>>

Cancel ==
  /\ sig.first
  /\ "signal" \notin sig.ended
  /\ sig' = [sig EXCEPT !.ended = @ \cup {"signal"}]
  /\ UNCHANGED <<main, control, window, cont>>

\* waitExec bounds the probes it runs; one with a terminal has no deadline.
Deadline ==
  /\ ~main.tty
  /\ main.pc # "returned"
  /\ "deadline" \notin sig.ended
  /\ sig' = [sig EXCEPT !.ended = @ \cup {"deadline"}]
  /\ UNCHANGED <<main, control, window, cont>>

Arm ==
  /\ sig.watcher = "idle"
  /\ "signal" \in sig.ended
  /\ sig' = [sig EXCEPT !.watcher = "armed"]
  /\ UNCHANGED <<main, control, window, cont>>

\* A mutant: the second signal only cancels the context again.
CancelOnNext ==
  /\ sig.watcher = "armed"
  /\ sig.next
  /\ sig' = [sig EXCEPT !.ended = @ \cup {"signal"}]
  /\ UNCHANGED <<main, control, window, cont>>

\* os.Exit: no deferred call runs.
ExitOnNext ==
  /\ sig.watcher = "armed"
  /\ sig.next
  /\ Goes("killed")
  /\ UNCHANGED <<control, window, sig, cont>>

-----------------------------------------------------------------------------
(* The container, none of which idev can rely on.                          *)

ProcessExits ==
  /\ cont.state = "running"
  /\ cont' = [cont EXCEPT !.state = "exited"]
  /\ UNCHANGED <<main, control, window, sig>>

OutputEnds ==
  /\ cont.state = "exited"
  /\ ~cont.drained
  /\ cont' = [cont EXCEPT !.drained = TRUE]
  /\ UNCHANGED <<main, control, window, sig>>

WireBreaks ==
  /\ cont.wire
  /\ control.pc \notin {"none", "over"}
  /\ cont' = [cont EXCEPT !.wire = FALSE]
  /\ UNCHANGED <<main, control, window, sig>>

-----------------------------------------------------------------------------
Main ==
  \/ Build \/ MakeRaw \/ ReadSize \/ Subscribe
  \/ WaitAnswered \/ WaitInterrupted \/ Drained \/ DrainInterrupted
  \/ Unsubscribe \/ Restore \/ Await \/ AwaitedSent \/ GraceOver \/ Finish

Daemon == RequestControl \/ RequestDone \/ RequestFails \/ WaitFails

Signals == Cancel \/ Arm \/ ExitOnNext

Environment ==
  \/ Signal \/ Deadline \/ WindowChange
  \/ ProcessExits \/ OutputEnds \/ WireBreaks

Step == Main \/ Daemon \/ Exit \/ Select \/ Send \/ Relay \/ Signals \/ Environment

Terminating == ~Alive /\ UNCHANGED vars

Next == (Alive /\ Step) \/ Terminating

\* Each goroutine runs when it can.  Nothing is assumed of the daemon, of the
\* process in the container, of a send on the websocket or of the user.
Fairness ==
  /\ WF_vars(Alive /\ Main)
  /\ WF_vars(Alive /\ Select)
  /\ WF_vars(Alive /\ Relay)
  /\ WF_vars(Alive /\ Cancel) /\ WF_vars(Alive /\ Arm) /\ WF_vars(Alive /\ ExitOnNext)

Spec == Init /\ [][Next]_vars /\ Fairness

-----------------------------------------------------------------------------
(* Properties.                                                             *)

Over == main.pc \in {"returned", "gone", "killed"}

\* The process in the container was told before an interrupted Exec returned,
\* unless the websocket was broken or the grace period ran out (5.7.3).
InterruptReaches ==
  /\ main.pc \in {"finish", "returned", "gone"}
  /\ main.result = "interrupted" /\ ~main.gaveUp /\ cont.wire
  => cont.termed

\* A handler that ends while the interruption stands has passed it on, however
\* select chose between it, done and a resize.
InterruptWins ==
  [][control.pc # "over" /\ control'.pc = "over" /\ CtxDone /\ cont.wire
     => cont'.termed]_vars

\* An exit code is the one of a process whose output has all arrived.
CodeIsWhole == main.result = "code" => cont.state = "exited" /\ cont.drained

\* Once Exec waits for the signal, and whenever it returns, the terminal is
\* back: a Ctrl-C typed during the grace period is a signal again.
TerminalBack ==
  main.pc \in {"await", "awaiting", "finish", "returned", "gone"} => ~main.raw

\* An interruption ends an Exec whose request was answered, whatever the
\* process, its output and the control websocket do.
InterruptEnds ==
  (CtxDone /\ main.pc \in {"wait", "drain"}) ~> Over

\* The second signal, once asked for, ends a process stuck in any call.
NextSignalEnds == sig.next ~> ~Alive

\* The container ends up with the size of the window after any change idev was
\* notified of, however notices were merged, while sizes can be read and sent.
SizeSettles ==
  WF_vars(Alive /\ Send) =>
    (window.caught /\ cont.state = "running" /\ cont.size # window.size
       ~> \/ cont.size = window.size
          \/ main.pc \notin {"connected", "wait", "drain"}
          \/ control.pc \in {"signal", "over"}
          \/ cont.state # "running" \/ control.unread)

\* An Exec that returned leaves no goroutine behind in a process that goes on.
NothingLeft ==
  WF_vars(Alive /\ Send) =>
    (main.pc = "returned"
       ~> \/ ~Alive
          \/ control.pc \in {"none", "over"} /\ window.relay \in {"none", "over"})
=============================================================================
