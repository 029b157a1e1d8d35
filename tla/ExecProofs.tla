------------------------------ MODULE ExecProofs ------------------------------
(***************************************************************************)
(* Safety of ExecSession, for every set of window sizes and any number of  *)
(* window changes and interrupts.                                          *)
(***************************************************************************)
EXTENDS ExecSession, TLAPS

\* done is closed last; sent is closed exactly by a handler that is over.
Channels ==
  /\ control.done => main.pc \in {"returned", "gone", "killed"}
  /\ control.sent <=> control.pc = "over"

\* A handler ends told to, by a broken websocket, or after the signal.
HandlerEnds == control.pc = "over" /\ cont.wire => cont.termed \/ control.done

\* Nothing runs before it was asked for, and only a terminal is made raw.
Progress ==
  /\ main.pc \in {"build", "raw", "size", "subscribe", "request"} => control.pc = "none"
  /\ main.pc \in {"build", "raw", "size", "subscribe", "request", "connected"}
       => cont.state = "none" /\ ~cont.drained
  /\ main.pc \in {"raw", "size", "subscribe"} => main.tty
  /\ main.pc \in {"wait", "drain"} => main.started

\* Only a started exec is interrupted, and an interruption is not taken back.
Interrupted ==
  /\ main.result = "interrupted" => main.started /\ CtxDone
  /\ main.pc \in {"build", "raw", "size", "subscribe", "request", "connected",
                  "wait", "drain"} => main.result = "none"

\* Output ends after the process, and main follows both.
Streams ==
  /\ cont.drained => cont.state = "exited"
  /\ main.pc = "drain" => cont.state = "exited"

\* A raw terminal is one of an exec that will pass through restore.
Raw ==
  main.raw => /\ main.tty
              /\ main.pc \in {"size", "subscribe", "request", "connected", "wait",
                              "drain", "unsubscribe", "restore", "killed"}

ExecInv ==
  /\ TypeOK
  /\ Progress
  /\ Channels
  /\ HandlerEnds
  /\ Interrupted
  /\ Streams
  /\ Raw
  /\ InterruptReaches
  /\ CodeIsWhole
-------------------------------------------------------------------------------
LEMMA InitExecInv == Init => ExecInv
<1> SUFFICES ASSUME Init PROVE ExecInv
  OBVIOUS
<1>1. (CHOOSE s \in Sizes : TRUE) \in Sizes
  BY SizesAssumption
<1>2. TypeOK
  BY <1>1, BoundsAssumption DEF Init, TypeOK, Mains, Controls, Windows, Sigs, Conts,
     Windowed, Pcs
<1> QED
  BY <1>2 DEF Init, ExecInv, Progress, Channels, HandlerEnds, Interrupted, Streams, Raw,
     InterruptReaches, CodeIsWhole, CtxDone

\* Every step keeps the types.
LEMMA StepTypes == ASSUME TypeOK, Step PROVE TypeOK'
<1> USE DEF TypeOK
<1>1. CASE Build
  BY <1>1 DEF Build, Goes, Mains, Pcs, Windowed
<1>2. CASE MakeRaw
  BY <1>2 DEF MakeRaw, Mains, Pcs, Windowed
<1>3. CASE ReadSize
  BY <1>3 DEF ReadSize, Mains, Pcs, Windowed, Windows
<1>4. CASE Subscribe
  BY <1>4 DEF Subscribe, Goes, Mains, Windows, Pcs, Windowed
<1>5. CASE RequestControl
  BY <1>5 DEF RequestControl, Goes, Mains, Controls, Conts, Pcs, Windowed
<1>6. CASE RequestDone
  BY <1>6 DEF RequestDone, Mains, Conts, Pcs, Windowed
<1>7. CASE RequestFails
  BY <1>7 DEF RequestFails, Unwinds, Mains, Pcs, Windowed
<1>8. CASE WaitAnswered
  BY <1>8 DEF WaitAnswered, Goes, Mains, Pcs, Windowed
<1>9. CASE WaitInterrupted
  BY <1>9 DEF WaitInterrupted, Unwinds, Mains, Pcs, Windowed
<1>10. CASE WaitFails
  BY <1>10 DEF WaitFails, Unwinds, Mains, Pcs, Windowed
<1>11. CASE Drained
  BY <1>11 DEF Drained, Unwinds, Mains, Pcs, Windowed
<1>12. CASE DrainInterrupted
  BY <1>12 DEF DrainInterrupted, Unwinds, Mains, Pcs, Windowed
<1>13. CASE Unsubscribe
  BY <1>13 DEF Unsubscribe, Goes, Mains, Windows, Pcs, Windowed
<1>14. CASE Restore
  BY <1>14 DEF Restore, Mains, Pcs, Windowed
<1>15. CASE Await
  BY <1>15 DEF Await, Goes, Mains, Pcs, Windowed
<1>16. CASE AwaitedSent
  BY <1>16 DEF AwaitedSent, Goes, Mains, Pcs, Windowed
<1>17. CASE GraceOver
  BY <1>17 DEF GraceOver, Mains, Pcs, Windowed
<1>18. CASE Finish
  BY <1>18 DEF Finish, Goes, Mains, Controls, Pcs, Windowed
<1>19. CASE Exit
  BY <1>19 DEF Exit, Goes, Mains, Pcs, Windowed
<1>20. CASE HandleDone
  BY <1>20 DEF HandleDone, HandlerOver, Controls, Windowed
<1>21. CASE HandleCtx
  BY <1>21 DEF HandleCtx, Controls, Windowed
<1>22. CASE HandleResize
  BY <1>22 DEF HandleResize, Controls, Windows, Windowed
<1>23. CASE HandleClosed
  BY <1>23 DEF HandleClosed, Controls, Windowed
<1>24. CASE SendResize
  BY <1>24 DEF SendResize, HandlerOver, Controls, Conts, Windowed
<1>25. CASE SendSignal
  BY <1>25 DEF SendSignal, HandlerOver, Controls, Conts, Windowed
<1>26. CASE WindowChange
  <2>1. PICK s \in Sizes : window' =
          [window EXCEPT !.size = s, !.changes = @ + 1,
                         !.caught = @ \/ window.relay # "none",
                         !.winch = @ \/ window.relay # "none"]
    BY <1>26 DEF WindowChange
  <2>2. window.changes + 1 \in 0 .. MaxChanges
    BY <1>26, BoundsAssumption DEF WindowChange, Windows
  <2>3. window' \in Windows
    BY <2>1, <2>2 DEF Windows
  <2> QED
    BY <1>26, <2>3 DEF WindowChange
<1>27. CASE RelayNotice
  BY <1>27 DEF RelayNotice, Windows
<1>28. CASE RelayEnds
  BY <1>28 DEF RelayEnds, Windows
<1>29. CASE Signal
  <2>1. sig.count + 1 \in 0 .. MaxSignals
    BY <1>29, BoundsAssumption DEF Signal, Sigs
  <2> QED
    BY <1>29, <2>1 DEF Signal, Sigs
<1>30. CASE Cancel
  BY <1>30 DEF Cancel, Sigs
<1>31. CASE Deadline
  BY <1>31 DEF Deadline, Sigs
<1>32. CASE Arm
  BY <1>32 DEF Arm, Sigs
<1>33. CASE ExitOnNext
  BY <1>33 DEF ExitOnNext, Goes, Mains, Pcs, Windowed
<1>34. CASE ProcessExits
  BY <1>34 DEF ProcessExits, Conts, Windowed
<1>35. CASE OutputEnds
  BY <1>35 DEF OutputEnds, Conts, Windowed
<1>36. CASE WireBreaks
  BY <1>36 DEF WireBreaks, Conts, Windowed
<1> QED
  BY <1>1, <1>2, <1>3, <1>4, <1>5, <1>6, <1>7, <1>8, <1>9, <1>10, <1>11,
     <1>12, <1>13, <1>14, <1>15, <1>16, <1>17, <1>18, <1>19, <1>20, <1>21,
     <1>22, <1>23, <1>24, <1>25, <1>26, <1>27, <1>28, <1>29, <1>30, <1>31,
     <1>32, <1>33, <1>34, <1>35, <1>36
     DEF Step, Main, Daemon, Select, Send, Relay, Signals, Environment

\* Every step keeps the order things start in.
LEMMA StepProgress ==
  ASSUME TypeOK, Progress, Step
  PROVE  Progress'
<1> USE DEF TypeOK, Progress
<1>1. CASE \/ Build \/ MakeRaw \/ ReadSize \/ Subscribe \/ RequestFails
           \/ WaitAnswered \/ WaitInterrupted \/ WaitFails \/ Drained \/ DrainInterrupted
  <2>1. CASE Build
    BY <2>1 DEF Build, Goes, Mains
  <2>2. CASE MakeRaw
    BY <2>2 DEF MakeRaw, Mains
  <2>3. CASE ReadSize \/ Subscribe
    BY <2>3 DEF ReadSize, Subscribe, Goes, Mains
  <2>4. CASE \/ RequestFails \/ WaitAnswered \/ WaitInterrupted \/ WaitFails
             \/ Drained \/ DrainInterrupted
    BY <2>4 DEF RequestFails, WaitAnswered, WaitInterrupted, WaitFails, Drained,
       DrainInterrupted, Goes, Unwinds, Mains
  <2> QED
    BY <1>1, <2>1, <2>2, <2>3, <2>4
<1>2. CASE RequestControl
  BY <1>2 DEF RequestControl, Goes, Controls, Conts, Mains
<1>3. CASE RequestDone
  BY <1>3 DEF RequestDone, Controls, Conts, Mains
<1>4. CASE \/ Unsubscribe \/ Restore \/ Await \/ AwaitedSent \/ GraceOver
           \/ Exit \/ ExitOnNext
  <2>1. CASE Unsubscribe \/ Restore \/ Await
    BY <2>1 DEF Unsubscribe, Restore, Await, Goes, Mains
  <2>2. CASE AwaitedSent \/ GraceOver \/ Exit \/ ExitOnNext
    BY <2>2 DEF AwaitedSent, GraceOver, Exit, ExitOnNext, Goes, Mains
  <2> QED
    BY <1>4, <2>1, <2>2
<1>5. CASE Finish
  BY <1>5 DEF Finish, Goes, Controls, Conts, Mains
<1>6. CASE \/ HandleDone \/ HandleCtx \/ HandleResize \/ HandleClosed
           \/ SendResize \/ SendSignal
  BY <1>6 DEF HandleDone, HandleCtx, HandleResize, HandleClosed, SendResize,
     SendSignal, HandlerOver, Controls, Conts, Mains, Windows
<1>7. CASE ProcessExits \/ OutputEnds \/ WireBreaks
  BY <1>7 DEF ProcessExits, OutputEnds, WireBreaks, Controls, Conts, Mains
<1>8. CASE \/ WindowChange \/ RelayNotice \/ RelayEnds \/ Signal
           \/ Cancel \/ Deadline \/ Arm
  BY <1>8 DEF WindowChange, RelayNotice, RelayEnds, Signal, Cancel,
     Deadline, Arm
<1> QED
  BY <1>1, <1>2, <1>3, <1>4, <1>5, <1>6, <1>7, <1>8
     DEF Step, Main, Daemon, Select, Send, Relay, Signals, Environment

\* done and sent are closed once, by main and by the handler.
LEMMA StepChannels ==
  ASSUME TypeOK, Progress, Channels, Step
  PROVE  Channels'
<1> USE DEF TypeOK, Progress, Channels
<1>1. CASE \/ Build \/ MakeRaw \/ ReadSize \/ Subscribe \/ RequestFails
           \/ WaitAnswered \/ WaitInterrupted \/ WaitFails \/ Drained
           \/ DrainInterrupted
  BY <1>1 DEF Build, MakeRaw, ReadSize, Subscribe, RequestFails,
     WaitAnswered, WaitInterrupted, WaitFails, Drained, DrainInterrupted,
     Goes, Unwinds, Controls, Mains, Windows
<1>2. CASE RequestControl
  BY <1>2 DEF RequestControl, Goes, Controls, Conts, Mains
<1>3. CASE RequestDone
  BY <1>3 DEF RequestDone, Controls, Conts, Mains
<1>4. CASE \/ Unsubscribe \/ Restore \/ Await \/ AwaitedSent \/ GraceOver
           \/ Exit \/ ExitOnNext
  BY <1>4 DEF Unsubscribe, Restore, Await, AwaitedSent, GraceOver, Exit,
     ExitOnNext, Goes, Controls, Mains, Windows
<1>5. CASE Finish
  BY <1>5 DEF Finish, Goes, Controls, Mains
<1>6. CASE HandleDone \/ HandleCtx \/ HandleResize \/ HandleClosed
  BY <1>6 DEF HandleDone, HandleCtx, HandleResize, HandleClosed, HandlerOver,
     Controls, Mains
<1>7. CASE SendResize
  BY <1>7 DEF SendResize, HandlerOver, Controls, Mains, Conts
<1>8. CASE SendSignal
  BY <1>8 DEF SendSignal, HandlerOver, Controls, Mains, Conts
<1>9. CASE \/ WindowChange \/ RelayNotice \/ RelayEnds \/ Signal
           \/ Cancel \/ Deadline \/ Arm \/ ProcessExits \/ OutputEnds
           \/ WireBreaks
  BY <1>9 DEF WindowChange, RelayNotice, RelayEnds, Signal, Cancel,
     Deadline, Arm, ProcessExits, OutputEnds, WireBreaks
<1> QED
  BY <1>1, <1>2, <1>3, <1>4, <1>5, <1>6, <1>7, <1>8, <1>9
     DEF Step, Main, Daemon, Select, Send, Relay, Signals, Environment

\* No handler ends with an interruption untold.
LEMMA StepHandlerEnds ==
  ASSUME TypeOK, Progress, HandlerEnds, Step
  PROVE  HandlerEnds'
<1> USE DEF TypeOK, HandlerEnds
<1>1. CASE RequestControl
  BY <1>1 DEF RequestControl, Goes, Controls, Conts, Mains
<1>2. CASE RequestDone
  BY <1>2 DEF RequestDone, Controls, Conts, Mains
<1>3. CASE Finish
  BY <1>3 DEF Finish, Goes, Controls, Conts, Mains
<1>4. CASE HandleDone \/ HandleCtx \/ HandleResize \/ HandleClosed
  <2>1. CASE HandleDone
    BY <2>1 DEF HandleDone, HandlerOver, Controls
  <2>2. CASE HandleCtx
    BY <2>2 DEF HandleCtx, Controls
  <2>3. CASE HandleResize
    BY <2>3 DEF HandleResize, Controls
  <2>4. CASE HandleClosed
    BY <2>4 DEF HandleClosed, Controls
  <2> QED
    BY <1>4, <2>1, <2>2, <2>3, <2>4
<1>5. CASE SendResize
  BY <1>5 DEF SendResize, HandlerOver, Controls, Conts
<1>6. CASE SendSignal
  BY <1>6 DEF SendSignal, HandlerOver, Controls, Conts
<1>7. CASE ProcessExits \/ OutputEnds \/ WireBreaks
  BY <1>7 DEF ProcessExits, OutputEnds, WireBreaks, Controls, Conts
<1>8. CASE \/ Build \/ MakeRaw \/ ReadSize \/ Subscribe \/ RequestFails
           \/ WaitAnswered \/ WaitInterrupted \/ WaitFails \/ Drained
           \/ DrainInterrupted \/ Unsubscribe \/ Restore \/ Await
           \/ AwaitedSent \/ GraceOver \/ Exit \/ ExitOnNext
           \/ WindowChange \/ RelayNotice \/ RelayEnds \/ Signal
           \/ Cancel \/ Deadline \/ Arm
  BY <1>8 DEF Build, MakeRaw, ReadSize, Subscribe, RequestFails,
     WaitAnswered, WaitInterrupted, WaitFails, Drained, DrainInterrupted,
     Unsubscribe, Restore, Await, AwaitedSent, GraceOver, Exit, ExitOnNext,
     WindowChange, RelayNotice, RelayEnds, Signal, Cancel, Deadline, Arm
<1> QED
  BY <1>1, <1>2, <1>3, <1>4, <1>5, <1>6, <1>7, <1>8
     DEF Step, Main, Daemon, Select, Send, Relay, Signals, Environment

\* An interruption is of a started exec, and stands.
LEMMA StepInterrupted ==
  ASSUME TypeOK, Progress, Interrupted, Step
  PROVE  Interrupted'
<1> USE DEF TypeOK, Progress, Interrupted
<1>1. CtxDone => CtxDone'
  <2>1. CASE Signals \/ Signal \/ Deadline
    BY <2>1 DEF CtxDone, Signals, Cancel, Arm, ExitOnNext, Signal, Deadline, Sigs
  <2>2. CASE UNCHANGED sig
    BY <2>2 DEF CtxDone
  <2> QED
    BY <2>1, <2>2 DEF Step, Main, Build, MakeRaw, ReadSize, Subscribe, WaitAnswered,
       WaitInterrupted, Drained, DrainInterrupted, Unsubscribe, Restore, Await,
       AwaitedSent, GraceOver, Finish, Daemon, RequestControl, RequestDone,
       RequestFails, WaitFails, Exit, Select, HandleDone, HandleCtx, HandleResize,
       HandleClosed, Send, SendResize, SendSignal, Relay, RelayNotice, RelayEnds,
       Environment, WindowChange, ProcessExits, OutputEnds, WireBreaks
<1>2. CASE WaitInterrupted \/ DrainInterrupted
  BY <1>1, <1>2 DEF WaitInterrupted, DrainInterrupted, Unwinds, Mains
<1>3. CASE MakeRaw
  <2>1. main.result = "none"
    BY <1>3 DEF MakeRaw
  <2>2. \/ main' = [main EXCEPT !.pc = "size", !.raw = TRUE]
        \/ main' = [main EXCEPT !.pc = "await", !.result = "error"]
    BY <1>3 DEF MakeRaw
  <2>3. CASE main' = [main EXCEPT !.pc = "size", !.raw = TRUE]
    BY <2>1, <2>3 DEF Mains
  <2>4. CASE main' = [main EXCEPT !.pc = "await", !.result = "error"]
    BY <2>4 DEF Mains
  <2> QED
    BY <2>2, <2>3, <2>4
<1>4. CASE Build \/ ReadSize \/ Subscribe \/ WaitAnswered \/ Drained
  BY <1>1, <1>4 DEF Build, ReadSize, Subscribe, WaitAnswered, Drained, Goes, Unwinds, Mains
<1>5. CASE Daemon
  BY <1>1, <1>5 DEF Daemon, RequestControl, RequestDone, RequestFails, WaitFails, Goes,
     Unwinds, Mains
<1>6. CASE Unsubscribe \/ Restore \/ Await \/ AwaitedSent \/ GraceOver \/ Finish
  BY <1>1, <1>6 DEF Unsubscribe, Restore, Await, AwaitedSent, GraceOver, Finish, Goes, Mains
<1>7. CASE Exit \/ ExitOnNext
  BY <1>1, <1>7 DEF Exit, ExitOnNext, Goes, Mains
<1>8. CASE UNCHANGED main
  BY <1>1, <1>8
<1> QED
  BY <1>2, <1>3, <1>4, <1>5, <1>6, <1>7, <1>8
     DEF Step, Main, Select, HandleDone, HandleCtx, HandleResize, HandleClosed, Send,
     SendResize, SendSignal, Relay, RelayNotice, RelayEnds, Signals, Cancel, Arm,
     Environment, Signal, Deadline, WindowChange, ProcessExits, OutputEnds, WireBreaks

\* Output ends after the process.
LEMMA StepStreams ==
  ASSUME TypeOK, Progress, Streams, Step
  PROVE  Streams'
<1> USE DEF TypeOK, Progress, Streams
<1>1. CASE \/ Build \/ MakeRaw \/ ReadSize \/ Subscribe \/ RequestFails
           \/ WaitAnswered \/ WaitInterrupted \/ WaitFails \/ Drained
           \/ DrainInterrupted
  BY <1>1 DEF Build, MakeRaw, ReadSize, Subscribe, RequestFails,
     WaitAnswered, WaitInterrupted, WaitFails, Drained, DrainInterrupted,
     Goes, Unwinds, Conts, Mains, Windows
<1>2. CASE RequestControl
  BY <1>2 DEF RequestControl, Goes, Controls, Conts, Mains
<1>3. CASE RequestDone
  BY <1>3 DEF RequestDone, Conts, Mains
<1>4. CASE \/ Unsubscribe \/ Restore \/ Await \/ AwaitedSent \/ GraceOver
           \/ Exit \/ ExitOnNext
  BY <1>4 DEF Unsubscribe, Restore, Await, AwaitedSent, GraceOver, Exit,
     ExitOnNext, Goes, Conts, Mains, Windows
<1>5. CASE Finish
  BY <1>5 DEF Finish, Goes, Controls, Conts, Mains
<1>6. CASE SendResize \/ SendSignal
  BY <1>6 DEF SendResize, SendSignal, HandlerOver, Controls, Conts, Mains
<1>7. CASE ProcessExits \/ OutputEnds \/ WireBreaks
  BY <1>7 DEF ProcessExits, OutputEnds, WireBreaks, Conts, Mains
<1>8. CASE \/ HandleDone \/ HandleCtx \/ HandleResize \/ HandleClosed
           \/ WindowChange \/ RelayNotice \/ RelayEnds \/ Signal
           \/ Cancel \/ Deadline \/ Arm
  BY <1>8 DEF HandleDone, HandleCtx, HandleResize, HandleClosed,
     WindowChange, RelayNotice, RelayEnds, Signal, Cancel, Deadline, Arm
<1> QED
  BY <1>1, <1>2, <1>3, <1>4, <1>5, <1>6, <1>7, <1>8
     DEF Step, Main, Daemon, Select, Send, Relay, Signals, Environment

\* A raw terminal is on its way to restore.
LEMMA StepRaw ==
  ASSUME TypeOK, Progress, Raw, Step
  PROVE  Raw'
<1> USE DEF TypeOK, Progress, Raw
<1>1. CASE \/ Build \/ MakeRaw \/ ReadSize \/ Subscribe \/ RequestFails
           \/ WaitAnswered \/ WaitInterrupted \/ WaitFails \/ Drained
           \/ DrainInterrupted
  BY <1>1 DEF Build, MakeRaw, ReadSize, Subscribe, RequestFails,
     WaitAnswered, WaitInterrupted, WaitFails, Drained, DrainInterrupted,
     Goes, Unwinds, Mains, Windows
<1>2. CASE RequestControl
  BY <1>2 DEF RequestControl, Goes, Controls, Conts, Mains
<1>3. CASE RequestDone
  BY <1>3 DEF RequestDone, Conts, Mains
<1>4. CASE \/ Unsubscribe \/ Restore \/ Await \/ AwaitedSent \/ GraceOver
           \/ Exit \/ ExitOnNext
  BY <1>4 DEF Unsubscribe, Restore, Await, AwaitedSent, GraceOver, Exit,
     ExitOnNext, Goes, Mains, Windows
<1>5. CASE Finish
  BY <1>5 DEF Finish, Goes, Controls, Mains
<1>6. CASE \/ HandleDone \/ HandleCtx \/ HandleResize \/ HandleClosed
           \/ SendResize \/ SendSignal \/ WindowChange \/ RelayNotice
           \/ RelayEnds \/ Signal \/ Cancel \/ Deadline \/ Arm
           \/ ProcessExits \/ OutputEnds \/ WireBreaks
  BY <1>6 DEF HandleDone, HandleCtx, HandleResize, HandleClosed, SendResize,
     SendSignal, WindowChange, RelayNotice, RelayEnds, Signal, Cancel,
     Deadline, Arm, ProcessExits, OutputEnds, WireBreaks
<1> QED
  BY <1>1, <1>2, <1>3, <1>4, <1>5, <1>6
     DEF Step, Main, Daemon, Select, Send, Relay, Signals, Environment

\* An exit code is returned after the output.
LEMMA StepCode ==
  ASSUME TypeOK, Streams, Interrupted, CodeIsWhole, Step
  PROVE  CodeIsWhole'
<1> USE DEF TypeOK, Streams, Interrupted, CodeIsWhole
<1>1. CASE \/ Build \/ MakeRaw \/ ReadSize \/ Subscribe \/ RequestFails
           \/ WaitAnswered \/ WaitInterrupted \/ WaitFails \/ Drained
           \/ DrainInterrupted
  BY <1>1 DEF Build, MakeRaw, ReadSize, Subscribe, RequestFails,
     WaitAnswered, WaitInterrupted, WaitFails, Drained, DrainInterrupted,
     Goes, Unwinds, Conts, Mains, Windows
<1>2. CASE RequestControl
  BY <1>2 DEF RequestControl, Goes, Controls, Conts, Mains
<1>3. CASE RequestDone
  BY <1>3 DEF RequestDone, Conts, Mains
<1>4. CASE \/ Unsubscribe \/ Restore \/ Await \/ AwaitedSent \/ GraceOver
           \/ Exit \/ ExitOnNext
  BY <1>4 DEF Unsubscribe, Restore, Await, AwaitedSent, GraceOver, Exit,
     ExitOnNext, Goes, Conts, Mains, Windows
<1>5. CASE Finish
  BY <1>5 DEF Finish, Goes, Controls, Conts, Mains
<1>6. CASE SendResize \/ SendSignal
  BY <1>6 DEF SendResize, SendSignal, HandlerOver, Controls, Conts, Mains
<1>7. CASE ProcessExits \/ OutputEnds \/ WireBreaks
  BY <1>7 DEF ProcessExits, OutputEnds, WireBreaks, Conts, Mains
<1>8. CASE \/ HandleDone \/ HandleCtx \/ HandleResize \/ HandleClosed
           \/ WindowChange \/ RelayNotice \/ RelayEnds \/ Signal
           \/ Cancel \/ Deadline \/ Arm
  BY <1>8 DEF HandleDone, HandleCtx, HandleResize, HandleClosed,
     WindowChange, RelayNotice, RelayEnds, Signal, Cancel, Deadline, Arm
<1> QED
  BY <1>1, <1>2, <1>3, <1>4, <1>5, <1>6, <1>7, <1>8
     DEF Step, Main, Daemon, Select, Send, Relay, Signals, Environment

\* Exec returns from an interruption once the handler is over.
LEMMA StepReaches ==
  ASSUME TypeOK, Channels, HandlerEnds, Interrupted, InterruptReaches, Step
  PROVE  InterruptReaches'
<1> USE DEF TypeOK, Channels, HandlerEnds, Interrupted, InterruptReaches,
     CtxDone
<1>1. CASE \/ Build \/ MakeRaw \/ ReadSize \/ Subscribe \/ RequestFails
           \/ WaitAnswered \/ WaitInterrupted \/ WaitFails \/ Drained
           \/ DrainInterrupted
  BY <1>1 DEF Build, MakeRaw, ReadSize, Subscribe, RequestFails,
     WaitAnswered, WaitInterrupted, WaitFails, Drained, DrainInterrupted,
     Goes, Unwinds, Conts, Mains, Windows
<1>2. CASE RequestControl
  BY <1>2 DEF RequestControl, Goes, Controls, Conts, Mains
<1>3. CASE RequestDone
  BY <1>3 DEF RequestDone, Conts, Mains
<1>4. CASE \/ Unsubscribe \/ Restore \/ Await \/ AwaitedSent \/ GraceOver
           \/ Exit \/ ExitOnNext
  BY <1>4 DEF Unsubscribe, Restore, Await, AwaitedSent, GraceOver, Exit,
     ExitOnNext, Goes, Conts, Mains, Windows
<1>5. CASE Finish
  BY <1>5 DEF Finish, Goes, Controls, Conts, Mains
<1>6. CASE SendResize \/ SendSignal
  BY <1>6 DEF SendResize, SendSignal, HandlerOver, Controls, Conts, Mains
<1>7. CASE ProcessExits \/ OutputEnds \/ WireBreaks
  BY <1>7 DEF ProcessExits, OutputEnds, WireBreaks, Conts, Mains
<1>8. CASE \/ HandleDone \/ HandleCtx \/ HandleResize \/ HandleClosed
           \/ WindowChange \/ RelayNotice \/ RelayEnds \/ Signal
           \/ Cancel \/ Deadline \/ Arm
  BY <1>8 DEF HandleDone, HandleCtx, HandleResize, HandleClosed,
     WindowChange, RelayNotice, RelayEnds, Signal, Cancel, Deadline, Arm
<1> QED
  BY <1>1, <1>2, <1>3, <1>4, <1>5, <1>6, <1>7, <1>8
     DEF Step, Main, Daemon, Select, Send, Relay, Signals, Environment

LEMMA StepExecInv == ExecInv /\ [Next]_vars => ExecInv'
<1> SUFFICES ASSUME ExecInv, [Next]_vars PROVE ExecInv'
  OBVIOUS
<1>1. CASE Step
  BY <1>1, StepTypes, StepProgress, StepChannels, StepHandlerEnds, StepInterrupted,
     StepStreams, StepRaw, StepCode, StepReaches DEF ExecInv
<1>2. CASE UNCHANGED vars
  BY <1>2 DEF vars, ExecInv, TypeOK, Progress, Channels, HandlerEnds, Interrupted,
     Streams, Raw, InterruptReaches, CodeIsWhole, CtxDone
<1> QED
  BY <1>1, <1>2 DEF Next, Terminating

LEMMA ExecInvHolds == Spec => []ExecInv
BY InitExecInv, StepExecInv, PTL DEF Spec

\* Every goroutine of Exec, the window, the signals and the container stay in the
\* states the module names for them.
THEOREM ExecTypeCorrect == Spec => []TypeOK
<1>1. ExecInv => TypeOK
  BY DEF ExecInv
<1> QED
  BY <1>1, ExecInvHolds, PTL

\* API.Exec, forwardInterrupt and finish: an interrupted Exec does not return
\* before the process in the container was told, save for a broken websocket or
\* the grace period.
THEOREM InterruptedExecTells == Spec => []InterruptReaches
<1>1. ExecInv => InterruptReaches
  BY DEF ExecInv
<1> QED
  BY <1>1, ExecInvHolds, PTL

\* API.Exec: the exit code is returned after the process and its output ended.
THEOREM CodeAfterOutput == Spec => []CodeIsWhole
<1>1. ExecInv => CodeIsWhole
  BY DEF ExecInv
<1> QED
  BY <1>1, ExecInvHolds, PTL

\* Console.MakeRaw's restore: the terminal is back before Exec waits or returns.
THEOREM TerminalIsRestored == Spec => []TerminalBack
<1>1. ExecInv => TerminalBack
  BY DEF ExecInv, Raw, TerminalBack
<1> QED
  BY <1>1, ExecInvHolds, PTL

\* HandleDone, HandleCtx, SendResize and SendSignal: no handler ends with an
\* interruption untold.
THEOREM NoInterruptIsDropped == Spec => InterruptWins
<1>1. ExecInv /\ [Next]_vars
        => [control.pc # "over" /\ control'.pc = "over" /\ CtxDone /\ cont.wire
              => cont'.termed]_vars
  <2> SUFFICES ASSUME ExecInv, Next, control.pc # "over", control'.pc = "over",
                      CtxDone, cont.wire
               PROVE  cont'.termed
    OBVIOUS
  <2> USE DEF ExecInv, TypeOK
  <2>1. CASE RequestControl \/ Finish
    BY <2>1 DEF RequestControl, Finish, Controls
  <2>2. CASE HandleDone
    BY <2>2 DEF HandleDone, Controls
  <2>3. CASE HandleCtx \/ HandleResize \/ HandleClosed
    BY <2>3 DEF HandleCtx, HandleResize, HandleClosed, Controls
  <2>4. CASE SendResize
    BY <2>4 DEF SendResize, Controls
  <2>5. CASE SendSignal
    BY <2>5 DEF SendSignal, Conts
  <2>6. CASE UNCHANGED control
    BY <2>6
  <2> QED
    BY <2>1, <2>2, <2>3, <2>4, <2>5, <2>6
       DEF Next, Step, Main, Build, MakeRaw, ReadSize, Subscribe, WaitAnswered,
           WaitInterrupted, Drained, DrainInterrupted, Unsubscribe, Restore, Await,
           AwaitedSent, GraceOver, Daemon, RequestDone, RequestFails, WaitFails, Exit,
           Select, Send, Relay, RelayNotice, RelayEnds, Signals, Cancel, Arm, ExitOnNext,
           Environment, Signal, Deadline, WindowChange, ProcessExits, OutputEnds,
           WireBreaks, Terminating, vars
<1> QED
  BY <1>1, ExecInvHolds, PTL DEF Spec, InterruptWins
===============================================================================
