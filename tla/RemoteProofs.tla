---------------------------- MODULE RemoteProofs ----------------------------
(***************************************************************************)
(* What the answers of Incus and of the image servers are good for, in any *)
(* run that may be interrupted anywhere: for any images.                   *)
(***************************************************************************)
EXTENDS RemoteCalls, TLAPS

-----------------------------------------------------------------------------
(* The inductive invariant.                                                *)

Places ==
  {"begin", "connecting", "check", "checking", "read", "killing", "deleting", "create",
   "resolving", "ask", "creating", "stop", "stopping", "force", "forcing", "start",
   "starting", "look", "stuck", "over"}

RunShape == DOMAIN run = {"job", "pc", "how", "image", "checked"}
CallShape == DOMAIN call = {"made", "answer", "image"}
DaemonShape == DOMAIN daemon = {"inst", "op"} /\ DOMAIN daemon.op = {"what", "state"}

RemoteTypes ==
  /\ RunShape /\ CallShape /\ DaemonShape
  /\ run.job \in Jobs /\ run.pc \in Places
  /\ call.answer \in {"none", "ok", "failed"}
  /\ daemon.inst \in {"running", "stopped", "none"}
  /\ daemon.op.what \in {"none", "kill", "stop", "delete", "create", "start"}
  /\ daemon.op.state \in {"running", "done", "failed", "cancelling"}

\* No operation means none under way, and only a create is called off, by a run
\* that is over.
OpKnown ==
  /\ daemon.op.what = "none" => daemon.op.state = "done"
  /\ daemon.op.state = "cancelling" => run.how = "create cut" /\ At("over")

\* What has been asked of the daemon by then, and how far that can have come.
DaemonFollows ==
  LET what == daemon.op.what
      state == daemon.op.state
      inst == daemon.inst
  IN  /\ run.pc \in {"begin", "connecting", "look", "check", "checking", "read", "stop", "resolving"} =>
           what = "none"
      /\ At("killing") => what = "kill" /\ inst = (IF state = "done" THEN "stopped" ELSE "running")
      /\ At("deleting") => what = "delete" /\ inst = (IF state = "done" THEN "none" ELSE "stopped")
      /\ run.pc \in {"create", "ask"} => what \in {"none", "delete"} /\ state = "done"
      /\ run.pc \in {"create", "resolving", "ask"} => inst = "none"
      /\ At("creating") => what = "create" /\ inst = (IF state = "done" THEN "stopped" ELSE "none")
      /\ At("stopping") => what = "stop" /\ (state = "done" => inst = "stopped")
      /\ At("forcing") => what = "kill" /\ (state = "done" => inst = "stopped")
      /\ At("stop") => run.job = "restart"
      /\ At("force") => state = "failed"
      /\ At("start") => state = "done" /\ (inst = "stopped" \/ run.job = "restart")
      /\ At("starting") => what = "start" /\ (state = "done" => inst = "running")

\* An answer to a wait is that of the operation waited for.
AnswerFollows ==
  /\ run.pc \in {"deleting", "creating"} =>
       /\ call.answer = "ok" => daemon.op.state = "done"
       /\ call.answer = "failed" => daemon.op.state = "failed"
  /\ run.pc \in {"checking", "resolving"} /\ call.answer = "ok" => call.image # NoImage

\* What was checked is remembered, and whoever deletes has checked.
CheckedIsKept ==
  /\ run.checked # NoImage => cache = run.checked
  /\ run.pc \in {"checking", "resolving"} => cache = NoImage
  /\ run.pc \in {"read", "killing", "deleting"} => cache # NoImage
  /\ run.pc \in {"create", "ask"} /\ daemon.op.what = "delete" => cache # NoImage
  /\ run.pc \in {"ask", "creating"} => run.image = cache

\* How a run ended, of the endings that say what became of the instance.
EndIsTrue ==
  LET what == daemon.op.what
      state == daemon.op.state
  IN  /\ run.how # "" => At("over")
      /\ run.how = "not deleted" =>
           \/ what = "kill" /\ daemon.inst \in {"running", "stopped"}
           \/ what = "delete" /\ state = "failed" /\ daemon.inst = "stopped"
      /\ run.how = "not created" => what = "create" /\ state = "failed"
      /\ run.how = "no image" => what = "none"
      /\ run.how = "ok" => state = "done" /\ daemon.inst = "running"

RemoteInv ==
  RemoteTypes /\ OpKnown /\ DaemonFollows /\ AnswerFollows /\ CheckedIsKept /\ EndIsTrue

-----------------------------------------------------------------------------
(* What the small steps change.                                            *)

\* The run as it goes on, the operation the daemon has then, the call waited for.
Runs(pc, how) ==
  /\ RunShape' /\ run'.pc = pc /\ run'.how = how /\ run'.job = run.job
  /\ run'.image = run.image /\ run'.checked = run.checked
OpBecomes(inst, what, state) ==
  DaemonShape' /\ daemon'.inst = inst /\ daemon'.op.what = what /\ daemon'.op.state = state
CallIs(answer) == CallShape' /\ call'.answer = answer

LEMMA GoesOn ==
  ASSUME RunShape, NEW pc, Goes(pc)
  PROVE  Runs(pc, run.how)
BY DEF RunShape, Goes, Runs

LEMMA EndsSo ==
  ASSUME RunShape, NEW how, Ends(how)
  PROVE  Runs("over", how)
BY DEF RunShape, Ends, Runs

LEMMA StartsOp ==
  ASSUME DaemonShape, NEW what, Starts(what)
  PROVE  OpBecomes(daemon.inst, what, "running")
BY DEF DaemonShape, Starts, OpBecomes

LEMMA MakesCall ==
  ASSUME Made \/ call' = NoCall
  PROVE  CallIs("none")
BY DEF CallShape, Made, NoCall, CallIs

LEMMA RemoteInit ==
  ASSUME Init
  PROVE  RemoteInv
<1>1. /\ RunShape /\ run.job \in Jobs /\ run.pc = "begin" /\ run.how = ""
      /\ run.checked = NoImage
  <2>1. PICK job \in Jobs : run = [job |-> job, pc |-> "begin", how |-> "", image |-> NoImage,
                                   checked |-> NoImage]
    BY DEF Init
  <2> QED BY <2>1 DEF RunShape
<1>2. CallShape /\ call.answer = "none" /\ cache = NoImage
  BY DEF Init, CallShape, NoCall
<1>3. /\ DaemonShape /\ daemon.inst \in {"running", "stopped", "none"}
      /\ daemon.op.what = "none" /\ daemon.op.state = "done"
  <2>1. PICK i \in {"running", "stopped", "none"} : daemon = [inst |-> i, op |-> NoOp]
    BY DEF Init
  <2>2. NoOp = [what |-> "none", state |-> "done"]
    BY DEF NoOp
  <2> QED BY <2>1, <2>2 DEF DaemonShape
<1> QED BY <1>1, <1>2, <1>3
        DEF RemoteInv, RemoteTypes, OpKnown, DaemonFollows, AnswerFollows, CheckedIsKept,
            EndIsTrue, Places, At

LEMMA RemoteStands ==
  ASSUME RemoteInv, run' = run, call' = call, cache' = cache, daemon' = daemon
  PROVE  RemoteInv'
<1>1. RemoteTypes' /\ OpKnown'
  BY DEF RemoteInv, RemoteTypes, OpKnown, At, RunShape, CallShape, DaemonShape
<1>2. DaemonFollows'
  BY DEF RemoteInv, DaemonFollows, At
<1>3. AnswerFollows' /\ CheckedIsKept'
  BY DEF RemoteInv, AnswerFollows, CheckedIsKept
<1>4. EndIsTrue'
  BY DEF RemoteInv, EndIsTrue, At
<1> QED BY <1>1, <1>2, <1>3, <1>4 DEF RemoteInv

LEMMA RemoteStep ==
  ASSUME RemoteInv, [RemoteNext]_vars
  PROVE  RemoteInv'
<1>0. /\ RunShape /\ CallShape /\ DaemonShape /\ run.job \in {"rebuild", "up", "restart"}
      /\ run.pc \in Places /\ daemon.inst \in {"running", "stopped", "none"}
  BY JobsKnown DEF RemoteInv, RemoteTypes
<1>1. CASE Handshake
  <2>1. /\ run.pc = "begin" /\ Runs("connecting", run.how) /\ CallIs("none")
        /\ UNCHANGED <<cache, daemon>>
    BY <1>0, <1>1, GoesOn, EndsSo, StartsOp, MakesCall
       DEF Handshake, Stands, At
  <2> QED BY JobsKnown, <2>1 DEF RemoteInv, RemoteTypes, OpKnown, DaemonFollows, AnswerFollows, CheckedIsKept,
           EndIsTrue, Places, At, Runs, OpBecomes, CallIs, CallShape, DaemonShape, RunShape
<1>2. CASE Connected
  <2>1. /\ run.pc = "connecting" /\ CallIs("none") /\ UNCHANGED <<cache, daemon>>
        /\ Runs("look", run.how) \/ Runs("over", "no daemon") \/ Runs("over", "interrupted")
    BY <1>0, <1>2, GoesOn, EndsSo, MakesCall DEF Connected, Answered, GivesUp, Stands, At
  <2> QED BY JobsKnown, <2>1 DEF RemoteInv, RemoteTypes, OpKnown, DaemonFollows, AnswerFollows, CheckedIsKept,
           EndIsTrue, Places, At, Runs, OpBecomes, CallIs, CallShape, DaemonShape, RunShape
<1>3. CASE Remembered
  <2>1. /\ run.pc \in {"check", "create"} /\ cache # NoImage
        /\ RunShape' /\ run'.pc = (IF run.pc = "check" THEN "read" ELSE "ask") /\ run'.image = cache
        /\ run'.how = run.how /\ run'.job = run.job /\ run'.checked = run.checked
        /\ UNCHANGED <<call, cache, daemon>>
    BY <1>0, <1>3, GoesOn, EndsSo, StartsOp, MakesCall
       DEF Remembered, After, Stands, RunShape, At
  <2> QED BY JobsKnown, <2>1 DEF RemoteInv, RemoteTypes, OpKnown, DaemonFollows, AnswerFollows, CheckedIsKept,
           EndIsTrue, Places, At, Runs, OpBecomes, CallIs, CallShape, DaemonShape, RunShape
<1>4. CASE Resolve
  <2>1. /\ CallIs("none") /\ cache = NoImage /\ UNCHANGED <<cache, daemon>>
        /\ \/ run.pc = "check" /\ Runs("checking", run.how)
           \/ run.pc = "create" /\ Runs("resolving", run.how)
    BY <1>0, <1>4, GoesOn, EndsSo, StartsOp, MakesCall
       DEF Resolve, Stands, At
  <2> QED BY JobsKnown, <2>1 DEF RemoteInv, RemoteTypes, OpKnown, DaemonFollows, AnswerFollows, CheckedIsKept,
           EndIsTrue, Places, At, Runs, OpBecomes, CallIs, CallShape, DaemonShape, RunShape
<1>5. CASE Resolved
  <2>1. /\ run.pc \in {"checking", "resolving"} /\ CallIs("none") /\ UNCHANGED daemon
        /\ \/ /\ call.answer = "ok" /\ cache' = call.image
              /\ RunShape' /\ run'.pc = (IF run.pc = "checking" THEN "read" ELSE "ask")
              /\ run'.image = call.image /\ run'.how = run.how /\ run'.job = run.job
              /\ run'.checked = (IF run.pc = "checking" THEN call.image ELSE run.checked)
           \/ Runs("over", "no image") /\ UNCHANGED cache
           \/ Runs("over", "interrupted") /\ UNCHANGED cache
    BY <1>0, <1>5, GoesOn, EndsSo, StartsOp, MakesCall
       DEF Resolved, Answered, GivesUp, Keep, After, RunShape, At
  <2> QED BY JobsKnown, <2>1 DEF RemoteInv, RemoteTypes, OpKnown, DaemonFollows, AnswerFollows, CheckedIsKept,
           EndIsTrue, Places, At, Runs, OpBecomes, CallIs, CallShape, DaemonShape, RunShape
<1>6. CASE Delete
  <2>1. /\ run.pc = "read" /\ UNCHANGED cache
        /\ \/ daemon.inst = "running" /\ UNCHANGED <<call, daemon>> /\ Runs("over", "interrupted")
           \/ /\ daemon.inst = "running" /\ UNCHANGED call
              /\ Runs("killing", run.how) /\ OpBecomes("running", "kill", "running")
           \/ /\ daemon.inst = "stopped" /\ CallIs("none")
              /\ Runs("deleting", run.how) /\ OpBecomes("stopped", "delete", "running")
           \/ daemon.inst = "none" /\ UNCHANGED <<call, daemon>> /\ Runs("create", run.how)
    BY <1>0, <1>6, GoesOn, EndsSo, StartsOp, MakesCall
       DEF Delete, ChangeState, At
  <2> QED BY JobsKnown, <2>1 DEF RemoteInv, RemoteTypes, OpKnown, DaemonFollows, AnswerFollows, CheckedIsKept,
           EndIsTrue, Places, At, Runs, OpBecomes, CallIs, CallShape, DaemonShape, RunShape
<1>7. CASE Killed
  <2>1. /\ run.pc = "killing" /\ UNCHANGED cache
        /\ \/ /\ daemon.op.state = "done" /\ CallIs("none")
              /\ Runs("deleting", run.how) /\ OpBecomes(daemon.inst, "delete", "running")
           \/ UNCHANGED <<call, daemon>> /\ Runs("over", "not deleted")
    BY <1>0, <1>7, GoesOn, EndsSo, StartsOp, MakesCall
       DEF Killed, WaitedFor, OpIs, At
  <2> QED BY JobsKnown, <2>1 DEF RemoteInv, RemoteTypes, OpKnown, DaemonFollows, AnswerFollows, CheckedIsKept,
           EndIsTrue, Places, At, Runs, OpBecomes, CallIs, CallShape, DaemonShape, RunShape
<1>8. CASE Deleted
  <2>1. /\ run.pc = "deleting" /\ CallIs("none") /\ UNCHANGED <<cache, daemon>>
        /\ \/ call.answer = "ok" /\ Runs("create", run.how)
           \/ call.answer = "failed" /\ Runs("over", "not deleted")
           \/ Runs("over", "unknown")
    BY <1>0, <1>8, GoesOn, EndsSo, StartsOp, MakesCall
       DEF Deleted, Answered, DeleteCut, Stands, At
  <2> QED BY JobsKnown, <2>1 DEF RemoteInv, RemoteTypes, OpKnown, DaemonFollows, AnswerFollows, CheckedIsKept,
           EndIsTrue, Places, At, Runs, OpBecomes, CallIs, CallShape, DaemonShape, RunShape
<1>9. CASE Create
  <2>1. /\ run.pc = "ask" /\ CallIs("none") /\ UNCHANGED cache
        /\ Runs("creating", run.how) /\ OpBecomes(daemon.inst, "create", "running")
    BY <1>0, <1>9, GoesOn, EndsSo, StartsOp, MakesCall
       DEF Create, At
  <2> QED BY JobsKnown, <2>1 DEF RemoteInv, RemoteTypes, OpKnown, DaemonFollows, AnswerFollows, CheckedIsKept,
           EndIsTrue, Places, At, Runs, OpBecomes, CallIs, CallShape, DaemonShape, RunShape
<1>10. CASE Created
  <2>1. /\ run.pc = "creating" /\ CallIs("none") /\ UNCHANGED cache
        /\ \/ call.answer = "ok" /\ Runs("start", run.how) /\ UNCHANGED daemon
           \/ call.answer = "failed" /\ Runs("over", "not created") /\ UNCHANGED daemon
           \/ /\ Runs("over", "create cut")
              /\ OpBecomes(daemon.inst, daemon.op.what,
                           IF daemon.op.state = "running" THEN "cancelling" ELSE daemon.op.state)
    BY <1>0, <1>10, GoesOn, EndsSo, StartsOp, MakesCall
       DEF Created, Answered, CreateCut, OpBecomes, DaemonShape, At
  <2> QED BY JobsKnown, <2>1 DEF RemoteInv, RemoteTypes, OpKnown, DaemonFollows, AnswerFollows, CheckedIsKept,
           EndIsTrue, Places, At, Runs, OpBecomes, CallIs, CallShape, DaemonShape, RunShape
<1>11. CASE Stop
  <2>1. /\ run.pc = "stop" /\ UNCHANGED <<cache, call>>
        /\ \/ Runs("over", "interrupted") /\ UNCHANGED daemon
           \/ Runs("stopping", run.how) /\ OpBecomes(daemon.inst, "stop", "running")
           \/ Runs("start", run.how) /\ UNCHANGED daemon
    BY <1>0, <1>11, GoesOn, EndsSo, StartsOp, MakesCall
       DEF Stop, ChangeState, Stands, At
  <2> QED BY JobsKnown, <2>1 DEF RemoteInv, RemoteTypes, OpKnown, DaemonFollows, AnswerFollows, CheckedIsKept,
           EndIsTrue, Places, At, Runs, OpBecomes, CallIs, CallShape, DaemonShape, RunShape
<1>12. CASE StopEnds
  <2>1. /\ run.pc = "stopping" /\ UNCHANGED <<cache, call, daemon>>
        /\ \/ Runs("start", run.how) /\ daemon.op.state = "done"
           \/ Runs("force", run.how) /\ daemon.op.state = "failed"
           \/ Runs("over", "not stopped") \/ Runs("over", "interrupted")
    BY <1>0, <1>12, GoesOn, EndsSo, StartsOp, MakesCall
       DEF StopEnds, WaitedFor, OpIs, Stands, At
  <2> QED BY JobsKnown, <2>1 DEF RemoteInv, RemoteTypes, OpKnown, DaemonFollows, AnswerFollows, CheckedIsKept,
           EndIsTrue, Places, At, Runs, OpBecomes, CallIs, CallShape, DaemonShape, RunShape
<1>13. CASE ForceStop
  <2>1. /\ run.pc = "force" /\ UNCHANGED <<cache, call>>
        /\ \/ Runs("over", "interrupted") /\ UNCHANGED daemon
           \/ Runs("forcing", run.how) /\ OpBecomes(daemon.inst, "kill", "running")
    BY <1>0, <1>13, GoesOn, EndsSo, StartsOp, MakesCall
       DEF ForceStop, ChangeState, At
  <2> QED BY JobsKnown, <2>1 DEF RemoteInv, RemoteTypes, OpKnown, DaemonFollows, AnswerFollows, CheckedIsKept,
           EndIsTrue, Places, At, Runs, OpBecomes, CallIs, CallShape, DaemonShape, RunShape
<1>14. CASE ForceEnds
  <2>1. /\ run.pc = "forcing" /\ UNCHANGED <<cache, call, daemon>>
        /\ \/ Runs("start", run.how) /\ daemon.op.state = "done"
           \/ Runs("over", "not stopped") \/ Runs("over", "interrupted")
    BY <1>0, <1>14, GoesOn, EndsSo, StartsOp, MakesCall
       DEF ForceEnds, WaitedFor, OpIs, Stands, At
  <2> QED BY JobsKnown, <2>1 DEF RemoteInv, RemoteTypes, OpKnown, DaemonFollows, AnswerFollows, CheckedIsKept,
           EndIsTrue, Places, At, Runs, OpBecomes, CallIs, CallShape, DaemonShape, RunShape
<1>15. CASE Start
  <2>1. /\ run.pc = "start" /\ UNCHANGED <<cache, call>>
        /\ \/ Runs("over", "interrupted") /\ UNCHANGED daemon
           \/ Runs("starting", run.how) /\ OpBecomes(daemon.inst, "start", "running")
    BY <1>0, <1>15, GoesOn, EndsSo, StartsOp, MakesCall
       DEF Start, ChangeState, At
  <2> QED BY JobsKnown, <2>1 DEF RemoteInv, RemoteTypes, OpKnown, DaemonFollows, AnswerFollows, CheckedIsKept,
           EndIsTrue, Places, At, Runs, OpBecomes, CallIs, CallShape, DaemonShape, RunShape
<1>16. CASE StartEnds
  <2>1. /\ run.pc = "starting" /\ UNCHANGED <<cache, call, daemon>>
        /\ \/ Runs("over", "ok") /\ daemon.op.state = "done"
           \/ Runs("over", "not started") \/ Runs("over", "interrupted")
    BY <1>0, <1>16, GoesOn, EndsSo, StartsOp, MakesCall
       DEF StartEnds, WaitedFor, OpIs, Stands, At
  <2> QED BY JobsKnown, <2>1 DEF RemoteInv, RemoteTypes, OpKnown, DaemonFollows, AnswerFollows, CheckedIsKept,
           EndIsTrue, Places, At, Runs, OpBecomes, CallIs, CallShape, DaemonShape, RunShape
<1>17. CASE OpEnds
  <2>1. /\ daemon.op.state \in {"running", "cancelling"} /\ UNCHANGED <<run, call, cache>>
        /\ \/ OpBecomes(Left, daemon.op.what, "done")
           \/ OpBecomes(daemon.inst, daemon.op.what, "failed")
    BY <1>0, <1>17, GoesOn, EndsSo, StartsOp, MakesCall
       DEF OpEnds, OpBecomes, DaemonShape, At
  <2>2. /\ daemon.op.what \in {"kill", "stop"} => Left = "stopped"
        /\ daemon.op.what = "delete" => Left = "none"
        /\ daemon.op.what = "create" => Left = "stopped"
        /\ daemon.op.what = "start" => Left = "running"
    BY DEF Left
  <2> HIDE DEF Left
  <2>3. RemoteTypes' /\ OpKnown'
    BY <2>1, <2>2
       DEF RemoteInv, RemoteTypes, OpKnown, Places, At, OpBecomes, CallShape, DaemonShape, RunShape
  <2>4. DaemonFollows'
    BY <2>1, <2>2 DEF RemoteInv, OpKnown, DaemonFollows, At, OpBecomes
  <2>5. AnswerFollows' /\ CheckedIsKept'
    BY <2>1, <2>2 DEF RemoteInv, OpKnown, AnswerFollows, CheckedIsKept, At, OpBecomes
  <2>6. EndIsTrue'
    BY <2>1, <2>2 DEF RemoteInv, OpKnown, EndIsTrue, At, OpBecomes
  <2> QED BY <2>3, <2>4, <2>5, <2>6 DEF RemoteInv
<1>18. CASE ServerAnswers
  <2>1. /\ UNCHANGED <<run, cache, daemon>> /\ CallShape'
        /\ \/ run.pc = "connecting" /\ call'.answer \in {"ok", "failed"}
           \/ /\ run.pc \in {"checking", "resolving"}
              /\ \/ call'.answer = "ok" /\ call'.image # NoImage
                 \/ call'.answer = "failed"
           \/ /\ run.pc \in {"deleting", "creating"}
              /\ \/ daemon.op.state = "done" /\ call'.answer = "ok"
                 \/ daemon.op.state = "failed" /\ call'.answer = "failed"
    BY <1>0, <1>18, GoesOn, EndsSo, StartsOp, MakesCall
       DEF ServerAnswers, Answers, OpIs, Stands, CallShape, At
  <2> QED BY JobsKnown, <2>1 DEF RemoteInv, RemoteTypes, OpKnown, DaemonFollows, AnswerFollows, CheckedIsKept,
           EndIsTrue, Places, At, Runs, OpBecomes, CallIs, CallShape, DaemonShape, RunShape
<1>19. CASE AliasMoves
  BY <1>19, RemoteStands DEF AliasMoves
<1>20. CASE Interrupt
  BY <1>20, RemoteStands DEF Interrupt
<1>21. CASE UNCHANGED vars
  BY <1>21, RemoteStands DEF vars
<1>22. CASE Look
  <2>1. /\ run.pc = "look" /\ UNCHANGED <<call, cache, daemon>>
        /\ \/ Runs("check", run.how)
           \/ Runs("stop", run.how) /\ run.job = "restart"
           \/ Runs("create", run.how) /\ daemon.inst = "none"
           \/ Runs("start", run.how) /\ daemon.inst = "stopped"
           \/ Runs("over", "ok") /\ daemon.inst = "running"
           \/ Runs("over", "not read")
    <3>1. /\ run.pc = "look" /\ UNCHANGED <<call, cache, daemon>>
          /\ run' = First \/ Runs("over", "not read")
      BY <1>0, <1>22, EndsSo DEF Look, Stands, At
    <3>2. CASE run' = First
      BY <1>0, <3>1, <3>2 DEF First, Runs, RunShape
    <3> QED BY <3>1, <3>2
  <2> QED BY JobsKnown, <2>1 DEF RemoteInv, RemoteTypes, OpKnown, DaemonFollows, AnswerFollows, CheckedIsKept,
           EndIsTrue, Places, At, Runs, OpBecomes, CallIs, CallShape, DaemonShape, RunShape
<1>23. CASE Hangs
  <2>1. Runs("stuck", run.how) /\ UNCHANGED <<call, cache, daemon>> /\ run.pc # "over"
    BY <1>0, <1>23, GoesOn DEF Hangs, AsksPlainly, Stands, At
  <2> QED BY JobsKnown, <2>1 DEF RemoteInv, RemoteTypes, OpKnown, DaemonFollows, AnswerFollows, CheckedIsKept,
           EndIsTrue, Places, At, Runs, OpBecomes, CallIs, CallShape, DaemonShape, RunShape
<1> QED BY <1>1, <1>2, <1>3, <1>4, <1>5, <1>6, <1>7, <1>8, <1>9, <1>10, <1>11, <1>12,
          <1>13, <1>14, <1>15, <1>16, <1>17, <1>18, <1>19, <1>20, <1>21, <1>22, <1>23 DEF RemoteNext,
          Idev

\* What a call answered holds for the rest of the run, whoever is late, however
\* the alias moves and wherever the run is interrupted: an instance said not to
\* be deleted is there, one said to be deleted is gone, and one made again is
\* made from the image that was checked before (api.go, connect.go).
THEOREM AnswersAreHeld == RemoteSpec => []AnswersHold
<1>1. Init => RemoteInv
  BY RemoteInit
<1>2. RemoteInv /\ [RemoteNext]_vars => RemoteInv'
  BY RemoteStep
<1>3. RemoteInv => AnswersHold
  BY DEF RemoteInv, RemoteTypes, OpKnown, DaemonFollows, AnswerFollows, CheckedIsKept, EndIsTrue,
         Places, At, AnswersHold, OpIs
<1> QED BY <1>1, <1>2, <1>3, PTL DEF RemoteSpec
=============================================================================
