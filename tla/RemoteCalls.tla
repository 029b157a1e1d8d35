----------------------------- MODULE RemoteCalls -----------------------------
(***************************************************************************)
(* The calls of one run to Incus and to image servers, none of which takes *)
(* a context (internal/incus connect.go and api.go).  The handshake, the   *)
(* images and the operations idev waits for so that an interruption ends   *)
(* the wait.  A plain request, a reading of the instance or the request    *)
(* that starts an operation, it waits for without: it is answered or hangs *)
(* the run for good.  The run is a rebuild: connect, check the image,      *)
(* delete the instance, make it again and start it; or an up, or the       *)
(* restart of one.  A change that is refused is an operation that fails.   *)
(***************************************************************************)
EXTENDS FiniteSets, Integers

CONSTANTS
  Images,    \* what an alias may stand for
  Jobs,      \* "rebuild", "up" and "restart"
  NoImage    \* the alias stands for nothing

ASSUME JobsKnown == Jobs \subseteq {"rebuild", "up", "restart"}
ASSUME NoImageIsNone == NoImage \notin Images

VARIABLES
  run,       \* the run: which job, where it is, how its calls ended
  call,      \* the goroutine of the call it waits for, or none
  cache,     \* what configImageResolver remembers of the reference
  alias,     \* what the alias stands for upstream
  daemon,    \* the instance, and the operation on it
  cut        \* the context is done

vars == <<run, call, cache, alias, daemon, cut>>

NoCall == [made |-> FALSE, answer |-> "none", image |-> NoImage]
NoOp == [what |-> "none", state |-> "done"]

At(pc) == run.pc = pc
Goes(pc) == run' = [run EXCEPT !.pc = pc]
Ends(how) == run' = [run EXCEPT !.pc = "over", !.how = how]
Made == call' = [NoCall EXCEPT !.made = TRUE]

-----------------------------------------------------------------------------
(* A goroutine and who waits for it.                                       *)

\* The answer of a call is there: the buffered channel takes it either way.
Answers(answer, image) ==
  /\ call.made /\ call.answer = "none"
  /\ call' = [call EXCEPT !.answer = answer, !.image = image]

\* The arms of the select; with both ready either is taken.
Answered(answer) == call.made /\ call.answer = answer
GivesUp == call.made /\ cut

Stands == UNCHANGED <<cache, alias, daemon, cut>>

-----------------------------------------------------------------------------
(* connect                                                                 *)

Handshake ==
  /\ At("begin")
  /\ Made /\ Goes("connecting")
  /\ Stands

Connected ==
  /\ At("connecting")
  /\ \/ Answered("ok") /\ Goes("look")
     \/ Answered("failed") /\ Ends("no daemon")
     \/ GivesUp /\ Ends("interrupted")
  /\ call' = NoCall
  /\ Stands

\* Where a job goes from its first readings; up with nothing to start is done.
First ==
  CASE run.job = "rebuild" -> [run EXCEPT !.pc = "check"]
    [] run.job = "restart" -> [run EXCEPT !.pc = "stop"]
    [] run.job = "up" /\ daemon.inst = "none" -> [run EXCEPT !.pc = "create"]
    [] run.job = "up" /\ daemon.inst = "stopped" -> [run EXCEPT !.pc = "start"]
    [] OTHER -> [run EXCEPT !.pc = "over", !.how = "ok"]

\* The preflight's readings and, for up and a restart, the one of the instance.
Look ==
  /\ At("look")
  /\ run' = First \/ Ends("not read")
  /\ UNCHANGED call /\ Stands

-----------------------------------------------------------------------------
(* configImageResolver.Resolve, for CheckImage and for CreateInstance.     *)

After(pc) == IF pc \in {"check", "checking"} THEN "read" ELSE "ask"

\* What has been resolved in this run is not asked for again.
Remembered ==
  /\ run.pc \in {"check", "create"} /\ cache # NoImage
  /\ run' = [run EXCEPT !.pc = After(run.pc), !.image = cache]
  /\ UNCHANGED call /\ Stands

Resolve ==
  /\ run.pc \in {"check", "create"} /\ cache = NoImage
  /\ Made
  /\ Goes(IF At("check") THEN "checking" ELSE "resolving")
  /\ Stands

\* A mutant: an answer is used and not kept.
KeepNone(image) == cache

\* remember: of successes, those that were waited for.
Keep(image) == image

Resolved ==
  /\ run.pc \in {"checking", "resolving"}
  /\ \/ /\ Answered("ok")
        /\ run' = [run EXCEPT !.pc = After(run.pc), !.image = call.image,
                     !.checked = IF At("checking") THEN call.image ELSE @]
        /\ cache' = Keep(call.image)
     \/ /\ Answered("failed") /\ Ends("no image")
        /\ UNCHANGED cache
     \/ /\ GivesUp /\ Ends("interrupted")
        /\ UNCHANGED cache
  /\ call' = NoCall
  /\ UNCHANGED <<alias, daemon, cut>>

-----------------------------------------------------------------------------
(* Operations.  Asked for, one is on the daemon whatever idev does next.   *)

Starts(what) == daemon' = [daemon EXCEPT !.op = [what |-> what, state |-> "running"]]
OpIs(state) == daemon.op.state = state

\* changeState refuses when the run is interrupted, and only then.
ChangeState(what, pc) ==
  /\ IF cut THEN Ends("interrupted") /\ UNCHANGED daemon
     ELSE Goes(pc) /\ Starts(what)
  /\ UNCHANGED <<call, cache, alias, cut>>

\* op.WaitContext: with the operation at its end and the context done, either.
WaitedFor(state) == OpIs(state)
WaitCut == cut

\* DeleteInstance: an instance that runs is killed first, one that is not there
\* has nothing to delete and rebuild goes on.
Delete ==
  /\ At("read")
  /\ \/ /\ daemon.inst = "running"
        /\ ChangeState("kill", "killing")
     \/ /\ daemon.inst = "stopped"
        /\ Starts("delete") /\ Made /\ Goes("deleting")
        /\ UNCHANGED <<cache, alias, cut>>
     \/ /\ daemon.inst = "none"
        /\ Goes("create")
        /\ UNCHANGED <<call, cache, alias, daemon, cut>>

Killed ==
  /\ At("killing")
  /\ \/ /\ WaitedFor("done")
        /\ Starts("delete") /\ Made /\ Goes("deleting")
     \/ /\ WaitedFor("failed") /\ Ends("not deleted")
        /\ UNCHANGED <<call, daemon>>
     \/ /\ WaitCut /\ Ends("not deleted")
        /\ UNCHANGED <<call, daemon>>
  /\ UNCHANGED <<cache, alias, cut>>

\* The arm of waitDelete that marks the outcome unknown, and nothing else does.
DeleteCut == GivesUp /\ Ends("unknown")

\* waitDelete
Deleted ==
  /\ At("deleting")
  /\ \/ Answered("ok") /\ Goes("create")
     \/ Answered("failed") /\ Ends("not deleted")
     \/ DeleteCut
  /\ call' = NoCall
  /\ Stands

\* CreateInstance.  The daemon is handed the alias beside the image resolved, and
\* may look the alias up once more; what it finds then is its own affair.
Create ==
  /\ At("ask")
  /\ Starts("create") /\ Made /\ Goes("creating")
  /\ UNCHANGED <<cache, alias, cut>>

\* A mutant: the wait for the image takes no notice of an interruption.
CreateWaits == FALSE /\ UNCHANGED <<run, daemon>>

\* The arm of waitOp that cancels the transfer; it may come too late.
CreateCut ==
  /\ GivesUp /\ Ends("create cut")
  /\ daemon' = [daemon EXCEPT !.op.state = IF @ = "running" THEN "cancelling" ELSE @]

\* waitOp
Created ==
  /\ At("creating")
  /\ \/ Answered("ok") /\ Goes("start") /\ UNCHANGED daemon
     \/ Answered("failed") /\ Ends("not created") /\ UNCHANGED daemon
     \/ CreateCut
  /\ call' = NoCall
  /\ UNCHANGED <<cache, alias, cut>>

\* StopInstance: gracefully, and by force when that alone has failed.
Stop ==
  /\ At("stop")
  /\ IF daemon.inst = "running" THEN ChangeState("stop", "stopping")
     ELSE Goes("start") /\ UNCHANGED call /\ Stands

StopEnds ==
  /\ At("stopping")
  /\ \/ WaitedFor("done") /\ Goes("start")
     \/ WaitedFor("failed") /\ ~cut /\ Goes("force")
     \/ WaitedFor("failed") /\ cut /\ Ends("not stopped")
     \/ WaitCut /\ Ends("interrupted")
  /\ UNCHANGED call /\ Stands

ForceStop == At("force") /\ ChangeState("kill", "forcing")

ForceEnds ==
  /\ At("forcing")
  /\ \/ WaitedFor("done") /\ Goes("start")
     \/ WaitedFor("failed") /\ Ends("not stopped")
     \/ WaitCut /\ Ends("interrupted")
  /\ UNCHANGED call /\ Stands

Start == At("start") /\ ChangeState("start", "starting")

StartEnds ==
  /\ At("starting")
  /\ \/ WaitedFor("done") /\ Ends("ok")
     \/ WaitedFor("failed") /\ Ends("not started")
     \/ WaitCut /\ Ends("interrupted")
  /\ UNCHANGED call /\ Stands

-----------------------------------------------------------------------------
(* What is not idev.                                                       *)

\* What an operation leaves when it is done.
Left == CASE daemon.op.what \in {"kill", "stop"} -> "stopped"
          [] daemon.op.what = "delete" -> "none"
          [] daemon.op.what = "create" -> "stopped"
          [] daemon.op.what = "start" -> "running"

\* An operation comes to its end, cancelled or not, waited for or not.
OpEnds ==
  /\ daemon.op.state \in {"running", "cancelling"}
  /\ \/ daemon' = [inst |-> Left, op |-> [daemon.op EXCEPT !.state = "done"]]
     \/ daemon' = [daemon EXCEPT !.op.state = "failed"]
  /\ UNCHANGED <<run, call, cache, alias, cut>>

\* The places where idev waits for a plain request.  changeState makes none once
\* the run is interrupted (force, and start where no reading precedes it), and
\* CancelTarget is one that only an interruption makes.
AsksPlainly ==
  \/ run.pc \in {"look", "read", "killing", "create", "ask", "stop", "stopping",
                 "forcing", "starting"}
  \/ At("start") /\ (run.job = "restart" => ~cut)
  \/ At("force") /\ ~cut
  \/ At("creating") /\ cut

\* The daemon takes a plain request and never answers it.
Hangs ==
  /\ AsksPlainly
  /\ Goes("stuck")
  /\ UNCHANGED call /\ Stands

\* A server answers: a handshake, an image, or the wait for an operation.
ServerAnswers ==
  /\ \/ At("connecting") /\ \E answer \in {"ok", "failed"} : Answers(answer, NoImage)
     \/ /\ run.pc \in {"checking", "resolving"}
        /\ \/ alias # NoImage /\ Answers("ok", alias)
           \/ Answers("failed", NoImage)
     \/ /\ run.pc \in {"deleting", "creating"}
        /\ \/ OpIs("done") /\ Answers("ok", NoImage)
           \/ OpIs("failed") /\ Answers("failed", NoImage)
  /\ UNCHANGED run /\ Stands

\* Upstream is rebuilt, or withdrawn.
AliasMoves ==
  /\ alias' \in (Images \cup {NoImage}) \ {alias}
  /\ UNCHANGED <<run, call, cache, daemon, cut>>

Interrupt ==
  /\ ~cut /\ ~At("over")
  /\ cut' = TRUE
  /\ UNCHANGED <<run, call, cache, alias, daemon>>

-----------------------------------------------------------------------------
Init ==
  /\ \E job \in Jobs : run = [job |-> job, pc |-> "begin", how |-> "", image |-> NoImage,
                              checked |-> NoImage]
  /\ call = NoCall
  /\ cache = NoImage
  /\ alias \in Images
  /\ \E inst \in {"running", "stopped", "none"} : daemon = [inst |-> inst, op |-> NoOp]
  /\ cut = FALSE

Idev ==
  \/ Handshake \/ Connected \/ Look \/ Remembered \/ Resolve \/ Resolved
  \/ Delete \/ Killed \/ Deleted \/ Create \/ Created
  \/ Stop \/ StopEnds \/ ForceStop \/ ForceEnds \/ Start \/ StartEnds

RemoteNext == Idev \/ Hangs \/ OpEnds \/ ServerAnswers \/ AliasMoves \/ Interrupt

\* idev goes on when it can.  Nothing is assumed of any server: none has to
\* answer, and the daemon may hang a plain request instead of answering it.
RemoteSpec == Init /\ [][RemoteNext]_vars /\ WF_vars(Idev)

-----------------------------------------------------------------------------
(* Properties.                                                             *)

\* What a call answered is so, and goes on being so whoever is late.  A rebuild
\* that says the instance was not deleted has not deleted it and will not; one
\* that goes on to create has; only "unknown" says neither, and "create cut".
\* And what was checked before the instance was destroyed is what idev goes by
\* when it is made again, however the alias moves: no rebuild ends for want of
\* an answer about the image with the instance gone.
AnswersHold ==
  LET deleting == daemon.op.what = "delete" /\ daemon.op.state \in {"running", "done"}
  IN  /\ run.how = "not deleted" => ~deleting /\ daemon.inst # "none"
      /\ run.pc \in {"create", "resolving", "ask"} => daemon.inst = "none" /\ ~OpIs("running")
      /\ run.pc = "start" => daemon.inst = "stopped" \/ run.job = "restart"
      /\ run.how = "not created" => ~(daemon.op.what = "create" /\ daemon.op.state # "failed")
      /\ run.how = "no image" => ~deleting
      /\ run.pc \in {"ask", "creating"} /\ run.checked # NoImage => run.image = run.checked
      /\ run.how = "ok" => daemon.inst = "running"

\* An interruption ends the run though the handshake, the image servers and the
\* daemon's operations are never heard of again.  What it does not end is a run
\* whose plain request hangs (api.go:122, 255, 348, 374): the code gives those no
\* context, and the second interrupt ends them (NextSignalEnds in ExecSession).
InterruptEndsCall == cut ~> (At("over") \/ At("stuck"))
=============================================================================
