------------------------------ MODULE Provisioning ------------------------------
(***************************************************************************)
(* From a chosen set of steps to the last one run: Select, the tools looked *)
(* for on the host, the wait for the instance, bootstrap and provision      *)
(* steps in order, and runner.Exec with the command it runs.  The instance  *)
(* and its records are the matter of Lifecycle.                             *)
(***************************************************************************)
EXTENDS Readiness, Sequences, FiniteSetsExt

CONSTANTS Declarations,  \* dev.yml: [bootstrap, provision], steps [name, kind]
          Selections,    \* what the user asked for: [only, from]
          NoName,        \* a step without a name, or no --from
          Omitted,       \* a dev.yml without a bootstrap
          Number,        \* what a reference reads as; 0 where it is no number
          Shown          \* the names unnamed steps are shown by, by position

KnownKinds == {"run", "ansible", "galaxy"}

IsSteps(steps) ==
  /\ Len(steps) \in Nat /\ DOMAIN steps = 1 .. Len(steps)
  /\ \A i \in DOMAIN steps : steps[i].kind \in KnownKinds

\* Each step has one kind, or config.Load refuses the file.
ASSUME StepsAssumption ==
  \A decl \in Declarations :
    /\ IsSteps(decl.provision)
    /\ decl.bootstrap = Omitted \/ IsSteps(decl.bootstrap)

\* --step and --from exclude each other (Select).
ASSUME SelectionsAssumption ==
  \A sel \in Selections : sel.only = {} \/ sel.from = NoName

Everything == [only |-> {}, from |-> NoName]

VARIABLES
  run,      \* the command: what it was given, where it is, what it has run
  checked,  \* Executor: the outcome of each prerequisite probed, once
  host,     \* the tools on the host, and the step's temporary directory
  child     \* runner.Exec: the command on the host, its output, its end

provVars == <<run, checked, host, child>>
vars == <<provVars, readyVars>>

Tools == {"galaxy", "playbook", "plugin"}
Outcomes == {"none", "ok", "refused", "missing", "failed", "interrupted"}
RunPcs == {"start", "check", "instance", "wait", "steps", "exec", "prepare",
           "launch", "running", "done"}

Items == {"bootstrap", "provision"} \X Nat

NoChild == [state |-> "none", exit |-> "none", asked |-> FALSE, held |-> FALSE,
            cut |-> FALSE]

Runs ==
  [cmd : {"up", "provision"}, decl : Declarations, sel : Selections \cup {Everything},
   pc : RunPcs, need : Seq(Tools), todo : Seq(Items), ran : Seq(Items),
   touched : BOOLEAN, verdict : Outcomes, blamed : Tools \cup {"none"}]

Children ==
  [state : {"none", "running", "exited"}, exit : {"none", "zero", "other"},
   asked : BOOLEAN, held : BOOLEAN, cut : BOOLEAN]

ProvTypeOK ==
  /\ ReadyTypeOK
  /\ run \in Runs
  /\ checked \in [Tools -> {"unknown", "found", "missing"}]
  /\ host \in [tools : SUBSET Tools, temp : BOOLEAN]
  /\ child \in Children

-----------------------------------------------------------------------------
(* What is to be run.                                                      *)

Positions(steps) == DOMAIN steps

\* A mutant: a position wins over a name.
MatchNumberFirst(steps, ref) ==
  LET named == {i \in Positions(steps) : steps[i].name = ref}
      shown == {i \in Positions(steps) : steps[i].name = NoName /\ Shown[i] = ref}
  IN  IF Number[ref] \in Positions(steps) THEN {Number[ref]}
      ELSE IF named # {} THEN named ELSE shown

\* A step's own name, else the name an unnamed one is shown by, else a position.
Match(steps, ref) ==
  LET named == {i \in Positions(steps) : steps[i].name = ref}
      shown == {i \in Positions(steps) : steps[i].name = NoName /\ Shown[i] = ref}
  IN  IF named # {} THEN named
      ELSE IF shown # {} THEN shown
      ELSE {Number[ref]} \cap Positions(steps)

\* References that resolve to nothing are an error, before anything is done.
Resolves(steps, sel) ==
  \A ref \in sel.only \cup ({sel.from} \ {NoName}) : Match(steps, ref) # {}

Chosen(steps, sel) ==
  IF sel.from # NoName
    THEN {i \in Positions(steps) : i >= Min(Match(steps, sel.from))}
  ELSE IF sel.only = {} THEN Positions(steps)
  ELSE UNION {Match(steps, ref) : ref \in sel.only}

\* In declaration order, whatever the order given.
Ascending(positions) ==
  CHOOSE order \in [1 .. Cardinality(positions) -> positions] :
    /\ Range(order) = positions
    /\ \A m, n \in DOMAIN order : m < n => order[m] < order[n]

Select(steps, sel) == Ascending(Chosen(steps, sel))

KindAt(decl, item) ==
  IF item[1] = "provision" THEN decl.provision[item[2]].kind
  ELSE "run"

HasKind(steps, kind) == \E i \in Positions(steps) : steps[i].kind = kind

\* Declared, the default one for an ansible step, or none.
BootstrapLen(decl) ==
  IF decl.bootstrap # Omitted THEN Len(decl.bootstrap)
  ELSE IF HasKind(decl.provision, "ansible") THEN 1 ELSE 0

\* Bootstrap always, then the selected steps.
Plan(decl, sel) ==
  LET chosen == Select(decl.provision, sel)
  IN  [i \in 1 .. BootstrapLen(decl) |-> <<"bootstrap", i>>]
        \o [i \in DOMAIN chosen |-> <<"provision", chosen[i]>>]

Kinds(decl, sel) ==
  LET chosen == Select(decl.provision, sel)
  IN  [i \in DOMAIN chosen |-> decl.provision[chosen[i]].kind]

Precedes(kinds, a, b) ==
  \E i \in DOMAIN kinds : kinds[i] = a /\ \A j \in 1 .. i : kinds[j] # b

\* A mutant: a galaxy step puts the plugin off wherever it stands.
PrerequisitesAnyGalaxy(kinds) ==
  LET has(kind) == kind \in Range(kinds)
  IN  (IF has("galaxy") THEN <<"galaxy">> ELSE <<>>)
        \o (IF has("ansible") THEN <<"playbook">> ELSE <<>>)
        \o (IF has("ansible") /\ ~has("galaxy") THEN <<"plugin">> ELSE <<>>)

\* The plugin is left to the step when an earlier galaxy step may install it.
Prerequisites(kinds) ==
  LET has(kind) == kind \in Range(kinds)
  IN  (IF has("galaxy") THEN <<"galaxy">> ELSE <<>>)
        \o (IF has("ansible") THEN <<"playbook">> ELSE <<>>)
        \o (IF has("ansible") /\ ~Precedes(kinds, "galaxy", "ansible")
              THEN <<"plugin">> ELSE <<>>)

-----------------------------------------------------------------------------
ProvInit ==
  /\ ReadyInit
  /\ \E cmd \in {"up", "provision"}, decl \in Declarations,
        sel \in Selections \cup {Everything} :
       /\ cmd = "up" => sel = Everything
       /\ run = [cmd |-> cmd, decl |-> decl, sel |-> sel, pc |-> "start",
                 need |-> <<>>, todo |-> <<>>, ran |-> <<>>, touched |-> FALSE,
                 verdict |-> "none", blamed |-> "none"]
  /\ checked = [tool \in Tools |-> "unknown"]
  /\ \E tools \in SUBSET Tools : host = [tools |-> tools, temp |-> FALSE]
  /\ child = NoChild

Goes(pc) == run' = [run EXCEPT !.pc = pc]
EndsWith(verdict) == run' = [run EXCEPT !.pc = "done", !.verdict = verdict]

\* Everything is resolved, and the tools looked for, before the instance.
Begin ==
  /\ run.pc = "start"
  /\ \/ ~Resolves(run.decl.provision, run.sel) /\ EndsWith("refused")
     \/ /\ Resolves(run.decl.provision, run.sel)
        /\ run' = [run EXCEPT !.pc = "check",
                              !.todo = Plan(run.decl, run.sel),
                              !.need = Prerequisites(Kinds(run.decl, run.sel))]
  /\ UNCHANGED <<checked, host, child, readyVars>>

\* sync.Once: the first probe is the answer for good, an interrupted one too.
CheckTool ==
  /\ run.pc = "check"
  /\ run.need # <<>>
  /\ LET tool == Head(run.need)
         found == IF checked[tool] # "unknown" THEN checked[tool]
                  ELSE IF tool \in host.tools /\ ~interrupted THEN "found" ELSE "missing"
     IN  /\ checked' = [checked EXCEPT ![tool] = found]
         /\ run' = IF found = "found" THEN [run EXCEPT !.need = Tail(@)]
                   ELSE [run EXCEPT !.pc = "done", !.blamed = tool,
                           !.verdict = IF interrupted THEN "interrupted" ELSE "missing"]
  /\ UNCHANGED <<host, child, readyVars>>

\* Back to the command, or to the step the check belongs to.
Checked ==
  /\ run.pc = "check"
  /\ run.need = <<>>
  /\ Goes(IF ~run.touched THEN "instance"
          ELSE IF KindAt(run.decl, Head(run.todo)) = "ansible" THEN "prepare"
          ELSE "launch")
  /\ UNCHANGED <<checked, host, child, readyVars>>

\* up creates or updates the instance and provision looks it up; both start it.
InstanceReady ==
  /\ run.pc = "instance"
  /\ \/ run' = [run EXCEPT !.pc = "wait", !.touched = TRUE]
     \/ EndsWith("failed")
     \/ interrupted /\ EndsWith("interrupted")
  /\ UNCHANGED <<checked, host, child, readyVars>>

WaitReady ==
  /\ run.pc = "wait"
  /\ BeginWait \/ Probe \/ Polls
  /\ UNCHANGED provVars

\* No address is a warning, anything else ends the run.
Waited ==
  /\ run.pc = "wait"
  /\ ready.pc = "done"
  /\ CASE ready.verdict \in {"ready", "noAddress"} -> Goes("steps")
       [] ready.verdict = "interrupted" -> EndsWith("interrupted")
       [] OTHER -> EndsWith("failed")
  /\ UNCHANGED <<checked, host, child, readyVars>>

-----------------------------------------------------------------------------
(* runSteps                                                                *)

Launched == [run EXCEPT !.ran = Append(@, Head(run.todo))]

NextStep ==
  /\ run.pc = "steps"
  /\ run.todo # <<>>
  /\ LET kind == KindAt(run.decl, Head(run.todo))
     IN  run' = CASE kind = "run" -> [Launched EXCEPT !.pc = "exec"]
                  [] kind = "galaxy" -> [run EXCEPT !.pc = "check", !.need = <<"galaxy">>]
                  [] OTHER -> [run EXCEPT !.pc = "check",
                                          !.need = <<"playbook", "plugin">>]
  /\ UNCHANGED <<checked, host, child, readyVars>>

AllRun ==
  /\ run.pc = "steps"
  /\ run.todo = <<>>
  /\ EndsWith("ok")
  /\ UNCHANGED <<checked, host, child, readyVars>>

\* The step is over: on to the next, or the end of the run.
Concluded(verdict) ==
  IF verdict = "ok" THEN run' = [run EXCEPT !.pc = "steps", !.todo = Tail(@)]
                    ELSE EndsWith(verdict)

\* execRun: API.Exec, as ExecSession has it.
ExecEnds ==
  /\ run.pc = "exec"
  /\ \/ Concluded("ok")
     \/ Concluded("failed")
     \/ interrupted /\ Concluded("interrupted")
  /\ UNCHANGED <<checked, host, child, readyVars>>

\* execAnsible: inventory, variables and secrets in a directory of their own.
Prepare ==
  /\ run.pc = "prepare"
  /\ \/ Goes("launch") /\ host' = [host EXCEPT !.temp = TRUE]
     \/ EndsWith("failed") /\ UNCHANGED host
  /\ UNCHANGED <<checked, child, readyVars>>

\* runner.Exec starts nothing for a context that is over.
Launch ==
  /\ run.pc = "launch"
  /\ \/ /\ ~interrupted
        /\ run' = [Launched EXCEPT !.pc = "running"]
        /\ \E held \in BOOLEAN :
             child' = [NoChild EXCEPT !.state = "running", !.held = held]
        /\ UNCHANGED host
     \/ /\ interrupted
        /\ EndsWith("interrupted")
        /\ host' = [host EXCEPT !.temp = FALSE]
        /\ UNCHANGED child
  /\ UNCHANGED <<checked, readyVars>>

-----------------------------------------------------------------------------
(* runner.Exec and the command it runs.                                    *)

ChildEnds(exit) == child' = [child EXCEPT !.state = "exited", !.exit = exit]

\* A galaxy step installs the plugin, or something else.
ChildExits ==
  /\ child.state = "running"
  /\ \E exit \in {"zero", "other"} : ChildEnds(exit)
  /\ host' \in {host, IF KindAt(run.decl, Head(run.todo)) = "galaxy"
                        THEN [host EXCEPT !.tools = @ \cup {"plugin"}] ELSE host}
  /\ UNCHANGED <<run, checked, readyVars>>

\* What the command started lets go of its output.
OutputCloses ==
  /\ child.state = "exited"
  /\ child.held
  /\ child' = [child EXCEPT !.held = FALSE]
  /\ UNCHANGED <<run, checked, host, readyVars>>

\* Cancel: SIGTERM, which the command may heed, answer with 0 or ignore.
AskToStop ==
  /\ child.state = "running"
  /\ interrupted
  /\ ~child.asked
  /\ child' = [child EXCEPT !.asked = TRUE]
  /\ UNCHANGED <<run, checked, host, readyVars>>

\* WaitDelay is over: the command is killed,
KillChild ==
  /\ child.state = "running"
  /\ child.asked
  /\ ChildEnds("other")
  /\ UNCHANGED <<run, checked, host, readyVars>>

\* A mutant: the output of a command that ended by itself is waited for.
CutOutputIfAsked ==
  /\ child.state = "exited"
  /\ child.held
  /\ child.asked
  /\ child' = [child EXCEPT !.held = FALSE, !.cut = TRUE]
  /\ UNCHANGED <<run, checked, host, readyVars>>

\* and its output closed.
CutOutput ==
  /\ child.state = "exited"
  /\ child.held
  /\ child' = [child EXCEPT !.held = FALSE, !.cut = TRUE]
  /\ UNCHANGED <<run, checked, host, readyVars>>

\* A mutant: a command that was stopped has failed.
VerdictByExit ==
  IF child.exit = "zero" /\ ~child.cut THEN "ok" ELSE "failed"

\* A command that ended well is not undone by output left open, and one that
\* was interrupted did not fail.
Verdict ==
  IF child.exit = "zero" /\ ~child.asked /\ (child.cut => ~interrupted) THEN "ok"
  ELSE IF interrupted THEN "interrupted" ELSE "failed"

\* The directory goes with the call.
RunReturns ==
  /\ run.pc = "running"
  /\ child.state = "exited"
  /\ ~child.held
  /\ Concluded(Verdict)
  /\ child' = NoChild
  /\ host' = [host EXCEPT !.temp = FALSE]
  /\ UNCHANGED <<checked, readyVars>>

-----------------------------------------------------------------------------
Command ==
  \/ Begin \/ CheckTool \/ Checked \/ InstanceReady \/ Waited
  \/ NextStep \/ AllRun \/ Prepare \/ Launch

Runner == AskToStop \/ KillChild \/ CutOutput \/ RunReturns

ProvDone == run.pc = "done" /\ UNCHANGED vars

ProvNext ==
  \/ Command \/ WaitReady \/ ExecEnds \/ Runner \/ ChildExits \/ OutputCloses
  \/ run.pc # "done" /\ (Tick \/ AddressChanges \/ Interrupt) /\ UNCHANGED provVars
  \/ ProvDone

\* idev goes on, its timers run out and an interrupted Exec ends.  Nothing is
\* assumed of a step: it may never end by itself, nor let go of its output.
ProvFairness ==
  /\ WF_vars(Command) /\ WF_vars(Runner)
  /\ WF_vars(interrupted /\ ExecEnds)
  /\ WF_vars(WaitReady /\ BeginWait)
  /\ WF_vars(Tick /\ UNCHANGED provVars)
  /\ WF_vars(WaitReady /\ Polls)
  /\ WF_vars(WaitReady /\ CtxOver /\ Probe)
  /\ SF_vars(WaitReady /\ PauseEnds)

ProvSpec == ProvInit /\ [][ProvNext]_vars /\ ProvFairness

-----------------------------------------------------------------------------
(* Properties.                                                             *)

StepKinds == Kinds(run.decl, run.sel)

\* Steps run in declaration order after bootstrap and none twice, no step runs
\* that nobody asked for, and a run that ends well has run every step of an asked
\* name, in preference to the one that sits at that number, and with --from every
\* step after the first (Select, runSteps).
RunsWhatWasAsked ==
  LET steps == run.decl.provision
      ran(i) == <<"provision", i>> \in Range(run.ran)
      named(ref) == {i \in DOMAIN steps : steps[i].name = ref}
  IN  /\ \A m, n \in DOMAIN run.ran :
           m < n => \/ run.ran[m][1] = run.ran[n][1] /\ run.ran[m][2] < run.ran[n][2]
                    \/ run.ran[m][1] = "bootstrap" /\ run.ran[n][1] = "provision"
      /\ run.sel.only # {} =>
           \A i \in DOMAIN steps :
             ran(i) => \/ steps[i].name \in run.sel.only
                       \/ \E ref \in run.sel.only :
                            named(ref) = {} /\ (Number[ref] = i \/ Shown[i] = ref)
      /\ run.verdict = "ok" =>
           /\ \A ref \in run.sel.only : \A i \in named(ref) : ran(i)
           /\ run.sel = Everything => \A i \in DOMAIN steps : ran(i)
           /\ run.sel.from # NoName =>
                \A i, j \in DOMAIN steps :
                  i <= j /\ (ran(i) \/ i \in named(run.sel.from)) => ran(j)

\* The instance is not touched for a run whose tools are not on the host and
\* that no step before would install (spec 06-provisioning.md 6.5.1).  And a run
\* that stops for want of the plugin has no galaxy step left before the ansible
\* step that needs it, and the plugin is not there now: the answer sync.Once
\* keeps is not stale (CheckPrerequisites).
ToolsDecide ==
  /\ run.touched => \A i \in DOMAIN StepKinds :
       /\ StepKinds[i] = "galaxy" => "galaxy" \in host.tools
       /\ StepKinds[i] = "ansible" =>
            /\ "playbook" \in host.tools
            /\ "plugin" \in host.tools \/ \E j \in 1 .. i : StepKinds[j] = "galaxy"
  /\ run.verdict = "missing" /\ run.blamed = "plugin" =>
       /\ "plugin" \notin host.tools
       /\ \A n \in DOMAIN run.todo :
            KindAt(run.decl, run.todo[n]) = "galaxy" =>
              \E m \in 1 .. n : KindAt(run.decl, run.todo[m]) = "ansible"

\* A command asked to stop is reported as interrupted whatever it answers, one
\* that ended well and was left alone has not failed whoever holds its output,
\* and no run goes on after a command that failed (runner.Exec).
OutcomeIsTrue ==
  [][run.pc = "running" /\ run'.pc # "running" =>
       /\ child.asked => run'.verdict = "interrupted"
       /\ child.exit = "zero" /\ ~interrupted => run'.pc = "steps"
       /\ run'.pc = "steps" => child.exit = "zero"]_vars

\* An interruption ends the run wherever it is, a command that ignores SIGTERM
\* and one whose output stays open included, and the directory with the secrets
\* is gone when it has.
InterruptEndsRun == interrupted ~> run.pc = "done" /\ ~host.temp
=============================================================================
