------------------------------- MODULE Readiness -------------------------------
(***************************************************************************)
(* waitReady: idev polls the instance until commands run in it and then    *)
(* until it has an address, under a deadline of its own for each.          *)
(*                                                                         *)
(* A timer is the number of ticks it has left; time passes between any two *)
(* steps, so every reading of the clock in the code is a step of its own.  *)
(***************************************************************************)
EXTENDS Naturals

CONSTANTS Timeout, NetworkTimeout, IPv4Grace, Interval  \* WaitOptions, in ticks

ASSUME OptionsAssumption ==
  {Timeout, NetworkTimeout, IPv4Grace, Interval} \subseteq Nat \ {0}

VARIABLES
  ready,        \* waitReady: where it is, its timers, the reading it has
  net,          \* the addresses the instance has
  interrupted   \* the context of the command is cancelled

readyVars == <<ready, net, interrupted>>

Addresses == {"none", "v6", "v4", "noNIC"}
Verdicts == {"none", "ready", "notReady", "noAddress", "interrupted", "error"}
ReadyPcs == {"idle", "probe", "pause", "read", "classify", "limit", "rest", "done"}

Ticks(most) == 0 .. most

Readies ==
  [pc : ReadyPcs, verdict : Verdicts, seen : Addresses, graced : BOOLEAN,
   deadline : Ticks(Timeout), limit : Ticks(NetworkTimeout), grace : Ticks(IPv4Grace),
   wake : Ticks(Interval)]

ReadyTypeOK ==
  /\ ready \in Readies
  /\ net \in Addresses
  /\ interrupted \in BOOLEAN

ReadyInit ==
  /\ ready = [pc |-> "idle", verdict |-> "none", seen |-> "none", graced |-> FALSE,
              deadline |-> 0, limit |-> 0, grace |-> 0, wake |-> 0]
  /\ net \in {"none", "noNIC"}
  /\ interrupted = FALSE

Concludes(verdict) == ready' = [ready EXCEPT !.pc = "done", !.verdict = verdict]
ReadyGoes(pc) == ready' = [ready EXCEPT !.pc = pc]

-----------------------------------------------------------------------------
(* waitExec                                                                *)

\* The deadline starts with the wait.
BeginWait ==
  /\ ready.pc = "idle"
  /\ ready' = [ready EXCEPT !.pc = "probe", !.deadline = Timeout]
  /\ UNCHANGED <<net, interrupted>>

\* The context of the probes: the user's, under the deadline.
CtxOver == interrupted \/ ready.deadline = 0

\* Exec of "true": an exit code of 0 begins waitNetwork, anything else pauses.
\* A wedged instance does not answer at all; then only the context ends it.
Probe ==
  /\ ready.pc = "probe"
  /\ \/ ready' = [ready EXCEPT !.pc = "read", !.limit = NetworkTimeout]
     \/ ready' = [ready EXCEPT !.pc = "pause", !.wake = Interval]
  /\ UNCHANGED <<net, interrupted>>

PauseOver ==
  /\ ready.pc = "pause"
  /\ ready.wake = 0
  /\ ReadyGoes("probe")
  /\ UNCHANGED <<net, interrupted>>

\* A mutant: only the user ends the probing.
PauseEndsByUser ==
  /\ ready.pc = "pause"
  /\ interrupted
  /\ Concludes("interrupted")
  /\ UNCHANGED <<net, interrupted>>

\* The context ends by the user or by the deadline, and the user comes first.
PauseEnds ==
  /\ ready.pc = "pause"
  /\ \/ interrupted /\ Concludes("interrupted")
     \/ ~interrupted /\ ready.deadline = 0 /\ Concludes("notReady")
  /\ UNCHANGED <<net, interrupted>>

(* waitNetwork                                                             *)

ReadInstance ==
  /\ ready.pc = "read"
  /\ \/ ready' = [ready EXCEPT !.pc = "classify", !.seen = net]
     \/ Concludes("error")
  /\ UNCHANGED <<net, interrupted>>

\* Mutants: the grace period is as long as the wait, or there is none.
ClassifyGraceOfTheWait ==
  /\ ready.pc = "classify"
  /\ \/ ready.seen \in {"noNIC", "v4"} /\ Concludes("ready")
     \/ /\ ready.seen = "v6"
        /\ \/ ~ready.graced /\ ready' = [ready EXCEPT !.pc = "limit", !.graced = TRUE,
                                                      !.grace = NetworkTimeout]
           \/ ready.graced /\ IF ready.grace = 0 THEN Concludes("ready")
                                                 ELSE ReadyGoes("limit")
     \/ ready.seen = "none" /\ IF ready.limit = 0 THEN Concludes("noAddress")
                                                  ELSE ReadyGoes("limit")
  /\ UNCHANGED <<net, interrupted>>

ClassifyWithoutGrace ==
  /\ ready.pc = "classify"
  /\ \/ ready.seen \in {"noNIC", "v4", "v6"} /\ Concludes("ready")
     \/ ready.seen = "none" /\ IF ready.limit = 0 THEN Concludes("noAddress")
                                                  ELSE ReadyGoes("limit")
  /\ UNCHANGED <<net, interrupted>>

\* IPv6 alone starts the grace period once, and is enough when it has run out.
Classify ==
  /\ ready.pc = "classify"
  /\ \/ ready.seen \in {"noNIC", "v4"} /\ Concludes("ready")
     \/ /\ ready.seen = "v6"
        /\ \/ ~ready.graced /\ ready' = [ready EXCEPT !.pc = "limit", !.graced = TRUE,
                                                      !.grace = IPv4Grace]
           \/ ready.graced /\ IF ready.grace = 0 THEN Concludes("ready")
                                                 ELSE ReadyGoes("limit")
     \/ ready.seen = "none" /\ IF ready.limit = 0 THEN Concludes("noAddress")
                                                  ELSE ReadyGoes("limit")
  /\ UNCHANGED <<net, interrupted>>

\* The second reading of the clock: nil, whatever the instance has.
CheckLimit ==
  /\ ready.pc = "limit"
  /\ IF ready.limit = 0 THEN Concludes("ready")
     ELSE ready' = [ready EXCEPT !.pc = "rest", !.wake = Interval]
  /\ UNCHANGED <<net, interrupted>>

RestOver ==
  /\ ready.pc = "rest"
  /\ ready.wake = 0
  /\ ReadyGoes("read")
  /\ UNCHANGED <<net, interrupted>>

RestEnds ==
  /\ ready.pc = "rest"
  /\ interrupted
  /\ Concludes("interrupted")
  /\ UNCHANGED <<net, interrupted>>

-----------------------------------------------------------------------------
(* Time, the instance and the user.                                        *)

Down(ticks) == IF ticks = 0 THEN 0 ELSE ticks - 1

Waiting == ready.pc \notin {"idle", "done"}

Tick ==
  /\ Waiting
  /\ \E timer \in {"deadline", "limit", "grace", "wake"} : ready[timer] > 0
  /\ ready' = [ready EXCEPT !.deadline = Down(@), !.limit = Down(@),
                            !.grace = Down(@), !.wake = Down(@)]
  /\ UNCHANGED <<net, interrupted>>

\* Addresses come and go; a NIC does not.
AddressChanges ==
  /\ Waiting
  /\ net # "noNIC"
  /\ net' \in {"none", "v6", "v4"} \ {net}
  /\ UNCHANGED <<ready, interrupted>>

Interrupt ==
  /\ ~interrupted
  /\ interrupted' = TRUE
  /\ UNCHANGED <<ready, net>>

-----------------------------------------------------------------------------
Polls ==
  \/ PauseOver \/ PauseEnds \/ ReadInstance \/ Classify
  \/ CheckLimit \/ RestOver \/ RestEnds

ReadyDone == ready.pc = "done" /\ UNCHANGED readyVars

ReadyNext ==
  BeginWait \/ Probe \/ Polls \/ Tick \/ AddressChanges \/ Interrupt \/ ReadyDone

\* Time passes, idev goes on, and a reading of the instance comes back.  A probe
\* comes back once its context is over, and a select in which the context is
\* ready again and again does not pick the timer for ever: it picks at random.
ReadyFairness ==
  /\ WF_readyVars(Tick)
  /\ WF_readyVars(Polls)
  /\ WF_readyVars(CtxOver /\ Probe)
  /\ SF_readyVars(PauseEnds)

ReadySpec == ReadyInit /\ [][ReadyNext]_readyVars /\ ReadyFairness

-----------------------------------------------------------------------------
(* Properties.                                                             *)

\* waitNetwork gives IPv4 its chance: IPv6 alone is enough only when the grace
\* period or the whole wait has run out.
GraceGiven ==
  ready.verdict = "ready" /\ ready.seen = "v6"
    => ready.graced /\ (ready.grace = 0 \/ ready.limit = 0)

\* An instance that wedges, never runs a command or never gets an address does
\* not hold the command up.
WaitEnds == Waiting ~> ~Waiting
=============================================================================
