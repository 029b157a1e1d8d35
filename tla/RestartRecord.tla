---------------------------- MODULE RestartRecord ----------------------------
(***************************************************************************)
(* The restart an `idev up` leaves owed (internal/cli/restart.go).         *)
(*                                                                         *)
(* Incus reads a few config keys only when an instance boots.  up writes   *)
(* them without restarting, and remembers what the running container       *)
(* booted with in user.incus-dev.restart-pending, next to the start time   *)
(* it saw: a later start retires the record.  The config is written        *)
(* against an ETag, the record in a second write that is not.              *)
(***************************************************************************)
EXTENDS Naturals

CONSTANTS
  Keys,       \* RestartRequiredKeys
  IDMapKey,   \* the key whose value has several spellings
  Values,     \* what a key may hold
  Absent,     \* a key that is not there, which reads as the empty string
  Mapping,    \* what the kernel makes of each spelling of IDMapKey's value
  Undeclared, \* dev.yml says nothing of a key
  NoRecord,   \* no user.incus-dev.restart-pending
  Unknown,    \* an entry an older idev wrote, without a value
  Procs,
  MaxStarts,  \* how often the instance is started, which bounds the runs
  Env         \* what else may happen, out of EnvNames

EnvNames ==
  { "restart",      \* a user starts, stops or restarts the instance
    "fail",         \* a run ends early
    "failBetween",  \* ... between the config write and the record write, too
    "legacy" }      \* an older idev left a record without values

\* A record of what a restart is owed for: the start time it was written under,
\* and what the container booted with of each key it names.
Records ==
  [at : Nat, entries : [Keys -> Values \cup {Undeclared, Unknown}]]

ASSUME SentinelsApart == Undeclared \notin Values \cup {Unknown} /\ Unknown \notin Values
ASSUME NoRecordIsNone == NoRecord \notin Records
ASSUME AbsentIsValue == Absent \in Values
ASSUME MappingType == Mapping \in [Values -> Values]
ASSUME StartsType == MaxStarts \in Nat
ASSUME EnvKnown == Env \subseteq EnvNames

VARIABLES
  running, starts, \* the instance, and how often it has been started
  stored,          \* its config
  booted,          \* what the running container booted with
  managed,         \* user.incus-dev.managed: the keys idev applied
  record,          \* the record that a restart is owed
  devyml,          \* what dev.yml declares
  proc,            \* the idev processes
  current          \* those whose reading has a current ETag

inst == <<running, starts, stored, booted, managed, record>>
vars == <<inst, devyml, proc, current>>

Reading == [running |-> running, starts |-> starts, stored |-> stored,
            managed |-> managed, record |-> record]

Nothing == [k \in Keys |-> Undeclared]

NotRead == [running |-> FALSE, starts |-> 0, stored |-> [k \in Keys |-> Absent],
            managed |-> {}, record |-> NoRecord]

Idle == [pc |-> "idle", restart |-> FALSE, decl |-> Nothing, seen |-> NotRead]

-----------------------------------------------------------------------------
(* What the code computes.                                                 *)

\* SameIDMapping, and plain equality for every other key.
Same(k, v, w) == v = w \/ (k = IDMapKey /\ Mapping[v] = Mapping[w])

\* The value key k has after the write: declared, unset because idev applied
\* it and the declaration dropped it, or left alone.
Want(decl, seen, k) ==
  CASE decl[k] # Undeclared -> decl[k]
    [] decl[k] = Undeclared /\ k \in seen.managed -> Absent
    [] OTHER -> seen.stored[k]

Declared(decl) == {k \in Keys : decl[k] # Undeclared}

\* A mutant: a record outlives the restart that applied it.
PendingForever(seen) == IF seen.record = NoRecord THEN Nothing ELSE seen.record.entries

\* pendingRestart: the record's entries, unless the instance was started since.
Pending(seen) ==
  IF seen.record = NoRecord \/ seen.starts > seen.record.at
    THEN Nothing ELSE seen.record.entries

\* A mutant: the booted value is taken to be what the last run stored.
BootedIsStored(seen, k) == seen.stored[k]

\* What the container runs with: recorded, or else what is stored.
Booted(seen, k) ==
  IF Pending(seen)[k] = Undeclared THEN seen.stored[k] ELSE Pending(seen)[k]

\* A mutant: only what this run changes is owed.
OwedFresh(decl, seen) ==
  [k \in Keys |-> IF Same(k, Want(decl, seen, k), seen.stored[k])
                   THEN Undeclared ELSE Booted(seen, k)]

\* restartOwed, as the entries of the record it leads to.
Owed(decl, seen) ==
  [k \in Keys |->
     LET was == Booted(seen, k)
     IN  IF was # Unknown /\ Same(k, Want(decl, seen, k), was) THEN Undeclared ELSE was]

\* settled, as far as these keys go.
Settled(decl, seen) ==
  /\ \A k \in Keys : Want(decl, seen, k) = seen.stored[k]
  /\ seen.managed = Declared(decl)

-----------------------------------------------------------------------------
At(p, pc) == proc[p].pc = pc
Moves(p, pc) == proc' = [proc EXCEPT ![p].pc = pc]
Ends(p) == proc' = [proc EXCEPT ![p] = Idle] /\ current' = current \ {p}

Boots ==
  /\ ~running /\ starts < MaxStarts
  /\ running' = TRUE /\ starts' = starts + 1 /\ booted' = stored
  /\ current' = {}
  /\ UNCHANGED <<stored, managed, record>>

Halts ==
  /\ running
  /\ running' = FALSE
  /\ current' = {}
  /\ UNCHANGED <<starts, stored, booted, managed, record>>

Start(p) ==
  /\ At(p, "idle")
  /\ \E restart \in BOOLEAN :
       proc' = [proc EXCEPT ![p] = [Idle EXCEPT !.pc = "read", !.restart = restart,
                                                !.decl = devyml]]
  /\ UNCHANGED <<inst, devyml, current>>

Read(p) ==
  /\ At(p, "read")
  /\ proc' = [proc EXCEPT ![p].pc = "write", ![p].seen = Reading]
  /\ current' = current \cup {p}
  /\ UNCHANGED <<inst, devyml>>

\* The config, in the one write that is judged against the ETag.
Write(p) ==
  /\ At(p, "write")
  /\ p \in current
  /\ stored' = [k \in Keys |-> Want(proc[p].decl, proc[p].seen, k)]
  /\ managed' = Declared(proc[p].decl)
  /\ current' = {}
  /\ Moves(p, "settle")
  /\ UNCHANGED <<running, starts, booted, record, devyml>>

SkipWrite(p) ==
  /\ At(p, "write")
  /\ Settled(proc[p].decl, proc[p].seen)
  /\ Moves(p, "settle")
  /\ UNCHANGED <<inst, devyml, current>>

\* Refused with ErrChanged: the run ends and says to run up again.
Refused(p) == At(p, "write") /\ p \notin current /\ Ends(p) /\ UNCHANGED <<inst, devyml>>

NothingOwed(p) ==
  ~proc[p].seen.running \/ Owed(proc[p].decl, proc[p].seen) = Nothing

\* A mutant: the record is never dropped.
ClearsNothing(p) == UNCHANGED <<record, current>>

\* clearRestartPending: no write when the reading had no record.
Clears(p) ==
  IF proc[p].seen.record = NoRecord
    THEN UNCHANGED <<record, current>>
    ELSE record' = NoRecord /\ current' = {}

ClearPending(p) ==
  /\ \/ At(p, "settle") /\ NothingOwed(p)
     \/ At(p, "restarted")
  /\ Clears(p)
  /\ Moves(p, "run")
  /\ UNCHANGED <<running, starts, stored, booted, managed, devyml>>

\* The record, in a second write, against an ETag taken just before it.
RecordOwed(p) ==
  /\ At(p, "settle")
  /\ ~NothingOwed(p) /\ ~proc[p].restart
  /\ LET owed == [at |-> proc[p].seen.starts, entries |-> Owed(proc[p].decl, proc[p].seen)]
     IN  IF proc[p].seen.record = owed
           THEN UNCHANGED <<record, current>>
           ELSE record' = owed /\ current' = {}
  /\ Moves(p, "run")
  /\ UNCHANGED <<running, starts, stored, booted, managed, devyml>>

\* up --restart.  StopInstance reads first and leaves a stopped one alone.
StopToApply(p) ==
  /\ At(p, "settle")
  /\ ~NothingOwed(p) /\ proc[p].restart
  /\ Halts \/ (~running /\ UNCHANGED <<inst, current>>)
  /\ Moves(p, "stopped")
  /\ UNCHANGED devyml

StartToApply(p) ==
  /\ At(p, "stopped")
  /\ Boots
  /\ Moves(p, "restarted")
  /\ UNCHANGED devyml

EnsureRunning(p) ==
  /\ At(p, "run")
  /\ proc' = [proc EXCEPT ![p] = Idle]
  /\ Boots \/ (running /\ current' = current \ {p} /\ UNCHANGED inst)
  /\ UNCHANGED devyml

\* A call fails, or the process is interrupted or killed between two of them.
StepFails(p) ==
  /\ "fail" \in Env /\ ~At(p, "idle")
  /\ At(p, "settle") => "failBetween" \in Env
  /\ Ends(p)
  /\ UNCHANGED <<inst, devyml>>

\* Starting an instance someone else started meanwhile is an error.
StartRefused(p) == At(p, "stopped") /\ running /\ Ends(p) /\ UNCHANGED <<inst, devyml>>

EditConfig ==
  /\ \A p \in Procs : At(p, "idle")
  /\ devyml' \in [Keys -> (Values \ {Absent}) \cup {Undeclared}]
  /\ UNCHANGED <<inst, proc, current>>

\* incus start, stop and restart, or the host coming back up.
UserStartsOrStops ==
  /\ "restart" \in Env
  /\ Boots \/ Halts
  /\ UNCHANGED <<devyml, proc>>

Up(p) ==
  \/ Start(p) \/ Read(p) \/ Write(p) \/ SkipWrite(p) \/ Refused(p)
  \/ ClearPending(p) \/ RecordOwed(p) \/ StopToApply(p) \/ StartToApply(p)
  \/ StartRefused(p) \/ EnsureRunning(p) \/ StepFails(p)

Next == (\E p \in Procs : Up(p)) \/ EditConfig \/ UserStartsOrStops

\* Created and started by an earlier up, or changed since by an idev whose
\* records had no values.
Init ==
  /\ running \in BOOLEAN
  /\ starts = 0
  /\ stored \in [Keys -> Values]
  /\ managed = {k \in Keys : stored[k] # Absent}
  /\ \/ booted = stored /\ record = NoRecord
     \/ /\ "legacy" \in Env
        /\ booted \in [Keys -> Values] /\ booted # stored
        /\ record = [at |-> 0, entries |->
                       [k \in Keys |-> IF stored[k] = booted[k] THEN Undeclared ELSE Unknown]]
  /\ devyml = [k \in Keys |-> IF k \in managed THEN stored[k] ELSE Undeclared]
  /\ proc = [p \in Procs |-> Idle]
  /\ current = {}

Spec == Init /\ [][Next]_vars

-----------------------------------------------------------------------------
(* Properties.                                                             *)

\* The keys the running container does not run with.
NotApplied == {k \in Keys : running /\ ~Same(k, stored[k], booted[k])}

\* The keys the record says are owed, as the next up would read it.
RecordedOwed == {k \in Keys : Pending(Reading)[k] # Undeclared}

Deciding == \E p \in Procs : proc[p].pc \in {"settle", "stopped", "restarted"}

\* What is applied to the config and not to the container is recorded on the
\* instance once up is done (spec 05-incus.md 5.4.5).
OwedIsRecorded == ~Deciding => NotApplied \subseteq RecordedOwed

\* And nothing else is: a value changed and changed back, or a restart by
\* anyone, leaves nothing to warn about.  An entry without a value is only
\* retired by a start.
NothingElseIsRecorded ==
  ~Deciding /\ running =>
    {k \in RecordedOwed : Pending(Reading)[k] # Unknown} \subseteq NotApplied

\* A recorded value is what the running container booted with, or a respelling
\* of it that an up in between stored.
RecordIsTrue ==
  running => \A k \in RecordedOwed :
    LET was == Pending(Reading)[k] IN was = Unknown \/ Same(k, was, booted[k])

\* up --restart stops an instance only when that applies something, unless
\* someone has restarted it since it was read.
NeverRestartsForNothing ==
  [][\A p \in Procs :
       StopToApply(p) /\ running /\ ~running' /\ starts = proc[p].seen.starts =>
         NotApplied # {} \/ \E k \in Keys : Pending(proc[p].seen)[k] = Unknown]_vars
=============================================================================
