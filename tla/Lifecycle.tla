------------------------------ MODULE Lifecycle ------------------------------
(***************************************************************************)
(* `idev up`, `destroy`, `destroy --volumes`, `rebuild` and `snapshot`     *)
(* against one Incus daemon, and the record of which persistent volumes    *)
(* are idev's (user.incus-dev.volumes).                                    *)
(*                                                                         *)
(* The record lives on the instance and is the only thing that names a     *)
(* volume once dev.yml no longer does.  Every call of the Incus API is one *)
(* step, any of them may fail, and several idev processes interleave.      *)
(* A volume stands for the pool/name a dev.yml key derives; the order in   *)
(* which a loop visits its volumes is left open.                           *)
(***************************************************************************)
EXTENDS FiniteSets, Naturals

CONSTANTS
  Volumes,    \* the volumes some version of dev.yml declares
  Procs,      \* idev processes, each working for the same project
  Commands,   \* the commands each process runs, out of CommandNames
  Env,        \* what else may happen, a subset of EnvNames
  MaxSnapshots, \* bound: the snapshots kept at a time, counting equal ones once
  NoRecord    \* the config has no user.incus-dev.volumes key

CommandNames == {"up", "destroy", "purge", "rebuild"}  \* purge: destroy --volumes

EnvNames ==
  { "edit",         \* dev.yml is edited while no command runs
    "editAnytime",  \* ... or while one does (another checkout of the project)
    "handDelete",   \* a user deletes a volume that is attached to nothing
    "toggle",       \* a user starts or stops the instance
    "snapshot",     \* idev snapshot create and restore, restoring while no command runs
    "snapshotAnytime", \* ... or while one does
    "interrupt",    \* Ctrl-C cancels the command's context
    "kill",         \* a second Ctrl-C, or SIGKILL
    "legacy" }      \* the instance was made before the volume record existed

ASSUME NoRecordIsNoSet == \A S \in SUBSET Volumes : S # NoRecord
ASSUME CommandsKnown == Commands \in [Procs -> SUBSET CommandNames]
ASSUME EnvKnown == Env \subseteq EnvNames

VARIABLES
  inst,     \* the instance, as the daemon holds it
  pool,     \* the volumes on the storage pool
  snaps,    \* the configs the instance's snapshots hold
  deleting, \* the daemon is still deleting after idev stopped waiting
  devyml,   \* the volumes dev.yml declares now
  proc,     \* what each idev process holds in memory
  current,  \* the processes whose reading of the instance has a current ETag
  told,     \* volumes named to the user because the record naming them went
  lost      \* volumes a failed rebuild said nothing names any more

vars == <<inst, pool, snaps, deleting, devyml, proc, current, told, lost>>

Records == {NoRecord} \cup SUBSET Volumes

Gone == [exists |-> FALSE, running |-> FALSE,
         record |-> NoRecord, devices |-> {}, attached |-> {}]

Idle == [pc |-> "idle", cmd |-> "none", decl |-> {}, seen |-> Gone,
         work |-> NoRecord, carried |-> {}, todo |-> {}, cut |-> FALSE]

-----------------------------------------------------------------------------
(* What the code computes from a reading.                                  *)

\* A mutant: an absent key splits into one entry that names no volume.
ListedAsOneEntry(record) == IF record = NoRecord THEN {NoRecord} ELSE record

\* splitList: an absent key and an empty one both list nothing.
Listed(record) == IF record = NoRecord THEN {} ELSE record

\* recordedVolumes: the record, or failing that the declaration and whatever
\* volume is attached as a device.
Recorded(i, declared) ==
  IF i.record # NoRecord THEN i.record ELSE declared \cup i.attached

\* A mutant: rebuild gives up its carried record to whatever it finds.
AdoptedNothing(record, declared, carried) == record

\* adoptCarried: the record a rebuild carries joins the one it found.
Adopted(record, declared, carried) ==
  IF carried = {} THEN record ELSE declared \cup Listed(record) \cup carried

\* knownVolumes, as desiredConfig and instanceSpec write it.
Known(p) == proc[p].decl \cup Listed(proc[p].work)

\* staleDevices: recorded, still there, and no longer declared.
StaleDevices(p) ==
  (proc[p].seen.devices \cap proc[p].seen.attached) \ proc[p].decl

\* A mutant: settled asks the working copy, which adoptCarried has edited.
SettledByWorkingCopy(p) ==
  /\ proc[p].work = Known(p)
  /\ proc[p].seen.devices = proc[p].decl
  /\ proc[p].decl \subseteq proc[p].seen.attached
  /\ StaleDevices(p) = {}

\* settled: the write would leave what the daemon returned as it is.  The rest
\* of the declaration is not modelled, so a settled write may happen anyway.
Settled(p) ==
  /\ proc[p].seen.record = Known(p)
  /\ proc[p].seen.devices = proc[p].decl
  /\ proc[p].decl \subseteq proc[p].seen.attached
  /\ StaleDevices(p) = {}

\* The instance after reapplyInstance's one write.
Reapplied(p) ==
  [inst EXCEPT !.record = Known(p),
               !.devices = proc[p].decl,
               !.attached = (@ \ StaleDevices(p)) \cup proc[p].decl]

\* The instance CreateInstance asks for: a carried record goes in with it.
Created(p) ==
  [exists |-> TRUE, running |-> FALSE,
   record |-> proc[p].decl \cup proc[p].carried,
   devices |-> proc[p].decl, attached |-> proc[p].decl]

\* A mutant: up never stops carrying.
StoredAndCarried(p) == proc[p]

\* What the process holds once the record it carried is on the instance.
Stored(p) == [proc[p] EXCEPT !.carried = {}]

-----------------------------------------------------------------------------
(* Building blocks of the actions.                                         *)

At(p, pc) == proc[p].pc = pc

\* The daemon refuses a disk device whose volume is not there.
Mountable(p) == proc[p].decl \subseteq pool
Becomes(p, r) == proc' = [proc EXCEPT ![p] = r]
Moves(p, pc) == Becomes(p, [proc[p] EXCEPT !.pc = pc])

\* Every write, start and stop moves the ETag on.
InstBecomes(i) == inst' = i /\ current' = {}

Tell(S) == told' = told \cup S
Recording(S) == told' = told \ S /\ lost' = lost \ S

\* A command ends.  What it held in memory is gone.
Ends(p) == Becomes(p, Idle) /\ current' = current \ {p}

\* recordLostWith: a rebuild whose up half failed names what it still carries.
LostBy(p) == proc[p].carried \ proc[p].decl
SaysLost(p) == Tell(LostBy(p)) /\ lost' = lost \cup LostBy(p)

daemon == <<inst, pool, snaps, deleting>>

\* Any call of up may fail; nothing was applied.
UpFails(p) == Ends(p) /\ SaysLost(p) /\ UNCHANGED <<daemon, devyml>>

\* Any call of destroy before the daemon accepts the delete may fail.
\* volumesUntouched names the volumes, a plain destroy has nothing to add.
DestroyFails(p) ==
  /\ Ends(p)
  /\ Tell(IF proc[p].cmd = "purge" THEN proc[p].todo ELSE {})
  /\ UNCHANGED <<daemon, devyml, lost>>

-----------------------------------------------------------------------------
Start(p) ==
  /\ At(p, "idle")
  /\ \E c \in Commands[p] :
       Becomes(p, [Idle EXCEPT !.cmd = c, !.decl = devyml,
                               !.pc = CASE c = "up" -> "upRead"
                                        [] c = "rebuild" -> "rebuildRead"
                                        [] OTHER -> "destroyRead"])
  /\ UNCHANGED <<daemon, devyml, current, told, lost>>

(* up.                                                                     *)

UpRead(p) ==
  /\ At(p, "upRead")
  /\ \/ /\ Becomes(p, [proc[p] EXCEPT
                !.pc = "ensure",
                !.seen = inst,
                !.work = Adopted(inst.record, proc[p].decl,
                                 IF inst.exists THEN proc[p].carried ELSE {}),
                !.todo = proc[p].decl])
        /\ current' = current \cup {p}
        /\ UNCHANGED <<daemon, devyml, told, lost>>
     \/ UpFails(p)

\* ensureVolumes, one declared volume: kept if it is there, else created.
EnsureVolume(p) ==
  /\ At(p, "ensure")
  /\ \E v \in proc[p].todo :
       /\ pool' = pool \cup {v}
       /\ Becomes(p, [proc[p] EXCEPT !.todo = @ \ {v}])
  /\ UNCHANGED <<inst, snaps, deleting, devyml, current, told, lost>>

VolumesEnsured(p) ==
  /\ At(p, "ensure")
  /\ proc[p].todo = {}
  /\ Becomes(p, IF proc[p].seen.exists
                  THEN [proc[p] EXCEPT !.pc = "prune",
                                       !.todo = Listed(proc[p].work) \ proc[p].decl]
                  ELSE [proc[p] EXCEPT !.pc = "create"])
  /\ UNCHANGED <<daemon, devyml, current, told, lost>>

\* pruneVolumeRecord, one undeclared entry: dropped when the daemon says it is
\* not there, kept when it is there or the daemon cannot be asked.
PruneEntry(p) ==
  /\ At(p, "prune")
  /\ \E v \in proc[p].todo :
       \/ Becomes(p, [proc[p] EXCEPT !.todo = @ \ {v}])
       \/ v \notin pool /\ Becomes(p, [proc[p] EXCEPT !.todo = @ \ {v},
                                                   !.work = Listed(@) \ {v}])
  /\ UNCHANGED <<daemon, devyml, current, told, lost>>

\* warnUnrecorded: an instance with no records at all has its undeclared
\* devices named, once, before this run writes the records.
Pruned(p) ==
  /\ At(p, "prune")
  /\ proc[p].todo = {}
  /\ Moves(p, "write")
  /\ Tell(IF proc[p].seen.record = NoRecord /\ proc[p].seen.devices = {}
            THEN proc[p].seen.attached \ proc[p].decl ELSE {})
  /\ UNCHANGED <<daemon, devyml, current, lost>>

\* reapplyInstance: skip a write that would change nothing, else write against
\* the ETag of the reading.
SkipWrite(p) ==
  /\ At(p, "write")
  /\ Settled(p)
  /\ Becomes(p, [Stored(p) EXCEPT !.pc = "settle"])
  /\ UNCHANGED <<daemon, devyml, current, told, lost>>

\* A mutant: the write goes out with no ETag.
WriteLandsUnguarded(p) ==
  At(p, "write") /\ Mountable(p) /\ ~deleting /\ InstBecomes(Reapplied(p))

\* The daemon refuses it with ErrChanged once the ETag has moved on.
WriteLands(p) ==
  /\ At(p, "write")
  /\ p \in current
  /\ Mountable(p)
  /\ ~deleting
  /\ InstBecomes(Reapplied(p))

Write(p) ==
  /\ WriteLands(p)
  /\ Recording(Known(p))
  /\ Becomes(p, [Stored(p) EXCEPT !.pc = "settle"])
  /\ UNCHANGED <<pool, snaps, deleting, devyml>>

\* The request is sent even when interrupted; only the wait is cut short, and
\* the daemon applies it all the same.
WriteInterrupted(p) ==
  /\ proc[p].cut
  /\ WriteLands(p)
  /\ Becomes(p, Idle)
  /\ SaysLost(p)
  /\ UNCHANGED <<pool, snaps, deleting, devyml>>

Create(p) ==
  /\ At(p, "create")
  /\ ~inst.exists /\ Mountable(p)
  /\ InstBecomes(Created(p))
  /\ Recording(Created(p).record)
  /\ Becomes(p, [Stored(p) EXCEPT !.pc = "start"])
  /\ UNCHANGED <<pool, snaps, deleting, devyml>>

\* waitOp asks the daemon to cancel and does not wait for the answer.
CreateInterrupted(p) ==
  /\ At(p, "create")
  /\ proc[p].cut /\ ~inst.exists /\ Mountable(p)
  /\ InstBecomes(Created(p))
  /\ Becomes(p, Idle)
  /\ SaysLost(p)
  /\ UNCHANGED <<pool, snaps, deleting, devyml>>

\* settleRestart writes or clears the restart record, or restarts, or neither.
SettleRestart(p) ==
  /\ At(p, "settle")
  /\ \/ UNCHANGED current
     \/ inst.exists /\ ~deleting /\ current' = {}
  /\ Moves(p, "start")
  /\ UNCHANGED <<daemon, devyml, told, lost>>

\* ensureRunning: starting is the one mutation an interrupt refuses.
EnsureRunning(p) ==
  /\ At(p, "start")
  /\ inst.exists
  /\ \/ inst.running /\ UNCHANGED <<inst, current>>
     \/ /\ ~inst.running /\ ~proc[p].cut /\ ~deleting
        /\ InstBecomes([inst EXCEPT !.running = TRUE])
  /\ Moves(p, "provision")
  /\ UNCHANGED <<pool, snaps, deleting, devyml, told, lost>>

Provision(p) ==
  /\ At(p, "provision")
  /\ Ends(p)
  /\ UNCHANGED <<daemon, devyml, told, lost>>

UpStepFails(p) ==
  /\ proc[p].pc \in {"ensure", "write", "create", "settle", "start", "provision"}
  /\ UpFails(p)

Up(p) ==
  \/ UpRead(p) \/ EnsureVolume(p) \/ VolumesEnsured(p) \/ PruneEntry(p)
  \/ Pruned(p) \/ SkipWrite(p) \/ Write(p) \/ WriteInterrupted(p)
  \/ Create(p) \/ CreateInterrupted(p) \/ SettleRestart(p)
  \/ EnsureRunning(p) \/ Provision(p) \/ UpStepFails(p)

(* destroy and rebuild.                                                    *)

\* A mutant: destroy asks the declaration instead of the record.
DestroyReadDeclared(p) ==
  /\ At(p, "destroyRead")
  /\ inst.exists
  /\ Becomes(p, [proc[p] EXCEPT !.pc = "stop", !.seen = inst, !.todo = proc[p].decl])
  /\ UNCHANGED <<daemon, devyml, current, told, lost>>

\* managedInstance: nothing to destroy is an error, and ends the command.
DestroyRead(p) ==
  /\ At(p, "destroyRead")
  /\ \/ /\ inst.exists
        /\ Becomes(p, [proc[p] EXCEPT !.pc = "stop", !.seen = inst,
                                      !.todo = Recorded(inst, proc[p].decl)])
        /\ UNCHANGED <<daemon, devyml, current, told, lost>>
     \/ DestroyFails(p)

\* Rebuild stashes the record, then destroys with the reading it has.
RebuildRead(p) ==
  /\ At(p, "rebuildRead")
  /\ \/ /\ inst.exists
        /\ LET recorded == Recorded(inst, proc[p].decl)
           IN  Becomes(p, [proc[p] EXCEPT !.pc = "stop", !.seen = inst,
                                          !.carried = recorded, !.todo = recorded])
        /\ UNCHANGED <<daemon, devyml, current, told, lost>>
     \/ /\ ~inst.exists
        /\ Moves(p, "upRead")
        /\ UNCHANGED <<daemon, devyml, current, told, lost>>
     \/ DestroyFails(p)

\* DeleteInstance reads the instance again and force-stops it if it runs.
StopForDelete(p) ==
  /\ At(p, "stop")
  /\ \/ /\ inst.exists
        /\ \/ ~inst.running /\ UNCHANGED <<inst, current>>
           \/ /\ inst.running /\ ~proc[p].cut /\ ~deleting
              /\ InstBecomes([inst EXCEPT !.running = FALSE])
        /\ Moves(p, "delete")
        /\ UNCHANGED <<pool, snaps, deleting, devyml, told, lost>>
     \/ DestroyFails(p)

\* The daemon deletes by name, and refuses an instance that runs.
Deletable == inst.exists /\ ~inst.running
InstGone == inst' = Gone /\ snaps' = {} /\ deleting' = FALSE /\ current' = {}

\* Deleted.  destroy names the volumes it kept; --volumes goes on to delete
\* them, and rebuild, which carries the record, to make the instance again.
Delete(p) ==
  /\ At(p, "delete")
  /\ Deletable /\ ~deleting
  /\ InstGone
  /\ \/ proc[p].cmd = "purge" /\ Moves(p, "reap") /\ UNCHANGED told
     \/ /\ proc[p].cmd = "rebuild"
        /\ Becomes(p, [proc[p] EXCEPT !.pc = "upRead", !.todo = {}])
        /\ UNCHANGED told
     \/ proc[p].cmd = "destroy" /\ Becomes(p, Idle) /\ Tell(proc[p].todo)
  /\ UNCHANGED <<pool, devyml, lost>>

\* ErrOutcomeUnknown: the wait is cut short and the daemon goes on deleting.
DeleteInterrupted(p) ==
  /\ At(p, "delete")
  /\ proc[p].cut /\ Deletable /\ ~deleting
  /\ deleting' = TRUE
  /\ Ends(p)
  /\ Tell(IF proc[p].cmd = "purge" THEN proc[p].todo ELSE proc[p].todo \ proc[p].decl)
  /\ UNCHANGED <<inst, pool, snaps, devyml, lost>>

DeleteRefused(p) == At(p, "delete") /\ DestroyFails(p)

\* deleteVolumes, one recorded volume: skipped when it is not there.
ReapVolume(p) ==
  /\ At(p, "reap")
  /\ \E v \in proc[p].todo :
       /\ v \notin inst.attached
       /\ pool' = pool \ {v}
       /\ Becomes(p, [proc[p] EXCEPT !.todo = @ \ {v}])
       /\ Recording({v})
  /\ UNCHANGED <<inst, snaps, deleting, devyml, current>>

\* remainingVolumes: a failure names the volume it failed on and the rest.
ReapFails(p) == At(p, "reap") /\ proc[p].todo # {} /\ DestroyFails(p)

Reaped(p) ==
  /\ At(p, "reap")
  /\ proc[p].todo = {}
  /\ Ends(p)
  /\ UNCHANGED <<daemon, devyml, told, lost>>

Destroy(p) ==
  \/ DestroyRead(p) \/ RebuildRead(p) \/ StopForDelete(p) \/ Delete(p)
  \/ DeleteInterrupted(p) \/ DeleteRefused(p)
  \/ ReapVolume(p) \/ ReapFails(p) \/ Reaped(p)

-----------------------------------------------------------------------------
(* The daemon finishing on its own, the user, and the shell.               *)

DaemonFinishesDelete ==
  /\ deleting
  /\ \/ InstGone
     \/ deleting' = FALSE /\ UNCHANGED <<inst, snaps, current>>
  /\ UNCHANGED <<pool, devyml, proc, told, lost>>

EditConfig ==
  /\ "edit" \in Env
  /\ "editAnytime" \in Env \/ \A p \in Procs : At(p, "idle")
  /\ devyml' \in SUBSET Volumes
  /\ UNCHANGED <<daemon, proc, current, told, lost>>

HandDelete ==
  /\ "handDelete" \in Env
  /\ \E v \in pool \ inst.attached : pool' = pool \ {v} /\ Recording({v})
  /\ UNCHANGED <<inst, snaps, deleting, devyml, proc, current>>

Toggle ==
  /\ "toggle" \in Env
  /\ inst.exists /\ ~deleting
  /\ InstBecomes([inst EXCEPT !.running = ~@])
  /\ UNCHANGED <<pool, snaps, deleting, devyml, proc, told, lost>>

TakeSnapshot ==
  /\ "snapshot" \in Env
  /\ inst.exists
  /\ Cardinality(snaps) < MaxSnapshots
  /\ snaps' = snaps \cup {[record |-> inst.record, devices |-> inst.devices,
                           attached |-> inst.attached]}
  /\ UNCHANGED <<inst, pool, deleting, devyml, proc, current, told, lost>>

\* The daemon puts the whole config back, idev's records with it.
RestoreSnapshot ==
  /\ "snapshot" \in Env
  /\ "snapshotAnytime" \in Env \/ \A p \in Procs : At(p, "idle")
  /\ inst.exists /\ ~deleting
  /\ \E s \in snaps :
       /\ s.attached \subseteq pool
       /\ InstBecomes([inst EXCEPT !.record = s.record, !.devices = s.devices,
                                   !.attached = s.attached])
  /\ UNCHANGED <<pool, snaps, deleting, devyml, proc, told, lost>>

Interrupt(p) ==
  /\ "interrupt" \in Env
  /\ ~At(p, "idle") /\ ~proc[p].cut
  /\ Becomes(p, [proc[p] EXCEPT !.cut = TRUE])
  /\ UNCHANGED <<daemon, devyml, current, told, lost>>

Kill(p) ==
  /\ "kill" \in Env
  /\ ~At(p, "idle")
  /\ Ends(p)
  /\ UNCHANGED <<daemon, devyml, told, lost>>

Environment ==
  DaemonFinishesDelete \/ EditConfig \/ HandDelete \/ Toggle \/ TakeSnapshot \/ RestoreSnapshot

-----------------------------------------------------------------------------
\* An instance from before idev kept records: its volumes are attached, and
\* nothing lists them.
LegacyInstance ==
  [exists |-> TRUE, running |-> TRUE, record |-> NoRecord, devices |-> {},
   attached |-> Volumes]

Init ==
  /\ \/ inst = Gone /\ pool = {}
     \/ "legacy" \in Env /\ inst = LegacyInstance /\ pool = Volumes
  /\ snaps = {}
  /\ deleting = FALSE
  /\ devyml \in SUBSET Volumes
  /\ proc = [p \in Procs |-> Idle]
  /\ current = {}
  /\ told = {}
  /\ lost = {}

Next ==
  \/ \E p \in Procs : Start(p) \/ Up(p) \/ Destroy(p) \/ Interrupt(p) \/ Kill(p)
  \/ Environment

Spec == Init /\ [][Next]_vars

-----------------------------------------------------------------------------
(* Properties.                                                             *)

PCs == {"idle", "upRead", "ensure", "prune", "write", "create", "settle", "start",
        "provision", "destroyRead", "rebuildRead", "stop", "delete", "reap"}

Instances ==
  [exists : BOOLEAN, running : BOOLEAN, record : Records,
   devices : SUBSET Volumes, attached : SUBSET Volumes]

Processes ==
  [pc : PCs, cmd : CommandNames \cup {"none"}, decl : SUBSET Volumes, seen : Instances,
   work : Records, carried : SUBSET Volumes, todo : SUBSET Volumes, cut : BOOLEAN]

Configs == [record : Records, devices : SUBSET Volumes, attached : SUBSET Volumes]

\* Every variable holds a value of its kind.
TypeOK ==
  /\ inst \in Instances
  /\ pool \in SUBSET Volumes
  /\ snaps \in SUBSET Configs
  /\ deleting \in BOOLEAN
  /\ devyml \in SUBSET Volumes
  /\ proc \in [Procs -> Processes]
  /\ current \in SUBSET Procs
  /\ told \in SUBSET Volumes
  /\ lost \in SUBSET Volumes

\* What a command alone knows, once it has deleted the instance that held the
\* record: the volumes left to reap, or the record a rebuild carries.
InFlight(p) ==
  CASE proc[p].pc = "reap" -> proc[p].todo
    [] proc[p].pc \in {"stop", "delete"} -> {}
    [] OTHER -> proc[p].carried

\* The names idev keeps: in what it told the user, on the instance, in a
\* running command.  While the daemon is deleting the instance, its record
\* counts for nothing.
Kept == told \cup (UNION {InFlight(p) : p \in Procs})
        \cup (IF inst.exists /\ ~deleting THEN Recorded(inst, {}) ELSE {})

Custody == INSTANCE VolumeCustody WITH yml <- devyml, kept <- Kept

\* No step of idev, complete, failed or cut short, takes away the last name of
\* a volume that is still on the pool (volumes.go: "most of what is here is
\* about not losing it").
CustodyKept == Custody!Spec

\* While the instance lives, no write takes a volume that is on the pool out of
\* its record: the guarded write of reapplyInstance against two idevs.
RecordKeepsVolumes ==
  [][inst.exists /\ inst'.exists =>
       Listed(inst.record) \cap pool' \subseteq Listed(inst'.record)]_vars

\* recordLostWith names a volume only while no record names it (Rebuild's
\* comment: "only while they really are unnameable"), unless it was interrupted:
\* a rebuild that fails after its record is durable again, on a provision step
\* say, calls nothing lost.
UncutLossIsReal ==
  [][\A p \in Procs :
       ~proc[p].cut /\ inst.exists =>
         (LostBy(p) \cap (lost' \ lost)) \cap Listed(inst.record) = {}]_vars

\* Once up has written, or found nothing to write, the daemon holds what up
\* decided: settled compares with what was read, not with the working copy.
UpLeavesItsDecision ==
  \A p \in Procs : At(p, "settle") /\ inst.exists =>
    /\ inst.record = Known(p)
    /\ inst.devices = proc[p].decl
    /\ proc[p].decl \subseteq inst.attached

\* destroy --volumes that reports success has deleted every volume the instance
\* recorded or, with no record, declared or attached.
PurgeReachesAll ==
  [][\A p \in Procs : Reaped(p) /\ ~proc[p].cut =>
       Recorded(proc[p].seen, proc[p].decl) \cap pool = {}]_vars
=============================================================================
