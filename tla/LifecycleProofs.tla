--------------------------- MODULE LifecycleProofs ---------------------------
(***************************************************************************)
(* What Lifecycle guarantees for any volumes, any number of idev processes *)
(* and any environment; and what a command of idev that goes through has   *)
(* done: up leaves on the instance what it decided, and destroy --volumes  *)
(* has deleted every volume the instance recorded.                         *)
(***************************************************************************)
EXTENDS Lifecycle, TLAPS

\* Whatever the key holds, a reading of it lists volumes.
LEMMA ListedVolumes ==
  ASSUME NEW r \in Records
  PROVE  Listed(r) \in SUBSET Volumes
BY DEF Listed, Records

\* The record destroy and rebuild work from lists volumes.
LEMMA RecordedVolumes ==
  ASSUME NEW i \in Instances, NEW S \in SUBSET Volumes
  PROVE  Recorded(i, S) \in SUBSET Volumes
BY DEF Recorded, Instances, Records

\* The working copy up starts from is a record.
LEMMA AdoptedRecord ==
  ASSUME NEW r \in Records, NEW D \in SUBSET Volumes, NEW C \in SUBSET Volumes
  PROVE  Adopted(r, D, C) \in Records
BY ListedVolumes DEF Adopted, Records

\* adoptCarried adds to the record it finds and takes nothing out.
LEMMA AdoptedKeeps ==
  ASSUME NEW r \in Records, NEW D \in SUBSET Volumes, NEW C \in SUBSET Volumes
  PROVE  Listed(r) \subseteq Listed(Adopted(r, D, C))
BY ListedVolumes, NoRecordIsNoSet DEF Adopted, Listed

LEMMA IdleType == Idle \in Processes /\ Gone \in Instances
BY DEF Idle, Gone, Processes, Instances, PCs, CommandNames, Records

\* A process that holds a process's state again.
LEMMA BecomesType ==
  ASSUME TypeOK, NEW p \in Procs, NEW r \in Processes, Becomes(p, r)
  PROVE  proc' \in [Procs -> Processes]
BY DEF TypeOK, Becomes

LEMMA EndsType ==
  ASSUME TypeOK, NEW p \in Procs, Ends(p)
  PROVE  proc' \in [Procs -> Processes] /\ current' \in SUBSET Procs
BY BecomesType, IdleType DEF Ends, TypeOK

LEMMA MovesType ==
  ASSUME TypeOK, NEW p \in Procs, NEW pc \in PCs, Moves(p, pc)
  PROVE  proc' \in [Procs -> Processes]
<1>1. [proc[p] EXCEPT !.pc = pc] \in Processes
  BY DEF TypeOK, Processes
<1> QED BY <1>1, BecomesType DEF Moves

LEMMA UpFailsType ==
  ASSUME TypeOK, NEW p \in Procs, UpFails(p)
  PROVE  TypeOK'
<1>1. proc[p] \in Processes
  BY DEF TypeOK
<1>2. LostBy(p) \in SUBSET Volumes
  BY <1>1 DEF LostBy, Processes
<1>3. told' \in SUBSET Volumes /\ lost' \in SUBSET Volumes
  BY <1>2 DEF UpFails, SaysLost, Tell, TypeOK
<1>4. proc' \in [Procs -> Processes] /\ current' \in SUBSET Procs
  BY EndsType DEF UpFails
<1> QED BY <1>3, <1>4 DEF UpFails, daemon, TypeOK

LEMMA DestroyFailsType ==
  ASSUME TypeOK, NEW p \in Procs, DestroyFails(p)
  PROVE  TypeOK'
<1>1. proc[p].todo \in SUBSET Volumes
  BY DEF TypeOK, Processes
<1>2. told' \in SUBSET Volumes
  BY <1>1 DEF DestroyFails, Tell, TypeOK
<1>3. proc' \in [Procs -> Processes] /\ current' \in SUBSET Procs
  BY EndsType DEF DestroyFails
<1> QED BY <1>2, <1>3 DEF DestroyFails, daemon, TypeOK

-----------------------------------------------------------------------------
(* Type correctness.                                                       *)

LEMMA StartType ==
  ASSUME TypeOK, NEW p \in Procs, Start(p)
  PROVE  TypeOK'
<1>1. PICK c \in Commands[p] :
        Becomes(p, [Idle EXCEPT !.cmd = c, !.decl = devyml,
                                !.pc = CASE c = "up" -> "upRead"
                                         [] c = "rebuild" -> "rebuildRead"
                                         [] OTHER -> "destroyRead"])
  BY DEF Start
<1>2. c \in CommandNames
  BY CommandsKnown
<1>3. [Idle EXCEPT !.cmd = c, !.decl = devyml,
                   !.pc = CASE c = "up" -> "upRead"
                            [] c = "rebuild" -> "rebuildRead"
                            [] OTHER -> "destroyRead"] \in Processes
  BY <1>2, IdleType DEF Processes, PCs, TypeOK
<1>4. proc' \in [Procs -> Processes]
  BY <1>1, <1>3, BecomesType
<1> QED BY <1>4 DEF Start, daemon, TypeOK

\* The writable part of the instance after each of idev's mutations.
LEMMA MutatedInstances ==
  ASSUME TypeOK, NEW p \in Procs
  PROVE  /\ Known(p) \in SUBSET Volumes
         /\ Reapplied(p) \in Instances
         /\ Created(p) \in Instances
         /\ LostBy(p) \in SUBSET Volumes
         /\ \A b \in BOOLEAN : [inst EXCEPT !.running = b] \in Instances
<1>1. proc[p] \in Processes /\ inst \in Instances
  BY DEF TypeOK
<1>2. Known(p) \in SUBSET Volumes
  BY <1>1, ListedVolumes DEF Known, Processes
<1>3. StaleDevices(p) \in SUBSET Volumes
  BY <1>1 DEF StaleDevices, Processes, Instances
<1>4. Reapplied(p) \in Instances
  BY <1>1, <1>2, <1>3 DEF Reapplied, Processes, Instances, Records
<1>5. Created(p) \in Instances
  BY <1>1 DEF Created, Processes, Instances, Records
<1> QED BY <1>1, <1>2, <1>4, <1>5 DEF LostBy, Processes, Instances

LEMMA UpType ==
  ASSUME TypeOK, NEW p \in Procs, Up(p)
  PROVE  TypeOK'
<1> USE DEF daemon
<1>0. proc[p] \in Processes /\ inst \in Instances
  BY DEF TypeOK
<1>1. CASE UpRead(p)
  <2>1. CASE UpFails(p)
    BY <2>1, UpFailsType
  <2>2. CASE ~UpFails(p)
    <3> DEFINE C == IF inst.exists THEN proc[p].carried ELSE {}
    <3>1. Adopted(inst.record, proc[p].decl, C) \in Records
      BY <1>0, AdoptedRecord DEF Instances, Processes
    <3>2. [proc[p] EXCEPT !.pc = "ensure", !.seen = inst,
                          !.work = Adopted(inst.record, proc[p].decl, C),
                          !.todo = proc[p].decl] \in Processes
      BY <1>0, <3>1 DEF Processes, PCs
    <3>3. proc' \in [Procs -> Processes]
      BY <1>1, <2>2, <3>2, BecomesType DEF UpRead
    <3> QED BY <1>1, <2>2, <3>3 DEF UpRead, TypeOK
  <2> QED BY <2>1, <2>2
<1>2. CASE EnsureVolume(p)
  <2>1. PICK v \in proc[p].todo :
          /\ pool' = pool \cup {v}
          /\ Becomes(p, [proc[p] EXCEPT !.todo = @ \ {v}])
    BY <1>2 DEF EnsureVolume
  <2>2. [proc[p] EXCEPT !.todo = @ \ {v}] \in Processes
    BY <1>0 DEF Processes
  <2>3. proc' \in [Procs -> Processes]
    BY <2>1, <2>2, BecomesType
  <2>4. pool' \in SUBSET Volumes
    BY <1>0, <2>1 DEF TypeOK, Processes
  <2> QED BY <1>2, <2>3, <2>4 DEF EnsureVolume, TypeOK
<1>3. CASE VolumesEnsured(p)
  <2>1. Listed(proc[p].work) \ proc[p].decl \in SUBSET Volumes
    BY <1>0, ListedVolumes DEF Processes
  <2>2. [proc[p] EXCEPT !.pc = "prune", !.todo = Listed(proc[p].work) \ proc[p].decl]
          \in Processes
    BY <1>0, <2>1 DEF Processes, PCs
  <2>3. [proc[p] EXCEPT !.pc = "create"] \in Processes
    BY <1>0 DEF Processes, PCs
  <2>4. proc' \in [Procs -> Processes]
    BY <1>3, <2>2, <2>3, BecomesType DEF VolumesEnsured
  <2> QED BY <1>3, <2>4 DEF VolumesEnsured, TypeOK
<1>4. CASE PruneEntry(p)
  <2>1. PICK v \in proc[p].todo :
          \/ Becomes(p, [proc[p] EXCEPT !.todo = @ \ {v}])
          \/ Becomes(p, [proc[p] EXCEPT !.todo = @ \ {v}, !.work = Listed(@) \ {v}])
    BY <1>4 DEF PruneEntry
  <2>2. Listed(proc[p].work) \ {v} \in Records
    BY <1>0, ListedVolumes DEF Processes, Records
  <2>3. /\ [proc[p] EXCEPT !.todo = @ \ {v}] \in Processes
        /\ [proc[p] EXCEPT !.todo = @ \ {v}, !.work = Listed(@) \ {v}] \in Processes
    BY <1>0, <2>2 DEF Processes
  <2>4. proc' \in [Procs -> Processes]
    BY <2>1, <2>3, BecomesType
  <2> QED BY <1>4, <2>4 DEF PruneEntry, TypeOK
<1>5. CASE Pruned(p)
  <2>1. proc' \in [Procs -> Processes]
    BY <1>5, MovesType DEF Pruned, PCs
  <2>2. proc[p].seen.attached \ proc[p].decl \in SUBSET Volumes
    BY <1>0 DEF Processes, Instances
  <2>3. told' \in SUBSET Volumes
    BY <1>5, <2>2 DEF Pruned, Tell, TypeOK
  <2> QED BY <1>5, <2>1, <2>3 DEF Pruned, TypeOK
<1>6. [Stored(p) EXCEPT !.pc = "settle"] \in Processes
      /\ [Stored(p) EXCEPT !.pc = "start"] \in Processes
  BY <1>0 DEF Stored, Processes, PCs
<1>7. CASE SkipWrite(p)
  <2>1. proc' \in [Procs -> Processes]
    BY <1>6, <1>7, BecomesType DEF SkipWrite
  <2> QED BY <1>7, <2>1 DEF SkipWrite, TypeOK
<1>8. CASE Write(p)
  <2>1. proc' \in [Procs -> Processes]
    BY <1>6, <1>8, BecomesType DEF Write
  <2>2. inst' \in Instances /\ current' = {}
    BY <1>8, MutatedInstances DEF Write, WriteLands, InstBecomes
  <2>3. told' \in SUBSET Volumes /\ lost' \in SUBSET Volumes
    BY <1>8 DEF Write, Recording, TypeOK
  <2> QED BY <1>8, <2>1, <2>2, <2>3 DEF Write, TypeOK
<1>9. CASE WriteInterrupted(p)
  <2>1. proc' \in [Procs -> Processes]
    BY <1>9, IdleType, BecomesType DEF WriteInterrupted
  <2>2. inst' \in Instances /\ current' = {}
    BY <1>9, MutatedInstances DEF WriteInterrupted, WriteLands, InstBecomes
  <2>3. told' \in SUBSET Volumes /\ lost' \in SUBSET Volumes
    BY <1>9, MutatedInstances DEF WriteInterrupted, SaysLost, Tell, TypeOK
  <2> QED BY <1>9, <2>1, <2>2, <2>3 DEF WriteInterrupted, TypeOK
<1>10. CASE Create(p)
  <2>1. proc' \in [Procs -> Processes]
    BY <1>6, <1>10, BecomesType DEF Create
  <2>2. inst' \in Instances /\ current' = {}
    BY <1>10, MutatedInstances DEF Create, InstBecomes
  <2>3. told' \in SUBSET Volumes /\ lost' \in SUBSET Volumes
    BY <1>10 DEF Create, Recording, TypeOK
  <2> QED BY <1>10, <2>1, <2>2, <2>3 DEF Create, TypeOK
<1>11. CASE CreateInterrupted(p)
  <2>1. proc' \in [Procs -> Processes]
    BY <1>11, IdleType, BecomesType DEF CreateInterrupted
  <2>2. inst' \in Instances /\ current' = {}
    BY <1>11, MutatedInstances DEF CreateInterrupted, InstBecomes
  <2>3. told' \in SUBSET Volumes /\ lost' \in SUBSET Volumes
    BY <1>11, MutatedInstances DEF CreateInterrupted, SaysLost, Tell, TypeOK
  <2> QED BY <1>11, <2>1, <2>2, <2>3 DEF CreateInterrupted, TypeOK
<1>12. CASE SettleRestart(p)
  <2>1. proc' \in [Procs -> Processes]
    BY <1>12, MovesType DEF SettleRestart, PCs
  <2> QED BY <1>12, <2>1 DEF SettleRestart, TypeOK
<1>13. CASE EnsureRunning(p)
  <2>1. proc' \in [Procs -> Processes]
    BY <1>13, MovesType DEF EnsureRunning, PCs
  <2>2. inst' \in Instances /\ current' \in SUBSET Procs
    BY <1>13, MutatedInstances DEF EnsureRunning, InstBecomes, TypeOK
  <2> QED BY <1>13, <2>1, <2>2 DEF EnsureRunning, TypeOK
<1>14. CASE Provision(p)
  BY <1>14, EndsType DEF Provision, TypeOK
<1>15. CASE UpStepFails(p)
  BY <1>15, UpFailsType DEF UpStepFails
<1> QED
  BY <1>1, <1>2, <1>3, <1>4, <1>5, <1>7, <1>8, <1>9, <1>10, <1>11, <1>12,
     <1>13, <1>14, <1>15 DEF Up

LEMMA DestroyType ==
  ASSUME TypeOK, NEW p \in Procs, Destroy(p)
  PROVE  TypeOK'
<1> USE DEF daemon
<1>0. /\ proc[p] \in Processes /\ inst \in Instances
      /\ Recorded(inst, proc[p].decl) \in SUBSET Volumes
  BY RecordedVolumes DEF TypeOK, Processes
<1>1. CASE DestroyRead(p)
  <2>1. CASE DestroyFails(p)
    BY <2>1, DestroyFailsType
  <2>2. CASE ~DestroyFails(p)
    <3>1. [proc[p] EXCEPT !.pc = "stop", !.seen = inst,
                          !.todo = Recorded(inst, proc[p].decl)] \in Processes
      BY <1>0 DEF Processes, PCs
    <3>2. proc' \in [Procs -> Processes]
      BY <1>1, <2>2, <3>1, BecomesType DEF DestroyRead
    <3> QED BY <1>1, <2>2, <3>2 DEF DestroyRead, TypeOK
  <2> QED BY <2>1, <2>2
<1>2. CASE RebuildRead(p)
  <2>1. CASE DestroyFails(p)
    BY <2>1, DestroyFailsType
  <2>2. CASE ~DestroyFails(p)
    <3> DEFINE R == Recorded(inst, proc[p].decl)
    <3>1. [proc[p] EXCEPT !.pc = "stop", !.seen = inst,
                          !.carried = R, !.todo = R] \in Processes
      BY <1>0 DEF Processes, PCs
    <3>2. proc' \in [Procs -> Processes]
      BY <1>2, <2>2, <3>1, BecomesType, MovesType DEF RebuildRead, PCs
    <3> QED BY <1>2, <2>2, <3>2 DEF RebuildRead, TypeOK
  <2> QED BY <2>1, <2>2
<1>3. CASE StopForDelete(p)
  <2>1. CASE DestroyFails(p)
    BY <2>1, DestroyFailsType
  <2>2. CASE ~DestroyFails(p)
    <3>1. proc' \in [Procs -> Processes]
      BY <1>3, <2>2, MovesType DEF StopForDelete, PCs
    <3>2. inst' \in Instances /\ current' \in SUBSET Procs
      BY <1>3, <2>2, MutatedInstances DEF StopForDelete, InstBecomes, TypeOK
    <3> QED BY <1>3, <2>2, <3>1, <3>2 DEF StopForDelete, TypeOK
  <2> QED BY <2>1, <2>2
<1>4. CASE Delete(p)
  <2>1. [proc[p] EXCEPT !.pc = "upRead", !.todo = {}] \in Processes
    BY <1>0 DEF Processes, PCs
  <2>2. proc' \in [Procs -> Processes]
    BY <1>4, <2>1, IdleType, BecomesType, MovesType DEF Delete, PCs
  <2>3. told' \in SUBSET Volumes
    BY <1>0, <1>4 DEF Delete, Tell, TypeOK, Processes
  <2> QED BY <1>4, <2>2, <2>3, IdleType DEF Delete, InstGone, TypeOK
<1>5. CASE DeleteInterrupted(p)
  <2>1. told' \in SUBSET Volumes
    BY <1>0, <1>5 DEF DeleteInterrupted, Tell, TypeOK, Processes
  <2> QED BY <1>5, <2>1, EndsType DEF DeleteInterrupted, TypeOK
<1>6. CASE DeleteRefused(p)
  BY <1>6, DestroyFailsType DEF DeleteRefused
<1>7. CASE ReapVolume(p)
  <2>1. PICK v \in proc[p].todo :
          /\ pool' = pool \ {v}
          /\ Becomes(p, [proc[p] EXCEPT !.todo = @ \ {v}])
          /\ Recording({v})
    BY <1>7 DEF ReapVolume
  <2>2. [proc[p] EXCEPT !.todo = @ \ {v}] \in Processes
    BY <1>0 DEF Processes
  <2>3. proc' \in [Procs -> Processes]
    BY <2>1, <2>2, BecomesType
  <2> QED BY <1>7, <2>1, <2>3 DEF ReapVolume, Recording, TypeOK
<1>8. CASE ReapFails(p)
  BY <1>8, DestroyFailsType DEF ReapFails
<1>9. CASE Reaped(p)
  BY <1>9, EndsType DEF Reaped, TypeOK
<1> QED
  BY <1>1, <1>2, <1>3, <1>4, <1>5, <1>6, <1>7, <1>8, <1>9 DEF Destroy

LEMMA EnvironmentType ==
  ASSUME TypeOK, Environment
  PROVE  TypeOK'
<1> USE DEF daemon
<1>1. CASE DaemonFinishesDelete
  BY <1>1, IdleType DEF DaemonFinishesDelete, InstGone, TypeOK
<1>2. CASE EditConfig
  BY <1>2 DEF EditConfig, TypeOK
<1>3. CASE HandDelete
  BY <1>3 DEF HandDelete, Recording, TypeOK
<1>4. CASE Toggle
  BY <1>4 DEF Toggle, InstBecomes, TypeOK, Instances
<1>5. CASE TakeSnapshot
  <2>1. [record |-> inst.record, devices |-> inst.devices, attached |-> inst.attached]
          \in Configs
    BY DEF TypeOK, Instances, Configs
  <2> QED BY <1>5, <2>1 DEF TakeSnapshot, TypeOK
<1>6. CASE RestoreSnapshot
  <2>1. PICK s \in snaps :
          InstBecomes([inst EXCEPT !.record = s.record, !.devices = s.devices,
                                   !.attached = s.attached])
    BY <1>6 DEF RestoreSnapshot
  <2>2. s \in Configs
    BY DEF TypeOK
  <2>3. inst' \in Instances /\ current' = {}
    BY <2>1, <2>2 DEF InstBecomes, TypeOK, Configs, Instances
  <2> QED BY <1>6, <2>3 DEF RestoreSnapshot, TypeOK
<1> QED BY <1>1, <1>2, <1>3, <1>4, <1>5, <1>6 DEF Environment

\* Every variable keeps to its type, whatever fails, is cut short or killed.
THEOREM TypeCorrect == Spec => []TypeOK
<1>1. Init => TypeOK
  <2> SUFFICES ASSUME Init PROVE TypeOK
    OBVIOUS
  <2>1. LegacyInstance \in Instances
    BY DEF LegacyInstance, Instances, Records
  <2>2. inst \in Instances /\ pool \in SUBSET Volumes
    BY <2>1, IdleType DEF Init
  <2>3. proc \in [Procs -> Processes]
    BY IdleType DEF Init
  <2> QED BY <2>2, <2>3 DEF Init, TypeOK
<1>2. TypeOK /\ [Next]_vars => TypeOK'
  <2> SUFFICES ASSUME TypeOK, [Next]_vars PROVE TypeOK'
    OBVIOUS
  <2>1. CASE UNCHANGED vars
    BY <2>1 DEF vars, TypeOK
  <2>2. CASE Environment
    BY <2>2, EnvironmentType
  <2>3. ASSUME NEW p \in Procs, Start(p) \/ Up(p) \/ Destroy(p)
        PROVE  TypeOK'
    BY <2>3, StartType, UpType, DestroyType
  <2>4. ASSUME NEW p \in Procs, Interrupt(p)
        PROVE  TypeOK'
    <3>1. [proc[p] EXCEPT !.cut = TRUE] \in Processes
      BY DEF TypeOK, Processes
    <3>2. proc' \in [Procs -> Processes]
      BY <2>4, <3>1, BecomesType DEF Interrupt
    <3> QED BY <2>4, <3>2 DEF Interrupt, daemon, TypeOK
  <2>5. ASSUME NEW p \in Procs, Kill(p)
        PROVE  TypeOK'
    BY <2>5, EndsType DEF Kill, daemon, TypeOK
  <2> QED BY <2>1, <2>2, <2>3, <2>4, <2>5 DEF Next
<1> QED BY <1>1, <1>2, PTL DEF Spec

-----------------------------------------------------------------------------
(* A reading whose ETag is current is the instance.                        *)

\* The daemon's side of the ETag, which every write of up relies on.
CoherentReading == \A p \in current : proc[p].seen = inst

\* A process that has not read holds no ETag: without this, the reading of a
\* command that ended would count for the one started next.
CoherentInv ==
  /\ CoherentReading
  /\ \A p \in current : ~At(p, "idle")

\* A process that takes over state r, with the instance as it was, keeps the
\* invariant when r has the reading the process had or the instance itself.
LEMMA CoherentStep ==
  ASSUME TypeOK, CoherentInv, NEW p \in Procs, NEW r,
         r.seen = proc[p].seen \/ r.seen = inst, r.pc # "idle",
         Becomes(p, r), UNCHANGED <<inst, current>>
  PROVE  CoherentInv'
BY DEF TypeOK, CoherentInv, CoherentReading, Becomes, At

LEMMA CoherentEnds ==
  ASSUME TypeOK, CoherentInv, NEW p \in Procs, Ends(p), UNCHANGED inst
  PROVE  CoherentInv'
BY DEF TypeOK, CoherentInv, CoherentReading, Ends, Becomes, At

\* Whatever moved the ETag on left no reading to be coherent.
LEMMA CoherentMoved ==
  ASSUME current' = {}
  PROVE  CoherentInv'
BY DEF CoherentInv, CoherentReading

LEMMA CoherentUp ==
  ASSUME TypeOK, CoherentInv, NEW p \in Procs, Up(p)
  PROVE  CoherentInv'
<1> USE DEF daemon
<1>0. proc[p] \in Processes
  BY DEF TypeOK
<1>1. CASE UpFails(p)
  BY <1>1, CoherentEnds DEF UpFails
<1>2. CASE UpRead(p) /\ ~UpFails(p)
  <2>1. proc' = [proc EXCEPT ![p] = [proc[p] EXCEPT
                  !.pc = "ensure", !.seen = inst,
                  !.work = Adopted(inst.record, proc[p].decl,
                                   IF inst.exists THEN proc[p].carried ELSE {}),
                  !.todo = proc[p].decl]]
        /\ current' = current \cup {p} /\ inst' = inst
    BY <1>2 DEF UpRead, Becomes
  <2>2. proc'[p].seen = inst /\ proc'[p].pc = "ensure"
    BY <1>0, <2>1 DEF TypeOK, Processes
  <2> QED BY <2>1, <2>2 DEF TypeOK, CoherentInv, CoherentReading, At
<1>3. CASE EnsureVolume(p)
  <2>1. PICK v \in proc[p].todo : Becomes(p, [proc[p] EXCEPT !.todo = @ \ {v}])
    BY <1>3 DEF EnsureVolume
  <2> QED BY <1>0, <1>3, <2>1, CoherentStep DEF EnsureVolume, At, Processes
<1>4. CASE VolumesEnsured(p)
  <2> DEFINE a == [proc[p] EXCEPT !.pc = "prune",
                                  !.todo = Listed(proc[p].work) \ proc[p].decl]
             b == [proc[p] EXCEPT !.pc = "create"]
  <2>1. /\ a.seen = proc[p].seen /\ a.pc # "idle"
        /\ b.seen = proc[p].seen /\ b.pc # "idle"
    BY <1>0 DEF Processes
  <2>2. (Becomes(p, a) \/ Becomes(p, b)) /\ UNCHANGED <<inst, current>>
    BY <1>4 DEF VolumesEnsured
  <2> QED BY <2>1, <2>2, CoherentStep
<1>5. CASE PruneEntry(p)
  <2>1. PICK v \in proc[p].todo :
          \/ Becomes(p, [proc[p] EXCEPT !.todo = @ \ {v}])
          \/ Becomes(p, [proc[p] EXCEPT !.todo = @ \ {v}, !.work = Listed(@) \ {v}])
    BY <1>5 DEF PruneEntry
  <2> QED BY <1>0, <1>5, <2>1, CoherentStep DEF PruneEntry, At, Processes
<1>6. CASE Pruned(p)
  BY <1>0, <1>6, CoherentStep DEF Pruned, Moves, Processes
<1>7. CASE SkipWrite(p)
  BY <1>0, <1>7, CoherentStep DEF SkipWrite, Stored, Processes
<1>8. CASE Write(p) \/ WriteInterrupted(p) \/ Create(p) \/ CreateInterrupted(p)
  BY <1>8, CoherentMoved
  DEF Write, WriteInterrupted, WriteLands, Create, CreateInterrupted, InstBecomes
<1>9. CASE SettleRestart(p)
  BY <1>0, <1>9, CoherentStep, CoherentMoved DEF SettleRestart, Moves, Processes
<1>10. CASE EnsureRunning(p)
  BY <1>0, <1>10, CoherentStep, CoherentMoved
  DEF EnsureRunning, InstBecomes, Moves, Processes
<1>11. CASE Provision(p)
  BY <1>11, CoherentEnds DEF Provision
<1> QED
  BY <1>1, <1>2, <1>3, <1>4, <1>5, <1>6, <1>7, <1>8, <1>9, <1>10, <1>11
  DEF Up, UpStepFails

LEMMA CoherentDestroy ==
  ASSUME TypeOK, CoherentInv, NEW p \in Procs, Destroy(p)
  PROVE  CoherentInv'
<1> USE DEF daemon
<1>0. proc[p] \in Processes
  BY DEF TypeOK
<1>1. CASE DestroyFails(p)
  BY <1>1, CoherentEnds DEF DestroyFails
<1>2. CASE DestroyRead(p) /\ ~DestroyFails(p)
  BY <1>0, <1>2, CoherentStep DEF DestroyRead, Processes
<1>3. CASE RebuildRead(p) /\ ~DestroyFails(p)
  BY <1>0, <1>3, CoherentStep DEF RebuildRead, Moves, Processes
<1>4. CASE StopForDelete(p) /\ ~DestroyFails(p)
  BY <1>0, <1>4, CoherentStep, CoherentMoved
  DEF StopForDelete, InstBecomes, Moves, Processes
<1>5. CASE Delete(p)
  BY <1>5, CoherentMoved DEF Delete, InstGone
<1>6. CASE DeleteInterrupted(p)
  BY <1>6, CoherentEnds DEF DeleteInterrupted
<1>7. CASE ReapVolume(p)
  <2>1. PICK v \in proc[p].todo : Becomes(p, [proc[p] EXCEPT !.todo = @ \ {v}])
    BY <1>7 DEF ReapVolume
  <2> QED BY <1>0, <1>7, <2>1, CoherentStep DEF ReapVolume, At, Processes
<1>8. CASE Reaped(p)
  BY <1>8, CoherentEnds DEF Reaped
<1> QED
  BY <1>1, <1>2, <1>3, <1>4, <1>5, <1>6, <1>7, <1>8
  DEF Destroy, DeleteRefused, ReapFails

LEMMA CoherentStays == Spec => []CoherentInv
<1>1. Init => CoherentInv
  BY DEF Init, CoherentInv, CoherentReading
<1>2. TypeOK /\ CoherentInv /\ [Next]_vars => CoherentInv'
  <2> SUFFICES ASSUME TypeOK, CoherentInv, [Next]_vars PROVE CoherentInv'
    OBVIOUS
  <2>1. CASE UNCHANGED vars
    BY <2>1 DEF vars, CoherentInv, CoherentReading, At
  <2>2. CASE Environment
    BY <2>2 DEF Environment, DaemonFinishesDelete, InstGone, EditConfig, HandDelete,
         Toggle, InstBecomes, TakeSnapshot, RestoreSnapshot, daemon,
         CoherentInv, CoherentReading, At
  <2>3. ASSUME NEW p \in Procs, Start(p)
        PROVE  CoherentInv'
    <3>1. p \notin current
      BY <2>3 DEF Start, CoherentInv
    <3> QED BY <2>3, <3>1 DEF Start, daemon, Becomes, TypeOK, CoherentInv, CoherentReading, At
  <2>4. ASSUME NEW p \in Procs, Up(p) \/ Destroy(p)
        PROVE  CoherentInv'
    BY <2>4, CoherentUp, CoherentDestroy
  <2>5. ASSUME NEW p \in Procs, Interrupt(p)
        PROVE  CoherentInv'
    <3>1. proc[p] \in Processes
      BY DEF TypeOK
    <3> QED BY <2>5, <3>1, CoherentStep DEF Interrupt, daemon, At, Processes
  <2>6. ASSUME NEW p \in Procs, Kill(p)
        PROVE  CoherentInv'
    BY <2>6, CoherentEnds DEF Kill, daemon
  <2> QED BY <2>1, <2>2, <2>3, <2>4, <2>5, <2>6 DEF Next
<1> QED BY <1>1, <1>2, TypeCorrect, PTL DEF Spec

-----------------------------------------------------------------------------
(* The guarded write against any number of other idevs.                    *)

Working(p) == proc[p].pc \in {"ensure", "prune", "write"}

\* The record up read, less what is no longer on the pool, is in what up is
\* going to write.  A volume another process creates meanwhile is a declared
\* one, and all work from the same dev.yml: hence the first two conjuncts.
KeepInv ==
  /\ \A p \in Procs : ~At(p, "idle") => proc[p].decl = devyml
  /\ \A p \in Procs : At(p, "ensure") => proc[p].todo \subseteq proc[p].decl
  /\ \A p \in Procs : Working(p) =>
       Listed(proc[p].seen.record) \cap pool \subseteq proc[p].decl \cup Listed(proc[p].work)

\* A step that makes process p hold r keeps the invariant when r satisfies it
\* and the pool has not grown.
LEMMA KeepStep ==
  ASSUME TypeOK, KeepInv, NEW p \in Procs, NEW r, Becomes(p, r),
         pool' \subseteq pool, devyml' = devyml,
         r.pc # "idle" => r.decl = devyml,
         r.pc = "ensure" => r.todo \subseteq r.decl,
         r.pc \in {"ensure", "prune", "write"} =>
           Listed(r.seen.record) \cap pool \subseteq r.decl \cup Listed(r.work)
  PROVE  KeepInv'
<1>1. /\ proc'[p] = r
      /\ \A q \in Procs : q # p => proc'[q] = proc[q]
  BY DEF Becomes, TypeOK
<1>2. ASSUME NEW q \in Procs
      PROVE  /\ proc'[q].pc # "idle" => proc'[q].decl = devyml
             /\ proc'[q].pc = "ensure" => proc'[q].todo \subseteq proc'[q].decl
             /\ proc'[q].pc \in {"ensure", "prune", "write"} =>
                  Listed(proc'[q].seen.record) \cap pool'
                    \subseteq proc'[q].decl \cup Listed(proc'[q].work)
  <2>1. CASE q = p
    BY <1>1, <2>1
  <2>2. CASE q # p
    BY <1>1, <2>2 DEF KeepInv, Working, At
  <2> QED BY <2>1, <2>2
<1> QED BY <1>2 DEF KeepInv, Working, At, Listed

\* Of the same kind: the process goes on elsewhere, having decided nothing new.
LEMMA KeepMoves ==
  ASSUME TypeOK, KeepInv, NEW p \in Procs, NEW r, Becomes(p, r),
         pool' \subseteq pool, devyml' = devyml,
         r.pc \notin {"ensure", "prune", "write"},
         r.pc = "idle" \/ r.decl = devyml
  PROVE  KeepInv'
BY KeepStep

LEMMA KeepEnds ==
  ASSUME TypeOK, KeepInv, NEW p \in Procs, Becomes(p, Idle),
         pool' \subseteq pool, devyml' = devyml
  PROVE  KeepInv'
BY KeepMoves DEF Idle

LEMMA KeepUp ==
  ASSUME TypeOK, KeepInv, NEW p \in Procs, Up(p)
  PROVE  KeepInv'
<1> USE DEF daemon
<1>0. proc[p] \in Processes /\ inst \in Instances
  BY DEF TypeOK
<1>a. /\ ~At(p, "idle") => proc[p].decl = devyml
      /\ At(p, "ensure") => proc[p].todo \subseteq proc[p].decl
      /\ Working(p) => Listed(proc[p].seen.record) \cap pool
                         \subseteq proc[p].decl \cup Listed(proc[p].work)
  BY DEF KeepInv
<1>1. CASE UpFails(p)
  BY <1>1, KeepEnds DEF UpFails, Ends
<1>2. CASE UpRead(p) /\ ~UpFails(p)
  <2> DEFINE C == IF inst.exists THEN proc[p].carried ELSE {}
             r == [proc[p] EXCEPT !.pc = "ensure", !.seen = inst,
                                  !.work = Adopted(inst.record, proc[p].decl, C),
                                  !.todo = proc[p].decl]
  <2>1. Becomes(p, r) /\ At(p, "upRead") /\ UNCHANGED <<pool, devyml>>
    BY <1>2 DEF UpRead
  <2>2. /\ r.pc = "ensure" /\ r.decl = proc[p].decl /\ r.todo = proc[p].decl
        /\ r.seen = inst /\ r.work = Adopted(inst.record, proc[p].decl, C)
    BY <1>0 DEF Processes
  <2>3. Listed(inst.record) \subseteq Listed(Adopted(inst.record, proc[p].decl, C))
    BY <1>0, AdoptedKeeps DEF Processes, Instances
  <2>4. proc[p].decl = devyml
    BY <1>a, <2>1 DEF At
  <2> QED BY <2>1, <2>2, <2>3, <2>4, KeepStep
<1>3. CASE EnsureVolume(p)
  <2>1. PICK v \in proc[p].todo :
          /\ pool' = pool \cup {v}
          /\ proc' = [proc EXCEPT ![p] = [proc[p] EXCEPT !.todo = @ \ {v}]]
    BY <1>3 DEF EnsureVolume, Becomes
  <2>2. At(p, "ensure") /\ UNCHANGED devyml
    BY <1>3 DEF EnsureVolume
  <2>3. v \in devyml
    BY <1>a, <2>1, <2>2 DEF At
  <2>4. ASSUME NEW q \in Procs
        PROVE  /\ proc'[q].pc = proc[q].pc /\ proc'[q].decl = proc[q].decl
               /\ proc'[q].seen = proc[q].seen /\ proc'[q].work = proc[q].work
               /\ proc'[q].todo \subseteq proc[q].todo
    BY <1>0, <2>1 DEF TypeOK, Processes
  <2> QED BY <2>1, <2>2, <2>3, <2>4 DEF KeepInv, Working, At, Listed
<1>4. CASE VolumesEnsured(p)
  <2> DEFINE a == [proc[p] EXCEPT !.pc = "prune",
                                  !.todo = Listed(proc[p].work) \ proc[p].decl]
             b == [proc[p] EXCEPT !.pc = "create"]
  <2>1. /\ a.pc = "prune" /\ a.seen = proc[p].seen /\ a.work = proc[p].work
        /\ a.decl = proc[p].decl /\ b.pc = "create" /\ b.decl = proc[p].decl
    BY <1>0 DEF Processes
  <2>2. /\ Becomes(p, a) \/ Becomes(p, b)
        /\ At(p, "ensure") /\ UNCHANGED <<pool, devyml>>
    BY <1>4 DEF VolumesEnsured
  <2>3. CASE Becomes(p, a)
    BY <1>a, <2>1, <2>2, <2>3, KeepStep DEF At, Working
  <2>4. CASE Becomes(p, b)
    BY <1>a, <2>1, <2>2, <2>4, KeepMoves DEF At
  <2> QED BY <2>2, <2>3, <2>4
<1>5. CASE PruneEntry(p)
  <2> DEFINE a(v) == [proc[p] EXCEPT !.todo = @ \ {v}]
             b(v) == [proc[p] EXCEPT !.todo = @ \ {v}, !.work = Listed(@) \ {v}]
  <2>1. PICK v \in proc[p].todo : Becomes(p, a(v)) \/ (v \notin pool /\ Becomes(p, b(v)))
    BY <1>5 DEF PruneEntry
  <2>2. At(p, "prune") /\ UNCHANGED <<pool, devyml>>
    BY <1>5 DEF PruneEntry
  <2>3. /\ a(v).pc = proc[p].pc /\ a(v).seen = proc[p].seen
        /\ a(v).work = proc[p].work /\ a(v).decl = proc[p].decl
        /\ b(v).pc = proc[p].pc /\ b(v).seen = proc[p].seen
        /\ b(v).work = Listed(proc[p].work) \ {v} /\ b(v).decl = proc[p].decl
    BY <1>0 DEF Processes
  <2>4. Listed(Listed(proc[p].work) \ {v}) = Listed(proc[p].work) \ {v}
    BY <1>0, ListedVolumes, NoRecordIsNoSet DEF Processes, Listed
  <2>5. CASE Becomes(p, a(v))
    BY <1>a, <2>2, <2>3, <2>5, KeepStep DEF At, Working
  <2>6. CASE v \notin pool /\ Becomes(p, b(v))
    <3>1. Listed(b(v).seen.record) \cap pool \subseteq b(v).decl \cup Listed(b(v).work)
      BY <1>a, <2>2, <2>3, <2>4, <2>6 DEF At, Working
    <3> QED BY <1>a, <2>2, <2>3, <2>6, <3>1, KeepStep DEF At
  <2> QED BY <2>1, <2>5, <2>6
<1>6. CASE Pruned(p)
  <2> DEFINE r == [proc[p] EXCEPT !.pc = "write"]
  <2>1. Becomes(p, r) /\ At(p, "prune") /\ UNCHANGED <<pool, devyml>>
    BY <1>6 DEF Pruned, Moves
  <2>2. /\ r.pc = "write" /\ r.seen = proc[p].seen /\ r.work = proc[p].work
        /\ r.decl = proc[p].decl
    BY <1>0 DEF Processes
  <2> QED BY <1>a, <2>1, <2>2, KeepStep DEF At, Working
<1>7. CASE SkipWrite(p) \/ Write(p)
  <2> DEFINE r == [Stored(p) EXCEPT !.pc = "settle"]
  <2>1. Becomes(p, r) /\ At(p, "write") /\ UNCHANGED <<pool, devyml>>
    BY <1>7 DEF SkipWrite, Write, WriteLands
  <2>2. r.pc = "settle" /\ r.decl = proc[p].decl
    BY <1>0 DEF Stored, Processes
  <2> QED BY <1>a, <2>1, <2>2, KeepMoves DEF At
<1>8. CASE WriteInterrupted(p) \/ CreateInterrupted(p)
  BY <1>8, KeepEnds DEF WriteInterrupted, CreateInterrupted
<1>9. CASE Create(p)
  <2> DEFINE r == [Stored(p) EXCEPT !.pc = "start"]
  <2>1. Becomes(p, r) /\ At(p, "create") /\ UNCHANGED <<pool, devyml>>
    BY <1>9 DEF Create
  <2>2. r.pc = "start" /\ r.decl = proc[p].decl
    BY <1>0 DEF Stored, Processes
  <2> QED BY <1>a, <2>1, <2>2, KeepMoves DEF At
<1>10. CASE SettleRestart(p) \/ EnsureRunning(p)
  <2>1. PICK pc \in {"start", "provision"} :
          Becomes(p, [proc[p] EXCEPT !.pc = pc])
    BY <1>10 DEF SettleRestart, EnsureRunning, Moves
  <2>2. ~At(p, "idle") /\ UNCHANGED <<pool, devyml>>
    BY <1>10 DEF SettleRestart, EnsureRunning, At
  <2>3. /\ [proc[p] EXCEPT !.pc = pc].pc = pc
        /\ [proc[p] EXCEPT !.pc = pc].decl = proc[p].decl
    BY <1>0 DEF Processes
  <2> QED BY <1>a, <2>1, <2>2, <2>3, KeepMoves
<1>11. CASE Provision(p)
  BY <1>11, KeepEnds DEF Provision, Ends
<1> QED
  BY <1>1, <1>2, <1>3, <1>4, <1>5, <1>6, <1>7, <1>8, <1>9, <1>10, <1>11
  DEF Up, UpStepFails

LEMMA KeepDestroy ==
  ASSUME TypeOK, KeepInv, NEW p \in Procs, Destroy(p)
  PROVE  KeepInv'
<1> USE DEF daemon
<1>0. proc[p] \in Processes
  BY DEF TypeOK
<1>a. ~At(p, "idle") => proc[p].decl = devyml
  BY DEF KeepInv
<1>1. CASE DestroyFails(p) \/ DeleteInterrupted(p) \/ Reaped(p)
  BY <1>1, KeepEnds DEF DestroyFails, DeleteInterrupted, Reaped, Ends
<1>2. CASE DestroyRead(p) /\ ~DestroyFails(p)
  <2> DEFINE r == [proc[p] EXCEPT !.pc = "stop", !.seen = inst,
                                  !.todo = Recorded(inst, proc[p].decl)]
  <2>1. Becomes(p, r) /\ At(p, "destroyRead") /\ UNCHANGED <<pool, devyml>>
    BY <1>2 DEF DestroyRead
  <2>2. r.pc = "stop" /\ r.decl = proc[p].decl
    BY <1>0 DEF Processes
  <2> QED BY <1>a, <2>1, <2>2, KeepMoves DEF At
<1>3. CASE RebuildRead(p) /\ ~DestroyFails(p)
  <2> DEFINE R == Recorded(inst, proc[p].decl)
             a == [proc[p] EXCEPT !.pc = "stop", !.seen = inst, !.carried = R, !.todo = R]
             b == [proc[p] EXCEPT !.pc = "upRead"]
  <2>1. /\ Becomes(p, a) \/ Becomes(p, b)
        /\ At(p, "rebuildRead") /\ UNCHANGED <<pool, devyml>>
    BY <1>3 DEF RebuildRead, Moves
  <2>2. /\ a.pc = "stop" /\ a.decl = proc[p].decl
        /\ b.pc = "upRead" /\ b.decl = proc[p].decl
    BY <1>0 DEF Processes
  <2>3. proc[p].decl = devyml
    BY <1>a, <2>1 DEF At
  <2>4. CASE Becomes(p, a)
    BY <2>1, <2>2, <2>3, <2>4, KeepMoves
  <2>5. CASE Becomes(p, b)
    BY <2>1, <2>2, <2>3, <2>5, KeepMoves
  <2> QED BY <2>1, <2>4, <2>5
<1>4. CASE StopForDelete(p) /\ ~DestroyFails(p)
  <2> DEFINE r == [proc[p] EXCEPT !.pc = "delete"]
  <2>1. Becomes(p, r) /\ At(p, "stop") /\ UNCHANGED <<pool, devyml>>
    BY <1>4 DEF StopForDelete, Moves
  <2>2. r.pc = "delete" /\ r.decl = proc[p].decl
    BY <1>0 DEF Processes
  <2> QED BY <1>a, <2>1, <2>2, KeepMoves DEF At
<1>5. CASE Delete(p)
  <2> DEFINE a == [proc[p] EXCEPT !.pc = "reap"]
             b == [proc[p] EXCEPT !.pc = "upRead", !.todo = {}]
  <2>1. /\ Becomes(p, a) \/ Becomes(p, b) \/ Becomes(p, Idle)
        /\ At(p, "delete") /\ UNCHANGED <<pool, devyml>>
    BY <1>5 DEF Delete, Moves
  <2>2. /\ a.pc = "reap" /\ a.decl = proc[p].decl
        /\ b.pc = "upRead" /\ b.decl = proc[p].decl
    BY <1>0 DEF Processes
  <2>3. proc[p].decl = devyml
    BY <1>a, <2>1 DEF At
  <2>4. CASE Becomes(p, a)
    BY <2>1, <2>2, <2>3, <2>4, KeepMoves
  <2>5. CASE Becomes(p, b)
    BY <2>1, <2>2, <2>3, <2>5, KeepMoves
  <2>6. CASE Becomes(p, Idle)
    BY <2>1, <2>6, KeepEnds
  <2> QED BY <2>1, <2>4, <2>5, <2>6
<1>6. CASE ReapVolume(p)
  <2>1. PICK v \in proc[p].todo :
          pool' = pool \ {v} /\ Becomes(p, [proc[p] EXCEPT !.todo = @ \ {v}])
    BY <1>6 DEF ReapVolume
  <2>2. At(p, "reap") /\ UNCHANGED devyml
    BY <1>6 DEF ReapVolume
  <2>3. /\ [proc[p] EXCEPT !.todo = @ \ {v}].pc = proc[p].pc
        /\ [proc[p] EXCEPT !.todo = @ \ {v}].decl = proc[p].decl
    BY <1>0 DEF Processes
  <2>4. pool' \subseteq pool
    BY <2>1
  <2> QED BY <1>a, <2>1, <2>2, <2>3, <2>4, KeepMoves DEF At
<1> QED
  BY <1>1, <1>2, <1>3, <1>4, <1>5, <1>6 DEF Destroy, DeleteRefused, ReapFails

LEMMA KeepInvariant ==
  ASSUME "editAnytime" \notin Env
  PROVE  Spec => []KeepInv
<1>1. Init => KeepInv
  BY DEF Init, KeepInv, Working, At, Idle
<1>2. TypeOK /\ KeepInv /\ [Next]_vars => KeepInv'
  <2> SUFFICES ASSUME TypeOK, KeepInv, [Next]_vars PROVE KeepInv'
    OBVIOUS
  <2>1. CASE UNCHANGED vars
    BY <2>1 DEF vars, KeepInv, Working, At, Listed
  <2>2. CASE EditConfig
    <3>1. \A p \in Procs : At(p, "idle") /\ proc' = proc
      BY <2>2 DEF EditConfig
    <3> QED BY <3>1 DEF KeepInv, Working, At
  <2>3. CASE Environment /\ ~EditConfig
    <3>1. pool' \subseteq pool /\ proc' = proc /\ devyml' = devyml
      BY <2>3 DEF Environment, DaemonFinishesDelete, HandDelete, Toggle,
                  TakeSnapshot, RestoreSnapshot
    <3> QED BY <3>1 DEF KeepInv, Working, At, Listed
  <2>4. ASSUME NEW p \in Procs, Start(p)
        PROVE  KeepInv'
    <3>1. PICK c \in Commands[p] :
            Becomes(p, [Idle EXCEPT !.cmd = c, !.decl = devyml,
                                    !.pc = CASE c = "up" -> "upRead"
                                             [] c = "rebuild" -> "rebuildRead"
                                             [] OTHER -> "destroyRead"])
      BY <2>4 DEF Start
    <3> DEFINE r == [Idle EXCEPT !.cmd = c, !.decl = devyml,
                                 !.pc = CASE c = "up" -> "upRead"
                                          [] c = "rebuild" -> "rebuildRead"
                                          [] OTHER -> "destroyRead"]
    <3>2. r.decl = devyml /\ r.pc \in {"upRead", "rebuildRead", "destroyRead"}
      BY DEF Idle
    <3> QED BY <2>4, <3>1, <3>2, KeepMoves DEF Start, daemon
  <2>5. ASSUME NEW p \in Procs, Up(p) \/ Destroy(p)
        PROVE  KeepInv'
    BY <2>5, KeepUp, KeepDestroy
  <2>6. ASSUME NEW p \in Procs, Interrupt(p)
        PROVE  KeepInv'
    <3> DEFINE r == [proc[p] EXCEPT !.cut = TRUE]
    <3>1. /\ r.pc = proc[p].pc /\ r.decl = proc[p].decl /\ r.seen = proc[p].seen
          /\ r.work = proc[p].work /\ r.todo = proc[p].todo
      BY DEF TypeOK, Processes
    <3>2. Becomes(p, r) /\ ~At(p, "idle") /\ UNCHANGED <<pool, devyml>>
      BY <2>6 DEF Interrupt, daemon
    <3> QED BY <3>1, <3>2, KeepStep DEF KeepInv, Working, At
  <2>7. ASSUME NEW p \in Procs, Kill(p)
        PROVE  KeepInv'
    BY <2>7, KeepEnds DEF Kill, Ends, daemon
  <2> QED BY <2>1, <2>2, <2>3, <2>4, <2>5, <2>6, <2>7 DEF Next, Environment
<1> QED BY <1>1, <1>2, TypeCorrect, PTL DEF Spec

\* The write of reapplyInstance leaves in the record every volume that was in
\* it and is still on the pool.
LEMMA WriteKeeps ==
  ASSUME TypeOK, CoherentInv, KeepInv, NEW p \in Procs, WriteLands(p), pool' = pool
  PROVE  Listed(inst.record) \cap pool' \subseteq Listed(inst'.record)
<1>1. proc[p].seen = inst /\ At(p, "write")
  BY DEF WriteLands, CoherentInv, CoherentReading
<1>2. Listed(inst.record) \cap pool \subseteq Known(p)
  BY <1>1 DEF KeepInv, Working, At, Known
<1>3. inst'.record = Known(p)
  BY DEF WriteLands, InstBecomes, Reapplied, TypeOK, Instances
<1>4. Listed(Known(p)) = Known(p)
  BY MutatedInstances, NoRecordIsNoSet DEF Listed
<1> QED BY <1>2, <1>3, <1>4

\* While the instance lives no write loses a volume from its record, for any
\* number of idev processes that interleave, fail, are cut short or killed, as
\* long as dev.yml is not edited under a running command and no snapshot is
\* restored.
THEOREM RecordSurvivesWrites ==
  ASSUME "editAnytime" \notin Env, "snapshot" \notin Env
  PROVE  Spec => RecordKeepsVolumes
<1> DEFINE Keeps == inst.exists /\ inst'.exists =>
                      Listed(inst.record) \cap pool' \subseteq Listed(inst'.record)
<1>1. TypeOK /\ CoherentInv /\ KeepInv /\ [Next]_vars => [Keeps]_vars
  <2> SUFFICES ASSUME TypeOK, CoherentInv, KeepInv, Next, inst.exists, inst'.exists
               PROVE  Listed(inst.record) \cap pool' \subseteq Listed(inst'.record)
    BY DEF vars
  <2>0. inst \in Instances
    BY DEF TypeOK
  <2>1. CASE inst'.record = inst.record
    BY <2>1
  <2>2. CASE inst'.record # inst.record
    <3>1. \A i : ~(inst' = [inst EXCEPT !.running = i])
      BY <2>0, <2>2 DEF Instances
    <3>2. inst' # Gone /\ inst' # inst
      BY <2>2 DEF Gone
    <3>3. ~Environment
      <4>1. ~Toggle
        BY <2>0, <2>2 DEF Toggle, InstBecomes, Instances
      <4>2. ~RestoreSnapshot
        BY DEF RestoreSnapshot
      <4> QED
        BY <3>2, <4>1, <4>2 DEF Environment, DaemonFinishesDelete, InstGone, EditConfig,
             HandDelete, TakeSnapshot, daemon
    <3>4. PICK p \in Procs : Start(p) \/ Up(p) \/ Destroy(p) \/ Interrupt(p) \/ Kill(p)
      BY <3>3 DEF Next
    <3>5. ~Start(p) /\ ~Interrupt(p) /\ ~Kill(p) /\ ~DestroyFails(p) /\ ~UpFails(p)
      BY <3>2 DEF Start, Interrupt, Kill, DestroyFails, UpFails, daemon
    <3>6. ~Destroy(p)
      BY <3>1, <3>2, <3>5 DEF Destroy, DestroyRead, RebuildRead, StopForDelete, InstBecomes,
           Delete, InstGone, DeleteInterrupted, DeleteRefused, ReapVolume, ReapFails,
           Reaped, daemon
    <3>7. Write(p) \/ WriteInterrupted(p)
      BY <3>1, <3>2, <3>4, <3>5, <3>6
      DEF Up, UpRead, EnsureVolume, VolumesEnsured, PruneEntry, Pruned, SkipWrite, Create,
          CreateInterrupted, SettleRestart, EnsureRunning, InstBecomes, Provision,
          UpStepFails, daemon
    <3> QED BY <3>7, WriteKeeps DEF Write, WriteInterrupted
  <2> QED BY <2>1, <2>2
<1>2. Spec => []CoherentInv
  BY CoherentStays
<1> QED BY <1>1, <1>2, TypeCorrect, KeepInvariant, PTL DEF Spec, RecordKeepsVolumes

-----------------------------------------------------------------------------
(* What a command that goes through has done.                              *)

\* Process p may make or change an instance.
Makes(p) == Commands[p] \cap {"up", "rebuild"} # {}

\* One process makes and changes the instance; any others only destroy it.
OneMakes == \A p, q \in Procs : Makes(p) /\ Makes(q) => p = q

\* Nobody ensures volumes beside a process that may purge them.
PurgeApart == \A p, q \in Procs : "purge" \in Commands[p] /\ Makes(q) => p = q

MakingPCs ==
  {"upRead", "ensure", "prune", "write", "create", "settle", "start", "provision", "rebuildRead"}

-----------------------------------------------------------------------------
(* Which command is where.                                                 *)

CommandOf(p, r) ==
  /\ r.pc # "idle" => r.cmd \in Commands[p]
  /\ r.pc \in MakingPCs => r.cmd \in {"up", "rebuild"}
  /\ r.pc = "reap" => r.cmd = "purge"

CommandInv == \A p \in Procs : CommandOf(p, proc[p])

\* A step of p that leaves it in state r.
LEMMA CommandStep ==
  ASSUME TypeOK, CommandInv, NEW p \in Procs, NEW r, Becomes(p, r), CommandOf(p, r)
  PROVE  CommandInv'
<1>1. \A q \in Procs : proc'[q] = IF q = p THEN r ELSE proc[q]
  BY DEF Becomes, TypeOK
<1> QED BY <1>1 DEF CommandInv, CommandOf

\* A step of up leaves the process in up, for the same command, or done.
LEMMA UpGoesOn ==
  ASSUME TypeOK, NEW p \in Procs, Up(p)
  PROVE  /\ proc[p].pc \in MakingPCs
         /\ \E r : Becomes(p, r) /\ (r = Idle \/ (r.cmd = proc[p].cmd /\ r.pc \in MakingPCs))
<1>0. proc[p] \in Processes
  BY DEF TypeOK
<1>1. proc[p].pc \in MakingPCs
  BY DEF Up, UpRead, EnsureVolume, VolumesEnsured, PruneEntry, Pruned, SkipWrite, Write,
         WriteInterrupted, WriteLands, Create, CreateInterrupted, SettleRestart, EnsureRunning,
         Provision, UpStepFails, At, MakingPCs
<1>2. \E r : Becomes(p, r) /\ (r = Idle \/ (r.cmd = proc[p].cmd /\ r.pc \in MakingPCs))
  <2>1. CASE UpFails(p) \/ Provision(p) \/ WriteInterrupted(p) \/ CreateInterrupted(p)
    <3>1. Becomes(p, Idle)
      BY <2>1 DEF UpFails, Provision, WriteInterrupted, CreateInterrupted, Ends
    <3> QED BY <3>1
  <2>2. CASE UpRead(p) /\ ~UpFails(p)
    <3> DEFINE r == [proc[p] EXCEPT !.pc = "ensure", !.seen = inst,
                       !.work = Adopted(inst.record, proc[p].decl,
                                        IF inst.exists THEN proc[p].carried ELSE {}),
                       !.todo = proc[p].decl]
    <3>1. Becomes(p, r)
      BY <2>2 DEF UpRead
    <3>2. r.cmd = proc[p].cmd /\ r.pc \in MakingPCs
      BY <1>0 DEF Processes, MakingPCs
    <3> QED BY <3>1, <3>2
  <2>3. CASE EnsureVolume(p)
    <3>1. PICK v : Becomes(p, [proc[p] EXCEPT !.todo = @ \ {v}])
      BY <2>3 DEF EnsureVolume
    <3>2. /\ [proc[p] EXCEPT !.todo = @ \ {v}].cmd = proc[p].cmd
          /\ [proc[p] EXCEPT !.todo = @ \ {v}].pc = proc[p].pc
      BY <1>0 DEF Processes
    <3> QED BY <1>1, <3>1, <3>2
  <2>4. CASE VolumesEnsured(p)
    <3> DEFINE a == [proc[p] EXCEPT !.pc = "prune",
                                    !.todo = Listed(proc[p].work) \ proc[p].decl]
               b == [proc[p] EXCEPT !.pc = "create"]
    <3>1. /\ a.cmd = proc[p].cmd /\ a.pc \in MakingPCs
          /\ b.cmd = proc[p].cmd /\ b.pc \in MakingPCs
      BY <1>0 DEF Processes, MakingPCs
    <3>2. Becomes(p, a) \/ Becomes(p, b)
      BY <2>4 DEF VolumesEnsured
    <3> QED BY <3>1, <3>2
  <2>5. CASE PruneEntry(p)
    <3> DEFINE a(v) == [proc[p] EXCEPT !.todo = @ \ {v}]
               b(v) == [proc[p] EXCEPT !.todo = @ \ {v}, !.work = Listed(@) \ {v}]
    <3>1. PICK v : Becomes(p, a(v)) \/ Becomes(p, b(v))
      BY <2>5 DEF PruneEntry
    <3>2. /\ a(v).cmd = proc[p].cmd /\ a(v).pc = proc[p].pc
          /\ b(v).cmd = proc[p].cmd /\ b(v).pc = proc[p].pc
      BY <1>0 DEF Processes
    <3> QED BY <1>1, <3>1, <3>2
  <2>6. CASE SkipWrite(p) \/ Write(p) \/ Create(p)
    <3>1. PICK pc \in MakingPCs : Becomes(p, [Stored(p) EXCEPT !.pc = pc])
      BY <2>6 DEF SkipWrite, Write, Create, MakingPCs
    <3>2. [Stored(p) EXCEPT !.pc = pc].cmd = proc[p].cmd /\ [Stored(p) EXCEPT !.pc = pc].pc = pc
      BY <1>0 DEF Stored, Processes
    <3> QED BY <3>1, <3>2
  <2>7. CASE Pruned(p) \/ SettleRestart(p) \/ EnsureRunning(p)
    <3>1. PICK pc \in MakingPCs : Becomes(p, [proc[p] EXCEPT !.pc = pc])
      BY <2>7 DEF Pruned, SettleRestart, EnsureRunning, Moves, MakingPCs
    <3>2. [proc[p] EXCEPT !.pc = pc].cmd = proc[p].cmd /\ [proc[p] EXCEPT !.pc = pc].pc = pc
      BY <1>0 DEF Processes
    <3> QED BY <3>1, <3>2
  <2> QED BY <2>1, <2>2, <2>3, <2>4, <2>5, <2>6, <2>7 DEF Up, UpStepFails
<1> QED BY <1>1, <1>2

LEMMA CommandUp ==
  ASSUME TypeOK, CommandInv, NEW p \in Procs, Up(p)
  PROVE  CommandInv'
<1>1. /\ CommandOf(p, proc[p]) /\ CommandOf(p, Idle)
      /\ proc[p].pc \in MakingPCs
  BY UpGoesOn DEF CommandInv, CommandOf, Idle, MakingPCs
<1>2. PICK r : Becomes(p, r) /\ (r = Idle \/ (r.cmd = proc[p].cmd /\ r.pc \in MakingPCs))
  BY UpGoesOn
<1>3. r # Idle => CommandOf(p, r)
  BY <1>1, <1>2 DEF CommandOf, MakingPCs
<1> QED BY <1>1, <1>2, <1>3, CommandStep

LEMMA CommandDestroy ==
  ASSUME TypeOK, CommandInv, NEW p \in Procs, Destroy(p)
  PROVE  CommandInv'
<1>0. proc[p] \in Processes /\ CommandOf(p, proc[p])
  BY DEF TypeOK, CommandInv
<1>1. CASE DestroyFails(p) \/ DeleteInterrupted(p) \/ Reaped(p)
  <2>1. Becomes(p, Idle)
    BY <1>1 DEF DestroyFails, DeleteInterrupted, Reaped, Ends
  <2>2. CommandOf(p, Idle)
    BY DEF CommandOf, Idle, MakingPCs
  <2> QED BY <2>1, <2>2, CommandStep
<1>2. CASE (DestroyRead(p) \/ RebuildRead(p)) /\ ~DestroyFails(p)
  <2> DEFINE R == Recorded(inst, proc[p].decl)
             a == [proc[p] EXCEPT !.pc = "stop", !.seen = inst, !.todo = R]
             b == [proc[p] EXCEPT !.pc = "stop", !.seen = inst, !.carried = R, !.todo = R]
             c == [proc[p] EXCEPT !.pc = "upRead"]
  <2>1. \/ Becomes(p, a) /\ At(p, "destroyRead")
        \/ (Becomes(p, b) \/ Becomes(p, c)) /\ At(p, "rebuildRead")
    BY <1>2 DEF DestroyRead, RebuildRead, Moves
  <2>2. /\ a.pc = "stop" /\ a.cmd = proc[p].cmd
        /\ b.pc = "stop" /\ b.cmd = proc[p].cmd
        /\ c.pc = "upRead" /\ c.cmd = proc[p].cmd
    BY <1>0 DEF Processes
  <2> HIDE DEF a, b, c
  <2> QED BY <1>0, <2>1, <2>2, CommandStep DEF CommandOf, MakingPCs, At
<1>3. CASE StopForDelete(p) /\ ~DestroyFails(p)
  <2> DEFINE r == [proc[p] EXCEPT !.pc = "delete"]
  <2>1. Becomes(p, r) /\ At(p, "stop")
    BY <1>3 DEF StopForDelete, Moves
  <2>2. r.pc = "delete" /\ r.cmd = proc[p].cmd
    BY <1>0 DEF Processes
  <2> HIDE DEF r
  <2> QED BY <1>0, <2>1, <2>2, CommandStep DEF CommandOf, MakingPCs, At
<1>4. CASE Delete(p)
  <2> DEFINE a == [proc[p] EXCEPT !.pc = "reap"]
             b == [proc[p] EXCEPT !.pc = "upRead", !.todo = {}]
  <2>1. /\ At(p, "delete")
        /\ \/ proc[p].cmd = "purge" /\ Becomes(p, a)
           \/ proc[p].cmd = "rebuild" /\ Becomes(p, b)
           \/ Becomes(p, Idle)
    BY <1>4 DEF Delete, Moves
  <2>2. a.pc = "reap" /\ a.cmd = proc[p].cmd /\ b.pc = "upRead" /\ b.cmd = proc[p].cmd
    BY <1>0 DEF Processes
  <2> HIDE DEF a, b
  <2>3. CommandOf(p, Idle)
    BY DEF CommandOf, Idle, MakingPCs
  <2> QED BY <1>0, <2>1, <2>2, <2>3, CommandStep DEF CommandOf, MakingPCs, At
<1>5. CASE ReapVolume(p)
  <2>1. PICK v : Becomes(p, [proc[p] EXCEPT !.todo = @ \ {v}])
    BY <1>5 DEF ReapVolume
  <2> DEFINE r == [proc[p] EXCEPT !.todo = @ \ {v}]
  <2>2. r.pc = proc[p].pc /\ r.cmd = proc[p].cmd /\ Becomes(p, r)
    BY <1>0, <2>1 DEF Processes
  <2> HIDE DEF r
  <2> QED BY <1>0, <2>2, CommandStep DEF CommandOf
<1> QED BY <1>1, <1>2, <1>3, <1>4, <1>5 DEF Destroy, DeleteRefused, ReapFails

LEMMA CommandInvariant == Spec => []CommandInv
<1>1. Init => CommandInv
  BY DEF Init, CommandInv, CommandOf, Idle, MakingPCs
<1>2. TypeOK /\ CommandInv /\ [Next]_vars => CommandInv'
  <2> SUFFICES ASSUME TypeOK, CommandInv, [Next]_vars
               PROVE  CommandInv'
    OBVIOUS
  <2>1. CASE UNCHANGED vars \/ Environment
    <3>1. UNCHANGED proc
      BY <2>1
      DEF vars, Environment, DaemonFinishesDelete, EditConfig, HandDelete, Toggle, TakeSnapshot,
          RestoreSnapshot
    <3> QED BY <3>1 DEF CommandInv, CommandOf
  <2>2. ASSUME NEW p \in Procs, Start(p)
        PROVE  CommandInv'
    <3>1. PICK c \in Commands[p] :
            Becomes(p, [Idle EXCEPT !.cmd = c, !.decl = devyml,
                                    !.pc = CASE c = "up" -> "upRead"
                                             [] c = "rebuild" -> "rebuildRead"
                                             [] OTHER -> "destroyRead"])
      BY <2>2 DEF Start
    <3> DEFINE r == [Idle EXCEPT !.cmd = c, !.decl = devyml,
                                 !.pc = CASE c = "up" -> "upRead"
                                          [] c = "rebuild" -> "rebuildRead"
                                          [] OTHER -> "destroyRead"]
    <3>2. /\ r.cmd = c
          /\ \/ r.pc = "upRead" /\ c = "up"
             \/ r.pc = "rebuildRead" /\ c = "rebuild"
             \/ r.pc = "destroyRead"
      BY DEF Idle
    <3>3. Becomes(p, r)
      BY <3>1
    <3> HIDE DEF r
    <3> QED BY <3>2, <3>3, CommandStep DEF CommandOf, MakingPCs
  <2>3. ASSUME NEW p \in Procs, Interrupt(p)
        PROVE  CommandInv'
    <3> DEFINE r == [proc[p] EXCEPT !.cut = TRUE]
    <3>1. r.pc = proc[p].pc /\ r.cmd = proc[p].cmd
      BY DEF TypeOK, Processes
    <3>2. Becomes(p, r)
      BY <2>3 DEF Interrupt
    <3> HIDE DEF r
    <3> QED BY <3>1, <3>2, CommandStep DEF CommandInv, CommandOf
  <2>4. ASSUME NEW p \in Procs, Kill(p)
        PROVE  CommandInv'
    <3>1. CommandOf(p, Idle)
      BY DEF CommandOf, Idle, MakingPCs
    <3> QED BY <2>4, <3>1, CommandStep DEF Kill, Ends
  <2> QED BY <2>1, <2>2, <2>3, <2>4, CommandUp, CommandDestroy DEF Next
<1> QED BY <1>1, <1>2, TypeCorrect, PTL DEF Spec

-----------------------------------------------------------------------------
(* destroy --volumes reaches every volume.                                 *)

\* What is to be deleted with the instance is what it recorded; afterwards, what
\* of that is still on the pool.
PurgeInv ==
  \A p \in Procs :
    /\ proc[p].pc \in {"stop", "delete"} =>
         proc[p].todo = Recorded(proc[p].seen, proc[p].decl)
    /\ proc[p].pc = "reap" => Recorded(proc[p].seen, proc[p].decl) \cap pool \subseteq proc[p].todo

\* Only a process that makes an instance adds to the pool.
LEMMA PoolGrows ==
  ASSUME TypeOK, CommandInv, Next
  PROVE  pool' \subseteq pool \/ \E q \in Procs : Makes(q) /\ At(q, "ensure") /\ Up(q)
<1> USE DEF daemon
<1>1. ASSUME NEW q \in Procs, Up(q), ~At(q, "ensure")
      PROVE  pool' = pool
  BY <1>1
  DEF Up, UpRead, EnsureVolume, VolumesEnsured, PruneEntry, Pruned, SkipWrite, Write,
      WriteInterrupted, Create, CreateInterrupted, SettleRestart, EnsureRunning, Provision,
      UpStepFails, UpFails
<1>2. ASSUME NEW q \in Procs, At(q, "ensure")
      PROVE  Makes(q)
  BY <1>2 DEF CommandInv, CommandOf, MakingPCs, Makes, At
<1>3. ASSUME NEW q \in Procs, Destroy(q)
      PROVE  pool' \subseteq pool
  BY <1>3
  DEF Destroy, DestroyRead, RebuildRead, StopForDelete, Delete, DeleteInterrupted, DeleteRefused,
      ReapVolume, ReapFails, Reaped, DestroyFails
<1>4. ASSUME NEW q \in Procs, Start(q) \/ Interrupt(q) \/ Kill(q)
      PROVE  pool' = pool
  BY <1>4 DEF Start, Interrupt, Kill
<1>5. CASE Environment
  BY <1>5
  DEF Environment, DaemonFinishesDelete, EditConfig, HandDelete, Toggle, TakeSnapshot,
      RestoreSnapshot
<1> QED BY <1>1, <1>2, <1>3, <1>4, <1>5 DEF Next

\* A step of p that leaves it in state r, and the rest to purge what they did.
LEMMA PurgeStep ==
  ASSUME PurgeApart, TypeOK, CommandInv, PurgeInv, Next, NEW p \in Procs, NEW r, Becomes(p, r),
         r.pc \in {"stop", "delete"} => r.todo = Recorded(r.seen, r.decl),
         r.pc = "reap" => Recorded(r.seen, r.decl) \cap pool' \subseteq r.todo
  PROVE  PurgeInv'
<1>1. \A q \in Procs : proc'[q] = IF q = p THEN r ELSE proc[q]
  BY DEF Becomes, TypeOK
<1>2. /\ (Recorded(proc[p].seen, proc[p].decl))' = Recorded(r.seen, r.decl)
      /\ \A q \in Procs \ {p} :
           (Recorded(proc[q].seen, proc[q].decl))' = Recorded(proc[q].seen, proc[q].decl)
  BY <1>1 DEF Recorded
<1>3. ASSUME NEW q \in Procs \ {p}, At(q, "reap")
      PROVE  pool' \subseteq pool
  <2>1. "purge" \in Commands[q]
    BY <1>3 DEF CommandInv, CommandOf, At
  <2>2. ASSUME NEW u \in Procs, Makes(u), At(u, "ensure")
        PROVE  FALSE
    <3>1. u = q
      BY <2>1, <2>2 DEF PurgeApart
    <3> QED BY <1>3, <2>2, <3>1 DEF At
  <2> QED BY <2>2, PoolGrows
<1>4. ASSUME NEW q \in Procs
      PROVE  /\ proc'[q].pc \in {"stop", "delete"} =>
                  proc'[q].todo = (Recorded(proc[q].seen, proc[q].decl))'
             /\ proc'[q].pc = "reap" =>
                  (Recorded(proc[q].seen, proc[q].decl))' \cap pool' \subseteq proc'[q].todo
  <2>1. CASE q = p
    BY <1>1, <1>2, <2>1
  <2>2. CASE q # p
    BY <1>1, <1>2, <1>3, <2>2 DEF PurgeInv, At
  <2> QED BY <2>1, <2>2
<1> QED BY <1>4 DEF PurgeInv

LEMMA PurgeDestroy ==
  ASSUME PurgeApart, TypeOK, CommandInv, PurgeInv, Next, NEW p \in Procs, Destroy(p)
  PROVE  PurgeInv'
<1> USE DEF daemon
<1>0. proc[p] \in Processes
  BY DEF TypeOK
<1>1. CASE DestroyFails(p) \/ DeleteInterrupted(p) \/ Reaped(p)
  <2>1. Becomes(p, Idle) /\ Idle.pc = "idle"
    BY <1>1 DEF DestroyFails, DeleteInterrupted, Reaped, Ends, Idle
  <2> QED BY <2>1, PurgeStep
<1>2. CASE (DestroyRead(p) \/ RebuildRead(p)) /\ ~DestroyFails(p)
  <2> DEFINE R == Recorded(inst, proc[p].decl)
             a == [proc[p] EXCEPT !.pc = "stop", !.seen = inst, !.todo = R]
             b == [proc[p] EXCEPT !.pc = "stop", !.seen = inst, !.carried = R, !.todo = R]
             c == [proc[p] EXCEPT !.pc = "upRead"]
  <2>1. Becomes(p, a) \/ Becomes(p, b) \/ Becomes(p, c)
    BY <1>2 DEF DestroyRead, RebuildRead, Moves
  <2>2. /\ a.pc = "stop" /\ a.todo = R /\ a.seen = inst /\ a.decl = proc[p].decl
        /\ b.pc = "stop" /\ b.todo = R /\ b.seen = inst /\ b.decl = proc[p].decl
        /\ c.pc = "upRead"
    BY <1>0 DEF Processes
  <2> HIDE DEF a, b, c
  <2> QED BY <2>1, <2>2, PurgeStep
<1>3. CASE StopForDelete(p) /\ ~DestroyFails(p)
  <2> DEFINE r == [proc[p] EXCEPT !.pc = "delete"]
  <2>1. Becomes(p, r) /\ At(p, "stop")
    BY <1>3 DEF StopForDelete, Moves
  <2>2. /\ r.pc = "delete" /\ r.todo = proc[p].todo /\ r.seen = proc[p].seen
        /\ r.decl = proc[p].decl
    BY <1>0 DEF Processes
  <2> HIDE DEF r
  <2> QED BY <2>1, <2>2, PurgeStep DEF PurgeInv, At
<1>4. CASE Delete(p)
  <2> DEFINE a == [proc[p] EXCEPT !.pc = "reap"]
             b == [proc[p] EXCEPT !.pc = "upRead", !.todo = {}]
  <2>1. At(p, "delete") /\ (Becomes(p, a) \/ Becomes(p, b) \/ Becomes(p, Idle))
    BY <1>4 DEF Delete, Moves
  <2>2. /\ a.pc = "reap" /\ a.todo = proc[p].todo /\ a.seen = proc[p].seen
        /\ a.decl = proc[p].decl /\ b.pc = "upRead" /\ Idle.pc = "idle"
    BY <1>0 DEF Processes, Idle
  <2> HIDE DEF a, b
  <2>3. proc[p].todo = Recorded(proc[p].seen, proc[p].decl)
    BY <2>1 DEF PurgeInv, At
  <2> QED BY <2>1, <2>2, <2>3, PurgeStep
<1>5. CASE ReapVolume(p)
  <2>1. PICK v : Becomes(p, [proc[p] EXCEPT !.todo = @ \ {v}]) /\ pool' = pool \ {v}
    BY <1>5 DEF ReapVolume
  <2> DEFINE r == [proc[p] EXCEPT !.todo = @ \ {v}]
  <2>2. /\ r.pc = "reap" /\ r.todo = proc[p].todo \ {v} /\ r.seen = proc[p].seen
        /\ r.decl = proc[p].decl /\ Becomes(p, r) /\ At(p, "reap")
    BY <1>0, <1>5, <2>1 DEF Processes, ReapVolume, At
  <2> HIDE DEF r
  <2>3. Recorded(proc[p].seen, proc[p].decl) \cap pool \subseteq proc[p].todo
    BY <2>2 DEF PurgeInv, At
  <2> QED BY <2>1, <2>2, <2>3, PurgeStep
<1> QED BY <1>1, <1>2, <1>3, <1>4, <1>5 DEF Destroy, DeleteRefused, ReapFails

LEMMA PurgeInvariant ==
  ASSUME PurgeApart
  PROVE  Spec => []PurgeInv
<1>1. Init => PurgeInv
  BY DEF Init, PurgeInv, Idle
<1>2. TypeOK /\ CommandInv /\ PurgeInv /\ [Next]_vars => PurgeInv'
  <2> SUFFICES ASSUME TypeOK, CommandInv, PurgeInv, [Next]_vars
               PROVE  PurgeInv'
    OBVIOUS
  <2>1. CASE UNCHANGED vars
    BY <2>1 DEF vars, PurgeInv, Recorded
  <2>2. CASE Environment
    <3>1. UNCHANGED proc /\ pool' \subseteq pool
      BY <2>2
      DEF daemon, Environment, DaemonFinishesDelete, EditConfig, HandDelete, Toggle,
          TakeSnapshot, RestoreSnapshot
    <3>2. \A p \in Procs :
            (Recorded(proc[p].seen, proc[p].decl))' = Recorded(proc[p].seen, proc[p].decl)
      BY <3>1 DEF Recorded
    <3> QED BY <3>1, <3>2 DEF PurgeInv
  <2>3. ASSUME NEW p \in Procs, Start(p)
        PROVE  PurgeInv'
    <3>1. PICK c \in Commands[p] :
            Becomes(p, [Idle EXCEPT !.cmd = c, !.decl = devyml,
                                    !.pc = CASE c = "up" -> "upRead"
                                             [] c = "rebuild" -> "rebuildRead"
                                             [] OTHER -> "destroyRead"])
      BY <2>3 DEF Start
    <3> DEFINE r == [Idle EXCEPT !.cmd = c, !.decl = devyml,
                                 !.pc = CASE c = "up" -> "upRead"
                                          [] c = "rebuild" -> "rebuildRead"
                                          [] OTHER -> "destroyRead"]
    <3>2. r.pc \in {"upRead", "rebuildRead", "destroyRead"}
      BY DEF Idle
    <3>3. Becomes(p, r) /\ Next
      BY <2>3, <3>1 DEF Next
    <3> HIDE DEF r
    <3> QED BY <3>2, <3>3, PurgeStep
  <2>4. ASSUME NEW p \in Procs, Up(p)
        PROVE  PurgeInv'
    <3>1. PICK r : Becomes(p, r) /\ (r = Idle \/ r.pc \in MakingPCs)
      BY <2>4, UpGoesOn
    <3>2. r.pc \notin {"stop", "delete", "reap"} /\ Next
      BY <2>4, <3>1 DEF Idle, MakingPCs, Next
    <3> QED BY <3>1, <3>2, PurgeStep
  <2>5. ASSUME NEW p \in Procs, Destroy(p)
        PROVE  PurgeInv'
    BY <2>5, PurgeDestroy DEF Next
  <2>6. ASSUME NEW p \in Procs, Interrupt(p)
        PROVE  PurgeInv'
    <3> DEFINE r == [proc[p] EXCEPT !.cut = TRUE]
    <3>1. /\ r.pc = proc[p].pc /\ r.todo = proc[p].todo /\ r.seen = proc[p].seen
          /\ r.decl = proc[p].decl
      BY DEF TypeOK, Processes
    <3>2. Becomes(p, r) /\ pool' = pool /\ Next
      BY <2>6 DEF Interrupt, daemon, Next
    <3> HIDE DEF r
    <3> QED BY <3>1, <3>2, PurgeStep DEF PurgeInv
  <2>7. ASSUME NEW p \in Procs, Kill(p)
        PROVE  PurgeInv'
    BY <2>7, PurgeStep DEF Kill, Ends, Idle, Next
  <2> QED BY <2>1, <2>2, <2>3, <2>4, <2>5, <2>6, <2>7 DEF Next
<1> QED BY <1>1, <1>2, TypeCorrect, CommandInvariant, PTL DEF Spec

\* destroy --volumes that reports success has deleted every volume the instance
\* recorded or, with no record, declared or attached, whatever else destroys,
\* edits, restores or is killed beside it, as long as no up ensures volumes.
THEOREM PurgeIsComplete ==
  ASSUME PurgeApart
  PROVE  Spec => PurgeReachesAll
<1> DEFINE Reaches == \A p \in Procs : Reaped(p) /\ ~proc[p].cut =>
                        Recorded(proc[p].seen, proc[p].decl) \cap pool = {}
<1>1. PurgeInv => Reaches
  BY DEF PurgeInv, Reaped, At
<1>2. PurgeInv /\ [Next]_vars => [Reaches]_vars
  BY <1>1
<1> QED BY <1>2, PurgeInvariant, PTL DEF Spec, PurgeReachesAll

-----------------------------------------------------------------------------
(* up leaves on the instance what it decided.                              *)

\* The instance records what was read, though it may have been started.
ReadStands(p) ==
  /\ inst.record = proc[p].seen.record
  /\ inst.devices = proc[p].seen.devices
  /\ inst.attached = proc[p].seen.attached

Decided(p) ==
  /\ inst.record = Known(p)
  /\ inst.devices = proc[p].decl
  /\ proc[p].decl \subseteq inst.attached

\* With nobody else to change it, the instance stays what up has read until up
\* writes, and what up wrote until it settles, or is gone.
DecisionInv ==
  \A p \in Procs :
    /\ proc[p].pc \in {"prune", "write"} => proc[p].seen.exists
    /\ Working(p) /\ proc[p].seen.exists /\ inst.exists => ReadStands(p)
    /\ At(p, "settle") /\ inst.exists => Decided(p)

\* The step records nothing new on the instance.
Untouched ==
  inst'.exists =>
    /\ inst.exists /\ inst'.record = inst.record
    /\ inst'.devices = inst.devices /\ inst'.attached = inst.attached

\* Whoever does not act keeps a decision about an instance left untouched.
LEMMA DecisionStands ==
  ASSUME DecisionInv, Untouched, NEW p \in Procs, proc'[p] = proc[p]
  PROVE  /\ proc'[p].pc \in {"prune", "write"} => proc'[p].seen.exists
         /\ Working(p)' /\ proc'[p].seen.exists /\ inst'.exists => ReadStands(p)'
         /\ At(p, "settle")' /\ inst'.exists => Decided(p)'
<1>1. Known(p)' = Known(p)
  BY DEF Known, Listed
<1> QED BY <1>1 DEF DecisionInv, Untouched, ReadStands, Decided, Working, At

\* A step of p that leaves it in state r.
LEMMA DecisionStep ==
  ASSUME OneMakes, TypeOK, CommandInv, DecisionInv, NEW p \in Procs, NEW r, Becomes(p, r),
         Makes(p) \/ Untouched,
         r.pc \in {"prune", "write"} => r.seen.exists,
         r.pc \in {"ensure", "prune", "write"} /\ r.seen.exists /\ inst'.exists =>
           /\ inst'.record = r.seen.record
           /\ inst'.devices = r.seen.devices
           /\ inst'.attached = r.seen.attached,
         r.pc = "settle" /\ inst'.exists =>
           /\ inst'.record = r.decl \cup Listed(r.work)
           /\ inst'.devices = r.decl
           /\ r.decl \subseteq inst'.attached
  PROVE  DecisionInv'
<1>1. \A q \in Procs : proc'[q] = IF q = p THEN r ELSE proc[q]
  BY DEF Becomes, TypeOK
<1>2. Known(p)' = r.decl \cup Listed(r.work)
  BY <1>1 DEF Known, Listed
<1>3. ASSUME NEW q \in Procs
      PROVE  /\ proc'[q].pc \in {"prune", "write"} => proc'[q].seen.exists
             /\ Working(q)' /\ proc'[q].seen.exists /\ inst'.exists => ReadStands(q)'
             /\ At(q, "settle")' /\ inst'.exists => Decided(q)'
  <2>1. CASE q = p
    BY <1>1, <1>2, <2>1 DEF ReadStands, Decided, Working, At
  <2>2. CASE q # p /\ Untouched
    BY <1>1, <2>2, DecisionStands
  <2>3. CASE q # p /\ Makes(p)
    <3>1. ~Makes(q)
      BY <2>3 DEF OneMakes
    <3>2. proc[q].pc \notin MakingPCs
      BY <3>1 DEF CommandInv, CommandOf, MakingPCs, Makes
    <3> QED BY <1>1, <2>3, <3>2 DEF Working, MakingPCs, At
  <2> QED BY <2>1, <2>2, <2>3
<1> QED BY <1>3 DEF DecisionInv

LEMMA DecisionUp ==
  ASSUME OneMakes, TypeOK, CommandInv, DecisionInv, NEW p \in Procs, Up(p)
  PROVE  DecisionInv'
<1> USE DEF daemon
<1>0. proc[p] \in Processes /\ inst \in Instances
  BY DEF TypeOK
<1>a. Makes(p)
  BY UpGoesOn DEF CommandInv, CommandOf, MakingPCs, Makes
<1>1. CASE UpFails(p) \/ Provision(p) \/ WriteInterrupted(p) \/ CreateInterrupted(p)
  <2>1. Becomes(p, Idle) /\ Idle.pc = "idle"
    BY <1>1 DEF UpFails, Provision, WriteInterrupted, CreateInterrupted, Ends, Idle
  <2> QED BY <1>a, <2>1, DecisionStep
<1>2. CASE UpRead(p) /\ ~UpFails(p)
  <2> DEFINE r == [proc[p] EXCEPT !.pc = "ensure", !.seen = inst,
                     !.work = Adopted(inst.record, proc[p].decl,
                                      IF inst.exists THEN proc[p].carried ELSE {}),
                     !.todo = proc[p].decl]
  <2>1. Becomes(p, r) /\ UNCHANGED inst
    BY <1>2 DEF UpRead
  <2>2. r.pc = "ensure" /\ r.seen = inst
    BY <1>0 DEF Processes
  <2> HIDE DEF r
  <2> QED BY <1>a, <2>1, <2>2, DecisionStep
<1>3. CASE EnsureVolume(p)
  <2>1. PICK v : Becomes(p, [proc[p] EXCEPT !.todo = @ \ {v}])
    BY <1>3 DEF EnsureVolume
  <2> DEFINE r == [proc[p] EXCEPT !.todo = @ \ {v}]
  <2>2. r.pc = "ensure" /\ r.seen = proc[p].seen /\ Becomes(p, r) /\ At(p, "ensure")
        /\ UNCHANGED inst
    BY <1>0, <1>3, <2>1 DEF Processes, EnsureVolume, At
  <2> HIDE DEF r
  <2> QED BY <1>a, <2>2, DecisionStep DEF DecisionInv, ReadStands, Working, At
<1>4. CASE VolumesEnsured(p)
  <2> DEFINE a == [proc[p] EXCEPT !.pc = "prune",
                                  !.todo = Listed(proc[p].work) \ proc[p].decl]
             b == [proc[p] EXCEPT !.pc = "create"]
  <2>1. /\ \/ proc[p].seen.exists /\ Becomes(p, a)
           \/ Becomes(p, b)
        /\ At(p, "ensure") /\ UNCHANGED inst
    BY <1>4 DEF VolumesEnsured
  <2>2. a.pc = "prune" /\ a.seen = proc[p].seen /\ b.pc = "create"
    BY <1>0 DEF Processes
  <2> HIDE DEF a, b
  <2> QED BY <1>a, <2>1, <2>2, DecisionStep DEF DecisionInv, ReadStands, Working, At
<1>5. CASE PruneEntry(p)
  <2> DEFINE a(v) == [proc[p] EXCEPT !.todo = @ \ {v}]
             b(v) == [proc[p] EXCEPT !.todo = @ \ {v}, !.work = Listed(@) \ {v}]
  <2>1. PICK v : Becomes(p, a(v)) \/ Becomes(p, b(v))
    BY <1>5 DEF PruneEntry
  <2>2. At(p, "prune") /\ UNCHANGED inst
    BY <1>5 DEF PruneEntry
  <2>3. /\ a(v).pc = "prune" /\ a(v).seen = proc[p].seen
        /\ b(v).pc = "prune" /\ b(v).seen = proc[p].seen
    BY <1>0, <2>2 DEF Processes, At
  <2> HIDE DEF a, b
  <2> QED BY <1>a, <2>1, <2>2, <2>3, DecisionStep DEF DecisionInv, ReadStands, Working, At
<1>6. CASE Pruned(p)
  <2> DEFINE r == [proc[p] EXCEPT !.pc = "write"]
  <2>1. Becomes(p, r) /\ At(p, "prune") /\ UNCHANGED inst
    BY <1>6 DEF Pruned, Moves
  <2>2. r.pc = "write" /\ r.seen = proc[p].seen
    BY <1>0 DEF Processes
  <2> HIDE DEF r
  <2> QED BY <1>a, <2>1, <2>2, DecisionStep DEF DecisionInv, ReadStands, Working, At
<1>7. CASE SkipWrite(p) \/ Write(p)
  <2> DEFINE r == [Stored(p) EXCEPT !.pc = "settle"]
  <2>1. Becomes(p, r) /\ At(p, "write") /\ proc[p].seen.exists
    BY <1>7 DEF SkipWrite, Write, WriteLands, DecisionInv, At
  <2>2. r.pc = "settle" /\ r.decl = proc[p].decl /\ r.work = proc[p].work
    BY <1>0 DEF Stored, Processes
  <2> HIDE DEF r
  <2>3. inst'.exists =>
          /\ inst'.record = Known(p)
          /\ inst'.devices = proc[p].decl
          /\ proc[p].decl \subseteq inst'.attached
    <3>1. CASE SkipWrite(p)
      BY <2>1, <3>1 DEF SkipWrite, Settled, DecisionInv, ReadStands, Working, At
    <3>2. CASE Write(p)
      BY <1>0, <3>2 DEF Write, WriteLands, InstBecomes, Reapplied, Instances
    <3> QED BY <1>7, <3>1, <3>2
  <2> QED BY <1>a, <2>1, <2>2, <2>3, DecisionStep DEF Known
<1>8. CASE Create(p)
  <2> DEFINE r == [Stored(p) EXCEPT !.pc = "start"]
  <2>1. Becomes(p, r)
    BY <1>8 DEF Create
  <2>2. r.pc = "start"
    BY <1>0 DEF Stored, Processes
  <2> HIDE DEF r
  <2> QED BY <1>a, <2>1, <2>2, DecisionStep
<1>9. CASE SettleRestart(p) \/ EnsureRunning(p)
  <2>1. PICK pc \in {"start", "provision"} : Becomes(p, [proc[p] EXCEPT !.pc = pc])
    BY <1>9 DEF SettleRestart, EnsureRunning, Moves
  <2> DEFINE r == [proc[p] EXCEPT !.pc = pc]
  <2>2. r.pc = pc /\ Becomes(p, r)
    BY <1>0, <2>1 DEF Processes
  <2> HIDE DEF r
  <2> QED BY <1>a, <2>2, DecisionStep
<1> QED
  BY <1>1, <1>2, <1>3, <1>4, <1>5, <1>6, <1>7, <1>8, <1>9 DEF Up, UpStepFails

\* destroy leaves the instance as it is, stopped or gone, and its process in no
\* state that rests on a decision.
LEMMA DecisionDestroy ==
  ASSUME OneMakes, TypeOK, CommandInv, DecisionInv, NEW p \in Procs, Destroy(p)
  PROVE  DecisionInv'
<1> USE DEF daemon
<1>0. proc[p] \in Processes /\ inst \in Instances
  BY DEF TypeOK
<1>1. Untouched
  <2>1. inst' = inst \/ inst' = Gone \/ InstBecomes([inst EXCEPT !.running = FALSE])
    BY DEF Destroy, DestroyRead, RebuildRead, StopForDelete, Delete, DeleteInterrupted,
           DeleteRefused, ReapVolume, ReapFails, Reaped, DestroyFails, InstGone
  <2> QED BY <1>0, <2>1 DEF Untouched, InstBecomes, Instances, Gone
<1>2. PICK r : Becomes(p, r) /\ r.pc \notin {"ensure", "prune", "write", "settle"}
  <2>1. CASE DestroyFails(p) \/ DeleteInterrupted(p) \/ Reaped(p)
    <3>1. Becomes(p, Idle) /\ Idle.pc = "idle"
      BY <2>1 DEF DestroyFails, DeleteInterrupted, Reaped, Ends, Idle
    <3> QED BY <3>1
  <2>2. CASE (DestroyRead(p) \/ RebuildRead(p)) /\ ~DestroyFails(p)
    <3> DEFINE R == Recorded(inst, proc[p].decl)
               a == [proc[p] EXCEPT !.pc = "stop", !.seen = inst, !.todo = R]
               b == [proc[p] EXCEPT !.pc = "stop", !.seen = inst, !.carried = R, !.todo = R]
               c == [proc[p] EXCEPT !.pc = "upRead"]
    <3>1. Becomes(p, a) \/ Becomes(p, b) \/ Becomes(p, c)
      BY <2>2 DEF DestroyRead, RebuildRead, Moves
    <3>2. a.pc = "stop" /\ b.pc = "stop" /\ c.pc = "upRead"
      BY <1>0 DEF Processes
    <3> HIDE DEF a, b, c
    <3> QED BY <3>1, <3>2
  <2>3. CASE StopForDelete(p) /\ ~DestroyFails(p)
    <3>1. [proc[p] EXCEPT !.pc = "delete"].pc = "delete"
      BY <1>0 DEF Processes
    <3> QED BY <2>3, <3>1 DEF StopForDelete, Moves
  <2>4. CASE Delete(p)
    <3> DEFINE a == [proc[p] EXCEPT !.pc = "reap"]
               b == [proc[p] EXCEPT !.pc = "upRead", !.todo = {}]
    <3>1. Becomes(p, a) \/ Becomes(p, b) \/ Becomes(p, Idle)
      BY <2>4 DEF Delete, Moves
    <3>2. a.pc = "reap" /\ b.pc = "upRead" /\ Idle.pc = "idle"
      BY <1>0 DEF Processes, Idle
    <3> HIDE DEF a, b
    <3> QED BY <3>1, <3>2
  <2>5. CASE ReapVolume(p)
    <3>1. PICK v : Becomes(p, [proc[p] EXCEPT !.todo = @ \ {v}])
      BY <2>5 DEF ReapVolume
    <3>2. [proc[p] EXCEPT !.todo = @ \ {v}].pc = "reap"
      BY <1>0, <2>5 DEF Processes, ReapVolume, At
    <3> QED BY <3>1, <3>2
  <2> QED BY <2>1, <2>2, <2>3, <2>4, <2>5 DEF Destroy, DeleteRefused, ReapFails
<1> QED BY <1>1, <1>2, DecisionStep

LEMMA DecisionInvariant ==
  ASSUME OneMakes, "snapshotAnytime" \notin Env
  PROVE  Spec => []DecisionInv
<1>1. Init => DecisionInv
  BY DEF Init, DecisionInv, Working, At, Idle
<1>2. TypeOK /\ CommandInv /\ DecisionInv /\ [Next]_vars => DecisionInv'
  <2> SUFFICES ASSUME TypeOK, CommandInv, DecisionInv, [Next]_vars
               PROVE  DecisionInv'
    OBVIOUS
  <2> USE DEF daemon
  <2>1. CASE UNCHANGED vars \/ Environment
    <3>1. UNCHANGED proc
      BY <2>1
      DEF vars, Environment, DaemonFinishesDelete, EditConfig, HandDelete, Toggle, TakeSnapshot,
          RestoreSnapshot
    <3>2. CASE RestoreSnapshot
      <4>1. \A p \in Procs : At(p, "idle")
        BY <3>2 DEF RestoreSnapshot
      <4> QED BY <3>1, <4>1 DEF DecisionInv, Working, At
    <3>3. CASE ~RestoreSnapshot
      <4>1. inst' = inst \/ inst' = Gone \/ InstBecomes([inst EXCEPT !.running = ~@])
        BY <2>1, <3>3
        DEF vars, Environment, DaemonFinishesDelete, InstGone, EditConfig, HandDelete, Toggle,
            TakeSnapshot
      <4>2. Untouched
        BY <4>1 DEF Untouched, InstBecomes, Gone, TypeOK, Instances
      <4> QED BY <3>1, <4>2, DecisionStands DEF DecisionInv
    <3> QED BY <3>2, <3>3
  <2>2. ASSUME NEW p \in Procs, Start(p)
        PROVE  DecisionInv'
    <3>1. PICK c \in Commands[p] :
            Becomes(p, [Idle EXCEPT !.cmd = c, !.decl = devyml,
                                    !.pc = CASE c = "up" -> "upRead"
                                             [] c = "rebuild" -> "rebuildRead"
                                             [] OTHER -> "destroyRead"])
      BY <2>2 DEF Start
    <3> DEFINE r == [Idle EXCEPT !.cmd = c, !.decl = devyml,
                                 !.pc = CASE c = "up" -> "upRead"
                                          [] c = "rebuild" -> "rebuildRead"
                                          [] OTHER -> "destroyRead"]
    <3>2. r.pc \in {"upRead", "rebuildRead", "destroyRead"}
      BY DEF Idle
    <3>3. Becomes(p, r) /\ Untouched
      BY <2>2, <3>1 DEF Start, Untouched
    <3> HIDE DEF r
    <3> QED BY <3>2, <3>3, DecisionStep
  <2>3. ASSUME NEW p \in Procs, Up(p) \/ Destroy(p)
        PROVE  DecisionInv'
    BY <2>3, DecisionUp, DecisionDestroy
  <2>4. ASSUME NEW p \in Procs, Interrupt(p)
        PROVE  DecisionInv'
    <3> DEFINE r == [proc[p] EXCEPT !.cut = TRUE]
    <3>1. /\ r.pc = proc[p].pc /\ r.seen = proc[p].seen /\ r.decl = proc[p].decl
          /\ r.work = proc[p].work
      BY DEF TypeOK, Processes
    <3>2. Becomes(p, r) /\ UNCHANGED inst
      BY <2>4 DEF Interrupt
    <3> HIDE DEF r
    <3> QED BY <3>1, <3>2, DecisionStep
            DEF DecisionInv, ReadStands, Decided, Known, Working, At, Untouched
  <2>5. ASSUME NEW p \in Procs, Kill(p)
        PROVE  DecisionInv'
    <3>1. Becomes(p, Idle) /\ Idle.pc = "idle" /\ Untouched
      BY <2>5 DEF Kill, Ends, Idle, Untouched
    <3> QED BY <3>1, DecisionStep
  <2> QED BY <2>1, <2>2, <2>3, <2>4, <2>5 DEF Next
<1> QED BY <1>1, <1>2, TypeCorrect, CommandInvariant, PTL DEF Spec

\* Once up has written, or found nothing to write, the daemon holds what up
\* decided, for any volumes, while the other processes at work only destroy and
\* no snapshot is restored under a command: settled compares with the reading, and the reading
\* still is the instance when nothing is written.
THEOREM DecisionIsLeft ==
  ASSUME OneMakes, "snapshotAnytime" \notin Env
  PROVE  Spec => []UpLeavesItsDecision
<1>1. DecisionInv => UpLeavesItsDecision
  BY DEF DecisionInv, Decided, UpLeavesItsDecision
<1> QED BY <1>1, DecisionInvariant, PTL
=============================================================================
