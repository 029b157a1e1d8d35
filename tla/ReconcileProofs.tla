--------------------------- MODULE ReconcileProofs ---------------------------
(***************************************************************************)
(* What idev's records say of an instance several checkouts apply          *)
(* themselves to: for any dev.yml files, hosts, instances found and number *)
(* of edits by hand.                                                       *)
(***************************************************************************)
EXTENDS Reconcile, TLAPS

-----------------------------------------------------------------------------
(* The inductive invariant.                                                *)

IsProcess(r) == DOMAIN r = {"pc", "decl", "plan", "seen", "preview", "warned", "left"}

ShapeInv ==
  /\ IsInstance(inst)
  /\ proc = [p \in Procs |-> proc[p]]
  /\ \A p \in Procs : IsProcess(proc[p])

\* The strategy a run has chosen goes with what its dev.yml says of raw.idmap.
PlanInv ==
  \A p \in Procs :
    ~At(p, "idle") =>
      /\ proc[p].decl \in Declarations[p] /\ proc[p].plan \in PlansOf(proc[p].decl)
      /\ proc[p].plan.managed <=> IDMapKey \notin DOMAIN proc[p].decl.config

\* What has a current ETag is what is there.
SeenInv ==
  \A p \in fresh :
    At(p, "write") =>
      /\ inst.there /\ proc[p].seen = inst
      /\ proc[p].warned = Warnings(inst, proc[p].decl, p)

\* The records are there together or not at all, and without them the mapping
\* and the tree are all an idev may have put there.
RecordsInv ==
  /\ inst.managed = NoRecord <=> inst.owned = NoRecord
  /\ inst.managed = NoRecord => applied \subseteq {<<"key", IDMapKey>>, <<"device", Workspace>>}
  /\ inst.image \in {NoRecord, inst.madeFrom}

ReconcileInv ==
  ShapeInv /\ RecTypeOK /\ PlanInv /\ SeenInv /\ RecordsInv /\ RecordIsHonest

-----------------------------------------------------------------------------
(* What is declared, and what is no longer.                                *)

LEMMA OverNames ==
  ASSUME NEW m, NEW n, NEW k
  PROVE  k \in DOMAIN Over(m, n) <=> k \in DOMAIN m \/ k \in DOMAIN n
BY DEF Over

LEMMA OverEntry ==
  ASSUME NEW m, NEW n, NEW k \in DOMAIN m \cup DOMAIN n
  PROVE  Over(m, n)[k] = IF k \in DOMAIN m THEN m[k] ELSE n[k]
BY DEF Over

LEMMA TaggedNames ==
  ASSUME NEW kind, NEW names, NEW t
  PROVE  t \in Tagged(kind, names) <=> \E n \in names : t = <<kind, n>>
BY DEF Tagged

LEMMA ConfigNames ==
  ASSUME NEW decl, NEW plan, NEW k
  PROVE  k \in DOMAIN DesiredConfig(decl, plan) <=>
           k \in DOMAIN decl.config \/ (k = IDMapKey /\ plan.managed /\ plan.mode = "raw")
<1>1. CASE plan.managed /\ plan.mode = "raw"
  <2>1. DesiredConfig(decl, plan) = Over(Entry(IDMapKey, plan.owner), decl.config)
    BY <1>1 DEF DesiredConfig
  <2>2. DOMAIN Entry(IDMapKey, plan.owner) = {IDMapKey}
    BY DEF Entry
  <2> QED BY <1>1, <2>1, <2>2, OverNames
<1>2. CASE ~(plan.managed /\ plan.mode = "raw")
  <2>1. DesiredConfig(decl, plan) = Over(Empty, decl.config)
    BY <1>2 DEF DesiredConfig
  <2>2. DOMAIN Empty = {}
    BY DEF Empty
  <2> QED BY <1>2, <2>1, <2>2, OverNames
<1> QED BY <1>1, <1>2

LEMMA DesiredNames ==
  ASSUME NEW decl, NEW plan, NEW root
  PROVE  DOMAIN DesiredDevices(decl, plan, root) = DeviceNames(decl)
<1> DEFINE mounts  == [n \in {MountDeviceName(e) : e \in DOMAIN decl.mounts} |->
                         MountDevice(decl.mounts[IF n = Workspace THEN "main" ELSE n], plan, root)]
           volumes == [n \in decl.volumes |-> VolumeDevice(n)]
           devices == [n \in DOMAIN decl.devices |-> OwnDevice(decl.devices[n], plan, root)]
<1>1. /\ DOMAIN mounts = {MountDeviceName(e) : e \in DOMAIN decl.mounts}
      /\ DOMAIN volumes = decl.volumes /\ DOMAIN devices = DOMAIN decl.devices
  OBVIOUS
<1>2. DesiredDevices(decl, plan, root) = Over(mounts, Over(volumes, devices))
  BY DEF DesiredDevices
<1> HIDE DEF mounts, volumes, devices
<1> QED BY <1>1, <1>2, OverNames DEF DeviceNames

\* What idev has on the instance is declared or goes.
LEMMA AppliedIsDeclaredOrStale ==
  ASSUME ReconcileInv, NEW p \in Procs, NEW decl \in Declarations[p], NEW plan \in PlansOf(decl),
         plan.managed <=> IDMapKey \notin DOMAIN decl.config, NEW t \in applied
  PROVE  \/ t \in DeclaredNames(decl, plan)
         \/ t \in Tagged("key", StaleKeys(inst, decl, plan))
         \/ t \in Tagged("device", StaleDevices(inst, decl))
<1>1. \/ \E k \in DOMAIN inst.config : t = <<"key", k>>
      \/ \E n \in DOMAIN inst.devices : t = <<"device", n>>
  BY TaggedNames DEF ReconcileInv, RecTypeOK, NamesOf
<1>2. CASE inst.managed = NoRecord
  <2>1. t = <<"key", IDMapKey>> \/ t = <<"device", Workspace>>
    BY <1>2 DEF ReconcileInv, RecordsInv
  <2>2. CASE t = <<"device", Workspace>>
    <3>1. "main" \in DOMAIN decl.mounts
      BY MainIsMounted
    <3>2. Workspace \in DeviceNames(decl)
      BY <3>1 DEF DeviceNames, MountDeviceName
    <3> QED BY <2>2, <3>2, TaggedNames DEF DeclaredNames
  <2>3. CASE t = <<"key", IDMapKey>> /\ IDMapKey \in DOMAIN DesiredConfig(decl, plan)
    BY <2>3, TaggedNames DEF DeclaredNames
  <2>4. CASE t = <<"key", IDMapKey>> /\ IDMapKey \notin DOMAIN DesiredConfig(decl, plan)
    <3>1. plan.managed /\ plan.mode # "raw"
      BY <2>4, ConfigNames
    <3>2. IDMapKey \in DOMAIN inst.config
      BY <1>1, <2>4
    <3>3. IDMapKey \in StaleKeys(inst, decl, plan)
      BY <1>2, <3>1, <3>2 DEF StaleKeys, StaleIDMapKeys
    <3> QED BY <2>4, <3>3, TaggedNames
  <2> QED BY <2>1, <2>2, <2>3, <2>4
<1>3. CASE inst.managed # NoRecord
  <2>1. /\ inst.owned # NoRecord
        /\ t \in Tagged("key", inst.managed) \/ t \in Tagged("device", inst.owned)
    BY <1>3 DEF ReconcileInv, RecordsInv, RecordIsHonest, Recorded, Names
  <2>2. ASSUME NEW k \in DOMAIN inst.config, t = <<"key", k>>
        PROVE  \/ t \in DeclaredNames(decl, plan)
               \/ t \in Tagged("key", StaleKeys(inst, decl, plan))
    <3>1. k \in inst.managed
      BY <2>1, <2>2, TaggedNames
    <3>2. k \in DOMAIN DesiredConfig(decl, plan) \/ k \in StaleKeys(inst, decl, plan)
      BY <1>3, <3>1 DEF StaleKeys
    <3> QED BY <2>2, <3>2, TaggedNames DEF DeclaredNames
  <2>3. ASSUME NEW n \in DOMAIN inst.devices, t = <<"device", n>>
        PROVE  \/ t \in DeclaredNames(decl, plan)
               \/ t \in Tagged("device", StaleDevices(inst, decl))
    <3>1. n \in inst.owned
      BY <2>1, <2>3, TaggedNames
    <3>2. n \in DeviceNames(decl) \/ n \in StaleDevices(inst, decl)
      BY <2>1, <3>1 DEF StaleDevices, Names
    <3> QED BY <2>3, <3>2, TaggedNames DEF DeclaredNames
  <2> QED BY <1>1, <2>2, <2>3
<1> QED BY <1>2, <1>3

-----------------------------------------------------------------------------
(* The invariant is kept.                                                  *)

\* Once exactly what is declared is applied and recorded, the records are honest.
LEMMA DeclaredIsRecorded ==
  ASSUME NEW p \in Procs, NEW decl \in Declarations[p], NEW plan \in PlansOf(decl),
         inst'.managed = DOMAIN DesiredConfig(decl, plan), inst'.owned = DeviceNames(decl),
         inst'.image \in {NoRecord, inst'.madeFrom},
         applied' = DeclaredNames(decl, plan), applied' \subseteq ever'
  PROVE  RecordsInv' /\ RecordIsHonest'
<1>1. inst'.managed # NoRecord /\ inst'.owned # NoRecord
  BY NoRecordIsNoSet
<1>2. Names(inst.managed)' = inst'.managed /\ Names(inst.owned)' = inst'.owned
  BY <1>1 DEF Names
<1>3. Recorded' = DeclaredNames(decl, plan)
  BY <1>2 DEF Recorded, DeclaredNames, Tagged
<1> QED BY <1>1, <1>3 DEF RecordsInv, RecordIsHonest

\* What a write and a create leave of the process.
LEMMA RunsOn ==
  ASSUME ShapeInv, PlanInv, NEW p \in Procs, ~At(p, "idle"),
         proc' \in {Readied(p), [proc EXCEPT ![p] = Idle]}
  PROVE  /\ PlanInv'
         /\ proc' = [q \in Procs |-> proc'[q]] /\ \A q \in Procs : IsProcess(proc'[q])
         /\ proc'[p].pc \in {"idle", "ready"}
         /\ \A q \in Procs \ {p} : proc'[q] = proc[q]
         /\ proc'[p].pc = "ready" => /\ proc'[p].decl = proc[p].decl
                                     /\ proc'[p].plan = proc[p].plan
                                     /\ proc'[p].warned = proc[p].warned
<1>1. IsProcess(proc[p]) /\ IsProcess(Idle) /\ Idle.pc = "idle"
  BY DEF ShapeInv, IsProcess, Idle
<1>2. CASE proc' = Readied(p)
  <2>0. proc = [q \in Procs |-> proc[q]]
    BY DEF ShapeInv
  <2>1. proc' = [q \in Procs |-> proc'[q]] /\ \A q \in Procs \ {p} : proc'[q] = proc[q]
    BY <1>1, <1>2, <2>0 DEF Readied, IsProcess
  <2>2. /\ IsProcess(proc'[p]) /\ proc'[p].pc = "ready" /\ proc'[p].decl = proc[p].decl
        /\ proc'[p].plan = proc[p].plan /\ proc'[p].warned = proc[p].warned
    BY <1>1, <1>2, <2>0 DEF Readied, IsProcess
  <2> QED BY <2>1, <2>2 DEF ShapeInv, PlanInv, At
<1>3. CASE proc' = [proc EXCEPT ![p] = Idle]
  <2>1. proc'[p] = Idle /\ \A q \in Procs \ {p} : proc'[q] = proc[q]
    BY <1>3 DEF ShapeInv
  <2>2. proc' = [q \in Procs |-> proc'[q]]
    BY <1>3 DEF ShapeInv
  <2> QED BY <1>1, <2>1, <2>2 DEF ShapeInv, PlanInv, At
<1> QED BY <1>2, <1>3

\* A write leaves what is declared, and of what idev put there nothing else.
LEMMA WriteLands ==
  ASSUME ReconcileInv, NEW p \in Procs, Write(p)
  PROVE  LET decl == proc[p].decl
             plan == proc[p].plan
         IN  /\ proc[p].seen = inst /\ inst.there /\ fresh' = {p}
             /\ inst' = Written(inst, Change(inst, decl, plan, p))
             /\ IsInstance(inst') /\ inst'.there
             /\ inst'.managed = DOMAIN DesiredConfig(decl, plan)
             /\ inst'.owned = DeviceNames(decl) /\ inst'.root = p
             /\ inst'.image = inst.image /\ inst'.madeFrom = inst.madeFrom
             /\ inst'.ours = inst.ours
             /\ inst'.config = Over(DesiredConfig(decl, plan),
                                    Without(inst.config, StaleKeys(inst, decl, plan)))
             /\ inst'.devices = Over(DesiredDevices(decl, plan, p),
                                     Without(inst.devices, StaleDevices(inst, decl)))
             /\ applied' = DeclaredNames(decl, plan) /\ ever' = ever \cup applied'
<1> DEFINE decl == proc[p].decl
           plan == proc[p].plan
           ch   == Change(inst, decl, plan, p)
<1>0. /\ p \in fresh /\ proc[p].seen = inst /\ inst.there /\ IsInstance(inst)
      /\ decl \in Declarations[p] /\ plan \in PlansOf(decl)
      /\ plan.managed <=> IDMapKey \notin DOMAIN decl.config
  BY DEF Write, ReconcileInv, SeenInv, PlanInv, ShapeInv, At
<1>1. /\ ch.set = DesiredConfig(decl, plan) /\ ch.unset = StaleKeys(inst, decl, plan)
      /\ ch.devices = DesiredDevices(decl, plan, p) /\ ch.remove = StaleDevices(inst, decl)
      /\ ch.root = p /\ Decided(p) = ch
  BY <1>0 DEF Change, Decided
<1> HIDE DEF ch
<1>2. inst' = Written(inst, ch) /\ fresh' = {p}
  BY <1>1 DEF Write, InstBecomes
<1>3. /\ IsInstance(inst') /\ inst'.there
      /\ inst'.managed = DOMAIN ch.set /\ inst'.owned = DOMAIN ch.devices
      /\ inst'.root = ch.root
      /\ inst'.image = inst.image /\ inst'.madeFrom = inst.madeFrom /\ inst'.ours = inst.ours
      /\ inst'.config = Over(ch.set, Without(inst.config, ch.unset))
      /\ inst'.devices = Over(ch.devices, Without(inst.devices, ch.remove))
  BY <1>0, <1>2 DEF Written, IsInstance
<1>4. /\ applied' = (applied \ (Tagged("key", ch.unset) \cup Tagged("device", ch.remove)))
                      \cup DeclaredNames(decl, plan)
      /\ ever' = ever \cup DeclaredNames(decl, plan)
  BY <1>1 DEF Write, Applies
<1>5. applied' = DeclaredNames(decl, plan)
  BY <1>0, <1>1, <1>4, AppliedIsDeclaredOrStale
<1> QED BY <1>0, <1>1, <1>2, <1>3, <1>4, <1>5, DesiredNames DEF ch

LEMMA WriteStep ==
  ASSUME ReconcileInv, NEW p \in Procs, Write(p)
  PROVE  ReconcileInv'
<1> DEFINE decl == proc[p].decl
           plan == proc[p].plan
<1>1. decl \in Declarations[p] /\ plan \in PlansOf(decl)
  BY DEF Write, ReconcileInv, PlanInv, At
<1>2. /\ IsInstance(inst') /\ inst'.there /\ fresh' = {p}
      /\ inst'.managed = DOMAIN DesiredConfig(decl, plan) /\ inst'.owned = DeviceNames(decl)
      /\ inst'.image = inst.image /\ inst'.madeFrom = inst.madeFrom
      /\ inst'.config = Over(DesiredConfig(decl, plan),
                             Without(inst.config, StaleKeys(inst, decl, plan)))
      /\ inst'.devices = Over(DesiredDevices(decl, plan, p),
                              Without(inst.devices, StaleDevices(inst, decl)))
      /\ applied' = DeclaredNames(decl, plan) /\ ever' = ever \cup applied'
  BY WriteLands
<1>3. /\ ShapeInv /\ PlanInv /\ ~At(p, "idle") /\ hand' = hand
      /\ proc' \in {Readied(p), [proc EXCEPT ![p] = Idle]}
  BY DEF Write, ReconcileInv, At
<1>4. RecordsInv' /\ RecordIsHonest'
  BY <1>1, <1>2, DeclaredIsRecorded DEF ReconcileInv, RecordsInv
<1>5. applied' \subseteq NamesOf(inst')
  <2>1. ASSUME NEW k \in DOMAIN DesiredConfig(decl, plan)
        PROVE  k \in DOMAIN inst'.config
    BY <1>2, OverNames
  <2>2. ASSUME NEW n \in DeviceNames(decl)
        PROVE  n \in DOMAIN inst'.devices
    BY <1>2, DesiredNames, OverNames
  <2> QED BY <1>2, <2>1, <2>2, TaggedNames DEF DeclaredNames, NamesOf
<1>6. ShapeInv' /\ PlanInv' /\ SeenInv'
  BY <1>2, <1>3, RunsOn DEF ShapeInv, SeenInv, At
<1>7. RecTypeOK'
  <2>1. \A q \in Procs : proc'[q].pc \in {"idle", "look", "shown", "read", "write", "create", "ready"}
    BY <1>3, RunsOn DEF ReconcileInv, RecTypeOK
  <2> QED BY <1>2, <1>3, <1>5, <1>6, <2>1 DEF RecTypeOK, ReconcileInv, PlanInv, At
<1> QED BY <1>4, <1>6, <1>7 DEF ReconcileInv

\* Steps that leave the instance alone.
LEMMA QuietStep ==
  ASSUME ReconcileInv, UNCHANGED <<inst, applied, ever, hand>>, NEW p \in Procs,
         proc' = [q \in Procs |-> proc'[q]], \A q \in Procs \ {p} : proc'[q] = proc[q],
         IsProcess(proc'[p]),
         proc'[p].pc \in {"idle", "look", "shown", "read", "write", "create", "ready"},
         proc'[p].pc # "idle" =>
           /\ proc'[p].decl \in Declarations[p] /\ proc'[p].plan \in PlansOf(proc'[p].decl)
           /\ proc'[p].plan.managed <=> IDMapKey \notin DOMAIN proc'[p].decl.config,
         fresh' \subseteq fresh \cup {p},
         p \in fresh' /\ proc'[p].pc = "write" =>
           /\ inst.there /\ proc'[p].seen = inst
           /\ proc'[p].warned = Warnings(inst, proc'[p].decl, p)
  PROVE  ReconcileInv'
<1>1. ShapeInv'
  BY DEF ReconcileInv, ShapeInv, IsInstance
<1>2. PlanInv'
  BY DEF ReconcileInv, PlanInv, At
<1>3. SeenInv'
  <2>1. ASSUME NEW q \in fresh', At(q, "write")'
        PROVE  /\ inst'.there /\ proc'[q].seen = inst'
               /\ proc'[q].warned = Warnings(inst', proc'[q].decl, q)
    <3>1. CASE q = p
      BY <2>1, <3>1 DEF At
    <3>2. CASE q # p
      <4>1. q \in fresh /\ q \in Procs
        BY <3>2 DEF ReconcileInv, RecTypeOK
      <4> QED BY <2>1, <3>2, <4>1 DEF At, ReconcileInv, SeenInv
    <3> QED BY <3>1, <3>2
  <2> QED BY <2>1 DEF SeenInv, Warnings
<1>4. RecTypeOK'
  BY <1>2 DEF ReconcileInv, RecTypeOK, PlanInv, NamesOf, At
<1>5. RecordsInv' /\ RecordIsHonest'
  BY DEF ReconcileInv, RecordsInv, RecordIsHonest, Recorded, Names
<1> QED BY <1>1, <1>2, <1>3, <1>4, <1>5 DEF ReconcileInv

LEMMA CreateStep ==
  ASSUME ReconcileInv, NEW p \in Procs, Create(p)
  PROVE  ReconcileInv'
<1> DEFINE decl == proc[p].decl
           plan == proc[p].plan
<1>1. decl \in Declarations[p] /\ plan \in PlansOf(decl)
  BY DEF Create, ReconcileInv, PlanInv, At
<1>2. /\ IsInstance(inst') /\ inst'.there /\ fresh' = {p}
      /\ inst'.managed = DOMAIN DesiredConfig(decl, plan) /\ inst'.owned = DeviceNames(decl)
      /\ inst'.image = inst'.madeFrom
      /\ inst'.config = DesiredConfig(decl, plan)
      /\ inst'.devices = DesiredDevices(decl, plan, p)
      /\ applied' = DeclaredNames(decl, plan) /\ ever' = applied'
  BY DEF Create, InstBecomes, Created, IsInstance
<1>3. /\ ShapeInv /\ PlanInv /\ ~At(p, "idle") /\ hand' = hand
      /\ proc' \in {Readied(p), [proc EXCEPT ![p] = Idle]}
  BY DEF Create, ReconcileInv, At
<1>4. RecordsInv' /\ RecordIsHonest'
  BY <1>1, <1>2, DeclaredIsRecorded
<1>5. applied' \subseteq NamesOf(inst')
  BY <1>2, DesiredNames DEF DeclaredNames, NamesOf
<1>6. ShapeInv' /\ PlanInv' /\ SeenInv'
  BY <1>2, <1>3, RunsOn DEF ShapeInv, SeenInv, At
<1>7. RecTypeOK'
  <2>1. \A q \in Procs : proc'[q].pc \in {"idle", "look", "shown", "read", "write", "create", "ready"}
    BY <1>3, RunsOn DEF ReconcileInv, RecTypeOK
  <2> QED BY <1>2, <1>3, <1>5, <1>6, <2>1 DEF RecTypeOK, ReconcileInv, PlanInv, At
<1> QED BY <1>4, <1>6, <1>7 DEF ReconcileInv

LEMMA StrategyFits ==
  ASSUME NEW decl, NEW host, NEW plan \in Plans(decl, host)
  PROVE  /\ plan \in PlansOf(decl)
         /\ plan.managed <=> IDMapKey \notin DOMAIN decl.config
<1>1. CASE IDMapKey \in DOMAIN decl.config
  <2>1. Plans(decl, host) = {Plan(FALSE, "none", decl.owner)}
    BY <1>1 DEF Plans
  <2>2. plan = [managed |-> FALSE, mode |-> "none", owner |-> decl.owner]
    BY <2>1 DEF Plan
  <2> QED BY <1>1, <2>2 DEF PlansOf
<1>2. CASE IDMapKey \notin DOMAIN decl.config
  <2>1. plan \in {Plan(TRUE, "raw", decl.owner), Plan(TRUE, "shift", decl.owner),
                  Plan(TRUE, "none", decl.owner)}
    BY <1>2 DEF Plans
  <2>2. PICK mode \in {"raw", "shift", "none"} :
          plan = [managed |-> TRUE, mode |-> mode, owner |-> decl.owner]
    BY <2>1 DEF Plan
  <2> QED BY <1>2, <2>2 DEF PlansOf
<1> QED BY <1>1, <1>2

\* A step of an idev.
LEMMA RunStep ==
  ASSUME ReconcileInv, NEW p \in Procs, Step(p)
  PROVE  ReconcileInv'
<1>0. proc = [q \in Procs |-> proc[q]] /\ IsProcess(proc[p])
  BY DEF ReconcileInv, ShapeInv
<1>1. CASE Preflight(p)
  <2>1. PICK decl \in Declarations[p], host \in Hosts, pc \in {"read", "look"} :
          \E plan \in Plans(decl, host) :
            proc' = [proc EXCEPT ![p] = [Idle EXCEPT !.pc = pc, !.decl = decl, !.plan = plan]]
    BY <1>1 DEF Preflight
  <2>2. PICK plan \in Plans(decl, host) :
          proc' = [proc EXCEPT ![p] = [Idle EXCEPT !.pc = pc, !.decl = decl, !.plan = plan]]
    BY <2>1
  <2>3. /\ IsProcess(proc'[p]) /\ proc'[p].pc = pc /\ proc'[p].decl = decl
        /\ proc'[p].plan = plan
    BY <1>0, <2>2 DEF Idle, IsProcess
  <2>4. proc' = [q \in Procs |-> proc'[q]] /\ \A q \in Procs \ {p} : proc'[q] = proc[q]
    BY <1>0, <2>2
  <2>5. plan \in PlansOf(decl) /\ (plan.managed <=> IDMapKey \notin DOMAIN decl.config)
    BY StrategyFits
  <2>6. UNCHANGED <<inst, applied, ever, hand>> /\ fresh' = fresh
    BY <1>1 DEF Preflight
  <2> QED BY <2>3, <2>4, <2>5, <2>6, QuietStep
<1>2. CASE Preview(p) \/ Follow(p) \/ Read(p) \/ SkipWrite(p)
  <2>1. /\ UNCHANGED <<inst, applied, ever, hand>> /\ fresh' \subseteq fresh \cup {p}
        /\ proc[p].decl \in Declarations[p] /\ proc[p].plan \in PlansOf(proc[p].decl)
        /\ proc[p].plan.managed <=> IDMapKey \notin DOMAIN proc[p].decl.config
    BY <1>2 DEF Preview, Follow, Read, SkipWrite, ReconcileInv, PlanInv, At
  <2>2. proc' = [q \in Procs |-> proc'[q]] /\ \A q \in Procs \ {p} : proc'[q] = proc[q]
    BY <1>0, <1>2 DEF Preview, Follow, Read, SkipWrite, Readied
  <2>3. /\ IsProcess(proc'[p]) /\ proc'[p].decl = proc[p].decl /\ proc'[p].plan = proc[p].plan
        /\ proc'[p].pc \in {"shown", "read", "write", "create", "ready"}
        /\ proc'[p].pc = "write" =>
             /\ inst.there /\ proc'[p].seen = inst
             /\ proc'[p].warned = Warnings(inst, proc'[p].decl, p)
    <3>1. CASE Preview(p)
      BY <1>0, <3>1 DEF Preview, IsProcess
    <3>2. CASE Follow(p)
      BY <1>0, <3>2 DEF Follow, IsProcess
    <3>3. CASE Read(p)
      BY <1>0, <3>3 DEF Read, IsProcess
    <3>4. CASE SkipWrite(p)
      BY <1>0, <3>4 DEF SkipWrite, Readied, IsProcess
    <3> QED BY <1>2, <3>1, <3>2, <3>3, <3>4
  <2> QED BY <2>1, <2>2, <2>3, QuietStep
<1>3. CASE Write(p)
  BY <1>3, WriteStep
<1>4. CASE Create(p)
  BY <1>4, CreateStep
<1>5. CASE End(p)
  <2>1. IsProcess(Idle) /\ Idle.pc = "idle"
    BY DEF Idle, IsProcess
  <2>2. /\ proc' = [q \in Procs |-> proc'[q]] /\ \A q \in Procs \ {p} : proc'[q] = proc[q]
        /\ proc'[p] = Idle /\ UNCHANGED <<inst, applied, ever, hand>> /\ fresh' \subseteq fresh
    BY <1>0, <1>5 DEF End
  <2> QED BY <2>1, <2>2, QuietStep
<1> QED BY <1>1, <1>2, <1>3, <1>4, <1>5 DEF Step

\* An edit by hand leaves the records alone, and what it removes is no longer
\* there on idev's account.
LEMMA ByHandStep ==
  ASSUME ReconcileInv, NEW i, NEW gone, ByHand(i, gone), IsInstance(i), i.there,
         i.managed = inst.managed, i.owned = inst.owned,
         i.image = inst.image, i.madeFrom = inst.madeFrom,
         applied \ gone \subseteq NamesOf(i)
  PROVE  ReconcileInv'
<1>1. /\ inst' = i /\ fresh' = {} /\ applied' = applied \ gone /\ ever' = ever /\ proc' = proc
      /\ hand' \in 0 .. MaxHand
  BY HandType, NobodyIsNoProc DEF ByHand, InstBecomes, ReconcileInv, RecTypeOK
<1>2. ShapeInv' /\ PlanInv' /\ SeenInv'
  BY <1>1 DEF ReconcileInv, ShapeInv, PlanInv, SeenInv, At
<1>3. RecordsInv' /\ RecordIsHonest'
  BY <1>1 DEF ReconcileInv, RecordsInv, RecordIsHonest, Recorded, Names
<1>4. RecTypeOK'
  BY <1>1, <1>2 DEF ReconcileInv, RecTypeOK, PlanInv, At, NamesOf
<1> QED BY <1>2, <1>3, <1>4 DEF ReconcileInv

LEMMA HandStep ==
  ASSUME ReconcileInv,
         \/ \E k, v : HandSetKey(k, v) \/ HandUnsetKey(k)
         \/ \E n, dev : HandSetDevice(n, dev) \/ HandRemoveDevice(n)
  PROVE  ReconcileInv'
<1>0. IsInstance(inst) /\ applied \subseteq NamesOf(inst)
  BY DEF ReconcileInv, ShapeInv, RecTypeOK
<1>1. ASSUME NEW k, NEW v, HandSetKey(k, v)
      PROVE  ReconcileInv'
  <2> DEFINE i == [inst EXCEPT !.config = Over(Entry(k, v), @)]
  <2>1. /\ IsInstance(i) /\ i.managed = inst.managed /\ i.owned = inst.owned
        /\ i.image = inst.image /\ i.madeFrom = inst.madeFrom /\ i.there = inst.there
        /\ i.devices = inst.devices /\ i.config = Over(Entry(k, v), inst.config)
    BY <1>0 DEF IsInstance
  <2>2. ByHand(i, {}) /\ inst.there
    BY <1>1 DEF HandSetKey
  <2> HIDE DEF i
  <2>3. applied \ {} \subseteq NamesOf(i)
    BY <1>0, <2>1, OverNames, TaggedNames DEF NamesOf
  <2> QED BY <2>1, <2>2, <2>3, ByHandStep
<1>2. ASSUME NEW k, HandUnsetKey(k)
      PROVE  ReconcileInv'
  <2> DEFINE i == [inst EXCEPT !.config = Without(@, {k})]
  <2>1. /\ IsInstance(i) /\ i.managed = inst.managed /\ i.owned = inst.owned
        /\ i.image = inst.image /\ i.madeFrom = inst.madeFrom /\ i.there = inst.there
        /\ i.devices = inst.devices /\ i.config = Without(inst.config, {k})
    BY <1>0 DEF IsInstance
  <2>2. ByHand(i, {<<"key", k>>}) /\ inst.there
    BY <1>2 DEF HandUnsetKey
  <2> HIDE DEF i
  <2>3. DOMAIN i.config = DOMAIN inst.config \ {k}
    BY <2>1 DEF Without
  <2>4. applied \ {<<"key", k>>} \subseteq NamesOf(i)
    BY <1>0, <2>1, <2>3, TaggedNames DEF NamesOf
  <2> QED BY <2>1, <2>2, <2>4, ByHandStep
<1>3. ASSUME NEW n, NEW dev, HandSetDevice(n, dev)
      PROVE  ReconcileInv'
  <2> DEFINE i == [inst EXCEPT !.devices = Over(Entry(n, dev), @)]
  <2>1. /\ IsInstance(i) /\ i.managed = inst.managed /\ i.owned = inst.owned
        /\ i.image = inst.image /\ i.madeFrom = inst.madeFrom /\ i.there = inst.there
        /\ i.config = inst.config /\ i.devices = Over(Entry(n, dev), inst.devices)
    BY <1>0 DEF IsInstance
  <2>2. ByHand(i, {}) /\ inst.there
    BY <1>3 DEF HandSetDevice
  <2> HIDE DEF i
  <2>3. applied \ {} \subseteq NamesOf(i)
    BY <1>0, <2>1, OverNames, TaggedNames DEF NamesOf
  <2> QED BY <2>1, <2>2, <2>3, ByHandStep
<1>4. ASSUME NEW n, HandRemoveDevice(n)
      PROVE  ReconcileInv'
  <2> DEFINE i == [inst EXCEPT !.devices = Without(@, {n})]
  <2>1. /\ IsInstance(i) /\ i.managed = inst.managed /\ i.owned = inst.owned
        /\ i.image = inst.image /\ i.madeFrom = inst.madeFrom /\ i.there = inst.there
        /\ i.config = inst.config /\ i.devices = Without(inst.devices, {n})
    BY <1>0 DEF IsInstance
  <2>2. ByHand(i, {<<"device", n>>}) /\ inst.there
    BY <1>4 DEF HandRemoveDevice
  <2> HIDE DEF i
  <2>3. DOMAIN i.devices = DOMAIN inst.devices \ {n}
    BY <2>1 DEF Without
  <2>4. applied \ {<<"device", n>>} \subseteq NamesOf(i)
    BY <1>0, <2>1, <2>3, TaggedNames DEF NamesOf
  <2> QED BY <2>1, <2>2, <2>4, ByHandStep
<1> QED BY <1>1, <1>2, <1>3, <1>4

LEMMA DeleteStep ==
  ASSUME ReconcileInv, HandDelete
  PROVE  ReconcileInv'
<1>1. /\ inst' = Nobody /\ fresh' = {} /\ applied' = {} /\ ever' = {} /\ proc' = proc
      /\ hand' \in 0 .. MaxHand
  BY HandType, NobodyIsNoProc DEF HandDelete, InstBecomes, ReconcileInv, RecTypeOK
<1>2. ShapeInv' /\ PlanInv' /\ SeenInv'
  BY <1>1 DEF ReconcileInv, ShapeInv, PlanInv, SeenInv, At, IsInstance, Nobody
<1>3. RecordsInv' /\ RecordIsHonest'
  BY <1>1 DEF RecordsInv, RecordIsHonest, Nobody
<1>4. RecTypeOK'
  BY <1>1, <1>2 DEF ReconcileInv, RecTypeOK, PlanInv, At, Nobody
<1> QED BY <1>2, <1>3, <1>4 DEF ReconcileInv

LEMMA ReconcileInvariant == Spec => []ReconcileInv
<1>1. Init => ReconcileInv
  <2> SUFFICES ASSUME Init
               PROVE  ReconcileInv
    OBVIOUS
  <2>1. PICK older \in Older \cup {<<Nobody, {}>>} : inst = older[1] /\ applied = older[2]
    BY DEF Init
  <2>2. /\ IsInstance(inst) /\ inst.managed = NoRecord /\ inst.owned = NoRecord
        /\ inst.image = NoRecord /\ (inst.there \/ inst = Nobody)
        /\ applied \subseteq NamesOf(inst)
        /\ applied \subseteq {<<"key", IDMapKey>>, <<"device", Workspace>>}
    <3>1. CASE older \in Older
      <4>1. /\ IsInstance(inst) /\ inst.there
            /\ inst.managed = NoRecord /\ inst.owned = NoRecord /\ inst.image = NoRecord
            /\ applied \subseteq {<<"key", k>> : k \in {IDMapKey} \cap DOMAIN inst.config}
                          \cup {<<"device", n>> : n \in {Workspace} \cap DOMAIN inst.devices}
        BY <2>1, <3>1, OlderType
      <4> QED BY <4>1, TaggedNames DEF NamesOf
    <3>2. CASE older = <<Nobody, {}>>
      BY <2>1, <3>2 DEF Nobody, IsInstance
    <3> QED BY <3>1, <3>2
  <2>3. proc = [p \in Procs |-> Idle] /\ fresh = {} /\ ever = applied /\ hand = 0
    BY DEF Init
  <2>4. ShapeInv /\ PlanInv /\ SeenInv
    BY <2>2, <2>3 DEF ShapeInv, IsProcess, Idle, PlanInv, SeenInv, At
  <2>5. RecordsInv /\ RecordIsHonest
    BY <2>2 DEF RecordsInv, RecordIsHonest
  <2>6. RecTypeOK
    BY <2>2, <2>3, HandType DEF RecTypeOK, At, Idle, Nobody, IsInstance
  <2> QED BY <2>4, <2>5, <2>6 DEF ReconcileInv
<1>2. ReconcileInv /\ [Next]_vars => ReconcileInv'
  <2> SUFFICES ASSUME ReconcileInv, [Next]_vars
               PROVE  ReconcileInv'
    OBVIOUS
  <2>1. CASE UNCHANGED vars
    BY <2>1 DEF vars, ReconcileInv, ShapeInv, RecTypeOK, PlanInv, SeenInv, RecordsInv,
                RecordIsHonest, At, NamesOf, Recorded, Names, Warnings
  <2>2. CASE \E p \in Procs : Step(p)
    BY <2>2, RunStep
  <2>3. CASE HandDelete
    BY <2>3, DeleteStep
  <2> QED BY <2>1, <2>2, <2>3, HandStep DEF Next
<1> QED BY <1>1, <1>2, PTL DEF Spec

\* The types of the instance, of idev's records and of the runs.
THEOREM RecTypeCorrect == Spec => []RecTypeOK
BY ReconcileInvariant, PTL DEF ReconcileInv

\* What idev put on an instance is recorded, and nothing else is: whatever
\* several checkouts declare, in whatever order they read, write, create and are
\* cut short, and whatever is edited or deleted by hand between.
THEOREM RecordsAreHonest == Spec => []RecordIsHonest
BY ReconcileInvariant, PTL DEF ReconcileInv

-----------------------------------------------------------------------------
(* Two mappings.                                                           *)

LEMMA ShiftIsFalse ==
  ASSUME NEW dev, NEW plan, "shift" \notin DOMAIN dev, plan.managed => plan.mode # "shift"
  PROVE  Get(Shift(dev, plan), "shift", "false") = "false"
<1>1. CASE plan.managed /\ HostPath(dev)
  <2>1. Shift(dev, plan) = Over(dev, Entry("shift", "false"))
    BY <1>1 DEF Shift
  <2>2. DOMAIN Entry("shift", "false") = {"shift"} /\ Entry("shift", "false")["shift"] = "false"
    BY DEF Entry
  <2>3. Over(dev, Entry("shift", "false"))["shift"] = "false"
    BY <2>2, OverEntry
  <2> QED BY <2>1, <2>3 DEF Get
<1>2. CASE ~(plan.managed /\ HostPath(dev))
  BY <1>2 DEF Shift, Get
<1> QED BY <1>1, <1>2

\* Beside raw.idmap no device of a dev.yml is idmapped, unless it says so itself.
LEMMA MappedOnce ==
  ASSUME NEW p \in Procs, NEW decl \in Declarations[p], NEW plan \in PlansOf(decl), NEW root,
         plan.managed <=> IDMapKey \notin DOMAIN decl.config,
         IDMapKey \in DOMAIN DesiredConfig(decl, plan),
         NEW n \in DeviceNames(decl) \ ShiftsItself
  PROVE  Get(DesiredDevices(decl, plan, root)[n], "shift", "false") = "false"
<1> DEFINE mounts  == [m \in {MountDeviceName(e) : e \in DOMAIN decl.mounts} |->
                         MountDevice(decl.mounts[IF m = Workspace THEN "main" ELSE m], plan, root)]
           volumes == [m \in decl.volumes |-> VolumeDevice(m)]
           devices == [m \in DOMAIN decl.devices |-> OwnDevice(decl.devices[m], plan, root)]
<1>0. plan.managed => plan.mode # "shift"
  BY ConfigNames
<1>1. ASSUME NEW m \in DOMAIN mounts
      PROVE  Get(mounts[m], "shift", "false") = "false"
  <2> DEFINE mount == decl.mounts[IF m = Workspace THEN "main" ELSE m]
             bare  == [type |-> "disk", source |-> Resolve(mount.source, root)]
             rest  == IF mount.readonly THEN Entry("readonly", "true") ELSE Empty
  <2>1. mounts[m] = Shift(Over(bare, rest), plan)
    BY DEF MountDevice
  <2>2. "shift" \notin DOMAIN bare
    OBVIOUS
  <2>3. "shift" \notin DOMAIN rest
    BY DEF Entry, Empty
  <2> HIDE DEF mounts, mount, bare, rest
  <2>4. "shift" \notin DOMAIN Over(bare, rest)
    BY <2>2, <2>3, OverNames
  <2> QED BY <1>0, <2>1, <2>4, ShiftIsFalse
<1>2. ASSUME NEW m \in DOMAIN volumes
      PROVE  Get(volumes[m], "shift", "false") = "false"
  BY DEF VolumeDevice, Get
<1>3. ASSUME NEW m \in DOMAIN devices, m \notin ShiftsItself
      PROVE  Get(devices[m], "shift", "false") = "false"
  <2> DEFINE dev == decl.devices[m]
             own == IF "source" \in DOMAIN dev /\ ~OnVolume(dev)
                      THEN [dev EXCEPT !["source"] = Resolve(@, root)] ELSE dev
  <2>1. devices[m] = Shift(own, plan)
    BY DEF OwnDevice
  <2>2. "shift" \notin DOMAIN dev
    BY <1>3 DEF ShiftsItself
  <2>3. "shift" \notin DOMAIN own
    BY <2>2
  <2> HIDE DEF devices, own
  <2> QED BY <1>0, <2>1, <2>3, ShiftIsFalse
<1>4. DesiredDevices(decl, plan, root) = Over(mounts, Over(volumes, devices))
  BY DEF DesiredDevices
<1>5. n \in DOMAIN mounts \cup DOMAIN volumes \cup DOMAIN devices
  BY DEF DeviceNames
<1> HIDE DEF mounts, volumes, devices
<1>6. DesiredDevices(decl, plan, root)[n] =
        IF n \in DOMAIN mounts THEN mounts[n]
        ELSE IF n \in DOMAIN volumes THEN volumes[n] ELSE devices[n]
  BY <1>4, <1>5, OverNames, OverEntry
<1> QED BY <1>1, <1>2, <1>3, <1>5, <1>6

\* Nobody turns a device into an idmapped mount by hand.
HandShiftsNothing == \A h \in HandDevices : Get(h[2], "shift", "false") = "false"

LEMMA MappingStep ==
  ASSUME HandShiftsNothing, ReconcileInv, NeverBothMappings, Next
  PROVE  NeverBothMappings'
<1>1. ASSUME applied' \subseteq applied, DOMAIN inst'.devices \subseteq DOMAIN inst.devices,
             \A n \in DOMAIN inst'.devices : inst'.devices[n] = inst.devices[n]
      PROVE  NeverBothMappings'
  BY <1>1 DEF NeverBothMappings, Get
<1>2. IsInstance(inst)
  BY DEF ReconcileInv, ShapeInv
<1>3. ASSUME NEW p \in Procs, NEW decl \in Declarations[p], NEW plan \in PlansOf(decl),
             plan.managed <=> IDMapKey \notin DOMAIN decl.config,
             applied' = DeclaredNames(decl, plan),
             \A n \in DeviceNames(decl) : inst'.devices[n] = DesiredDevices(decl, plan, p)[n]
      PROVE  NeverBothMappings'
  <2> SUFFICES ASSUME <<"key", IDMapKey>> \in applied',
                      NEW n \in DOMAIN inst'.devices \ ShiftsItself, <<"device", n>> \in applied'
               PROVE  Get(inst'.devices[n], "shift", "false") = "false"
    BY DEF NeverBothMappings, Get
  <2>1. IDMapKey \in DOMAIN DesiredConfig(decl, plan) /\ n \in DeviceNames(decl)
    BY <1>3, TaggedNames DEF DeclaredNames
  <2> QED BY <1>3, <2>1, MappedOnce
<1>4. ASSUME NEW p \in Procs, Write(p)
      PROVE  NeverBothMappings'
  <2> DEFINE decl == proc[p].decl
             plan == proc[p].plan
  <2>1. /\ decl \in Declarations[p] /\ plan \in PlansOf(decl)
        /\ plan.managed <=> IDMapKey \notin DOMAIN decl.config
    BY <1>4 DEF Write, ReconcileInv, PlanInv, At
  <2>2. /\ applied' = DeclaredNames(decl, plan)
        /\ inst'.devices = Over(DesiredDevices(decl, plan, p),
                                Without(inst.devices, StaleDevices(inst, decl)))
    BY <1>4, WriteLands
  <2>3. ASSUME NEW n \in DeviceNames(decl)
        PROVE  inst'.devices[n] = DesiredDevices(decl, plan, p)[n]
    BY <2>2, DesiredNames, OverEntry
  <2> QED BY <1>3, <2>1, <2>2, <2>3
<1>5. ASSUME NEW p \in Procs, Create(p)
      PROVE  NeverBothMappings'
  <2> DEFINE decl == proc[p].decl
             plan == proc[p].plan
  <2>1. /\ decl \in Declarations[p] /\ plan \in PlansOf(decl)
        /\ plan.managed <=> IDMapKey \notin DOMAIN decl.config
    BY <1>5 DEF Create, ReconcileInv, PlanInv, At
  <2>2. /\ applied' = DeclaredNames(decl, plan)
        /\ inst'.devices = DesiredDevices(decl, plan, p)
    BY <1>5 DEF Create, InstBecomes, Created
  <2> QED BY <1>3, <2>1, <2>2
<1>6. ASSUME NEW p \in Procs, Step(p), ~Write(p), ~Create(p)
      PROVE  NeverBothMappings'
  BY <1>1, <1>6 DEF Step, Preflight, Preview, Follow, Read, SkipWrite, End
<1>7. ASSUME NEW k, NEW v, HandSetKey(k, v) \/ HandUnsetKey(k)
      PROVE  NeverBothMappings'
  <2>1. applied' \subseteq applied /\ inst'.devices = inst.devices
    BY <1>2, <1>7 DEF HandSetKey, HandUnsetKey, ByHand, InstBecomes, IsInstance
  <2> QED BY <1>1, <2>1
<1>8. ASSUME NEW h \in HandDevices, HandSetDevice(h[1], h[2])
      PROVE  NeverBothMappings'
  <2>1. applied' = applied /\ inst'.devices = Over(Entry(h[1], h[2]), inst.devices)
    BY <1>2, <1>8 DEF HandSetDevice, ByHand, InstBecomes, IsInstance
  <2>2. DOMAIN Entry(h[1], h[2]) = {h[1]} /\ Entry(h[1], h[2])[h[1]] = h[2]
    BY DEF Entry
  <2>3. Get(h[2], "shift", "false") = "false"
    BY DEF HandShiftsNothing
  <2>4. ASSUME NEW n \in DOMAIN inst'.devices
        PROVE  inst'.devices[n] = h[2] \/ (n \in DOMAIN inst.devices /\ inst'.devices[n] = inst.devices[n])
    BY <2>1, <2>2, <2>4, OverNames, OverEntry
  <2> QED BY <2>1, <2>3, <2>4 DEF NeverBothMappings, Get
<1>9. ASSUME NEW n, HandRemoveDevice(n)
      PROVE  NeverBothMappings'
  <2>1. applied' \subseteq applied /\ inst'.devices = Without(inst.devices, {n})
    BY <1>2, <1>9 DEF HandRemoveDevice, ByHand, InstBecomes, IsInstance
  <2> QED BY <1>1, <2>1 DEF Without
<1>10. CASE HandDelete
  <2>1. applied' = {}
    BY <1>10 DEF HandDelete
  <2> QED BY <2>1 DEF NeverBothMappings
<1> QED BY <1>4, <1>5, <1>6, <1>7, <1>8, <1>9, <1>10 DEF Next

\* Whatever the strategies of the checkouts were and become, and whoever takes
\* raw.idmap over, idev never leaves both mappings on the instance.
THEOREM OneMapping ==
  ASSUME HandShiftsNothing
  PROVE  Spec => []NeverBothMappings
<1>1. Init => NeverBothMappings
  <2> SUFFICES ASSUME Init, <<"key", IDMapKey>> \in applied,
                      NEW n \in DOMAIN inst.devices, <<"device", n>> \in applied
               PROVE  Get(inst.devices[n], "shift", "false") = "false"
    BY DEF NeverBothMappings
  <2>1. PICK older \in Older \cup {<<Nobody, {}>>} : inst = older[1] /\ applied = older[2]
    BY DEF Init
  <2>2. older \in Older
    BY <2>1
  <2>3. /\ applied \subseteq {<<"key", k>> : k \in {IDMapKey} \cap DOMAIN inst.config}
                      \cup {<<"device", m>> : m \in {Workspace} \cap DOMAIN inst.devices}
        /\ <<"device", Workspace>> \in applied =>
             Get(inst.devices[Workspace], "shift", "false") = "false"
    BY <2>1, <2>2, OlderType
  <2>4. n = Workspace
    BY <2>3
  <2> QED BY <2>3, <2>4
<1>2. ReconcileInv /\ NeverBothMappings /\ [Next]_vars => NeverBothMappings'
  <2> SUFFICES ASSUME ReconcileInv, NeverBothMappings, [Next]_vars
               PROVE  NeverBothMappings'
    OBVIOUS
  <2>1. CASE UNCHANGED vars
    BY <2>1 DEF vars, NeverBothMappings, Get
  <2> QED BY <2>1, MappingStep
<1> QED BY <1>1, <1>2, ReconcileInvariant, PTL DEF Spec
-----------------------------------------------------------------------------
(* An up that ended well.                                                  *)

\* An instance that has what is declared, and says so, has nothing to be given.
LEMMA NothingToWrite ==
  ASSUME NEW p \in Procs, NEW decl \in Declarations[p], NEW plan \in PlansOf(decl), NEW i,
         i.managed = DOMAIN DesiredConfig(decl, plan), i.owned = DeviceNames(decl), i.root = p,
         \A k \in DOMAIN DesiredConfig(decl, plan) :
           k \in DOMAIN i.config /\ i.config[k] = DesiredConfig(decl, plan)[k],
         \A n \in DeviceNames(decl) :
           n \in DOMAIN i.devices /\ i.devices[n] = DesiredDevices(decl, plan, p)[n]
  PROVE  Settled(i, Change(i, decl, plan, p))
<1>1. i.managed # NoRecord /\ i.owned # NoRecord
  BY NoRecordIsNoSet
<1>2. StaleKeys(i, decl, plan) = {} /\ StaleDevices(i, decl) = {}
  BY <1>1 DEF StaleKeys, StaleDevices, Names
<1> DEFINE ch == Change(i, decl, plan, p)
<1>3. /\ ch.set = DesiredConfig(decl, plan) /\ ch.unset = {} /\ ch.remove = {}
      /\ ch.devices = DesiredDevices(decl, plan, p) /\ ch.root = p
  BY <1>2 DEF Change
<1> HIDE DEF ch
<1>4. DOMAIN ch.devices = DeviceNames(decl)
  BY <1>3, DesiredNames
<1>5. /\ \A k \in DOMAIN ch.set : k \in DOMAIN i.config /\ i.config[k] = ch.set[k]
      /\ \A n \in DOMAIN ch.devices : n \in DOMAIN i.devices /\ i.devices[n] = ch.devices[n]
  BY <1>3, <1>4
<1>6. Settled(i, ch)
  BY <1>3, <1>4, <1>5 DEF Settled
<1> QED BY <1>6 DEF ch

Said(p, i) == i.madeFrom \in {NoRecord, proc[p].decl.image} \/ "image" \in proc[p].warned
                                                            \/ i.image = NoRecord

\* A reading warns of an image that is not the declared one.
LEMMA ReadingSaysSo ==
  ASSUME ReconcileInv, NEW p \in fresh, At(p, "write")
  PROVE  Said(p, inst)
<1>1. /\ proc[p].warned = Warnings(inst, proc[p].decl, p)
      /\ inst.image \in {NoRecord, inst.madeFrom}
  BY DEF ReconcileInv, SeenInv, RecordsInv
<1> QED BY <1>1 DEF Said, Warnings

\* What is left to show of a run that readies the instance.
LEMMA ReadyAfter ==
  ASSUME ReconcileInv, NEW p \in Procs, ~At(p, "idle"), fresh' \subseteq {p},
         proc' \in {Readied(p), [proc EXCEPT ![p] = Idle]},
         Settled(inst', Change(inst', proc[p].decl, proc[p].plan, p)),
         applied' \subseteq DeclaredNames(proc[p].decl, proc[p].plan), Said(p, inst')
  PROVE  ReadyIsAsDeclared'
<1>1. /\ proc'[p].pc = "ready" => /\ proc'[p].decl = proc[p].decl
                                  /\ proc'[p].plan = proc[p].plan
                                  /\ proc'[p].warned = proc[p].warned
  BY RunsOn DEF ReconcileInv
<1> QED BY <1>1 DEF ReadyIsAsDeclared, At, Said

\* A step of another leaves the instance alone, or the reading is not current.
LEMMA ReadyStays ==
  ASSUME ReadyIsAsDeclared, UNCHANGED <<inst, applied>>, NEW q, q \in fresh, At(q, "ready"),
         proc'[q] = proc[q]
  PROVE  /\ Settled(inst', Change(inst', proc'[q].decl, proc'[q].plan, q))
         /\ applied' \subseteq DeclaredNames(proc'[q].decl, proc'[q].plan)
         /\ inst'.madeFrom \in {NoRecord, proc'[q].decl.image} \/ "image" \in proc'[q].warned
                                                              \/ inst'.image = NoRecord
BY DEF ReadyIsAsDeclared

LEMMA ReadyStep ==
  ASSUME ReconcileInv, ReadyIsAsDeclared, Next
  PROVE  ReadyIsAsDeclared'
<1>1. ASSUME NEW p \in Procs, Write(p)
      PROVE  ReadyIsAsDeclared'
  <2> DEFINE decl == proc[p].decl
             plan == proc[p].plan
  <2>1. /\ p \in fresh /\ At(p, "write") /\ ~At(p, "idle")
        /\ proc' \in {Readied(p), [proc EXCEPT ![p] = Idle]}
        /\ decl \in Declarations[p] /\ plan \in PlansOf(decl)
    BY <1>1 DEF Write, ReconcileInv, PlanInv, At
  <2>2. /\ fresh' = {p} /\ applied' = DeclaredNames(decl, plan)
        /\ inst'.managed = DOMAIN DesiredConfig(decl, plan) /\ inst'.owned = DeviceNames(decl)
        /\ inst'.root = p /\ inst'.image = inst.image /\ inst'.madeFrom = inst.madeFrom
        /\ inst'.config = Over(DesiredConfig(decl, plan),
                               Without(inst.config, StaleKeys(inst, decl, plan)))
        /\ inst'.devices = Over(DesiredDevices(decl, plan, p),
                                Without(inst.devices, StaleDevices(inst, decl)))
    BY <1>1, WriteLands
  <2>3. Settled(inst', Change(inst', decl, plan, p))
    <3>1. ASSUME NEW k \in DOMAIN DesiredConfig(decl, plan)
          PROVE  k \in DOMAIN inst'.config /\ inst'.config[k] = DesiredConfig(decl, plan)[k]
      BY <2>2, OverNames, OverEntry
    <3>2. ASSUME NEW n \in DeviceNames(decl)
          PROVE  /\ n \in DOMAIN inst'.devices
                 /\ inst'.devices[n] = DesiredDevices(decl, plan, p)[n]
      BY <2>2, DesiredNames, OverNames, OverEntry
    <3> HIDE DEF decl, plan
    <3> QED BY <2>1, <2>2, <3>1, <3>2, NothingToWrite
  <2>4. Said(p, inst')
    BY <2>1, <2>2, ReadingSaysSo DEF Said
  <2> QED BY <2>1, <2>2, <2>3, <2>4, ReadyAfter
<1>2. ASSUME NEW p \in Procs, Create(p)
      PROVE  ReadyIsAsDeclared'
  <2> DEFINE decl == proc[p].decl
             plan == proc[p].plan
  <2>1. /\ ~At(p, "idle") /\ fresh' \subseteq {p}
        /\ proc' \in {Readied(p), [proc EXCEPT ![p] = Idle]}
        /\ decl \in Declarations[p] /\ plan \in PlansOf(decl)
    BY <1>2 DEF Create, InstBecomes, ReconcileInv, PlanInv, At
  <2>2. inst' = Created(decl, plan, p) /\ applied' = DeclaredNames(decl, plan)
    BY <1>2 DEF Create, InstBecomes
  <2>3. /\ inst'.managed = DOMAIN DesiredConfig(decl, plan) /\ inst'.owned = DeviceNames(decl)
        /\ inst'.root = p /\ inst'.madeFrom = decl.image
        /\ inst'.config = DesiredConfig(decl, plan)
        /\ inst'.devices = DesiredDevices(decl, plan, p)
    BY <2>2 DEF Created
  <2>4. Said(p, inst')
    BY <2>3 DEF Said
  <2>5. DOMAIN inst'.devices = DeviceNames(decl)
    BY <2>3, DesiredNames
  <2> HIDE DEF decl, plan
  <2>6. Settled(inst', Change(inst', decl, plan, p))
    BY <2>1, <2>3, <2>5, NothingToWrite
  <2> QED BY <2>1, <2>2, <2>4, <2>6, ReadyAfter DEF decl, plan
<1>3. ASSUME NEW p \in Procs, SkipWrite(p)
      PROVE  ReadyIsAsDeclared'
  <2> DEFINE decl == proc[p].decl
             plan == proc[p].plan
             ch   == Change(inst, decl, plan, p)
  <2>1. proc' = Readied(p) /\ UNCHANGED <<inst, applied, fresh>> /\ ~At(p, "idle")
    BY <1>3 DEF SkipWrite, At
  <2>2. /\ \A q \in Procs \ {p} : proc'[q] = proc[q]
        /\ proc'[p].decl = decl /\ proc'[p].plan = plan /\ proc'[p].warned = proc[p].warned
    <3>1. proc'[p].pc = "ready"
      BY <2>1 DEF Readied, ReconcileInv, ShapeInv, IsProcess
    <3> QED BY <2>1, <3>1, RunsOn DEF ReconcileInv
  <2>3. ASSUME p \in fresh
        PROVE  Settled(inst, ch) /\ applied \subseteq DeclaredNames(decl, plan) /\ Said(p, inst)
    <3>1. /\ proc[p].seen = inst /\ At(p, "write")
          /\ decl \in Declarations[p] /\ plan \in PlansOf(decl)
          /\ plan.managed <=> IDMapKey \notin DOMAIN decl.config
      BY <1>3, <2>3 DEF SkipWrite, ReconcileInv, SeenInv, PlanInv, At
    <3>2. Settled(inst, ch)
      BY <1>3, <3>1 DEF SkipWrite, Decided
    <3>3. ch.unset = StaleKeys(inst, decl, plan) /\ ch.remove = StaleDevices(inst, decl)
      BY DEF Change
    <3>4. StaleKeys(inst, decl, plan) \cap DOMAIN inst.config = {}
          /\ StaleDevices(inst, decl) \cap DOMAIN inst.devices = {}
      BY <3>2, <3>3 DEF Settled
    <3>5. StaleKeys(inst, decl, plan) = {} /\ StaleDevices(inst, decl) = {}
      BY <3>4 DEF StaleKeys, StaleIDMapKeys, StaleDevices
    <3>6. applied \subseteq DeclaredNames(decl, plan)
      BY <3>1, <3>5, AppliedIsDeclaredOrStale, TaggedNames
    <3> QED BY <2>3, <3>1, <3>2, <3>6, ReadingSaysSo
  <2> SUFFICES ASSUME NEW q \in fresh, At(q, "ready")'
               PROVE  /\ Settled(inst, Change(inst, proc'[q].decl, proc'[q].plan, q))
                      /\ applied \subseteq DeclaredNames(proc'[q].decl, proc'[q].plan)
                      /\ \/ inst.madeFrom \in {NoRecord, proc'[q].decl.image}
                         \/ "image" \in proc'[q].warned \/ inst.image = NoRecord
    BY <2>1 DEF ReadyIsAsDeclared
  <2>4. CASE q = p
    BY <2>2, <2>3, <2>4 DEF Said
  <2>5. CASE q # p
    <3>1. q \in Procs /\ proc'[q] = proc[q] /\ At(q, "ready")
      BY <2>2, <2>5 DEF ReconcileInv, RecTypeOK, At
    <3> QED BY <2>1, <3>1 DEF ReadyIsAsDeclared
  <2> QED BY <2>4, <2>5
<1>4. ASSUME NEW p \in Procs, Step(p), ~Write(p), ~Create(p), ~SkipWrite(p)
      PROVE  ReadyIsAsDeclared'
  <2>1. /\ UNCHANGED <<inst, applied>> /\ fresh' \subseteq fresh \cup {p}
        /\ \A q \in Procs \ {p} : proc'[q] = proc[q]
        /\ proc'[p].pc # "ready"
    <3>1. proc = [q \in Procs |-> proc[q]] /\ IsProcess(proc[p])
      BY DEF ReconcileInv, ShapeInv
    <3>2. CASE Preflight(p)
      BY <3>1, <3>2 DEF Preflight, Idle
    <3>3. CASE Preview(p) \/ Follow(p)
      BY <3>1, <3>3 DEF Preview, Follow, IsProcess
    <3>4. CASE Read(p)
      BY <3>1, <3>4 DEF Read, IsProcess
    <3>5. CASE End(p)
      BY <3>1, <3>5 DEF End, Idle
    <3> QED BY <1>4, <3>2, <3>3, <3>4, <3>5 DEF Step
  <2>2. ASSUME NEW q \in fresh', At(q, "ready")'
        PROVE  /\ Settled(inst', Change(inst', proc'[q].decl, proc'[q].plan, q))
               /\ applied' \subseteq DeclaredNames(proc'[q].decl, proc'[q].plan)
               /\ inst'.madeFrom \in {NoRecord, proc'[q].decl.image} \/ "image" \in proc'[q].warned
                                                                    \/ inst'.image = NoRecord
    <3>1. q # p /\ q \in fresh /\ q \in Procs /\ proc'[q] = proc[q]
      BY <2>1, <2>2 DEF At, ReconcileInv, RecTypeOK
    <3>2. At(q, "ready")
      BY <2>2, <3>1 DEF At
    <3> QED BY <2>1, <3>1, <3>2, ReadyStays
  <2> QED BY <2>2 DEF ReadyIsAsDeclared
<1>5. ASSUME fresh' = {}
      PROVE  ReadyIsAsDeclared'
  BY <1>5 DEF ReadyIsAsDeclared
<1>6. ASSUME NEW i, NEW gone, ByHand(i, gone)
      PROVE  fresh' = {}
  BY <1>6, NobodyIsNoProc DEF ByHand, InstBecomes
<1>7. ASSUME HandDelete
      PROVE  fresh' = {}
  BY <1>7, NobodyIsNoProc DEF HandDelete, InstBecomes
<1>8. ASSUME NEW k, NEW v, HandSetKey(k, v) \/ HandUnsetKey(k)
      PROVE  fresh' = {}
  BY <1>6, <1>8 DEF HandSetKey, HandUnsetKey
<1>9. ASSUME NEW n, NEW dev, HandSetDevice(n, dev) \/ HandRemoveDevice(n)
      PROVE  fresh' = {}
  BY <1>6, <1>9 DEF HandSetDevice, HandRemoveDevice
<1> QED BY <1>1, <1>2, <1>3, <1>4, <1>5, <1>7, <1>8, <1>9 DEF Next

\* An up that ended well, with nobody at the instance since, leaves nothing for
\* a second one to write and nothing of an earlier dev.yml behind, and has said
\* so when the image is not the declared one.
THEOREM ReadyMeansDeclared == Spec => []ReadyIsAsDeclared
<1>1. Init => ReadyIsAsDeclared
  BY DEF Init, ReadyIsAsDeclared
<1>2. ReconcileInv /\ ReadyIsAsDeclared /\ [Next]_vars => ReadyIsAsDeclared'
  <2> SUFFICES ASSUME ReconcileInv, ReadyIsAsDeclared, [Next]_vars
               PROVE  ReadyIsAsDeclared'
    OBVIOUS
  <2>1. CASE UNCHANGED vars
    BY <2>1 DEF vars, ReadyIsAsDeclared, At
  <2> QED BY <2>1, ReadyStep
<1> QED BY <1>1, <1>2, ReconcileInvariant, PTL DEF Spec
-----------------------------------------------------------------------------
(* What is said beforehand.                                                *)

\* A preview is of the instance a run goes by, and so is what is left alone.
PreviewInv ==
  \A p \in Procs :
    /\ At(p, "shown") \/ At(p, "read") =>
         (p \in fresh /\ proc[p].preview.shown =>
            proc[p].preview.actions =
              PlanActions(inst, Change(inst, proc[p].decl, proc[p].plan, p)))
    /\ At(p, "write") \/ At(p, "create") =>
         /\ proc[p].preview.shown =>
              proc[p].preview.actions = PlanActions(proc[p].seen, Decided(p))
         /\ proc[p].left = LeftAlone(proc[p].seen, proc[p].decl, proc[p].plan)
    /\ At(p, "create") => proc[p].seen = Nobody

LEMMA PreviewInit ==
  ASSUME Init
  PROVE  PreviewInv
<1>1. \A p \in Procs : proc[p].pc = "idle"
  BY DEF Init, Idle
<1> QED BY <1>1 DEF PreviewInv, At

\* What the others do leaves it so.
LEMMA PreviewStands ==
  ASSUME PreviewInv, NEW q \in Procs, proc'[q] = proc[q],
         q \in fresh' => q \in fresh /\ inst' = inst
  PROVE  /\ At(q, "shown")' \/ At(q, "read")' =>
              (q \in fresh' /\ proc'[q].preview.shown =>
                 proc'[q].preview.actions =
                   PlanActions(inst', Change(inst', proc'[q].decl, proc'[q].plan, q)))
         /\ At(q, "write")' \/ At(q, "create")' =>
              /\ proc'[q].preview.shown =>
                   proc'[q].preview.actions = PlanActions(proc'[q].seen, Decided(q)')
              /\ proc'[q].left = LeftAlone(proc'[q].seen, proc'[q].decl, proc'[q].plan)
         /\ At(q, "create")' => proc'[q].seen = Nobody
BY DEF PreviewInv, At, Decided

LEMMA PreviewStep ==
  ASSUME ReconcileInv, PreviewInv, Next
  PROVE  PreviewInv'
<1> DEFINE P(q) ==
             /\ At(q, "shown") \/ At(q, "read") =>
                  (q \in fresh /\ proc[q].preview.shown =>
                     proc[q].preview.actions =
                       PlanActions(inst, Change(inst, proc[q].decl, proc[q].plan, q)))
             /\ At(q, "write") \/ At(q, "create") =>
                  /\ proc[q].preview.shown =>
                       proc[q].preview.actions = PlanActions(proc[q].seen, Decided(q))
                  /\ proc[q].left = LeftAlone(proc[q].seen, proc[q].decl, proc[q].plan)
             /\ At(q, "create") => proc[q].seen = Nobody
<1>0. /\ proc = [q \in Procs |-> proc[q]] /\ \A q \in Procs : IsProcess(proc[q])
      /\ inst.there \/ inst = Nobody
  BY DEF ReconcileInv, ShapeInv, RecTypeOK
<1>1. ASSUME NEW p \in Procs, Preflight(p) \/ End(p)
      PROVE  PreviewInv'
  <2>1. /\ UNCHANGED inst /\ fresh' \subseteq fresh
        /\ \A q \in Procs \ {p} : proc'[q] = proc[q]
    BY <1>0, <1>1 DEF Preflight, End
  <2>2. proc'[p].pc \in {"read", "look", "idle"} /\ ~proc'[p].preview.shown
    <3>1. DOMAIN Idle = {"pc", "decl", "plan", "seen", "preview", "warned", "left"}
          /\ Idle.pc = "idle" /\ Idle.preview.shown = FALSE
      BY DEF Idle, NoPreview
    <3>2. CASE Preflight(p)
      <4>1. PICK decl \in Declarations[p], host \in Hosts,
                 pc \in {"read"} \cup {"look" : q \in {p} \cap Previewing} :
                   \E plan \in Plans(decl, host) :
                     proc' = [proc EXCEPT ![p] = [Idle EXCEPT !.pc = pc, !.decl = decl, !.plan = plan]]
        BY <3>2 DEF Preflight
      <4>2. PICK plan \in Plans(decl, host) :
              proc' = [proc EXCEPT ![p] = [Idle EXCEPT !.pc = pc, !.decl = decl, !.plan = plan]]
        BY <4>1
      <4>3. proc'[p] = [Idle EXCEPT !.pc = pc, !.decl = decl, !.plan = plan]
        BY <1>0, <4>2
      <4>4. proc'[p].pc = pc /\ proc'[p].preview = Idle.preview
        BY <3>1, <4>3
      <4> QED BY <3>1, <4>4
    <3>3. CASE End(p)
      <4>1. proc'[p] = Idle
        BY <1>0, <3>3 DEF End
      <4> QED BY <3>1, <4>1
    <3> QED BY <1>1, <3>2, <3>3
  <2>3. P(p)'
    BY <2>2 DEF At
  <2>4. ASSUME NEW q \in Procs \ {p}
        PROVE  P(q)'
    BY <2>1, PreviewStands
  <2> QED BY <2>3, <2>4 DEF PreviewInv
<1>2. ASSUME NEW p \in Procs, Preview(p) \/ Follow(p) \/ Read(p)
      PROVE  PreviewInv'
  <2>1. /\ UNCHANGED inst /\ fresh' \subseteq fresh \cup {p}
        /\ \A q \in Procs \ {p} : proc'[q] = proc[q]
    BY <1>0, <1>2 DEF Preview, Follow, Read
  <2>2. ASSUME NEW q \in Procs \ {p}
        PROVE  P(q)'
    BY <2>1, PreviewStands
  <2>3. CASE Preview(p)
    <3>1. /\ proc'[p].pc = "shown" /\ proc'[p].decl = proc[p].decl /\ proc'[p].plan = proc[p].plan
          /\ proc'[p].preview =
               [shown |-> TRUE,
                actions |-> PlanActions(inst, Change(inst, proc[p].decl, proc[p].plan, p))]
      BY <1>0, <2>3 DEF Preview, IsProcess
    <3>2. P(p)'
      BY <2>1, <3>1 DEF At
    <3> QED BY <2>2, <3>2 DEF PreviewInv
  <2>4. CASE Follow(p)
    <3>1. /\ At(p, "shown") /\ fresh' = fresh
          /\ proc'[p].pc = "read" /\ proc'[p].decl = proc[p].decl /\ proc'[p].plan = proc[p].plan
          /\ p \in fresh => proc'[p].preview = proc[p].preview
      BY <1>0, <2>4 DEF Follow, IsProcess
    <3>2. p \in fresh /\ proc[p].preview.shown =>
            proc[p].preview.actions = PlanActions(inst, Change(inst, proc[p].decl, proc[p].plan, p))
      BY <3>1 DEF PreviewInv
    <3>3. P(p)'
      BY <2>1, <3>1, <3>2 DEF At
    <3> QED BY <2>2, <3>3 DEF PreviewInv
  <2>5. CASE Read(p)
    <3>1. /\ At(p, "read")
          /\ proc'[p].pc \in {"write", "create"} /\ (proc'[p].pc = "create" => ~inst.there)
          /\ proc'[p].seen = inst
          /\ proc'[p].decl = proc[p].decl /\ proc'[p].plan = proc[p].plan
          /\ proc'[p].preview = (IF p \in fresh THEN proc[p].preview ELSE NoPreview)
          /\ proc'[p].left = LeftAlone(inst, proc[p].decl, proc[p].plan)
      BY <1>0, <2>5 DEF Read, IsProcess
    <3>2. p \in fresh /\ proc[p].preview.shown =>
            proc[p].preview.actions = PlanActions(inst, Change(inst, proc[p].decl, proc[p].plan, p))
      BY <3>1 DEF PreviewInv
    <3>3. Decided(p)' = Change(inst, proc[p].decl, proc[p].plan, p)
      BY <3>1 DEF Decided
    <3>4. ~NoPreview.shown
      BY DEF NoPreview
    <3>5. P(p)'
      BY <1>0, <3>1, <3>2, <3>3, <3>4 DEF At
    <3> QED BY <2>2, <3>5 DEF PreviewInv
  <2> QED BY <1>2, <2>3, <2>4, <2>5
<1>3. ASSUME NEW p \in Procs, Write(p) \/ SkipWrite(p) \/ Create(p)
      PROVE  PreviewInv'
  <2>1. proc' \in {Readied(p), [proc EXCEPT ![p] = Idle]} /\ ~At(p, "idle")
    BY <1>3 DEF Write, SkipWrite, Create, At
  <2>2. \A q \in Procs \ {p} : proc'[q] = proc[q]
    BY <2>1, RunsOn DEF ReconcileInv
  <2>3. proc'[p].pc \in {"idle", "ready"}
    BY <2>1, RunsOn DEF ReconcileInv
  <2>4. P(p)'
    BY <2>3 DEF At
  <2>5. ASSUME NEW q \in Procs \ {p}
        PROVE  P(q)'
    <3>1. q \in fresh' => q \in fresh /\ inst' = inst
      BY <1>3 DEF Write, SkipWrite, Create, InstBecomes
    <3> QED BY <2>2, <3>1, PreviewStands
  <2> QED BY <2>4, <2>5 DEF PreviewInv
<1>4. ASSUME proc' = proc, fresh' = {}
      PROVE  PreviewInv'
  <2>1. ASSUME NEW q \in Procs
        PROVE  P(q)'
    BY <1>4, PreviewStands
  <2> QED BY <2>1 DEF PreviewInv
<1>5. ASSUME NEW i, NEW gone, ByHand(i, gone)
      PROVE  proc' = proc /\ fresh' = {}
  BY <1>5, NobodyIsNoProc DEF ByHand, InstBecomes
<1>6. ASSUME HandDelete
      PROVE  proc' = proc /\ fresh' = {}
  BY <1>6, NobodyIsNoProc DEF HandDelete, InstBecomes
<1>7. ASSUME NEW k, NEW v, HandSetKey(k, v) \/ HandUnsetKey(k)
      PROVE  proc' = proc /\ fresh' = {}
  BY <1>5, <1>7 DEF HandSetKey, HandUnsetKey
<1>8. ASSUME NEW n, NEW dev, HandSetDevice(n, dev) \/ HandRemoveDevice(n)
      PROVE  proc' = proc /\ fresh' = {}
  BY <1>5, <1>8 DEF HandSetDevice, HandRemoveDevice
<1> QED BY <1>1, <1>2, <1>3, <1>4, <1>6, <1>7, <1>8 DEF Next, Step

\* After the change ch the maps of j are those of i without what ch takes away,
\* and with what it sets.
Carried(i, j, ch) ==
  /\ DOMAIN j.config = (DOMAIN i.config \ ch.unset) \cup DOMAIN ch.set
  /\ \A k \in DOMAIN ch.set : j.config[k] = ch.set[k]
  /\ \A k \in DOMAIN i.config \ (ch.unset \cup DOMAIN ch.set) : j.config[k] = i.config[k]
  /\ DOMAIN j.devices = (DOMAIN i.devices \ ch.remove) \cup DOMAIN ch.devices
  /\ \A n \in DOMAIN ch.devices : j.devices[n] = ch.devices[n]
  /\ \A n \in DOMAIN i.devices \ (ch.remove \cup DOMAIN ch.devices) :
       j.devices[n] = i.devices[n]

\* A change names what it takes away once, and it is there.
Sound(i, ch) ==
  /\ ch.unset \subseteq DOMAIN i.config \ DOMAIN ch.set
  /\ ch.remove \subseteq DOMAIN i.devices \ DOMAIN ch.devices
  /\ \A k \in DOMAIN ch.set : ch.set[k] # ""

\* The lines of a preview are what differs, but for keys a device loses.
LEMMA LinesAreDifferences ==
  ASSUME NEW i, NEW j, NEW ch, Carried(i, j, ch), Sound(i, ch),
         MarkersDiffer(i, ch) <=>
           <<i.root, i.managed, i.owned>> # <<j.root, j.managed, j.owned>>
  PROVE  /\ PlanActions(i, ch) \subseteq Difference(i, j)
         /\ Difference(i, j) \subseteq
              PlanActions(i, ch) \cup Tagged("update", OnlyLoses(i, j))
<1> DEFINE set      == {k \in DOMAIN ch.set : Get(i.config, k, "") # ch.set[k]}
           differs  == {k \in DOMAIN j.config : k \notin DOMAIN i.config \/ i.config[k] # j.config[k]}
           update   == {n \in DOMAIN ch.devices \cap DOMAIN i.devices :
                          ChangedKeys(i.devices[n], ch.devices[n]) # {}}
           replaced == {n \in DOMAIN i.devices \cap DOMAIN j.devices : i.devices[n] # j.devices[n]}
           markers  == Tagged("markers", IF MarkersDiffer(i, ch) THEN {"user.incus-dev"} ELSE {})
<1>1. /\ DOMAIN i.config \ DOMAIN j.config = ch.unset
      /\ DOMAIN i.devices \ DOMAIN j.devices = ch.remove
      /\ DOMAIN j.devices \ DOMAIN i.devices = DOMAIN ch.devices \ DOMAIN i.devices
  BY DEF Carried, Sound
<1>2. differs = set
  BY DEF Carried, Sound, Get
<1>3. update \subseteq replaced
  BY DEF Carried, ChangedKeys
<1>4. replaced \subseteq update \cup OnlyLoses(i, j)
  <2> SUFFICES ASSUME NEW n \in replaced, n \notin update
               PROVE  n \in OnlyLoses(i, j)
    OBVIOUS
  <2>1. n \in DOMAIN ch.devices /\ j.devices[n] = ch.devices[n]
    BY DEF Carried
  <2>2. ChangedKeys(i.devices[n], j.devices[n]) = {}
    BY <2>1
  <2> QED BY <2>2 DEF ChangedKeys, OnlyLoses
<1>5. PlanActions(i, ch) =
        Tagged("unset", ch.unset) \cup Tagged("set", set) \cup markers
        \cup Tagged("remove", ch.remove)
        \cup Tagged("add", DOMAIN ch.devices \ DOMAIN i.devices) \cup Tagged("update", update)
  BY DEF PlanActions, ConfigActions, DeviceActions
<1>6. Difference(i, j) =
        Tagged("unset", ch.unset) \cup Tagged("set", set) \cup markers
        \cup Tagged("remove", ch.remove)
        \cup Tagged("add", DOMAIN ch.devices \ DOMAIN i.devices) \cup Tagged("update", replaced)
  <2>1. Difference(i, j) =
          Tagged("unset", DOMAIN i.config \ DOMAIN j.config) \cup Tagged("set", differs)
          \cup markers \cup Tagged("remove", DOMAIN i.devices \ DOMAIN j.devices)
          \cup Tagged("add", DOMAIN j.devices \ DOMAIN i.devices) \cup Tagged("update", replaced)
    <3>1. markers = Tagged("markers", IF <<i.root, i.managed, i.owned>>
                                          = <<j.root, j.managed, j.owned>>
                                       THEN {} ELSE {"user.incus-dev"})
      OBVIOUS
    <3> HIDE DEF markers
    <3> QED BY <3>1 DEF Difference
  <2> HIDE DEF set, differs, markers, replaced
  <2> QED BY <1>1, <1>2, <2>1
<1> HIDE DEF set, differs, update, replaced, markers
<1>7. /\ Tagged("update", update) \subseteq Tagged("update", replaced)
      /\ Tagged("update", replaced) \subseteq
           Tagged("update", update) \cup Tagged("update", OnlyLoses(i, j))
  BY <1>3, <1>4, TaggedNames
<1> QED BY <1>5, <1>6, <1>7

\* dev.yml sets no key to the empty string, which configActions takes for unset.
NoEmptyValues ==
  \A p \in Procs : \A d \in Declarations[p] : \A plan \in PlansOf(d) :
    \A k \in DOMAIN DesiredConfig(d, plan) : DesiredConfig(d, plan)[k] # ""

LEMMA ChangeIsSound ==
  ASSUME NoEmptyValues, NEW p \in Procs, NEW decl \in Declarations[p], NEW plan \in PlansOf(decl),
         plan.managed <=> IDMapKey \notin DOMAIN decl.config, NEW i
  PROVE  Sound(i, Change(i, decl, plan, p))
<1> DEFINE ch == Change(i, decl, plan, p)
<1>1. /\ ch.set = DesiredConfig(decl, plan) /\ ch.unset = StaleKeys(i, decl, plan)
      /\ ch.remove = StaleDevices(i, decl) /\ ch.devices = DesiredDevices(decl, plan, p)
  BY DEF Change
<1>2. StaleKeys(i, decl, plan) \subseteq DOMAIN i.config \ DOMAIN DesiredConfig(decl, plan)
  <2>1. CASE i.managed = NoRecord
    <3>1. StaleIDMapKeys(i, plan) # {} => IDMapKey \notin DOMAIN DesiredConfig(decl, plan)
      BY ConfigNames DEF StaleIDMapKeys
    <3> QED BY <2>1, <3>1 DEF StaleKeys, StaleIDMapKeys
  <2>2. CASE i.managed # NoRecord
    BY <2>2 DEF StaleKeys
  <2> QED BY <2>1, <2>2
<1>3. StaleDevices(i, decl) \subseteq DOMAIN i.devices \ DeviceNames(decl)
  BY DEF StaleDevices
<1>4. DOMAIN ch.devices = DeviceNames(decl)
  BY <1>1, DesiredNames
<1>5. \A k \in DOMAIN DesiredConfig(decl, plan) : DesiredConfig(decl, plan)[k] # ""
  BY DEF NoEmptyValues
<1> HIDE DEF ch
<1>6. Sound(i, ch)
  BY <1>1, <1>2, <1>3, <1>4, <1>5 DEF Sound
<1> QED BY <1>6 DEF ch

\* The markers the preview compares as lists differ when the records do: an
\* instance without any is not one with an empty one, for workspace is recorded.
LEMMA MarkersAreRecords ==
  ASSUME NEW p \in Procs, NEW decl \in Declarations[p], NEW plan \in PlansOf(decl), NEW i,
         i.managed = NoRecord <=> i.owned = NoRecord
  PROVE  MarkersDiffer(i, Change(i, decl, plan, p)) <=>
           <<i.root, i.managed, i.owned>> # <<p, DOMAIN DesiredConfig(decl, plan), DeviceNames(decl)>>
<1> DEFINE ch == Change(i, decl, plan, p)
<1>1. ch.set = DesiredConfig(decl, plan) /\ ch.root = p /\ ch.devices = DesiredDevices(decl, plan, p)
  BY DEF Change
<1>2. DOMAIN ch.devices = DeviceNames(decl)
  BY <1>1, DesiredNames
<1>3. "main" \in DOMAIN decl.mounts
  BY MainIsMounted
<1>4. DeviceNames(decl) # {}
  BY <1>3 DEF DeviceNames
<1>5. NoRecord \notin {DOMAIN DesiredConfig(decl, plan), DeviceNames(decl)}
  BY NoRecordIsNoSet
<1> HIDE DEF ch
<1>6. MarkersDiffer(i, ch) <=> \/ i.root # p \/ Names(i.managed) # DOMAIN DesiredConfig(decl, plan)
                               \/ Names(i.owned) # DeviceNames(decl)
  BY <1>1, <1>2 DEF MarkersDiffer
<1>7. CASE i.managed = NoRecord
  <2>1. Names(i.owned) = {} /\ i.owned = NoRecord
    BY <1>7 DEF Names
  <2> QED BY <1>4, <1>5, <1>6, <1>7, <2>1 DEF ch
<1>8. CASE i.managed # NoRecord
  <2>1. Names(i.managed) = i.managed /\ Names(i.owned) = i.owned
    BY <1>8 DEF Names
  <2> QED BY <1>6, <2>1 DEF ch
<1> QED BY <1>7, <1>8

\* A change there is no need of has no lines, and nobody is told of names left
\* alone on an instance with records.
LEMMA SettledSaysNothing ==
  ASSUME NoEmptyValues, NEW p \in Procs, NEW decl \in Declarations[p], NEW plan \in PlansOf(decl),
         plan.managed <=> IDMapKey \notin DOMAIN decl.config, NEW i,
         Settled(i, Change(i, decl, plan, p))
  PROVE  PlanActions(i, Change(i, decl, plan, p)) = {} /\ LeftAlone(i, decl, plan) = {}
<1> DEFINE ch == Change(i, decl, plan, p)
<1>1. /\ ch.set = DesiredConfig(decl, plan) /\ ch.devices = DesiredDevices(decl, plan, p)
      /\ Sound(i, ch) /\ Settled(i, ch)
  BY ChangeIsSound DEF Change
<1>2. DOMAIN ch.devices = DeviceNames(decl)
  BY <1>1, DesiredNames
<1> HIDE DEF ch
<1>3. i.managed # NoRecord /\ i.owned # NoRecord
  BY <1>1, <1>2, NoRecordIsNoSet DEF Settled
<1>4. ch.unset = {} /\ ch.remove = {}
  BY <1>1 DEF Settled, Sound
<1>5. {k \in DOMAIN ch.set : Get(i.config, k, "") # ch.set[k]} = {}
  BY <1>1 DEF Settled, Get
<1>6. ~MarkersDiffer(i, ch)
  BY <1>1, <1>3 DEF Settled, MarkersDiffer, Names
<1>7. /\ DOMAIN ch.devices \ DOMAIN i.devices = {}
      /\ {n \in DOMAIN ch.devices \cap DOMAIN i.devices :
            ChangedKeys(i.devices[n], ch.devices[n]) # {}} = {}
  BY <1>1 DEF Settled, ChangedKeys
<1>8. \A kind : Tagged(kind, {}) = {}
  BY DEF Tagged
<1>9. PlanActions(i, ch) = {}
  BY <1>4, <1>5, <1>6, <1>7, <1>8 DEF PlanActions, ConfigActions, DeviceActions
<1> QED BY <1>3, <1>9 DEF LeftAlone, ch

LEMMA SameDiffersInNothing ==
  ASSUME NEW i
  PROVE  Difference(i, i) = {}
<1>1. \A kind : Tagged(kind, {}) = {}
  BY DEF Tagged
<1>2. /\ DOMAIN i.config \ DOMAIN i.config = {} /\ DOMAIN i.devices \ DOMAIN i.devices = {}
      /\ {k \in DOMAIN i.config : k \notin DOMAIN i.config \/ i.config[k] # i.config[k]} = {}
      /\ {n \in DOMAIN i.devices \cap DOMAIN i.devices : i.devices[n] # i.devices[n]} = {}
  OBVIOUS
<1> QED BY <1>1, <1>2 DEF Difference

\* What one run that readies the instance was shown, and was told is left alone.
SaysSo(p) ==
  /\ Follows(p) =>
       /\ proc[p].preview.actions \subseteq Difference(inst, inst')
       /\ Difference(inst, inst') \subseteq
            proc[p].preview.actions \cup Tagged("update", OnlyLoses(inst, inst'))
  /\ At(p, "write") /\ proc'[p].pc = "ready" =>
       proc[p].left \subseteq NamesOf(inst') \cup {<<"key", IDMapKey>>}

LEMMA WriteSaysSo ==
  ASSUME NoEmptyValues, ReconcileInv, PreviewInv, NEW p \in Procs, Write(p)
  PROVE  SaysSo(p)
<1> DEFINE decl == proc[p].decl
           plan == proc[p].plan
           ch   == Change(inst, decl, plan, p)
<1>1. /\ At(p, "write") /\ decl \in Declarations[p] /\ plan \in PlansOf(decl)
      /\ plan.managed <=> IDMapKey \notin DOMAIN decl.config
      /\ inst.managed = NoRecord <=> inst.owned = NoRecord
  BY DEF Write, ReconcileInv, PlanInv, RecordsInv, At
<1>2. /\ proc[p].seen = inst
      /\ inst'.managed = DOMAIN DesiredConfig(decl, plan) /\ inst'.owned = DeviceNames(decl)
      /\ inst'.root = p
      /\ inst'.config = Over(DesiredConfig(decl, plan),
                             Without(inst.config, StaleKeys(inst, decl, plan)))
      /\ inst'.devices = Over(DesiredDevices(decl, plan, p),
                              Without(inst.devices, StaleDevices(inst, decl)))
  BY WriteLands
<1>3. /\ proc[p].preview.shown => proc[p].preview.actions = PlanActions(inst, ch)
      /\ proc[p].left = LeftAlone(inst, decl, plan)
  BY <1>1, <1>2 DEF PreviewInv, Decided
<1>4. /\ ch.set = DesiredConfig(decl, plan) /\ ch.unset = StaleKeys(inst, decl, plan)
      /\ ch.remove = StaleDevices(inst, decl) /\ ch.devices = DesiredDevices(decl, plan, p)
  BY DEF Change
<1>5. MarkersDiffer(inst, ch) <=>
        <<inst.root, inst.managed, inst.owned>> # <<inst'.root, inst'.managed, inst'.owned>>
  BY <1>1, <1>2, MarkersAreRecords
<1>6. Sound(inst, ch)
  BY <1>1, ChangeIsSound
<1> HIDE DEF ch
<1>7. Carried(inst, inst', ch)
  <2>1. /\ inst'.config = Over(ch.set, Without(inst.config, ch.unset))
        /\ inst'.devices = Over(ch.devices, Without(inst.devices, ch.remove))
    BY <1>2, <1>4
  <2> QED BY <2>1 DEF Carried, Over, Without
<1>8. /\ PlanActions(inst, ch) \subseteq Difference(inst, inst')
      /\ Difference(inst, inst') \subseteq
           PlanActions(inst, ch) \cup Tagged("update", OnlyLoses(inst, inst'))
  BY <1>5, <1>6, <1>7, LinesAreDifferences
<1>9. LeftAlone(inst, decl, plan) \subseteq NamesOf(inst') \cup {<<"key", IDMapKey>>}
  <2> SUFFICES ASSUME inst.managed = NoRecord, inst.owned = NoRecord,
                      NEW t \in NamesOf(inst)
               PROVE  t \in NamesOf(inst') \cup {<<"key", IDMapKey>>}
    BY DEF LeftAlone
  <2>1. ch.unset \subseteq {IDMapKey} /\ ch.remove = {}
    BY <1>4 DEF StaleKeys, StaleIDMapKeys, StaleDevices, Names
  <2>2. \/ \E k \in DOMAIN inst.config : t = <<"key", k>>
        \/ \E n \in DOMAIN inst.devices : t = <<"device", n>>
    BY TaggedNames DEF NamesOf
  <2>3. ASSUME NEW k \in DOMAIN inst.config, k # IDMapKey
        PROVE  k \in DOMAIN inst'.config
    BY <1>7, <2>1, <2>3 DEF Carried
  <2>4. ASSUME NEW n \in DOMAIN inst.devices
        PROVE  n \in DOMAIN inst'.devices
    BY <1>7, <2>1 DEF Carried
  <2> QED BY <2>2, <2>3, <2>4, TaggedNames DEF NamesOf
<1> QED BY <1>3, <1>8, <1>9 DEF SaysSo, Follows

LEMMA SkipSaysSo ==
  ASSUME NoEmptyValues, ReconcileInv, PreviewInv, NEW p \in Procs, SkipWrite(p)
  PROVE  SaysSo(p)
<1>1. /\ At(p, "write") /\ inst' = inst
      /\ Settled(proc[p].seen, Change(proc[p].seen, proc[p].decl, proc[p].plan, p))
      /\ proc[p].decl \in Declarations[p] /\ proc[p].plan \in PlansOf(proc[p].decl)
      /\ proc[p].plan.managed <=> IDMapKey \notin DOMAIN proc[p].decl.config
  BY DEF SkipWrite, Decided, ReconcileInv, PlanInv, At
<1>2. /\ PlanActions(proc[p].seen, Decided(p)) = {}
      /\ LeftAlone(proc[p].seen, proc[p].decl, proc[p].plan) = {}
  BY <1>1, SettledSaysNothing DEF Decided
<1>3. /\ proc[p].preview.shown => proc[p].preview.actions = {}
      /\ proc[p].left = {}
  BY <1>1, <1>2 DEF PreviewInv
<1>4. Difference(inst, inst') = {}
  BY <1>1, SameDiffersInNothing
<1> QED BY <1>3, <1>4 DEF SaysSo, Follows

LEMMA CreateSaysSo ==
  ASSUME NoEmptyValues, ReconcileInv, PreviewInv, NEW p \in Procs, Create(p)
  PROVE  SaysSo(p)
<1> DEFINE decl == proc[p].decl
           plan == proc[p].plan
           ch   == Change(inst, decl, plan, p)
<1>1. /\ At(p, "create") /\ ~inst.there /\ proc[p].seen = Nobody
      /\ decl \in Declarations[p] /\ plan \in PlansOf(decl)
      /\ plan.managed <=> IDMapKey \notin DOMAIN decl.config
  BY DEF Create, ReconcileInv, PlanInv, PreviewInv, At
<1>2. inst = Nobody
  BY <1>1 DEF ReconcileInv, RecTypeOK
<1>3. proc[p].preview.shown => proc[p].preview.actions = PlanActions(inst, ch)
  BY <1>1, <1>2 DEF PreviewInv, Decided
<1>4. /\ ch.set = DesiredConfig(decl, plan) /\ ch.unset = StaleKeys(inst, decl, plan)
      /\ ch.remove = StaleDevices(inst, decl) /\ ch.devices = DesiredDevices(decl, plan, p)
  BY DEF Change
<1>5. /\ inst'.config = DesiredConfig(decl, plan) /\ inst'.devices = DesiredDevices(decl, plan, p)
      /\ inst'.managed = DOMAIN DesiredConfig(decl, plan) /\ inst'.owned = DeviceNames(decl)
      /\ inst'.root = p
  BY DEF Create, InstBecomes, Created
<1>6. /\ DOMAIN inst.config = {} /\ DOMAIN inst.devices = {}
      /\ inst.managed = NoRecord /\ inst.owned = NoRecord
  BY <1>2 DEF Nobody, Empty
<1>7. MarkersDiffer(inst, ch) <=>
        <<inst.root, inst.managed, inst.owned>> # <<inst'.root, inst'.managed, inst'.owned>>
  BY <1>1, <1>5, <1>6, MarkersAreRecords
<1>8. Sound(inst, ch)
  BY <1>1, ChangeIsSound
<1> HIDE DEF ch
<1>9. Carried(inst, inst', ch)
  BY <1>4, <1>5, <1>6 DEF Carried
<1>10. /\ PlanActions(inst, ch) \subseteq Difference(inst, inst')
       /\ Difference(inst, inst') \subseteq
            PlanActions(inst, ch) \cup Tagged("update", OnlyLoses(inst, inst'))
  BY <1>7, <1>8, <1>9, LinesAreDifferences
<1> QED BY <1>1, <1>3, <1>10 DEF SaysSo, Follows, At

\* A step of another readies nobody, and nor does any other step of a run.
LEMMA OthersSaySo ==
  ASSUME ReconcileInv, [Next]_vars, NEW p \in Procs, ~Write(p), ~SkipWrite(p), ~Create(p),
         proc[p].pc \in {"write", "create"}
  PROVE  proc'[p].pc # "ready"
<1>1. proc = [q \in Procs |-> proc[q]]
  BY DEF ReconcileInv, ShapeInv
<1>2. ASSUME proc'[p] = proc[p]
      PROVE  proc'[p].pc # "ready"
  BY <1>2
<1>3. ASSUME NEW q \in Procs, Step(q), q # p
      PROVE  proc'[p] = proc[p]
  BY <1>1, <1>3
     DEF Step, Preflight, Preview, Follow, Read, Write, SkipWrite, Create, End, Readied
<1>4. ASSUME Step(p)
      PROVE  proc'[p].pc # "ready"
  <2>1. End(p)
    BY <1>4 DEF Step, Preflight, Preview, Follow, Read, At
  <2> QED BY <1>1, <2>1 DEF End, Idle
<1>5. ASSUME HandDelete \/ UNCHANGED vars
      PROVE  proc' = proc
  BY <1>5 DEF HandDelete, vars
<1>6. ASSUME NEW k, NEW v, HandSetKey(k, v) \/ HandUnsetKey(k)
      PROVE  proc' = proc
  BY <1>6 DEF HandSetKey, HandUnsetKey, ByHand
<1>7. ASSUME NEW n, NEW dev, HandSetDevice(n, dev) \/ HandRemoveDevice(n)
      PROVE  proc' = proc
  BY <1>7 DEF HandSetDevice, HandRemoveDevice, ByHand
<1> QED BY <1>2, <1>3, <1>4, <1>5, <1>6, <1>7 DEF Next

\* up --dry-run shows what up then does, whatever dev.yml, the host and the
\* instance: every line is done, and everything done has its line but for keys a
\* device loses.  What a warning says is left alone is left alone.
THEOREM PreviewIsTrue ==
  ASSUME NoEmptyValues
  PROVE  Spec => SaysWhatItDoes
<1>1. PreviewInv /\ ReconcileInv /\ [Next]_vars => PreviewInv'
  <2> SUFFICES ASSUME PreviewInv, ReconcileInv, [Next]_vars
               PROVE  PreviewInv'
    OBVIOUS
  <2>1. CASE UNCHANGED vars
    BY <2>1 DEF vars, PreviewInv, At, Decided
  <2> QED BY <2>1, PreviewStep
<1>2. PreviewInv /\ ReconcileInv /\ [Next]_vars => [\A p \in Procs : SaysSo(p)]_vars
  <2> SUFFICES ASSUME PreviewInv, ReconcileInv, [Next]_vars, NEW p \in Procs
               PROVE  SaysSo(p)
    OBVIOUS
  <2>1. CASE ~Write(p) /\ ~SkipWrite(p) /\ ~Create(p)
    BY <2>1, OthersSaySo DEF SaysSo, Follows, At
  <2> QED BY <2>1, WriteSaysSo, SkipSaysSo, CreateSaysSo
<1>3. [\A p \in Procs : SaysSo(p)]_vars <=>
        [\A p \in Procs :
           /\ Follows(p) =>
                /\ proc[p].preview.actions \subseteq Difference(inst, inst')
                /\ Difference(inst, inst') \subseteq
                     proc[p].preview.actions \cup Tagged("update", OnlyLoses(inst, inst'))
           /\ At(p, "write") /\ proc'[p].pc = "ready" =>
                proc[p].left \subseteq NamesOf(inst') \cup {<<"key", IDMapKey>>}]_vars
  BY DEF SaysSo
<1> QED BY <1>1, <1>2, <1>3, PreviewInit, ReconcileInvariant, PTL DEF Spec, SaysWhatItDoes
=============================================================================
