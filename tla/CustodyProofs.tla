---------------------------- MODULE CustodyProofs ----------------------------
(***************************************************************************)
(* Lifecycle implements VolumeCustody: no step of idev takes away the last *)
(* name of a volume that is still on the pool, for any volumes, any number *)
(* of idev processes, failures and interruptions.                          *)
(***************************************************************************)
EXTENDS LifecycleProofs

\* A process that never deletes the instance.
OnlyUp(p) == Commands[p] \subseteq {"up"}

\* Of the processes at work at once at most one deletes.  With two, a delete by
\* name may hit an instance whose record is not the one that was read.
OneDeletes == \A p, q \in Procs : p = q \/ OnlyUp(p) \/ OnlyUp(q)

-----------------------------------------------------------------------------
(* The inductive invariant.                                                *)

InstInv ==
  /\ deleting => inst.exists
  /\ inst.record = NoRecord => inst.devices = {}

\* Only a rebuild carries a record, from its reading to the write that stores it.
RoleInv(p) ==
  /\ OnlyUp(p) =>
       /\ proc[p].carried = {}
       /\ proc[p].pc \notin {"destroyRead", "rebuildRead", "stop", "delete", "reap"}
  /\ proc[p].pc = "reap" => proc[p].cmd = "purge"
  /\ proc[p].pc = "destroyRead" => proc[p].cmd # "rebuild"
  /\ proc[p].pc \in {"idle", "destroyRead", "rebuildRead", "settle", "start", "provision"} =>
       proc[p].carried = {}

\* up edits the record of an instance it has read, and one without the volume
\* record has no device record either.
ReadInv(p) ==
  /\ proc[p].pc \in {"prune", "write"} => proc[p].seen.exists
  /\ proc[p].seen.record = NoRecord => proc[p].seen.devices = {}

\* What the instance records is what destroy or rebuild read there, and what
\* another idev's up has declared since.
DeleteInv(p) ==
  proc[p].pc \in {"stop", "delete"} =>
    /\ inst.exists => Recorded(inst, {}) \subseteq proc[p].todo \cup devyml
    /\ proc[p].cmd = "rebuild" => proc[p].carried = proc[p].todo

\* What is carried goes into the record up is going to write; an up that
\* carries nothing adds nothing but the declaration.
WorkInv(p) ==
  Working(p) /\ proc[p].seen.exists =>
    /\ proc[p].carried \cap pool \subseteq proc[p].decl \cup Listed(proc[p].work)
    /\ proc[p].carried = {} =>
         Listed(proc[p].work) \subseteq Listed(proc[p].seen.record) \cup devyml

\* Nobody deletes the instance while a rebuild makes it again, so what was read
\* in its record is there still.
CarryInv(p) ==
  proc[p].carried # {} /\ proc[p].pc \notin {"stop", "delete"} =>
    /\ ~deleting
    /\ Working(p) /\ proc[p].seen.exists =>
         /\ inst.exists
         /\ Listed(proc[p].seen.record) \cap pool \subseteq Listed(inst.record) \cup devyml

\* warnUnrecorded has named what a first record is going to leave out.
ToldInv(p) ==
  At(p, "write") /\ p \in current /\ proc[p].seen.record = NoRecord =>
    proc[p].seen.attached \cap pool \subseteq devyml \cup told

ProcInv(p) ==
  RoleInv(p) /\ ReadInv(p) /\ DeleteInv(p) /\ WorkInv(p) /\ CarryInv(p) /\ ToldInv(p)

CustodyInv == InstInv /\ \A p \in Procs : ProcInv(p)

-----------------------------------------------------------------------------
(* What a step leaves to the processes that do not take it.                *)

\* The step is none of process q's and respects what q relies on.
Spares(q) ==
  /\ proc'[q] = proc[q]
  /\ devyml' = devyml
  /\ pool' \subseteq pool \cup devyml
  /\ q \in current' => q \in current /\ inst' = inst /\ told \cap pool' \subseteq told' \cup devyml
  /\ ~OnlyUp(q) /\ inst'.exists =>
       \/ Recorded(inst', {}) \subseteq devyml
       \/ inst.exists /\ Recorded(inst', {}) \subseteq Recorded(inst, {}) \cup devyml
  /\ ~OnlyUp(q) /\ ~deleting =>
       /\ ~deleting'
       /\ inst.exists =>
            inst'.exists /\ Listed(inst.record) \cap pool' \subseteq Listed(inst'.record) \cup devyml

LEMMA SparedHolds ==
  ASSUME CustodyInv, KeepInv, NEW q \in Procs, Spares(q)
  PROVE  ProcInv(q)'
<1>0. ProcInv(q)
  BY DEF CustodyInv
<1>1. RoleInv(q)' /\ ReadInv(q)'
  BY <1>0 DEF ProcInv, RoleInv, ReadInv, Spares, OnlyUp
<1>2. DeleteInv(q)'
  <2>1. proc[q].pc \in {"stop", "delete"} => ~OnlyUp(q)
    BY <1>0 DEF ProcInv, RoleInv
  <2>2. Recorded(inst, {})' = Recorded(inst', {})
    BY DEF Recorded
  <2> QED BY <1>0, <2>1, <2>2 DEF ProcInv, DeleteInv, Spares
<1>3. WorkInv(q)'
  <2>1. /\ Listed(proc[q].work)' = Listed(proc[q].work)
        /\ Listed(proc[q].seen.record)' = Listed(proc[q].seen.record)
    BY DEF Listed, Spares
  <2>2. Working(q) => proc[q].decl = devyml
    BY DEF KeepInv, Working, At
  <2> QED BY <1>0, <2>1, <2>2 DEF ProcInv, WorkInv, Spares, Working
<1>4. CarryInv(q)'
  <2>1. /\ Listed(proc[q].seen.record)' = Listed(proc[q].seen.record)
        /\ Listed(inst.record)' = Listed(inst'.record)
    BY DEF Listed, Spares
  <2>2. proc[q].carried # {} => ~OnlyUp(q)
    BY <1>0 DEF ProcInv, RoleInv
  <2> QED BY <1>0, <2>1, <2>2 DEF ProcInv, CarryInv, Spares, Working
<1>5. ToldInv(q)'
  BY <1>0 DEF ProcInv, ToldInv, Spares, At
<1> QED BY <1>1, <1>2, <1>3, <1>4, <1>5 DEF ProcInv

LEMMA ActorHolds ==
  ASSUME TypeOK, CustodyInv, KeepInv, NEW p \in Procs, InstInv', ProcInv(p)',
         \A q \in Procs \ {p} : Spares(q)
  PROVE  CustodyInv'
BY SparedHolds DEF CustodyInv

\* A step of p that leaves the instance alone.
LEMMA QuietSpares ==
  ASSUME TypeOK, CustodyInv, NEW p \in Procs, NEW r, Becomes(p, r),
         UNCHANGED <<inst, deleting, devyml>>, pool' \subseteq pool \cup devyml,
         current' \subseteq current \cup {p}, told \cap pool' \subseteq told'
  PROVE  InstInv' /\ \A q \in Procs \ {p} : Spares(q)
<1>1. InstInv'
  BY DEF CustodyInv, InstInv
<1>2. ASSUME NEW q \in Procs \ {p}
      PROVE  Spares(q)
  <2>1. proc'[q] = proc[q]
    BY DEF Becomes, TypeOK
  <2> QED BY <2>1 DEF Spares
<1> QED BY <1>1, <1>2

-----------------------------------------------------------------------------
(* What the acting process must satisfy, by where it goes.                 *)

LEMMA EndedOwn ==
  ASSUME TypeOK, NEW p \in Procs, Becomes(p, Idle)
  PROVE  ProcInv(p)'
<1>1. proc'[p] = Idle
  BY DEF Becomes, TypeOK
<1> QED
  BY <1>1 DEF ProcInv, RoleInv, ReadInv, DeleteInv, WorkInv, CarryInv, ToldInv, Working, At,
              Idle, Gone

\* Away from the record: nothing is decided, something may still be carried.
LEMMA CalmOwn ==
  ASSUME TypeOK, NEW p \in Procs, NEW r, Becomes(p, r),
         r.pc \in {"upRead", "create", "settle", "start", "provision", "reap",
                   "destroyRead", "rebuildRead"},
         OnlyUp(p) => r.carried = {} /\ r.pc \notin {"destroyRead", "rebuildRead", "reap"},
         r.pc = "reap" => r.cmd = "purge",
         r.pc = "destroyRead" => r.cmd # "rebuild",
         r.carried # {} => r.pc \in {"upRead", "create", "reap"} /\ ~deleting',
         r.seen.record = NoRecord => r.seen.devices = {}
  PROVE  ProcInv(p)'
<1>1. proc'[p] = r
  BY DEF Becomes, TypeOK
<1> QED
  BY <1>1 DEF ProcInv, RoleInv, ReadInv, DeleteInv, WorkInv, CarryInv, ToldInv, Working, At,
              OnlyUp

\* Where up works on the record it read.
LEMMA WorkOwn ==
  ASSUME TypeOK, NEW p \in Procs, NEW r, Becomes(p, r),
         r.pc \in {"ensure", "prune", "write"},
         OnlyUp(p) => r.carried = {},
         r.pc # "ensure" => r.seen.exists,
         r.seen.record = NoRecord => r.seen.devices = {},
         r.seen.exists =>
           /\ r.carried \cap pool' \subseteq r.decl \cup Listed(r.work)
           /\ r.carried = {} => Listed(r.work) \subseteq Listed(r.seen.record) \cup devyml',
         r.carried # {} => ~deleting',
         r.carried # {} /\ r.seen.exists =>
           inst'.exists /\ Listed(r.seen.record) \cap pool' \subseteq Listed(inst'.record) \cup devyml',
         r.pc = "write" /\ p \in current' /\ r.seen.record = NoRecord =>
           r.seen.attached \cap pool' \subseteq devyml' \cup told'
  PROVE  ProcInv(p)'
<1>1. proc'[p] = r
  BY DEF Becomes, TypeOK
<1>2. /\ Listed(proc[p].work)' = Listed(r.work)
      /\ Listed(proc[p].seen.record)' = Listed(r.seen.record)
      /\ Listed(inst.record)' = Listed(inst'.record)
  BY <1>1 DEF Listed
<1>3. RoleInv(p)' /\ ReadInv(p)' /\ DeleteInv(p)' /\ ToldInv(p)'
  BY <1>1 DEF RoleInv, ReadInv, DeleteInv, ToldInv, At, OnlyUp
<1>4. WorkInv(p)' /\ CarryInv(p)'
  BY <1>1, <1>2 DEF WorkInv, CarryInv, Working
<1> QED BY <1>3, <1>4 DEF ProcInv

\* On the way to the delete.
LEMMA DeleteOwn ==
  ASSUME TypeOK, NEW p \in Procs, NEW r, Becomes(p, r), ~OnlyUp(p),
         r.pc \in {"stop", "delete"},
         r.seen.record = NoRecord => r.seen.devices = {},
         inst'.exists => Recorded(inst', {}) \subseteq r.todo \cup devyml',
         r.cmd = "rebuild" => r.carried = r.todo
  PROVE  ProcInv(p)'
<1>1. proc'[p] = r
  BY DEF Becomes, TypeOK
<1>2. Recorded(inst, {})' = Recorded(inst', {})
  BY DEF Recorded
<1> QED
  BY <1>1, <1>2 DEF ProcInv, RoleInv, ReadInv, DeleteInv, WorkInv, CarryInv, ToldInv, Working,
                    At, OnlyUp

\* Where p is tells what the invariant says of it.
LEMMA OwnFacts ==
  ASSUME TypeOK, CustodyInv, KeepInv, NEW p \in Procs
  PROVE  /\ RoleInv(p) /\ ReadInv(p) /\ DeleteInv(p) /\ WorkInv(p) /\ CarryInv(p) /\ ToldInv(p)
         /\ ~At(p, "idle") => proc[p].decl = devyml
         /\ At(p, "ensure") => proc[p].todo \subseteq devyml
         /\ proc[p] \in Processes /\ inst \in Instances
BY DEF CustodyInv, ProcInv, KeepInv, TypeOK, At

\* The write of reapplyInstance, seen by the others: the record keeps what is on
\* the pool, and an up that carries nothing adds the declaration only.
LEMMA WriteSpares ==
  ASSUME OneDeletes, TypeOK, CoherentInv, KeepInv, CustodyInv, NEW p \in Procs, NEW r,
         WriteLands(p), Becomes(p, r), UNCHANGED <<pool, deleting, devyml>>
  PROVE  InstInv' /\ \A q \in Procs \ {p} : Spares(q)
<1>0. /\ RoleInv(p) /\ ReadInv(p) /\ WorkInv(p)
      /\ proc[p] \in Processes /\ inst \in Instances
  BY OwnFacts
<1>1. /\ inst'.record = Known(p) /\ inst'.exists = inst.exists /\ current' = {} /\ ~deleting
      /\ At(p, "write") /\ proc[p].seen = inst
  BY <1>0 DEF WriteLands, InstBecomes, Reapplied, Instances, CoherentInv, CoherentReading
<1>2. Known(p) \in SUBSET Volumes
  BY MutatedInstances
<1>3. Known(p) # NoRecord /\ Listed(Known(p)) = Known(p) /\ Recorded(inst', {}) = Known(p)
  BY <1>1, <1>2, NoRecordIsNoSet DEF Listed, Recorded
<1>4. Listed(inst.record) \cap pool \subseteq Listed(inst'.record)
  BY WriteKeeps
<1>5. InstInv'
  BY <1>1, <1>3 DEF InstInv
<1>6. Listed(inst.record) \subseteq Recorded(inst, {})
  BY <1>0, NoRecordIsNoSet DEF Listed, Recorded
<1>7. proc[p].decl = devyml /\ Working(p) /\ proc[p].seen.exists
  BY <1>0, <1>1 DEF KeepInv, Working, At, ReadInv
<1>8. proc[p].carried = {} => Known(p) \subseteq devyml \cup Recorded(inst, {})
  BY <1>0, <1>1, <1>6, <1>7 DEF Known, WorkInv
<1>9. ASSUME NEW q \in Procs \ {p}
      PROVE  Spares(q)
  <2>1. proc'[q] = proc[q]
    BY DEF Becomes, TypeOK
  <2>2. ~OnlyUp(q) => OnlyUp(p)
    BY DEF OneDeletes
  <2>3. ~OnlyUp(q) => Recorded(inst', {}) \subseteq Recorded(inst, {}) \cup devyml
    BY <1>0, <1>3, <1>8, <2>2 DEF RoleInv
  <2> QED BY <1>1, <1>4, <1>7, <2>1, <2>3 DEF Spares
<1> QED BY <1>5, <1>9

\* A new instance, seen by the others: with nothing carried its record is the
\* declaration.
LEMMA CreateSpares ==
  ASSUME OneDeletes, TypeOK, KeepInv, CustodyInv, NEW p \in Procs, NEW r, At(p, "create"),
         ~inst.exists, InstBecomes(Created(p)), Becomes(p, r), UNCHANGED <<pool, deleting, devyml>>
  PROVE  InstInv' /\ \A q \in Procs \ {p} : Spares(q)
<1>0. RoleInv(p) /\ proc[p] \in Processes
  BY OwnFacts
<1>1. /\ inst'.record = proc[p].decl \cup proc[p].carried /\ inst'.exists /\ current' = {}
      /\ ~deleting /\ proc[p].decl = devyml
  BY DEF InstBecomes, Created, CustodyInv, InstInv, KeepInv, At
<1>2. inst'.record \in SUBSET Volumes
  BY <1>0, <1>1 DEF Processes
<1>3. inst'.record # NoRecord /\ Recorded(inst', {}) = inst'.record
  BY <1>2, NoRecordIsNoSet DEF Recorded
<1>4. InstInv'
  BY <1>1, <1>3 DEF InstInv
<1>5. ASSUME NEW q \in Procs \ {p}
      PROVE  Spares(q)
  <2>1. proc'[q] = proc[q]
    BY DEF Becomes, TypeOK
  <2>2. ~OnlyUp(q) => proc[p].carried = {}
    BY <1>0 DEF OneDeletes, RoleInv
  <2> QED BY <1>1, <1>3, <2>1, <2>2 DEF Spares
<1> QED BY <1>4, <1>5

\* Started or stopped, the instance is otherwise the same.
LEMMA RunningSpares ==
  ASSUME TypeOK, CustodyInv, NEW p \in Procs, NEW r, NEW b, Becomes(p, r),
         InstBecomes([inst EXCEPT !.running = b]), UNCHANGED <<pool, deleting, devyml, told>>
  PROVE  /\ InstInv' /\ \A q \in Procs \ {p} : Spares(q)
         /\ inst'.exists = inst.exists /\ inst'.record = inst.record
         /\ Recorded(inst', {}) = Recorded(inst, {})
<1>1. /\ inst'.record = inst.record /\ inst'.exists = inst.exists /\ current' = {}
      /\ inst'.devices = inst.devices /\ inst'.attached = inst.attached
  BY DEF InstBecomes, TypeOK, Instances
<1>2. Recorded(inst', {}) = Recorded(inst, {})
  BY <1>1 DEF Recorded
<1>3. InstInv'
  BY <1>1 DEF CustodyInv, InstInv
<1>4. ASSUME NEW q \in Procs \ {p}
      PROVE  Spares(q)
  <2>1. proc'[q] = proc[q]
    BY DEF Becomes, TypeOK
  <2> QED BY <1>1, <1>2, <2>1 DEF Spares
<1> QED BY <1>1, <1>2, <1>3, <1>4

-----------------------------------------------------------------------------
(* The invariant is kept.                                                  *)

LEMMA CustodyUp ==
  ASSUME OneDeletes, TypeOK, CoherentInv, CustodyInv, KeepInv, NEW p \in Procs, Up(p)
  PROVE  CustodyInv'
<1> USE DEF daemon
<1>0. /\ RoleInv(p) /\ ReadInv(p) /\ DeleteInv(p) /\ WorkInv(p) /\ CarryInv(p) /\ ToldInv(p)
      /\ ~At(p, "idle") => proc[p].decl = devyml
      /\ At(p, "ensure") => proc[p].todo \subseteq devyml
      /\ proc[p] \in Processes /\ inst \in Instances
  BY OwnFacts
<1>1. CASE UpFails(p)
  <2>1. Becomes(p, Idle) /\ UNCHANGED <<inst, deleting, devyml, pool>>
        /\ current' \subseteq current \cup {p} /\ told \subseteq told'
    BY <1>1 DEF UpFails, Ends, SaysLost, Tell
  <2> QED BY <2>1, EndedOwn, QuietSpares, ActorHolds
<1>2. CASE UpRead(p) /\ ~UpFails(p)
  <2> DEFINE C == IF inst.exists THEN proc[p].carried ELSE {}
             r == [proc[p] EXCEPT !.pc = "ensure", !.seen = inst,
                                  !.work = Adopted(inst.record, proc[p].decl, C),
                                  !.todo = proc[p].decl]
  <2>1. /\ Becomes(p, r) /\ At(p, "upRead") /\ UNCHANGED <<inst, deleting, devyml, pool, told>>
        /\ current' \subseteq current \cup {p}
    BY <1>2 DEF UpRead
  <2>2. /\ r.pc = "ensure" /\ r.decl = proc[p].decl /\ r.todo = proc[p].decl
        /\ r.seen = inst /\ r.work = Adopted(inst.record, proc[p].decl, C)
        /\ r.carried = proc[p].carried
    BY <1>0 DEF Processes
  <2> HIDE DEF r
  <2>3. proc[p].decl = devyml
    BY <1>0, <2>1 DEF At
  <2>4. ASSUME inst.exists
        PROVE  /\ proc[p].carried \subseteq proc[p].decl \cup Listed(r.work)
               /\ proc[p].carried = {} => Listed(r.work) = Listed(inst.record)
    <3>1. r.work = Adopted(inst.record, proc[p].decl, proc[p].carried)
      BY <2>2, <2>4
    <3>2. CASE proc[p].carried = {}
      BY <3>1, <3>2 DEF Adopted
    <3>3. CASE proc[p].carried # {}
      <4>1. r.work = proc[p].decl \cup Listed(inst.record) \cup proc[p].carried
        BY <3>1, <3>3 DEF Adopted
      <4>2. r.work \in SUBSET Volumes
        BY <1>0, <4>1, ListedVolumes DEF Processes, Instances
      <4>3. Listed(r.work) = r.work
        BY <4>2, NoRecordIsNoSet DEF Listed
      <4> QED BY <3>3, <4>1, <4>3
    <3> QED BY <3>2, <3>3
  <2>5. ProcInv(p)'
    <3>1. r.carried # {} => ~deleting'
      BY <1>0, <2>1, <2>2 DEF CarryInv, At
    <3>2. r.seen.record = NoRecord => r.seen.devices = {}
      BY <2>2 DEF CustodyInv, InstInv
    <3>3. OnlyUp(p) => r.carried = {}
      BY <1>0, <2>2 DEF RoleInv
    <3>4. inst'.exists = inst.exists /\ inst'.record = inst.record
      BY <2>1
    <3> QED BY <2>1, <2>2, <2>4, <3>1, <3>2, <3>3, <3>4, WorkOwn
  <2> QED BY <2>1, <2>5, QuietSpares, ActorHolds
<1>3. CASE EnsureVolume(p)
  <2>1. PICK v \in proc[p].todo :
          /\ pool' = pool \cup {v}
          /\ Becomes(p, [proc[p] EXCEPT !.todo = @ \ {v}])
    BY <1>3 DEF EnsureVolume
  <2> DEFINE r == [proc[p] EXCEPT !.todo = @ \ {v}]
  <2>2. At(p, "ensure") /\ UNCHANGED <<inst, deleting, devyml, current, told>>
    BY <1>3 DEF EnsureVolume
  <2>3. v \in devyml /\ proc[p].decl = devyml
    BY <1>0, <2>1, <2>2 DEF At
  <2>4. /\ r.pc = "ensure" /\ r.decl = proc[p].decl /\ r.seen = proc[p].seen
        /\ r.work = proc[p].work /\ r.carried = proc[p].carried
    BY <1>0, <2>2 DEF Processes, At
  <2>5. Becomes(p, r)
    BY <2>1
  <2> HIDE DEF r
  <2>6. ProcInv(p)'
    <3>1. Working(p)
      BY <2>2 DEF Working, At
    <3>2. pool' \subseteq pool \cup devyml
      BY <2>1, <2>3
    <3>3. OnlyUp(p) => r.carried = {}
      BY <1>0, <2>4 DEF RoleInv
    <3>4. r.seen.record = NoRecord => r.seen.devices = {}
      BY <1>0, <2>4 DEF ReadInv
    <3>5. r.seen.exists =>
            /\ r.carried \cap pool' \subseteq r.decl \cup Listed(r.work)
            /\ r.carried = {} => Listed(r.work) \subseteq Listed(r.seen.record) \cup devyml'
      BY <1>0, <2>2, <2>3, <2>4, <3>1, <3>2 DEF WorkInv
    <3>6. /\ r.carried # {} => ~deleting'
          /\ r.carried # {} /\ r.seen.exists =>
               inst'.exists /\ Listed(r.seen.record) \cap pool' \subseteq Listed(inst'.record) \cup devyml'
      BY <1>0, <2>2, <2>4, <3>1, <3>2 DEF CarryInv, At
    <3> QED BY <2>4, <2>5, <3>3, <3>4, <3>5, <3>6, WorkOwn
  <2> QED BY <2>1, <2>2, <2>3, <2>5, <2>6, QuietSpares, ActorHolds
<1>4. CASE VolumesEnsured(p)
  <2> DEFINE a == [proc[p] EXCEPT !.pc = "prune",
                                  !.todo = Listed(proc[p].work) \ proc[p].decl]
             b == [proc[p] EXCEPT !.pc = "create"]
  <2>1. /\ a.pc = "prune" /\ a.seen = proc[p].seen /\ a.work = proc[p].work
        /\ a.decl = proc[p].decl /\ a.carried = proc[p].carried
        /\ b.pc = "create" /\ b.seen = proc[p].seen /\ b.carried = proc[p].carried
    BY <1>0 DEF Processes
  <2>2. /\ \/ proc[p].seen.exists /\ Becomes(p, a)
           \/ ~proc[p].seen.exists /\ Becomes(p, b)
        /\ At(p, "ensure") /\ UNCHANGED <<inst, deleting, devyml, pool, current, told>>
    BY <1>4 DEF VolumesEnsured
  <2> HIDE DEF a, b
  <2>3. Working(p)
    BY <2>2 DEF Working, At
  <2>4. CASE proc[p].seen.exists /\ Becomes(p, a)
    <3>1. ProcInv(p)'
      BY <1>0, <2>1, <2>2, <2>3, <2>4, WorkOwn DEF RoleInv, ReadInv, WorkInv, CarryInv, At
    <3> QED BY <2>2, <2>4, <3>1, QuietSpares, ActorHolds
  <2>5. CASE Becomes(p, b)
    <3>1. ProcInv(p)'
      BY <1>0, <2>1, <2>2, <2>5, CalmOwn DEF RoleInv, ReadInv, CarryInv, At
    <3> QED BY <2>2, <2>5, <3>1, QuietSpares, ActorHolds
  <2> QED BY <2>2, <2>4, <2>5
<1>5. CASE PruneEntry(p)
  <2> DEFINE a(v) == [proc[p] EXCEPT !.todo = @ \ {v}]
             b(v) == [proc[p] EXCEPT !.todo = @ \ {v}, !.work = Listed(@) \ {v}]
  <2>1. PICK v \in proc[p].todo : Becomes(p, a(v)) \/ (v \notin pool /\ Becomes(p, b(v)))
    BY <1>5 DEF PruneEntry
  <2>2. At(p, "prune") /\ UNCHANGED <<inst, deleting, devyml, pool, current, told>>
    BY <1>5 DEF PruneEntry
  <2>3. /\ a(v).pc = "prune" /\ a(v).seen = proc[p].seen /\ a(v).work = proc[p].work
        /\ a(v).decl = proc[p].decl /\ a(v).carried = proc[p].carried
        /\ b(v).pc = "prune" /\ b(v).seen = proc[p].seen
        /\ b(v).work = Listed(proc[p].work) \ {v}
        /\ b(v).decl = proc[p].decl /\ b(v).carried = proc[p].carried
    BY <1>0, <2>2 DEF Processes, At
  <2> HIDE DEF a, b
  <2>4. Listed(Listed(proc[p].work) \ {v}) = Listed(proc[p].work) \ {v}
    BY <1>0, ListedVolumes, NoRecordIsNoSet DEF Processes, Listed
  <2>5. Working(p) /\ proc[p].seen.exists
    BY <1>0, <2>2 DEF Working, At, ReadInv
  <2>6. CASE Becomes(p, a(v))
    <3>1. ProcInv(p)'
      BY <1>0, <2>2, <2>3, <2>5, <2>6, WorkOwn DEF RoleInv, ReadInv, WorkInv, CarryInv, At
    <3> QED BY <2>2, <2>6, <3>1, QuietSpares, ActorHolds
  <2>7. CASE v \notin pool /\ Becomes(p, b(v))
    <3>1. /\ proc[p].carried \cap pool \subseteq proc[p].decl \cup Listed(b(v).work)
          /\ proc[p].carried = {} => Listed(b(v).work) \subseteq Listed(proc[p].seen.record) \cup devyml
      BY <1>0, <2>3, <2>4, <2>5, <2>7 DEF WorkInv
    <3>2. ProcInv(p)'
      BY <1>0, <2>2, <2>3, <2>5, <2>7, <3>1, WorkOwn DEF RoleInv, ReadInv, CarryInv, At
    <3> QED BY <2>2, <2>7, <3>2, QuietSpares, ActorHolds
  <2> QED BY <2>1, <2>6, <2>7
<1>6. CASE Pruned(p)
  <2> DEFINE r == [proc[p] EXCEPT !.pc = "write"]
  <2>1. /\ Becomes(p, r) /\ At(p, "prune") /\ UNCHANGED <<inst, deleting, devyml, pool, current>>
        /\ Tell(IF proc[p].seen.record = NoRecord /\ proc[p].seen.devices = {}
                  THEN proc[p].seen.attached \ proc[p].decl ELSE {})
    BY <1>6 DEF Pruned, Moves
  <2>2. /\ r.pc = "write" /\ r.seen = proc[p].seen /\ r.work = proc[p].work
        /\ r.decl = proc[p].decl /\ r.carried = proc[p].carried
    BY <1>0 DEF Processes
  <2> HIDE DEF r
  <2>3. Working(p) /\ proc[p].seen.exists
    BY <1>0, <2>1 DEF Working, At, ReadInv
  <2>4. told \subseteq told'
    BY <2>1 DEF Tell
  <2>5. proc[p].seen.record = NoRecord => proc[p].seen.attached \subseteq devyml \cup told'
    BY <1>0, <2>1 DEF Tell, ReadInv, At
  <2>6. ProcInv(p)'
    BY <1>0, <2>1, <2>2, <2>3, <2>5, WorkOwn DEF RoleInv, ReadInv, WorkInv, CarryInv, At
  <2> QED BY <2>1, <2>4, <2>6, QuietSpares, ActorHolds
<1>7. CASE SkipWrite(p) \/ Write(p)
  <2> DEFINE r == [Stored(p) EXCEPT !.pc = "settle"]
  <2>1. Becomes(p, r) /\ At(p, "write") /\ UNCHANGED <<pool, deleting, devyml>>
    BY <1>7 DEF SkipWrite, Write, WriteLands
  <2>2. r.pc = "settle" /\ r.carried = {} /\ r.seen = proc[p].seen
    BY <1>0 DEF Stored, Processes
  <2> HIDE DEF r
  <2>3. ProcInv(p)'
    BY <1>0, <2>1, <2>2, CalmOwn DEF ReadInv
  <2>4. CASE SkipWrite(p)
    BY <2>1, <2>3, <2>4, QuietSpares, ActorHolds DEF SkipWrite
  <2>5. CASE Write(p)
    BY <2>1, <2>3, <2>5, WriteSpares, ActorHolds DEF Write
  <2> QED BY <1>7, <2>4, <2>5
<1>8. CASE WriteInterrupted(p)
  <2>1. ProcInv(p)'
    BY <1>8, EndedOwn DEF WriteInterrupted
  <2> QED BY <1>8, <2>1, WriteSpares, ActorHolds DEF WriteInterrupted
<1>9. CASE Create(p)
  <2> DEFINE r == [Stored(p) EXCEPT !.pc = "start"]
  <2>1. Becomes(p, r) /\ UNCHANGED <<pool, deleting, devyml>>
    BY <1>9 DEF Create
  <2>2. r.pc = "start" /\ r.carried = {} /\ r.seen = proc[p].seen
    BY <1>0 DEF Stored, Processes
  <2> HIDE DEF r
  <2>3. ProcInv(p)'
    BY <1>0, <2>1, <2>2, CalmOwn DEF ReadInv
  <2> QED BY <1>9, <2>1, <2>3, CreateSpares, ActorHolds DEF Create
<1>10. CASE CreateInterrupted(p)
  <2>1. ProcInv(p)'
    BY <1>10, EndedOwn DEF CreateInterrupted
  <2> QED BY <1>10, <2>1, CreateSpares, ActorHolds DEF CreateInterrupted
<1>11. CASE SettleRestart(p) \/ EnsureRunning(p)
  <2>1. PICK pc \in {"start", "provision"} : Becomes(p, [proc[p] EXCEPT !.pc = pc])
    BY <1>11 DEF SettleRestart, EnsureRunning, Moves
  <2> DEFINE r == [proc[p] EXCEPT !.pc = pc]
  <2>2. r.pc = pc /\ r.carried = proc[p].carried /\ r.seen = proc[p].seen
    BY <1>0 DEF Processes
  <2>3. Becomes(p, r) /\ proc[p].carried = {}
    BY <1>0, <1>11, <2>1 DEF SettleRestart, EnsureRunning, At, RoleInv
  <2> HIDE DEF r
  <2>4. ProcInv(p)'
    BY <1>0, <2>2, <2>3, CalmOwn DEF ReadInv
  <2>5. CASE UNCHANGED inst
    <3>1. UNCHANGED <<deleting, devyml, pool, told>> /\ current' \subseteq current \cup {p}
      BY <1>11, <2>5 DEF SettleRestart, EnsureRunning, InstBecomes
    <3> QED BY <2>3, <2>4, <2>5, <3>1, QuietSpares, ActorHolds
  <2>6. CASE ~UNCHANGED inst
    <3>1. /\ InstBecomes([inst EXCEPT !.running = TRUE])
          /\ UNCHANGED <<pool, deleting, devyml, told>>
      BY <1>11, <2>6 DEF SettleRestart, EnsureRunning
    <3> QED BY <2>3, <2>4, <3>1, RunningSpares, ActorHolds
  <2> QED BY <2>5, <2>6
<1>12. CASE Provision(p)
  <2>1. /\ Becomes(p, Idle) /\ UNCHANGED <<inst, deleting, devyml, pool, told>>
        /\ current' \subseteq current \cup {p}
    BY <1>12 DEF Provision, Ends
  <2> QED BY <2>1, EndedOwn, QuietSpares, ActorHolds
<1> QED
  BY <1>1, <1>2, <1>3, <1>4, <1>5, <1>6, <1>7, <1>8, <1>9, <1>10, <1>11, <1>12
  DEF Up, UpStepFails

LEMMA CustodyDestroy ==
  ASSUME OneDeletes, TypeOK, CustodyInv, KeepInv, NEW p \in Procs, Destroy(p)
  PROVE  CustodyInv'
<1> USE DEF daemon
<1>0. /\ RoleInv(p) /\ ReadInv(p) /\ DeleteInv(p) /\ WorkInv(p) /\ CarryInv(p) /\ ToldInv(p)
      /\ ~At(p, "idle") => proc[p].decl = devyml
      /\ proc[p] \in Processes /\ inst \in Instances
  BY OwnFacts
<1>a. ~OnlyUp(p) /\ \A q \in Procs \ {p} : OnlyUp(q)
  <2>1. proc[p].pc \in {"destroyRead", "rebuildRead", "stop", "delete", "reap"}
    BY DEF Destroy, DestroyRead, RebuildRead, StopForDelete, Delete, DeleteInterrupted,
           DeleteRefused, ReapVolume, ReapFails, Reaped, At
  <2> QED BY <1>0, <2>1 DEF RoleInv, OneDeletes
<1>1. CASE DestroyFails(p)
  <2>1. Becomes(p, Idle) /\ UNCHANGED <<inst, deleting, devyml, pool>>
        /\ current' \subseteq current \cup {p} /\ told \subseteq told'
    BY <1>1 DEF DestroyFails, Ends, Tell
  <2> QED BY <2>1, EndedOwn, QuietSpares, ActorHolds
<1>2. CASE DestroyRead(p) /\ ~DestroyFails(p)
  <2> DEFINE r == [proc[p] EXCEPT !.pc = "stop", !.seen = inst,
                                  !.todo = Recorded(inst, proc[p].decl)]
  <2>1. /\ Becomes(p, r) /\ At(p, "destroyRead")
        /\ UNCHANGED <<inst, deleting, devyml, pool, current, told>>
    BY <1>2 DEF DestroyRead
  <2>2. /\ r.pc = "stop" /\ r.seen = inst /\ r.todo = Recorded(inst, proc[p].decl)
        /\ r.cmd # "rebuild"
    BY <1>0, <2>1 DEF Processes, RoleInv, At
  <2> HIDE DEF r
  <2>3. Recorded(inst, {}) \subseteq Recorded(inst, proc[p].decl)
    BY DEF Recorded
  <2>4. Recorded(inst', {}) = Recorded(inst, {})
    BY <2>1
  <2>5. r.seen.record = NoRecord => r.seen.devices = {}
    BY <2>2 DEF CustodyInv, InstInv
  <2>6. ProcInv(p)'
    BY <1>a, <2>1, <2>2, <2>3, <2>4, <2>5, DeleteOwn
  <2> QED BY <2>1, <2>6, QuietSpares, ActorHolds
<1>3. CASE RebuildRead(p) /\ ~DestroyFails(p)
  <2> DEFINE R == Recorded(inst, proc[p].decl)
             a == [proc[p] EXCEPT !.pc = "stop", !.seen = inst, !.carried = R, !.todo = R]
             b == [proc[p] EXCEPT !.pc = "upRead"]
  <2>1. /\ Becomes(p, a) \/ Becomes(p, b)
        /\ At(p, "rebuildRead") /\ UNCHANGED <<inst, deleting, devyml, pool, current, told>>
    BY <1>3 DEF RebuildRead, Moves
  <2>2. /\ a.pc = "stop" /\ a.seen = inst /\ a.todo = R /\ a.carried = R
        /\ b.pc = "upRead" /\ b.carried = {} /\ b.seen = proc[p].seen
    BY <1>0, <2>1 DEF Processes, RoleInv, At
  <2> HIDE DEF a, b
  <2>3. Recorded(inst, {}) \subseteq R
    BY DEF Recorded
  <2>4. Recorded(inst', {}) = Recorded(inst, {})
    BY <2>1
  <2>5. a.seen.record = NoRecord => a.seen.devices = {}
    BY <2>2 DEF CustodyInv, InstInv
  <2>6. CASE Becomes(p, a)
    <3>1. ProcInv(p)'
      BY <1>a, <2>2, <2>3, <2>4, <2>5, <2>6, DeleteOwn
    <3> QED BY <2>1, <2>6, <3>1, QuietSpares, ActorHolds
  <2>7. CASE Becomes(p, b)
    <3>1. ProcInv(p)'
      BY <1>0, <2>2, <2>7, CalmOwn DEF ReadInv
    <3> QED BY <2>1, <2>7, <3>1, QuietSpares, ActorHolds
  <2> QED BY <2>1, <2>6, <2>7
<1>4. CASE StopForDelete(p) /\ ~DestroyFails(p)
  <2> DEFINE r == [proc[p] EXCEPT !.pc = "delete"]
  <2>1. /\ Becomes(p, r) /\ At(p, "stop") /\ UNCHANGED <<deleting, devyml, pool, told>>
        /\ \/ UNCHANGED <<inst, current>>
           \/ InstBecomes([inst EXCEPT !.running = FALSE])
    BY <1>4 DEF StopForDelete, Moves
  <2>2. /\ r.pc = "delete" /\ r.seen = proc[p].seen /\ r.todo = proc[p].todo
        /\ r.carried = proc[p].carried /\ r.cmd = proc[p].cmd
    BY <1>0 DEF Processes
  <2> HIDE DEF r
  <2>3. /\ inst.exists => Recorded(inst, {}) \subseteq proc[p].todo \cup devyml
        /\ proc[p].cmd = "rebuild" => proc[p].carried = proc[p].todo
    BY <1>0, <2>1 DEF DeleteInv, At
  <2>4. CASE UNCHANGED <<inst, current>>
    <3>1. Recorded(inst', {}) = Recorded(inst, {})
      BY <2>4
    <3>2. ProcInv(p)'
      BY <1>0, <1>a, <2>1, <2>2, <2>3, <2>4, <3>1, DeleteOwn DEF ReadInv
    <3> QED BY <2>1, <2>4, <3>2, QuietSpares, ActorHolds
  <2>5. CASE InstBecomes([inst EXCEPT !.running = FALSE])
    <3>1. /\ InstInv' /\ \A q \in Procs \ {p} : Spares(q)
          /\ inst'.exists = inst.exists /\ Recorded(inst', {}) = Recorded(inst, {})
      BY <2>1, <2>5, RunningSpares
    <3>2. ProcInv(p)'
      BY <1>0, <1>a, <2>1, <2>2, <2>3, <3>1, DeleteOwn DEF ReadInv
    <3> QED BY <3>1, <3>2, ActorHolds
  <2> QED BY <2>1, <2>4, <2>5
<1>5. CASE Delete(p)
  <2> DEFINE a == [proc[p] EXCEPT !.pc = "reap"]
             b == [proc[p] EXCEPT !.pc = "upRead", !.todo = {}]
  <2>1. /\ inst' = Gone /\ ~deleting' /\ current' = {} /\ ~deleting
        /\ \/ proc[p].cmd = "purge" /\ Becomes(p, a)
           \/ Becomes(p, b)
           \/ Becomes(p, Idle)
        /\ UNCHANGED <<pool, devyml>>
    BY <1>5 DEF Delete, Moves, InstGone
  <2>2. /\ a.pc = "reap" /\ a.cmd = proc[p].cmd /\ a.carried = proc[p].carried
        /\ a.seen = proc[p].seen /\ b.pc = "upRead" /\ b.seen = proc[p].seen
        /\ b.carried = proc[p].carried
    BY <1>0 DEF Processes
  <2> HIDE DEF a, b
  <2>3. InstInv'
    BY <2>1 DEF InstInv, Gone
  <2>4. ASSUME NEW q \in Procs \ {p}
        PROVE  Spares(q)
    <3>1. proc'[q] = proc[q]
      BY <2>1 DEF Becomes, TypeOK
    <3> QED BY <1>a, <2>1, <3>1 DEF Spares
  <2>5. ProcInv(p)'
    <3>1. CASE proc[p].cmd = "purge" /\ Becomes(p, a)
      BY <1>0, <1>a, <2>1, <2>2, <3>1, CalmOwn DEF ReadInv
    <3>2. CASE Becomes(p, b)
      BY <1>0, <1>a, <2>1, <2>2, <3>2, CalmOwn DEF ReadInv
    <3>3. CASE Becomes(p, Idle)
      BY <3>3, EndedOwn
    <3> QED BY <2>1, <3>1, <3>2, <3>3
  <2> QED BY <2>3, <2>4, <2>5, ActorHolds
<1>6. CASE DeleteInterrupted(p)
  <2>1. /\ Becomes(p, Idle) /\ inst.exists /\ UNCHANGED <<inst, pool, devyml>>
        /\ current' \subseteq current /\ told \subseteq told'
    BY <1>6 DEF DeleteInterrupted, Deletable, Ends, Tell
  <2>2. InstInv'
    BY <2>1 DEF CustodyInv, InstInv
  <2>3. ASSUME NEW q \in Procs \ {p}
        PROVE  Spares(q)
    <3>1. proc'[q] = proc[q]
      BY <2>1 DEF Becomes, TypeOK
    <3> QED BY <1>a, <2>1, <3>1 DEF Spares
  <2> QED BY <2>1, <2>2, <2>3, EndedOwn, ActorHolds
<1>7. CASE ReapVolume(p)
  <2>1. PICK v \in proc[p].todo :
          /\ pool' = pool \ {v}
          /\ Becomes(p, [proc[p] EXCEPT !.todo = @ \ {v}])
          /\ told' = told \ {v}
    BY <1>7 DEF ReapVolume, Recording
  <2> DEFINE r == [proc[p] EXCEPT !.todo = @ \ {v}]
  <2>2. At(p, "reap") /\ UNCHANGED <<inst, deleting, devyml, current>> /\ Becomes(p, r)
    BY <1>7, <2>1 DEF ReapVolume
  <2>3. /\ r.pc = "reap" /\ r.cmd = proc[p].cmd /\ r.carried = proc[p].carried
        /\ r.seen = proc[p].seen
    BY <1>0, <2>2 DEF Processes, At
  <2> HIDE DEF r
  <2>4. ProcInv(p)'
    BY <1>0, <1>a, <2>2, <2>3, CalmOwn DEF RoleInv, ReadInv, CarryInv, At
  <2> QED BY <2>1, <2>2, <2>4, QuietSpares, ActorHolds
<1>8. CASE Reaped(p)
  <2>1. /\ Becomes(p, Idle) /\ UNCHANGED <<inst, deleting, devyml, pool, told>>
        /\ current' \subseteq current \cup {p}
    BY <1>8 DEF Reaped, Ends
  <2> QED BY <2>1, EndedOwn, QuietSpares, ActorHolds
<1> QED
  BY <1>1, <1>2, <1>3, <1>4, <1>5, <1>6, <1>7, <1>8
  DEF Destroy, DeleteRefused, ReapFails

\* The user and the daemon, who edit no record.
LEMMA CustodyEnvironment ==
  ASSUME "editAnytime" \notin Env, "snapshot" \notin Env,
         TypeOK, CustodyInv, KeepInv, Environment
  PROVE  CustodyInv'
<1> USE DEF daemon
<1>1. CASE EditConfig
  <2>1. /\ UNCHANGED <<inst, pool, snaps, deleting, proc, current, told>>
        /\ \A p \in Procs : At(p, "idle")
    BY <1>1 DEF EditConfig
  <2>2. InstInv'
    BY <2>1 DEF CustodyInv, InstInv
  <2>3. ASSUME NEW p \in Procs
        PROVE  ProcInv(p)'
    BY <2>1 DEF CustodyInv, ProcInv, RoleInv, ReadInv, DeleteInv, WorkInv, CarryInv, ToldInv,
                Working, At, OnlyUp
  <2> QED BY <2>2, <2>3 DEF CustodyInv
<1>2. CASE Environment /\ ~EditConfig
  <2>1. InstInv' /\ UNCHANGED <<proc, devyml>>
    <3>1. CASE DaemonFinishesDelete
      BY <3>1 DEF DaemonFinishesDelete, InstGone, Gone, CustodyInv, InstInv
    <3>2. CASE HandDelete \/ TakeSnapshot
      BY <3>2 DEF HandDelete, TakeSnapshot, CustodyInv, InstInv
    <3>3. CASE Toggle
      BY <3>3 DEF Toggle, InstBecomes, TypeOK, Instances, CustodyInv, InstInv
    <3> QED BY <1>2, <3>1, <3>2, <3>3 DEF Environment, RestoreSnapshot
  <2>2. ASSUME NEW q \in Procs
        PROVE  Spares(q)
    <3>1. CASE DaemonFinishesDelete
      BY <2>1, <3>1 DEF DaemonFinishesDelete, InstGone, Gone, Spares
    <3>2. CASE HandDelete
      BY <2>1, <3>2 DEF HandDelete, Recording, Spares
    <3>3. CASE TakeSnapshot
      BY <2>1, <3>3 DEF TakeSnapshot, Spares
    <3>4. CASE Toggle
      <4>1. /\ inst'.exists = inst.exists /\ inst'.record = inst.record
            /\ inst'.attached = inst.attached /\ current' = {}
            /\ UNCHANGED <<pool, deleting>>
        BY <3>4 DEF Toggle, InstBecomes, TypeOK, Instances
      <4>2. Recorded(inst', {}) = Recorded(inst, {})
        BY <4>1 DEF Recorded
      <4> QED BY <2>1, <4>1, <4>2 DEF Spares
    <3> QED BY <1>2, <3>1, <3>2, <3>3, <3>4 DEF Environment, RestoreSnapshot
  <2> QED BY <2>1, <2>2, SparedHolds DEF CustodyInv
<1> QED BY <1>1, <1>2

LEMMA CustodyInvariant ==
  ASSUME OneDeletes, "editAnytime" \notin Env, "snapshot" \notin Env
  PROVE  Spec => []CustodyInv
<1>1. Init => CustodyInv
  <2> SUFFICES ASSUME Init
               PROVE  CustodyInv
    OBVIOUS
  <2>1. InstInv
    BY DEF Init, InstInv, Gone, LegacyInstance
  <2>2. ASSUME NEW p \in Procs
        PROVE  ProcInv(p)
    BY DEF Init, ProcInv, RoleInv, ReadInv, DeleteInv, WorkInv, CarryInv, ToldInv, Working,
           At, Idle, Gone
  <2> QED BY <2>1, <2>2 DEF CustodyInv
<1>2. TypeOK /\ CoherentInv /\ KeepInv /\ CustodyInv /\ [Next]_vars => CustodyInv'
  <2> SUFFICES ASSUME TypeOK, CoherentInv, KeepInv, CustodyInv, [Next]_vars
               PROVE  CustodyInv'
    OBVIOUS
  <2>1. CASE UNCHANGED vars
    <3>1. ASSUME NEW q \in Procs PROVE Spares(q)
      BY <2>1 DEF vars, Spares
    <3>2. InstInv'
      BY <2>1 DEF vars, CustodyInv, InstInv
    <3> QED BY <3>1, <3>2, SparedHolds DEF CustodyInv
  <2>2. CASE Environment
    BY <2>2, CustodyEnvironment
  <2>3. ASSUME NEW p \in Procs, Start(p)
        PROVE  CustodyInv'
    <3>1. PICK c \in Commands[p] :
            Becomes(p, [Idle EXCEPT !.cmd = c, !.decl = devyml,
                                    !.pc = CASE c = "up" -> "upRead"
                                             [] c = "rebuild" -> "rebuildRead"
                                             [] OTHER -> "destroyRead"])
      BY <2>3 DEF Start
    <3> DEFINE r == [Idle EXCEPT !.cmd = c, !.decl = devyml,
                                 !.pc = CASE c = "up" -> "upRead"
                                          [] c = "rebuild" -> "rebuildRead"
                                          [] OTHER -> "destroyRead"]
    <3>2. /\ r.pc \in {"upRead", "rebuildRead", "destroyRead"} /\ r.carried = {}
          /\ OnlyUp(p) => r.pc = "upRead"
          /\ r.pc = "destroyRead" => r.cmd # "rebuild"
          /\ r.seen.record = NoRecord => r.seen.devices = {}
      BY DEF Idle, Gone, OnlyUp
    <3>3. Becomes(p, r) /\ UNCHANGED <<inst, pool, deleting, devyml, current, told>>
      BY <2>3, <3>1 DEF Start, daemon
    <3> HIDE DEF r
    <3>4. ProcInv(p)'
      BY <3>2, <3>3, CalmOwn
    <3> QED BY <3>3, <3>4, QuietSpares, ActorHolds
  <2>4. ASSUME NEW p \in Procs, Up(p) \/ Destroy(p)
        PROVE  CustodyInv'
    BY <2>4, CustodyUp, CustodyDestroy
  <2>5. ASSUME NEW p \in Procs, Interrupt(p)
        PROVE  CustodyInv'
    <3> DEFINE r == [proc[p] EXCEPT !.cut = TRUE]
    <3>1. /\ r.pc = proc[p].pc /\ r.decl = proc[p].decl /\ r.seen = proc[p].seen
          /\ r.work = proc[p].work /\ r.todo = proc[p].todo /\ r.carried = proc[p].carried
          /\ r.cmd = proc[p].cmd
      BY DEF TypeOK, Processes
    <3>2. Becomes(p, r) /\ UNCHANGED <<inst, pool, deleting, devyml, current, told>>
      BY <2>5 DEF Interrupt, daemon
    <3> HIDE DEF r
    <3>3. proc'[p] = r
      BY <3>2 DEF Becomes, TypeOK
    <3>4. /\ Listed(proc[p].work)' = Listed(proc[p].work)
          /\ Listed(proc[p].seen.record)' = Listed(proc[p].seen.record)
          /\ Listed(inst.record)' = Listed(inst.record)
          /\ Recorded(inst, {})' = Recorded(inst, {})
      BY <3>1, <3>2, <3>3 DEF Listed, Recorded
    <3>5. RoleInv(p) /\ ReadInv(p) /\ DeleteInv(p) /\ WorkInv(p) /\ CarryInv(p) /\ ToldInv(p)
      BY OwnFacts
    <3>6. ProcInv(p)'
      BY <3>1, <3>2, <3>3, <3>4, <3>5
      DEF ProcInv, RoleInv, ReadInv, DeleteInv, WorkInv, CarryInv, ToldInv, Working, At, OnlyUp
    <3> QED BY <3>2, <3>6, QuietSpares, ActorHolds
  <2>6. ASSUME NEW p \in Procs, Kill(p)
        PROVE  CustodyInv'
    <3>1. Becomes(p, Idle) /\ UNCHANGED <<inst, deleting, devyml, pool, told>>
          /\ current' \subseteq current \cup {p}
      BY <2>6 DEF Kill, Ends, daemon
    <3> QED BY <3>1, EndedOwn, QuietSpares, ActorHolds
  <2> QED BY <2>1, <2>2, <2>3, <2>4, <2>5, <2>6 DEF Next
<1>3. Spec => []CoherentInv
  BY CoherentStays
<1>4. Spec => []KeepInv
  BY KeepInvariant
<1> QED BY <1>1, <1>2, <1>3, <1>4, TypeCorrect, PTL DEF Spec

-----------------------------------------------------------------------------
(* Each step is one of VolumeCustody, or none.                             *)

\* Wherever a name is, it is kept.
LEMMA KeptNames ==
  /\ told \subseteq Kept
  /\ \A p \in Procs : InFlight(p) \subseteq Kept
  /\ inst.exists /\ ~deleting => Recorded(inst, {}) \subseteq Kept
BY DEF Kept

LEMMA KeptNext ==
  /\ told' \subseteq Kept'
  /\ \A p \in Procs : InFlight(p)' \subseteq Kept'
  /\ inst'.exists /\ ~deleting' => Recorded(inst', {}) \subseteq Kept'
<1>1. Recorded(inst, {})' = Recorded(inst', {})
  BY DEF Recorded
<1> QED BY <1>1 DEF Kept

\* A step of p takes no name away that is still needed if it takes away none of
\* those it touches: the messages, its own, and the instance's record.
LEMMA StepKeeps ==
  ASSUME TypeOK, NEW p \in Procs, NEW r, Becomes(p, r), devyml' = devyml,
         told \cap pool' \subseteq devyml \cup Kept',
         InFlight(p) \cap pool' \subseteq devyml \cup Kept',
         inst.exists /\ ~deleting => Recorded(inst, {}) \cap pool' \subseteq devyml \cup Kept'
  PROVE  Custody!Keeps
<1>1. ASSUME NEW q \in Procs \ {p}
      PROVE  InFlight(q) \subseteq Kept'
  <2>1. proc'[q] = proc[q]
    BY DEF Becomes, TypeOK
  <2>2. InFlight(q)' = InFlight(q)
    BY <2>1 DEF InFlight
  <2> QED BY <2>2, KeptNext
<1>2. ASSUME NEW v \in Kept \cap pool'
      PROVE  v \in devyml \cup Kept'
  <2>1. \/ v \in told
        \/ \E q \in Procs : v \in InFlight(q)
        \/ inst.exists /\ ~deleting /\ v \in Recorded(inst, {})
    BY DEF Kept
  <2> QED BY <1>1, <2>1
<1>3. pool' \cap (devyml \cup Kept) \subseteq devyml' \cup Kept'
  BY <1>2
<1> QED BY <1>3 DEF Custody!Keeps, Custody!Named

\* The same for a step that leaves the instance as it is.
LEMMA QuietKeeps ==
  ASSUME TypeOK, NEW p \in Procs, NEW r, Becomes(p, r), UNCHANGED <<inst, deleting, devyml>>,
         told \cap pool' \subseteq told',
         InFlight(p) \cap pool' \subseteq devyml \cup Kept'
  PROVE  Custody!Keeps
<1>1. Recorded(inst', {}) = Recorded(inst, {})
  OBVIOUS
<1> QED BY <1>1, KeptNext, StepKeeps

\* ... and of which p holds on to what it had.
LEMMA CalmKeeps ==
  ASSUME TypeOK, NEW p \in Procs, NEW r, Becomes(p, r), UNCHANGED <<inst, deleting, devyml>>,
         told \cap pool' \subseteq told',
         proc[p].pc \notin {"reap", "stop", "delete"}, r.pc \notin {"reap", "stop", "delete"},
         proc[p].carried \subseteq r.carried
  PROVE  Custody!Keeps
<1>1. proc'[p] = r
  BY DEF Becomes, TypeOK
<1>2. InFlight(p) \subseteq InFlight(p)'
  BY <1>1 DEF InFlight
<1> QED BY <1>2, KeptNext, QuietKeeps

LEMMA UpKeeps ==
  ASSUME OneDeletes, TypeOK, CoherentInv, CustodyInv, KeepInv, NEW p \in Procs, Up(p)
  PROVE  Custody!Keeps
<1> USE DEF daemon
<1>0. /\ RoleInv(p) /\ ReadInv(p) /\ DeleteInv(p) /\ WorkInv(p) /\ CarryInv(p) /\ ToldInv(p)
      /\ ~At(p, "idle") => proc[p].decl = devyml
      /\ At(p, "ensure") => proc[p].todo \subseteq devyml
      /\ proc[p] \in Processes /\ inst \in Instances
  BY OwnFacts
<1>1. proc[p].pc \in {"upRead", "ensure", "prune", "write", "create", "settle", "start", "provision"}
  BY DEF Up, UpRead, EnsureVolume, VolumesEnsured, PruneEntry, Pruned, SkipWrite, Write,
         WriteInterrupted, WriteLands, Create, CreateInterrupted, SettleRestart, EnsureRunning,
         Provision, UpStepFails, At
<1>2. InFlight(p) = proc[p].carried /\ proc[p].decl = devyml
  BY <1>0, <1>1 DEF InFlight, At
<1>3. CASE UpFails(p)
  <2>1. /\ Becomes(p, Idle) /\ UNCHANGED <<inst, deleting, devyml, pool>>
        /\ told' = told \cup (proc[p].carried \ devyml)
    BY <1>2, <1>3 DEF UpFails, Ends, SaysLost, Tell, LostBy
  <2> QED BY <1>2, <2>1, KeptNext, QuietKeeps
<1>4. CASE \/ UpRead(p) /\ ~UpFails(p)
           \/ EnsureVolume(p) \/ VolumesEnsured(p) \/ PruneEntry(p) \/ Pruned(p)
  <2>1. PICK r : /\ Becomes(p, r) /\ r.carried = proc[p].carried
                 /\ r.pc \in {"ensure", "prune", "create", "write"}
    <3>1. CASE UpRead(p) /\ ~UpFails(p)
      <4> DEFINE r == [proc[p] EXCEPT !.pc = "ensure", !.seen = inst,
                         !.work = Adopted(inst.record, proc[p].decl,
                                          IF inst.exists THEN proc[p].carried ELSE {}),
                         !.todo = proc[p].decl]
      <4>1. r.carried = proc[p].carried /\ r.pc = "ensure"
        BY <1>0 DEF Processes
      <4>2. Becomes(p, r)
        BY <3>1 DEF UpRead
      <4> QED BY <4>1, <4>2
    <3>2. CASE EnsureVolume(p)
      <4>1. PICK v : Becomes(p, [proc[p] EXCEPT !.todo = @ \ {v}]) /\ At(p, "ensure")
        BY <3>2 DEF EnsureVolume
      <4>2. /\ [proc[p] EXCEPT !.todo = @ \ {v}].carried = proc[p].carried
            /\ [proc[p] EXCEPT !.todo = @ \ {v}].pc = "ensure"
        BY <1>0, <4>1 DEF Processes, At
      <4> QED BY <4>1, <4>2
    <3>3. CASE VolumesEnsured(p)
      <4> DEFINE a == [proc[p] EXCEPT !.pc = "prune",
                                      !.todo = Listed(proc[p].work) \ proc[p].decl]
                 b == [proc[p] EXCEPT !.pc = "create"]
      <4>1. /\ a.carried = proc[p].carried /\ a.pc = "prune"
            /\ b.carried = proc[p].carried /\ b.pc = "create"
        BY <1>0 DEF Processes
      <4>2. Becomes(p, a) \/ Becomes(p, b)
        BY <3>3 DEF VolumesEnsured
      <4> QED BY <4>1, <4>2
    <3>4. CASE PruneEntry(p)
      <4> DEFINE a(v) == [proc[p] EXCEPT !.todo = @ \ {v}]
                 b(v) == [proc[p] EXCEPT !.todo = @ \ {v}, !.work = Listed(@) \ {v}]
      <4>1. PICK v : (Becomes(p, a(v)) \/ Becomes(p, b(v))) /\ At(p, "prune")
        BY <3>4 DEF PruneEntry
      <4>2. /\ a(v).carried = proc[p].carried /\ a(v).pc = "prune"
            /\ b(v).carried = proc[p].carried /\ b(v).pc = "prune"
        BY <1>0, <4>1 DEF Processes, At
      <4> QED BY <4>1, <4>2
    <3>5. CASE Pruned(p)
      <4>1. /\ [proc[p] EXCEPT !.pc = "write"].carried = proc[p].carried
            /\ [proc[p] EXCEPT !.pc = "write"].pc = "write"
        BY <1>0 DEF Processes
      <4> QED BY <3>5, <4>1 DEF Pruned, Moves
    <3> QED BY <1>4, <3>1, <3>2, <3>3, <3>4, <3>5
  <2>2. UNCHANGED <<inst, deleting, devyml>> /\ told \subseteq told'
    BY <1>4 DEF UpRead, EnsureVolume, VolumesEnsured, PruneEntry, Pruned, Tell
  <2> QED BY <1>1, <2>1, <2>2, CalmKeeps
<1>5. CASE SkipWrite(p)
  <2>1. /\ Becomes(p, [Stored(p) EXCEPT !.pc = "settle"]) /\ At(p, "write")
        /\ UNCHANGED <<inst, deleting, devyml, pool, told>> /\ Settled(p)
    BY <1>5 DEF SkipWrite
  <2>2. proc[p].seen.record = Known(p)
    BY <2>1 DEF Settled
  <2>3. Listed(proc[p].seen.record) = Known(p)
    BY <2>2, MutatedInstances, NoRecordIsNoSet DEF Listed
  <2>4. Working(p) /\ proc[p].seen.exists
    BY <1>0, <2>1 DEF Working, At, ReadInv
  <2>5. proc[p].carried \cap pool \subseteq Known(p)
    BY <1>0, <2>4 DEF WorkInv, Known
  <2>6. CASE proc[p].carried = {}
    BY <1>2, <2>1, <2>6, QuietKeeps
  <2>7. CASE proc[p].carried # {}
    <3>1. /\ ~deleting /\ inst.exists
          /\ Listed(proc[p].seen.record) \cap pool \subseteq Listed(inst.record) \cup devyml
      BY <1>0, <2>1, <2>4, <2>7 DEF CarryInv, At
    <3>2. Listed(inst.record) \subseteq Recorded(inst', {})
      BY <1>0, <2>1 DEF Listed, Recorded
    <3> QED BY <1>2, <2>1, <2>3, <2>5, <3>1, <3>2, KeptNext, QuietKeeps
  <2> QED BY <2>6, <2>7
<1>6. CASE Write(p) \/ WriteInterrupted(p)
  <2>1. /\ WriteLands(p) /\ UNCHANGED <<pool, deleting, devyml>>
        /\ told \ Known(p) \subseteq told'
    BY <1>6 DEF Write, WriteInterrupted, Recording, SaysLost, Tell
  <2>2. PICK r : Becomes(p, r)
    BY <1>6 DEF Write, WriteInterrupted
  <2>3. /\ inst'.record = Known(p) /\ inst'.exists = inst.exists /\ ~deleting
        /\ At(p, "write") /\ p \in current /\ proc[p].seen = inst
    BY <1>0, <2>1 DEF WriteLands, InstBecomes, Reapplied, Instances, CoherentInv, CoherentReading
  <2>4. Known(p) \in SUBSET Volumes
    BY MutatedInstances
  <2>5. Recorded(inst', {}) = Known(p) /\ Listed(Known(p)) = Known(p)
    BY <2>3, <2>4, NoRecordIsNoSet DEF Recorded, Listed
  <2>6. Working(p) /\ inst.exists
    BY <1>0, <2>3 DEF Working, At, ReadInv
  <2>7. Known(p) \subseteq Kept'
    BY <2>1, <2>3, <2>5, <2>6, KeptNext
  <2>8. InFlight(p) \cap pool' \subseteq devyml \cup Kept'
    BY <1>0, <1>2, <2>1, <2>3, <2>6, <2>7 DEF WorkInv, Known
  <2>9. Recorded(inst, {}) \cap pool' \subseteq devyml \cup Kept'
    <3>1. CASE inst.record # NoRecord
      <4>1. Recorded(inst, {}) = Listed(inst.record)
        BY <3>1 DEF Recorded, Listed
      <4> QED BY <2>1, <2>3, <2>5, <2>7, <4>1, WriteKeeps
    <3>2. CASE inst.record = NoRecord
      <4>1. Recorded(inst, {}) = inst.attached
        BY <3>2 DEF Recorded
      <4>2. inst.attached \cap pool \subseteq devyml \cup told
        BY <1>0, <2>3, <3>2 DEF ToldInv
      <4> QED BY <2>1, <2>7, <4>1, <4>2, KeptNext
    <3> QED BY <3>1, <3>2
  <2> QED BY <2>1, <2>2, <2>7, <2>8, <2>9, KeptNext, StepKeeps
<1>7. CASE Create(p) \/ CreateInterrupted(p)
  <2>1. /\ ~inst.exists /\ At(p, "create") /\ inst' = Created(p)
        /\ UNCHANGED <<pool, deleting, devyml>>
        /\ told \ Created(p).record \subseteq told'
    BY <1>7 DEF Create, CreateInterrupted, InstBecomes, Recording, SaysLost, Tell
  <2>2. PICK r : Becomes(p, r)
    BY <1>7 DEF Create, CreateInterrupted
  <2>3. inst'.exists /\ ~deleting' /\ inst'.record = proc[p].decl \cup proc[p].carried
    BY <2>1 DEF Created, CustodyInv, InstInv
  <2>4. inst'.record \in SUBSET Volumes
    BY <1>0, <2>3 DEF Processes
  <2>5. inst'.record = Recorded(inst', {})
    BY <2>4, NoRecordIsNoSet DEF Recorded
  <2>6. inst'.record \subseteq Kept'
    BY <2>3, <2>5, KeptNext
  <2> QED BY <1>2, <2>1, <2>2, <2>3, <2>6, KeptNext, StepKeeps
<1>8. CASE SettleRestart(p) \/ EnsureRunning(p) \/ Provision(p)
  <2>1. proc[p].carried = {}
    BY <1>0, <1>8 DEF SettleRestart, EnsureRunning, Provision, At, RoleInv
  <2>2. PICK r : Becomes(p, r)
    BY <1>8 DEF SettleRestart, EnsureRunning, Provision, Moves, Ends
  <2>3. /\ UNCHANGED <<pool, deleting, devyml, told>>
        /\ inst'.exists = inst.exists /\ Recorded(inst', {}) = Recorded(inst, {})
    <3>1. CASE UNCHANGED inst
      BY <1>8, <3>1 DEF SettleRestart, EnsureRunning, Provision
    <3>2. CASE ~UNCHANGED inst
      <4>1. InstBecomes([inst EXCEPT !.running = TRUE])
        BY <1>8, <3>2 DEF SettleRestart, EnsureRunning, Provision
      <4>2. UNCHANGED <<pool, deleting, devyml, told>>
        BY <1>8 DEF SettleRestart, EnsureRunning, Provision
      <4> QED BY <2>2, <4>1, <4>2, RunningSpares
    <3> QED BY <3>1, <3>2
  <2> QED BY <1>2, <2>1, <2>2, <2>3, KeptNext, StepKeeps
<1> QED
  BY <1>3, <1>4, <1>5, <1>6, <1>7, <1>8 DEF Up, UpStepFails

LEMMA DestroyKeeps ==
  ASSUME OneDeletes, TypeOK, CustodyInv, KeepInv, NEW p \in Procs, Destroy(p)
  PROVE  Custody!Keeps
<1> USE DEF daemon
<1>0. /\ RoleInv(p) /\ DeleteInv(p)
      /\ ~At(p, "idle") => proc[p].decl = devyml
      /\ proc[p] \in Processes /\ inst \in Instances
  BY OwnFacts
<1>1. proc[p].pc \in {"destroyRead", "rebuildRead", "stop", "delete", "reap"}
  BY DEF Destroy, DestroyRead, RebuildRead, StopForDelete, Delete, DeleteInterrupted,
         DeleteRefused, ReapVolume, ReapFails, Reaped, At
<1>2. /\ proc[p].pc = "reap" => InFlight(p) = proc[p].todo /\ proc[p].cmd = "purge"
      /\ proc[p].pc # "reap" => InFlight(p) = {}
      /\ proc[p].decl = devyml
  BY <1>0, <1>1 DEF InFlight, RoleInv, At
<1>3. CASE DestroyFails(p)
  <2>1. /\ Becomes(p, Idle) /\ UNCHANGED <<inst, deleting, devyml, pool>>
        /\ told' = told \cup (IF proc[p].cmd = "purge" THEN proc[p].todo ELSE {})
    BY <1>3 DEF DestroyFails, Ends, Tell
  <2> QED BY <1>2, <2>1, KeptNext, QuietKeeps
<1>4. CASE (DestroyRead(p) \/ RebuildRead(p)) /\ ~DestroyFails(p)
  <2>1. /\ proc[p].pc # "reap" /\ UNCHANGED <<inst, deleting, devyml, pool, told>>
    BY <1>4 DEF DestroyRead, RebuildRead, At
  <2>2. PICK r : Becomes(p, r)
    BY <1>4 DEF DestroyRead, RebuildRead, Moves
  <2> QED BY <1>2, <2>1, <2>2, QuietKeeps
<1>5. CASE StopForDelete(p) /\ ~DestroyFails(p)
  <2>1. /\ proc[p].pc # "reap" /\ UNCHANGED <<pool, deleting, devyml, told>>
        /\ UNCHANGED inst \/ InstBecomes([inst EXCEPT !.running = FALSE])
    BY <1>5 DEF StopForDelete, At
  <2>2. PICK r : Becomes(p, r)
    BY <1>5 DEF StopForDelete, Moves
  <2>3. inst'.exists = inst.exists /\ Recorded(inst', {}) = Recorded(inst, {})
    <3>1. CASE UNCHANGED inst
      BY <3>1
    <3>2. CASE InstBecomes([inst EXCEPT !.running = FALSE])
      BY <2>1, <2>2, <3>2, RunningSpares
    <3> QED BY <2>1, <3>1, <3>2
  <2> QED BY <1>2, <2>1, <2>2, <2>3, KeptNext, StepKeeps
<1>6. CASE Delete(p)
  <2> DEFINE a == [proc[p] EXCEPT !.pc = "reap"]
             b == [proc[p] EXCEPT !.pc = "upRead", !.todo = {}]
  <2>1. /\ At(p, "delete") /\ inst.exists /\ inst' = Gone /\ UNCHANGED <<pool, devyml>>
        /\ \/ proc[p].cmd = "purge" /\ Becomes(p, a) /\ told' = told
           \/ proc[p].cmd = "rebuild" /\ Becomes(p, b) /\ told' = told
           \/ Becomes(p, Idle) /\ told' = told \cup proc[p].todo
    BY <1>6 DEF Delete, Deletable, InstGone, Moves, Tell
  <2>2. /\ a.pc = "reap" /\ a.todo = proc[p].todo
        /\ b.pc = "upRead" /\ b.carried = proc[p].carried
    BY <1>0 DEF Processes
  <2> HIDE DEF a, b
  <2>3. PICK r : Becomes(p, r)
    BY <2>1
  <2>4. Recorded(inst, {}) \subseteq proc[p].todo \cup devyml
    BY <1>0, <2>1 DEF DeleteInv, At
  <2>5. proc[p].todo \subseteq Kept'
    <3>1. CASE Becomes(p, a)
      <4>1. proc'[p] = a
        BY <3>1 DEF Becomes, TypeOK
      <4>2. InFlight(p)' = proc[p].todo
        BY <2>2, <4>1 DEF InFlight
      <4> QED BY <4>2, KeptNext
    <3>2. CASE proc[p].cmd = "rebuild" /\ Becomes(p, b)
      <4>1. proc'[p] = b
        BY <3>2 DEF Becomes, TypeOK
      <4>2. InFlight(p)' = proc[p].carried
        BY <2>2, <4>1 DEF InFlight
      <4>3. proc[p].carried = proc[p].todo
        BY <1>0, <2>1, <3>2 DEF DeleteInv, At
      <4> QED BY <4>2, <4>3, KeptNext
    <3> QED BY <2>1, <3>1, <3>2, KeptNext
  <2>6. told \subseteq told' /\ InFlight(p) = {}
    BY <1>2, <2>1 DEF At
  <2> QED BY <2>1, <2>3, <2>4, <2>5, <2>6, KeptNext, StepKeeps
<1>7. CASE DeleteInterrupted(p)
  <2>1. /\ At(p, "delete") /\ inst.exists /\ Becomes(p, Idle) /\ UNCHANGED <<pool, devyml>>
        /\ told \subseteq told' /\ proc[p].todo \ proc[p].decl \subseteq told'
    BY <1>7 DEF DeleteInterrupted, Deletable, Ends, Tell
  <2>2. Recorded(inst, {}) \subseteq proc[p].todo \cup devyml
    BY <1>0, <2>1 DEF DeleteInv, At
  <2>3. InFlight(p) = {}
    BY <1>2, <2>1 DEF At
  <2> QED BY <1>2, <2>1, <2>2, <2>3, KeptNext, StepKeeps
<1>8. CASE ReapVolume(p)
  <2>1. PICK v \in proc[p].todo :
          /\ pool' = pool \ {v}
          /\ Becomes(p, [proc[p] EXCEPT !.todo = @ \ {v}])
          /\ told' = told \ {v}
    BY <1>8 DEF ReapVolume, Recording
  <2> DEFINE r == [proc[p] EXCEPT !.todo = @ \ {v}]
  <2>2. At(p, "reap") /\ UNCHANGED <<inst, deleting, devyml>> /\ Becomes(p, r)
    BY <1>8, <2>1 DEF ReapVolume
  <2>3. r.pc = "reap" /\ r.todo = proc[p].todo \ {v}
    BY <1>0, <2>2 DEF Processes, At
  <2> HIDE DEF r
  <2>4. proc'[p] = r
    BY <2>2 DEF Becomes, TypeOK
  <2>5. InFlight(p)' = proc[p].todo \ {v}
    BY <2>3, <2>4 DEF InFlight
  <2>6. InFlight(p) = proc[p].todo
    BY <1>2, <2>2 DEF At
  <2> QED BY <2>1, <2>2, <2>5, <2>6, KeptNext, QuietKeeps
<1>9. CASE Reaped(p)
  <2>1. /\ Becomes(p, Idle) /\ UNCHANGED <<inst, deleting, devyml, pool, told>>
        /\ InFlight(p) = {}
    BY <1>2, <1>9 DEF Reaped, Ends, At
  <2> QED BY <2>1, QuietKeeps
<1> QED
  BY <1>3, <1>4, <1>5, <1>6, <1>7, <1>8, <1>9
  DEF Destroy, DeleteRefused, ReapFails

\* A step of no process takes no name away that is still needed if it leaves
\* those of the messages and of the instance's record.
LEMMA AloneKeeps ==
  ASSUME UNCHANGED <<proc, devyml>>, told \cap pool' \subseteq told',
         inst.exists /\ ~deleting => Recorded(inst, {}) \cap pool' \subseteq devyml \cup Kept'
  PROVE  Custody!Keeps
<1>1. ASSUME NEW q \in Procs
      PROVE  InFlight(q) \subseteq Kept'
  <2>1. InFlight(q)' = InFlight(q)
    BY DEF InFlight
  <2> QED BY <2>1, KeptNext
<1>2. ASSUME NEW v \in Kept \cap pool'
      PROVE  v \in devyml \cup Kept'
  <2>1. \/ v \in told
        \/ \E q \in Procs : v \in InFlight(q)
        \/ inst.exists /\ ~deleting /\ v \in Recorded(inst, {})
    BY DEF Kept
  <2> QED BY <1>1, <2>1, KeptNext
<1> QED BY <1>2 DEF Custody!Keeps, Custody!Named

LEMMA EnvironmentKeeps ==
  ASSUME "snapshot" \notin Env, TypeOK, CustodyInv, Environment, ~EditConfig
  PROVE  Custody!Keeps
<1> USE DEF daemon
<1>1. CASE DaemonFinishesDelete
  BY <1>1, AloneKeeps DEF DaemonFinishesDelete
<1>2. CASE HandDelete
  <2>1. /\ UNCHANGED <<proc, devyml, inst, deleting>> /\ told \cap pool' \subseteq told'
    BY <1>2 DEF HandDelete, Recording
  <2>2. Recorded(inst', {}) = Recorded(inst, {})
    BY <2>1
  <2> QED BY <2>1, <2>2, KeptNext, AloneKeeps
<1>3. CASE Toggle
  <2>1. /\ inst'.exists = inst.exists /\ inst'.record = inst.record
        /\ inst'.attached = inst.attached /\ UNCHANGED <<deleting, devyml, proc, told>>
    BY <1>3 DEF Toggle, InstBecomes, TypeOK, Instances
  <2>2. Recorded(inst', {}) = Recorded(inst, {})
    BY <2>1 DEF Recorded
  <2> QED BY <2>1, <2>2, KeptNext, AloneKeeps
<1>4. CASE TakeSnapshot
  <2>1. UNCHANGED <<proc, devyml, inst, deleting, told>>
    BY <1>4 DEF TakeSnapshot
  <2>2. Recorded(inst', {}) = Recorded(inst, {})
    BY <2>1
  <2> QED BY <2>1, <2>2, KeptNext, AloneKeeps
<1> QED BY <1>1, <1>2, <1>3, <1>4 DEF Environment, RestoreSnapshot

-----------------------------------------------------------------------------
(* The refinement.                                                         *)

\* The pool moves as VolumeCustody lets it: one volume that dev.yml declares is
\* made, or one is deleted.
LEMMA PoolSteps ==
  ASSUME TypeOK, KeepInv, Next
  PROVE  \/ UNCHANGED pool
         \/ \E v \in devyml \ pool : pool' = pool \cup {v}
         \/ \E v \in pool : pool' = pool \ {v}
<1> USE DEF daemon
<1>1. ASSUME NEW p \in Procs, Up(p)
      PROVE  pool' = pool \/ \E v \in devyml : pool' = pool \cup {v}
  <2>1. CASE EnsureVolume(p)
    BY <2>1 DEF EnsureVolume, KeepInv, At
  <2>2. CASE ~EnsureVolume(p)
    BY <1>1, <2>2
    DEF Up, UpRead, VolumesEnsured, PruneEntry, Pruned, SkipWrite, Write, WriteInterrupted,
        Create, CreateInterrupted, SettleRestart, EnsureRunning, Provision, UpStepFails, UpFails
  <2> QED BY <2>1, <2>2
<1>2. ASSUME NEW p \in Procs, Destroy(p)
      PROVE  pool' = pool \/ \E v : pool' = pool \ {v}
  BY <1>2
  DEF Destroy, DestroyRead, RebuildRead, StopForDelete, Delete, DeleteInterrupted, DeleteRefused,
      ReapVolume, ReapFails, Reaped, DestroyFails
<1>3. ASSUME NEW p \in Procs, Start(p) \/ Interrupt(p) \/ Kill(p)
      PROVE  pool' = pool
  BY <1>3 DEF Start, Interrupt, Kill
<1>4. CASE Environment
  BY <1>4
  DEF Environment, DaemonFinishesDelete, EditConfig, HandDelete, Toggle, TakeSnapshot,
      RestoreSnapshot
<1>5. \/ pool' = pool
      \/ \E v \in devyml : pool' = pool \cup {v}
      \/ \E v : pool' = pool \ {v}
  BY <1>1, <1>2, <1>3, <1>4 DEF Next
<1> QED BY <1>5

LEMMA CustodyStep ==
  ASSUME OneDeletes, "editAnytime" \notin Env, "snapshot" \notin Env, "kill" \notin Env,
         TypeOK, CoherentInv, KeepInv, CustodyInv, Next
  PROVE  [Custody!Next]_<<pool, devyml, Kept>>
<1>1. CASE EditConfig
  <2>1. devyml' \in SUBSET Volumes /\ UNCHANGED <<pool, inst, deleting, proc, told>>
    BY <1>1 DEF EditConfig, daemon
  <2>2. Kept' = Kept
    BY <2>1 DEF Kept, InFlight, Recorded
  <2> QED BY <2>1, <2>2 DEF Custody!Next, Custody!EditConfig
<1>2. CASE ~EditConfig
  <2>1. Custody!Keeps
    <3>1. CASE Environment
      BY <1>2, <3>1, EnvironmentKeeps
    <3>2. ASSUME NEW p \in Procs, Start(p)
          PROVE  Custody!Keeps
      <4>1. PICK r : Becomes(p, r)
        BY <3>2 DEF Start
      <4>2. UNCHANGED <<inst, deleting, devyml, pool, told>> /\ InFlight(p) = {}
        BY <3>2, OwnFacts DEF Start, daemon, InFlight, RoleInv, At
      <4> QED BY <4>1, <4>2, QuietKeeps
    <3>3. ASSUME NEW p \in Procs, Interrupt(p)
          PROVE  Custody!Keeps
      <4> DEFINE r == [proc[p] EXCEPT !.cut = TRUE]
      <4>1. r.pc = proc[p].pc /\ r.todo = proc[p].todo /\ r.carried = proc[p].carried
        BY DEF TypeOK, Processes
      <4>2. Becomes(p, r) /\ UNCHANGED <<inst, deleting, devyml, pool, told>>
        BY <3>3 DEF Interrupt, daemon
      <4> HIDE DEF r
      <4>3. proc'[p] = r
        BY <4>2 DEF Becomes, TypeOK
      <4>4. InFlight(p)' = InFlight(p)
        BY <4>1, <4>3 DEF InFlight
      <4> QED BY <4>2, <4>4, KeptNext, QuietKeeps
    <3>4. \A p \in Procs : ~Kill(p)
      BY DEF Kill
    <3> QED BY <3>1, <3>2, <3>3, <3>4, UpKeeps, DestroyKeeps DEF Next
  <2>2. \/ UNCHANGED pool
        \/ \E v \in devyml \ pool : pool' = pool \cup {v}
        \/ \E v \in pool : pool' = pool \ {v}
    BY PoolSteps
  <2> QED
    BY <2>1, <2>2
    DEF Custody!Next, Custody!MoveNames, Custody!CreateVolume, Custody!DeleteVolume, Custody!Named
<1> QED BY <1>1, <1>2

LEMMA KeptVolumes ==
  ASSUME TypeOK
  PROVE  Kept \in SUBSET Volumes
<1>1. ASSUME NEW p \in Procs
      PROVE  InFlight(p) \in SUBSET Volumes
  BY DEF TypeOK, Processes, InFlight
<1>2. Recorded(inst, {}) \in SUBSET Volumes
  BY RecordedVolumes DEF TypeOK
<1> QED BY <1>1, <1>2 DEF Kept, TypeOK

LEMMA CustodyStart ==
  ASSUME Init, TypeOK
  PROVE  Custody!Init
<1>1. pool \subseteq Kept
  <2>1. CASE inst = Gone /\ pool = {}
    BY <2>1
  <2>2. CASE inst = LegacyInstance
    <3>1. inst.exists /\ ~deleting /\ Recorded(inst, {}) = Volumes
      BY <2>2 DEF Init, LegacyInstance, Recorded
    <3> QED BY <3>1, KeptNames DEF TypeOK
  <2> QED BY <2>1, <2>2 DEF Init
<1> QED BY <1>1, KeptVolumes DEF Custody!Init, Custody!Named, TypeOK

\* No step of idev, complete, failed or cut short, takes away the last name of
\* a volume that is still on the pool, whatever the volumes, with any number of
\* idev processes of which one at a time may delete, while no dev.yml is edited
\* under a running command, nothing is restored and nothing killed.
THEOREM CustodyIsKept ==
  ASSUME OneDeletes, "editAnytime" \notin Env, "snapshot" \notin Env, "kill" \notin Env
  PROVE  Spec => CustodyKept
<1>1. Init /\ TypeOK => Custody!Init
  BY CustodyStart
<1>2. TypeOK /\ CoherentInv /\ KeepInv /\ CustodyInv /\ [Next]_vars
        => [Custody!Next]_<<pool, devyml, Kept>>
  <2> SUFFICES ASSUME TypeOK, CoherentInv, KeepInv, CustodyInv, [Next]_vars
               PROVE  [Custody!Next]_<<pool, devyml, Kept>>
    OBVIOUS
  <2>1. CASE Next
    BY <2>1, CustodyStep
  <2>2. CASE UNCHANGED vars
    <3>1. UNCHANGED <<pool, devyml, inst, deleting, proc, told>>
      BY <2>2 DEF vars
    <3>2. Kept' = Kept
      BY <3>1 DEF Kept, InFlight, Recorded
    <3> QED BY <3>1, <3>2
  <2> QED BY <2>1, <2>2
<1>3. Spec => []TypeOK /\ []CoherentInv /\ []KeepInv /\ []CustodyInv
  BY TypeCorrect, CoherentStays, KeepInvariant, CustodyInvariant, PTL
<1> QED BY <1>1, <1>2, <1>3, PTL DEF Spec, CustodyKept, Custody!Spec

-----------------------------------------------------------------------------
(* What a failed rebuild calls lost.                                       *)

\* While a rebuild carries a record, the instance, if another idev has made it
\* again, records what dev.yml declares and no more.
LossInv ==
  \A p \in Procs :
    proc[p].carried # {} /\ proc[p].pc \notin {"stop", "delete"} /\ inst.exists =>
      Listed(inst.record) \subseteq devyml

\* A write grows the record by the declaration and by what is carried.
LEMMA RecordGrows ==
  ASSUME TypeOK, CoherentInv, KeepInv, CustodyInv, NEW q \in Procs, Up(q),
         inst'.exists, proc[q].carried = {}
  PROVE  \/ inst.exists /\ Listed(inst'.record) \subseteq Listed(inst.record) \cup devyml
         \/ Listed(inst'.record) \subseteq devyml
<1> USE DEF daemon
<1>0. /\ ReadInv(q) /\ WorkInv(q) /\ (~At(q, "idle") => proc[q].decl = devyml)
      /\ proc[q] \in Processes /\ inst \in Instances
  BY OwnFacts
<1>1. CASE Write(q) \/ WriteInterrupted(q)
  <2>1. WriteLands(q)
    BY <1>1 DEF Write, WriteInterrupted
  <2>2. /\ inst'.record = Known(q) /\ proc[q].seen = inst /\ At(q, "write")
    BY <1>0, <2>1 DEF WriteLands, InstBecomes, Reapplied, Instances, CoherentInv, CoherentReading
  <2>3. Listed(inst'.record) = Known(q)
    BY <2>2, MutatedInstances, NoRecordIsNoSet DEF Listed
  <2>4. inst.exists /\ Working(q)
    BY <1>0, <2>2 DEF ReadInv, Working, At
  <2>5. Known(q) \subseteq Listed(inst.record) \cup devyml
    BY <1>0, <2>2, <2>4 DEF WorkInv, Known, At
  <2> QED BY <2>3, <2>4, <2>5
<1>2. CASE Create(q) \/ CreateInterrupted(q)
  <2>1. At(q, "create") /\ inst' = Created(q)
    BY <1>2 DEF Create, CreateInterrupted, InstBecomes
  <2>2. inst'.record = devyml
    BY <1>0, <2>1 DEF Created, At
  <2> QED BY <2>2 DEF Listed
<1>3. CASE ~(Write(q) \/ WriteInterrupted(q) \/ Create(q) \/ CreateInterrupted(q))
  <2>1. inst'.exists = inst.exists /\ inst'.record = inst.record
    <3>1. CASE UNCHANGED inst
      BY <3>1
    <3>2. CASE InstBecomes([inst EXCEPT !.running = TRUE])
      BY <1>0, <3>2 DEF InstBecomes, Instances
    <3>3. UNCHANGED inst \/ InstBecomes([inst EXCEPT !.running = TRUE])
      BY <1>3
      DEF Up, UpRead, EnsureVolume, VolumesEnsured, PruneEntry, Pruned, SkipWrite, SettleRestart,
          EnsureRunning, Provision, UpStepFails, UpFails
    <3> QED BY <3>1, <3>2, <3>3
  <2> QED BY <2>1 DEF Listed
<1> QED BY <1>1, <1>2, <1>3

\* Whoever still carries a record after its own step of up carried it before,
\* and the step wrote nothing.
LEMMA CarriesOn ==
  ASSUME TypeOK, NEW p \in Procs, Up(p), proc'[p].carried # {}
  PROVE  /\ proc[p].carried # {} /\ proc[p].pc \notin {"stop", "delete"}
         /\ inst'.exists => inst.exists /\ inst'.record = inst.record
<1> USE DEF daemon
<1>0. proc[p] \in Processes /\ inst \in Instances
  BY DEF TypeOK
<1>1. CASE UpFails(p) \/ Provision(p) \/ WriteInterrupted(p) \/ CreateInterrupted(p)
  <2>1. Becomes(p, Idle)
    BY <1>1 DEF UpFails, Provision, WriteInterrupted, CreateInterrupted, Ends
  <2> QED BY <2>1 DEF Becomes, Idle, TypeOK
<1>2. CASE SkipWrite(p) \/ Write(p) \/ Create(p)
  <2>1. PICK pc : Becomes(p, [Stored(p) EXCEPT !.pc = pc])
    BY <1>2 DEF SkipWrite, Write, Create
  <2> QED BY <1>0, <2>1 DEF Becomes, Stored, Processes, TypeOK
<1>3. CASE UpRead(p) /\ ~UpFails(p)
  <2> DEFINE r == [proc[p] EXCEPT !.pc = "ensure", !.seen = inst,
                     !.work = Adopted(inst.record, proc[p].decl,
                                      IF inst.exists THEN proc[p].carried ELSE {}),
                     !.todo = proc[p].decl]
  <2>1. Becomes(p, r) /\ At(p, "upRead") /\ UNCHANGED inst
    BY <1>3 DEF UpRead
  <2>2. r.carried = proc[p].carried
    BY <1>0 DEF Processes
  <2> HIDE DEF r
  <2> QED BY <2>1, <2>2 DEF Becomes, TypeOK, At
<1>4. CASE EnsureVolume(p)
  BY <1>0, <1>4 DEF EnsureVolume, Becomes, Processes, TypeOK, At
<1>5. CASE VolumesEnsured(p)
  BY <1>0, <1>5 DEF VolumesEnsured, Becomes, Processes, TypeOK, At
<1>6. CASE PruneEntry(p)
  <2> DEFINE a(v) == [proc[p] EXCEPT !.todo = @ \ {v}]
             b(v) == [proc[p] EXCEPT !.todo = @ \ {v}, !.work = Listed(@) \ {v}]
  <2>1. PICK v : Becomes(p, a(v)) \/ Becomes(p, b(v))
    BY <1>6 DEF PruneEntry
  <2>2. a(v).carried = proc[p].carried /\ b(v).carried = proc[p].carried
    BY <1>0 DEF Processes
  <2> QED BY <1>6, <2>1, <2>2 DEF PruneEntry, Becomes, TypeOK, At
<1>7. CASE Pruned(p)
  BY <1>0, <1>7 DEF Pruned, Moves, Becomes, Processes, TypeOK, At
<1>8. CASE SettleRestart(p)
  BY <1>0, <1>8 DEF SettleRestart, Moves, Becomes, Processes, TypeOK, At
<1>9. CASE EnsureRunning(p)
  BY <1>0, <1>9 DEF EnsureRunning, InstBecomes, Moves, Becomes, Processes, Instances, TypeOK, At
<1> QED
  BY <1>1, <1>2, <1>3, <1>4, <1>5, <1>6, <1>7, <1>8, <1>9 DEF Up, UpStepFails

LEMMA LossUp ==
  ASSUME OneDeletes, TypeOK, CoherentInv, KeepInv, CustodyInv, LossInv, CustodyInv',
         NEW q \in Procs, Up(q)
  PROVE  LossInv'
<1>1. devyml' = devyml
  BY DEF Up, UpRead, EnsureVolume, VolumesEnsured, PruneEntry, Pruned, SkipWrite, Write,
         WriteInterrupted, Create, CreateInterrupted, SettleRestart, EnsureRunning, Provision,
         UpStepFails, UpFails
<1>2. ASSUME NEW p \in Procs, proc'[p].carried # {}, proc'[p].pc \notin {"stop", "delete"},
             inst'.exists
      PROVE  Listed(inst'.record) \subseteq devyml
  <2>1. CASE p = q
    <3>1. /\ proc[p].carried # {} /\ proc[p].pc \notin {"stop", "delete"}
          /\ inst.exists /\ inst'.record = inst.record
      BY <1>2, <2>1, CarriesOn
    <3> QED BY <3>1 DEF LossInv, Listed
  <2>2. CASE p # q
    <3>1. proc'[p] = proc[p]
      BY <2>2 DEF Up, UpRead, EnsureVolume, VolumesEnsured, PruneEntry, Pruned, SkipWrite, Write,
           WriteInterrupted, Create, CreateInterrupted, SettleRestart, EnsureRunning, Provision,
           UpStepFails, UpFails, Ends, Moves, Becomes, TypeOK
    <3>2. ~OnlyUp(p)
      BY <1>2 DEF CustodyInv, ProcInv, RoleInv, OnlyUp
    <3>3. proc[q].carried = {}
      BY <2>2, <3>2 DEF OneDeletes, CustodyInv, ProcInv, RoleInv
    <3> QED BY <1>2, <3>1, <3>3, RecordGrows DEF LossInv
  <2> QED BY <2>1, <2>2
<1> QED BY <1>1, <1>2 DEF LossInv, Listed

LEMMA LossDestroy ==
  ASSUME OneDeletes, TypeOK, CustodyInv, LossInv, CustodyInv', NEW q \in Procs, Destroy(q)
  PROVE  LossInv'
<1> USE DEF daemon
<1>0. proc[q] \in Processes /\ inst \in Instances
  BY DEF TypeOK
<1>1. /\ UNCHANGED devyml
      /\ inst' = inst \/ inst' = Gone \/ InstBecomes([inst EXCEPT !.running = FALSE])
      /\ \A p \in Procs \ {q} : proc'[p] = proc[p]
  BY DEF Destroy, DestroyRead, RebuildRead, StopForDelete, Delete, DeleteInterrupted,
         DeleteRefused, ReapVolume, ReapFails, Reaped, DestroyFails, InstGone, Ends, Moves,
         Becomes, TypeOK
<1>2. inst'.exists => inst.exists /\ inst'.record = inst.record
  BY <1>0, <1>1 DEF InstBecomes, Instances, Gone
<1>3. ASSUME proc'[q].carried # {}, proc'[q].pc \notin {"stop", "delete"}, inst'.exists
      PROVE  proc[q].carried # {} /\ proc[q].pc \notin {"stop", "delete"}
  <2>1. CASE DestroyFails(q) \/ DeleteInterrupted(q) \/ Reaped(q)
    BY <1>3, <2>1 DEF DestroyFails, DeleteInterrupted, Reaped, Ends, Becomes, Idle, TypeOK
  <2>2. CASE (DestroyRead(q) \/ RebuildRead(q) \/ StopForDelete(q)) /\ ~DestroyFails(q)
    <3>1. CASE DestroyRead(q)
      <4> DEFINE r == [proc[q] EXCEPT !.pc = "stop", !.seen = inst,
                                      !.todo = Recorded(inst, proc[q].decl)]
      <4>1. Becomes(q, r)
        BY <2>2, <3>1 DEF DestroyRead
      <4>2. r.pc = "stop"
        BY <1>0 DEF Processes
      <4> HIDE DEF r
      <4> QED BY <1>3, <4>1, <4>2 DEF Becomes, TypeOK
    <3>2. CASE RebuildRead(q)
      <4> DEFINE R == Recorded(inst, proc[q].decl)
                 a == [proc[q] EXCEPT !.pc = "stop", !.seen = inst, !.carried = R, !.todo = R]
                 b == [proc[q] EXCEPT !.pc = "upRead"]
      <4>1. (Becomes(q, a) \/ Becomes(q, b)) /\ At(q, "rebuildRead")
        BY <2>2, <3>2 DEF RebuildRead, Moves
      <4>2. a.pc = "stop" /\ b.carried = proc[q].carried
        BY <1>0 DEF Processes
      <4> HIDE DEF a, b
      <4> QED BY <1>3, <4>1, <4>2 DEF Becomes, TypeOK, At
    <3>3. CASE StopForDelete(q)
      BY <1>0, <1>3, <2>2, <3>3 DEF StopForDelete, Moves, Becomes, Processes, TypeOK
    <3> QED BY <2>2, <3>1, <3>2, <3>3
  <2>3. CASE Delete(q)
    BY <1>3, <2>3 DEF Delete, InstGone, Gone
  <2>4. CASE ReapVolume(q)
    BY <1>0, <1>3, <2>4 DEF ReapVolume, Becomes, Processes, TypeOK, At
  <2> QED BY <2>1, <2>2, <2>3, <2>4 DEF Destroy, DeleteRefused, ReapFails
<1>4. ASSUME NEW p \in Procs, proc'[p].carried # {}, proc'[p].pc \notin {"stop", "delete"},
             inst'.exists
      PROVE  Listed(inst'.record) \subseteq devyml
  <2>1. proc[p].carried # {} /\ proc[p].pc \notin {"stop", "delete"}
    BY <1>1, <1>3, <1>4
  <2> QED BY <1>2, <1>4, <2>1 DEF LossInv, Listed
<1> QED BY <1>1, <1>4 DEF LossInv, Listed

LEMMA LossInvariant ==
  ASSUME OneDeletes, "editAnytime" \notin Env, "snapshot" \notin Env
  PROVE  Spec => []LossInv
<1>1. Init => LossInv
  BY DEF Init, LossInv, Idle
<1>2. TypeOK /\ CoherentInv /\ KeepInv /\ CustodyInv /\ CustodyInv' /\ LossInv /\ [Next]_vars
        => LossInv'
  <2> SUFFICES ASSUME TypeOK, CoherentInv, KeepInv, CustodyInv, CustodyInv', LossInv, [Next]_vars
               PROVE  LossInv'
    OBVIOUS
  <2>1. CASE UNCHANGED vars
    BY <2>1 DEF vars, LossInv, Listed
  <2>2. CASE EditConfig
    BY <2>2 DEF EditConfig, daemon, LossInv, CustodyInv, ProcInv, RoleInv, At
  <2>3. CASE Environment /\ ~EditConfig
    <3>1. UNCHANGED <<proc, devyml>>
      BY <2>3
      DEF Environment, DaemonFinishesDelete, HandDelete, Toggle, TakeSnapshot, RestoreSnapshot
    <3>2. inst'.exists => inst.exists /\ inst'.record = inst.record
      <4>1. inst' = inst \/ inst' = Gone \/ InstBecomes([inst EXCEPT !.running = ~@])
        BY <2>3
        DEF Environment, DaemonFinishesDelete, InstGone, HandDelete, Toggle, TakeSnapshot,
            RestoreSnapshot
      <4> QED BY <4>1 DEF InstBecomes, Gone, TypeOK, Instances
    <3> QED BY <3>1, <3>2 DEF LossInv, Listed
  <2>4. ASSUME NEW q \in Procs, Up(q) \/ Destroy(q)
        PROVE  LossInv'
    BY <2>4, LossUp, LossDestroy
  <2>5. ASSUME NEW q \in Procs, Start(q) \/ Interrupt(q) \/ Kill(q)
        PROVE  LossInv'
    <3>1. UNCHANGED <<inst, devyml>>
      BY <2>5 DEF Start, Interrupt, Kill, daemon
    <3>2. ASSUME NEW p \in Procs, proc'[p].carried # {}
          PROVE  proc'[p].carried = proc[p].carried /\ proc'[p].pc = proc[p].pc
      <4>1. CASE p # q
        BY <2>5, <4>1 DEF Start, Interrupt, Kill, Ends, Becomes, TypeOK
      <4>2. CASE p = q
        <5>1. proc[q] \in Processes
          BY DEF TypeOK
        <5>2. CASE Start(q)
          BY <3>2, <4>2, <5>2 DEF Start, Becomes, TypeOK, Idle
        <5>3. CASE Interrupt(q)
          BY <4>2, <5>1, <5>3 DEF Interrupt, Becomes, TypeOK, Processes
        <5>4. CASE Kill(q)
          BY <3>2, <4>2, <5>4 DEF Kill, Ends, Becomes, TypeOK, Idle
        <5> QED BY <2>5, <5>2, <5>3, <5>4
      <4> QED BY <4>1, <4>2
    <3> QED BY <3>1, <3>2 DEF LossInv, Listed
  <2> QED BY <2>1, <2>2, <2>3, <2>4, <2>5 DEF Next
<1> QED
  BY <1>1, <1>2, TypeCorrect, CoherentStays, KeepInvariant, CustodyInvariant, PTL DEF Spec

\* What is said to be lost is what the failing process carries.
LEMMA LossSteps ==
  ASSUME Next, TypeOK
  PROVE  \/ lost' \subseteq lost
         \/ \E q \in Procs :
              /\ lost' = lost \cup LostBy(q)
              /\ (UpFails(q) /\ Up(q)) \/ proc[q].cut
<1> USE DEF daemon
<1>1. ASSUME NEW q \in Procs, Up(q)
      PROVE  \/ lost' \subseteq lost
             \/ lost' = lost \cup LostBy(q) /\ (UpFails(q) \/ proc[q].cut)
  <2>1. CASE UpFails(q)
    BY <2>1 DEF UpFails, SaysLost
  <2>2. CASE WriteInterrupted(q) \/ CreateInterrupted(q)
    BY <2>2 DEF WriteInterrupted, CreateInterrupted, SaysLost
  <2>3. CASE ~(UpFails(q) \/ WriteInterrupted(q) \/ CreateInterrupted(q))
    BY <1>1, <2>3
    DEF Up, UpRead, EnsureVolume, VolumesEnsured, PruneEntry, Pruned, SkipWrite, Write, Create,
        SettleRestart, EnsureRunning, Provision, UpStepFails, Recording
  <2> QED BY <2>1, <2>2, <2>3
<1>2. ASSUME NEW q \in Procs, Destroy(q)
      PROVE  lost' \subseteq lost
  BY <1>2
  DEF Destroy, DestroyRead, RebuildRead, StopForDelete, Delete, DeleteInterrupted, DeleteRefused,
      ReapVolume, ReapFails, Reaped, DestroyFails, Recording
<1>3. ASSUME NEW q \in Procs, Start(q) \/ Interrupt(q) \/ Kill(q)
      PROVE  lost' \subseteq lost
  BY <1>3 DEF Start, Interrupt, Kill
<1>4. CASE Environment
  BY <1>4
  DEF Environment, DaemonFinishesDelete, EditConfig, HandDelete, Toggle, TakeSnapshot,
      RestoreSnapshot, Recording
<1> QED BY <1>1, <1>2, <1>3, <1>4 DEF Next

\* A rebuild whose up half fails calls lost only what no record names, with any
\* number of idev processes of which one at a time may delete: another idev may
\* have made the instance again, and then its record holds nothing of it.
THEOREM LossIsReal ==
  ASSUME OneDeletes, "editAnytime" \notin Env, "snapshot" \notin Env
  PROVE  Spec => UncutLossIsReal
<1> DEFINE Real == \A p \in Procs :
             ~proc[p].cut /\ inst.exists =>
               (LostBy(p) \cap (lost' \ lost)) \cap Listed(inst.record) = {}
<1>1. TypeOK /\ KeepInv /\ CustodyInv /\ LossInv /\ [Next]_vars => [Real]_vars
  <2> SUFFICES ASSUME TypeOK, KeepInv, CustodyInv, LossInv, Next,
                      NEW p \in Procs, ~proc[p].cut, inst.exists
               PROVE  (LostBy(p) \cap (lost' \ lost)) \cap Listed(inst.record) = {}
    BY DEF vars
  <2>1. CASE LostBy(p) \cap (lost' \ lost) = {}
    BY <2>1
  <2>2. CASE LostBy(p) \cap (lost' \ lost) # {}
    <3>1. PICK q \in Procs : /\ lost' = lost \cup LostBy(q)
                             /\ (UpFails(q) /\ Up(q)) \/ proc[q].cut
      BY <2>2, LossSteps
    <3>2. proc[p].carried # {} /\ proc[q].carried # {}
      BY <2>2, <3>1 DEF LostBy
    <3>3. p = q
      BY <3>2 DEF CustodyInv, ProcInv, RoleInv, OneDeletes
    <3>4. proc[p].pc \notin {"idle", "stop", "delete"}
      BY <3>1, <3>3
      DEF Up, UpRead, EnsureVolume, VolumesEnsured, PruneEntry, Pruned, SkipWrite, Write,
          WriteInterrupted, WriteLands, Create, CreateInterrupted, SettleRestart, EnsureRunning,
          Provision, UpStepFails, At
    <3>5. Listed(inst.record) \subseteq devyml
      BY <3>2, <3>4 DEF LossInv
    <3>6. proc[p].decl = devyml
      BY <3>4 DEF KeepInv, At
    <3> QED BY <3>5, <3>6 DEF LostBy
  <2> QED BY <2>1, <2>2
<1>2. Spec => [](TypeOK /\ KeepInv /\ CustodyInv /\ LossInv)
  BY TypeCorrect, KeepInvariant, CustodyInvariant, LossInvariant, PTL
<1> QED BY <1>1, <1>2, PTL DEF Spec, UncutLossIsReal
=============================================================================
