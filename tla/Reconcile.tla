------------------------------ MODULE Reconcile ------------------------------
(***************************************************************************)
(* What `idev up` makes of an instance that is already there: the config   *)
(* keys and devices dev.yml declares, the mapping of user ids, and the     *)
(* records from which the next run knows what to take away again           *)
(* (internal/cli plan.go, app.go, idmap.go, idmap_mode.go), and what       *)
(* `idev up --dry-run` says of it beforehand (dryrun.go).                  *)
(*                                                                         *)
(* Several checkouts may share the instance, and a user edits it by hand.  *)
(* A map of Go, a config or a device, is a function of the keys it has.    *)
(* The volume record is Lifecycle's, the restart record RestartRecord's.   *)
(***************************************************************************)
EXTENDS Integers

CONSTANTS
  Procs,         \* the idev processes, one per checkout
  Declarations,  \* what the dev.yml of each checkout may say
  Previewing,    \* those that may be asked for --dry-run
  Hosts,         \* what a host may answer about mapping ids
  Older,         \* instances found: foreign, or from before idev recorded what
                 \* it applied, each with what it takes an older idev to have put on it
  HandValues,    \* what a user sets a config key to
  HandDevices,   \* <<name, device>> a user puts on the instance
  UserId,        \* the invoking user's uid, which is also the gid here
  MaxHand,       \* how often the instance is edited by hand, which bounds runs
  NoRecord       \* a key of user.incus-dev.* that is not there

IDMapKey == "raw.idmap"
Workspace == "workspace"

VARIABLES
  inst,     \* the instance, or Nobody
  applied,  \* <<kind, name>> on the instance because an idev put it there
  ever,     \* ... and all an idev ever put there
  proc,     \* the idev processes
  fresh,    \* those whose reading has a current ETag
  hand      \* edits by hand so far

vars == <<inst, applied, ever, proc, fresh, hand>>

Empty == << >>
Nobody == [there |-> FALSE, ours |-> FALSE, config |-> Empty, devices |-> Empty,
           managed |-> NoRecord, owned |-> NoRecord, root |-> NoRecord, image |-> NoRecord,
           madeFrom |-> NoRecord]

\* What reading a key that is not there gives in Go.
Get(m, k, zero) == IF k \in DOMAIN m THEN m[k] ELSE zero

\* The entries of m set over those of n, and a map of one key.
Over(m, n) == [k \in DOMAIN m \cup DOMAIN n |-> IF k \in DOMAIN m THEN m[k] ELSE n[k]]
Entry(k, v) == [only \in {k} |-> v]

IsInstance(i) ==
  /\ i = [there |-> i.there, ours |-> i.ours, config |-> i.config, devices |-> i.devices,
          managed |-> i.managed, owned |-> i.owned, root |-> i.root, image |-> i.image,
          madeFrom |-> i.madeFrom]
  /\ i.there \in BOOLEAN /\ i.ours \in BOOLEAN

ASSUME HandType == MaxHand \in Nat
ASSUME NobodyIsNoProc == "nobody" \notin Procs

\* There is always a main mount (Config.Mounts).
ASSUME MainIsMounted ==
  \A p \in Procs : \A d \in Declarations[p] : "main" \in DOMAIN d.mounts

\* An instance without records has none at all.  The mapping is all it is
\* relieved of (staleIDMapKeys): the rest of what an older idev put there is taken
\* to be the user's.  An idev that knew no shift set none.
ASSUME OlderType ==
  \A o \in Older :
    LET found == o[1]
    IN  /\ IsInstance(found) /\ found.there
        /\ found.managed = NoRecord /\ found.owned = NoRecord /\ found.image = NoRecord
        /\ o[2] \subseteq {<<"key", k>> : k \in {IDMapKey} \cap DOMAIN found.config}
                       \cup {<<"device", n>> : n \in {Workspace} \cap DOMAIN found.devices}
        /\ <<"device", Workspace>> \in o[2] =>
             Get(found.devices[Workspace], "shift", "false") = "false"

-----------------------------------------------------------------------------
(* The mapping of user ids.                                                *)

\* allowsID, over what one of /etc/subuid and /etc/subgid grants root.
AllowsID(ranges, id) == \E r \in ranges : r.start <= id /\ id < r.start + r.count

\* checkSubIDAllowed: with either file unreadable there is nothing to judge by.
RawWorks(host) ==
  \/ ~host.readable
  \/ AllowsID(host.uids, UserId) /\ AllowsID(host.gids, UserId)

\* SupportsIDMappedMounts: a daemon that does not report the feature may have it.
ShiftWorks(host) == host.mounts # "false"

Plan(managed, mode, owner) == [managed |-> managed, mode |-> mode, owner |-> owner]
PlansOf(decl) == [managed : BOOLEAN, mode : {"raw", "shift", "none"}, owner : {decl.owner}]

\* resolveIDMap, as the set of the plan it returns, empty when it refuses.
Plans(decl, host) ==
  IF IDMapKey \in DOMAIN decl.config THEN {Plan(FALSE, "none", decl.owner)}
  ELSE CASE decl.idmap = "raw" /\ RawWorks(host) -> {Plan(TRUE, "raw", decl.owner)}
         [] decl.idmap = "shift" /\ ShiftWorks(host) -> {Plan(TRUE, "shift", decl.owner)}
         [] decl.idmap = "none" -> {Plan(TRUE, "none", decl.owner)}
         [] decl.idmap = "auto" /\ RawWorks(host) -> {Plan(TRUE, "raw", decl.owner)}
         [] decl.idmap = "auto" /\ ~RawWorks(host) /\ ShiftWorks(host) ->
              {Plan(TRUE, "shift", decl.owner)}
         [] OTHER -> {}

-----------------------------------------------------------------------------
(* What dev.yml asks for.                                                  *)

\* isVolumeSource
OnVolume(dev) == dev["type"] = "disk" /\ "pool" \in DOMAIN dev

\* isHostPathMount
HostPath(dev) == dev["type"] = "disk" /\ "source" \in DOMAIN dev /\ ~OnVolume(dev)

\* applyShift
Shift(dev, plan) ==
  IF plan.managed /\ "shift" \notin DOMAIN dev /\ HostPath(dev)
    THEN Over(dev, Entry("shift", IF plan.mode = "shift" THEN "true" ELSE "false"))
    ELSE dev

\* ResolvePath: a source is <<"/", path>>, or <<"", path>> relative to the root.
Resolve(source, root) == IF source[1] = "/" THEN source ELSE <<root, source[2]>>

\* The source of any device is a path but that of a volume.
OwnDevice(dev, plan, root) ==
  Shift(IF "source" \in DOMAIN dev /\ ~OnVolume(dev)
          THEN [dev EXCEPT !["source"] = Resolve(@, root)] ELSE dev, plan)

VolumeDevice(name) == [type |-> "disk", pool |-> "default", source |-> <<"volume", name>>]

MountDevice(mount, plan, root) ==
  Shift(Over([type |-> "disk", source |-> Resolve(mount.source, root)],
             IF mount.readonly THEN Entry("readonly", "true") ELSE Empty), plan)

\* MountDeviceName
MountDeviceName(entry) == IF entry = "main" THEN Workspace ELSE entry

\* desiredDevices: a later source of the three wins a name.
DesiredDevices(decl, plan, root) ==
  Over([n \in {MountDeviceName(e) : e \in DOMAIN decl.mounts} |->
          MountDevice(decl.mounts[IF n = Workspace THEN "main" ELSE n], plan, root)],
       Over([n \in decl.volumes |-> VolumeDevice(n)],
            [n \in DOMAIN decl.devices |-> OwnDevice(decl.devices[n], plan, root)]))

\* desiredConfig, without idev's own keys.
DesiredConfig(decl, plan) ==
  Over(IF plan.managed /\ plan.mode = "raw" THEN Entry(IDMapKey, plan.owner) ELSE Empty,
       decl.config)

\* managedDeviceNames
DeviceNames(decl) ==
  {MountDeviceName(e) : e \in DOMAIN decl.mounts} \cup DOMAIN decl.devices \cup decl.volumes

ASSUME NoRecordIsNoSet ==
  \A p \in Procs : \A d \in Declarations[p] :
    \A plan \in PlansOf(d) : NoRecord \notin {DOMAIN DesiredConfig(d, plan), DeviceNames(d)}

-----------------------------------------------------------------------------
(* What the records say is no longer asked for.                            *)

\* staleIDMapKeys: all an instance without a record can be relieved of.
StaleIDMapKeys(cur, plan) ==
  IF ~plan.managed \/ plan.mode = "raw" THEN {} ELSE {IDMapKey} \cap DOMAIN cur.config

\* A mutant: without a record nothing is taken away.
StaleKeysRecorded(cur, decl, plan) ==
  IF cur.managed = NoRecord THEN {}
  ELSE (cur.managed \cap DOMAIN cur.config) \ DOMAIN DesiredConfig(decl, plan)

\* staleConfigKeys
StaleKeys(cur, decl, plan) ==
  IF cur.managed = NoRecord THEN StaleIDMapKeys(cur, plan)
  ELSE (cur.managed \cap DOMAIN cur.config) \ DOMAIN DesiredConfig(decl, plan)

\* splitList: no record reads as an empty one.
Names(record) == IF record = NoRecord THEN {} ELSE record

\* staleDevices
StaleDevices(cur, decl) == (Names(cur.owned) \cap DOMAIN cur.devices) \ DeviceNames(decl)

\* The InstanceChange reapplyInstance builds from the reading cur.
Change(cur, decl, plan, root) ==
  [set |-> DesiredConfig(decl, plan), unset |-> StaleKeys(cur, decl, plan),
   devices |-> DesiredDevices(decl, plan, root), remove |-> StaleDevices(cur, decl),
   root |-> root]

Without(m, keys) == [k \in DOMAIN m \ keys |-> m[k]]

\* A mutant: a device is merged into the one that is there.
WrittenMerged(cur, ch) ==
  [cur EXCEPT !.config = Over(ch.set, Without(@, ch.unset)),
              !.devices = [n \in (DOMAIN @ \ ch.remove) \cup DOMAIN ch.devices |->
                             IF n \notin DOMAIN ch.devices THEN @[n]
                             ELSE Over(ch.devices[n], Get(@, n, Empty))],
              !.managed = DOMAIN ch.set, !.owned = DOMAIN ch.devices, !.root = ch.root]

\* A mutant: the devices are left to a write of their own, which did not come.
WrittenConfig(cur, ch) ==
  [cur EXCEPT !.config = Over(ch.set, Without(@, ch.unset)),
              !.managed = DOMAIN ch.set, !.owned = DOMAIN ch.devices, !.root = ch.root]

\* The instance after UpdateInstance: config, devices and records in one write.
Written(cur, ch) ==
  [cur EXCEPT !.config = Over(ch.set, Without(@, ch.unset)),
              !.devices = Over(ch.devices, Without(@, ch.remove)),
              !.managed = DOMAIN ch.set, !.owned = DOMAIN ch.devices, !.root = ch.root]

\* settled: the write would leave the instance as it was read.
Settled(cur, ch) ==
  /\ ch.unset \cap DOMAIN cur.config = {}
  /\ \A k \in DOMAIN ch.set : k \in DOMAIN cur.config /\ cur.config[k] = ch.set[k]
  /\ cur.managed = DOMAIN ch.set /\ cur.owned = DOMAIN ch.devices /\ cur.root = ch.root
  /\ ch.remove \cap DOMAIN cur.devices = {}
  /\ \A n \in DOMAIN ch.devices : n \in DOMAIN cur.devices /\ cur.devices[n] = ch.devices[n]

\* instanceSpec, and the instance CreateInstance makes of it.
Created(decl, plan, root) ==
  [there |-> TRUE, ours |-> TRUE, config |-> DesiredConfig(decl, plan),
   devices |-> DesiredDevices(decl, plan, root),
   managed |-> DOMAIN DesiredConfig(decl, plan), owned |-> DeviceNames(decl),
   root |-> root, image |-> decl.image, madeFrom |-> decl.image]

Tagged(kind, names) == {<<kind, n>> : n \in names}
NamesOf(cur) == Tagged("key", DOMAIN cur.config) \cup Tagged("device", DOMAIN cur.devices)
DeclaredNames(decl, plan) ==
  Tagged("key", DOMAIN DesiredConfig(decl, plan)) \cup Tagged("device", DeviceNames(decl))

-----------------------------------------------------------------------------
(* What is said before anything is written.                                *)

\* changedKeys: the keys of want that differ; a key only have has is not seen.
ChangedKeys(have, want) == {k \in DOMAIN want : k \notin DOMAIN have \/ have[k] # want[k]}

\* The marker keys configActions compares as strings, where none reads as "".
MarkersDiffer(cur, ch) ==
  \/ cur.root # ch.root
  \/ Names(cur.managed) # DOMAIN ch.set
  \/ Names(cur.owned) # DOMAIN ch.devices

\* configActions
ConfigActions(cur, ch) ==
  Tagged("unset", ch.unset)
  \cup Tagged("set", {k \in DOMAIN ch.set : Get(cur.config, k, "") # ch.set[k]})
  \cup Tagged("markers", IF MarkersDiffer(cur, ch) THEN {"user.incus-dev"} ELSE {})

\* A mutant: the preview goes by the declaration, and says nothing of removals.
DeviceActionsDeclared(cur, ch) ==
  Tagged("add", DOMAIN ch.devices \ DOMAIN cur.devices)
  \cup Tagged("update", {n \in DOMAIN ch.devices \cap DOMAIN cur.devices :
                           ChangedKeys(cur.devices[n], ch.devices[n]) # {}})

\* deviceActions
DeviceActions(cur, ch) ==
  Tagged("remove", ch.remove)
  \cup Tagged("add", DOMAIN ch.devices \ DOMAIN cur.devices)
  \cup Tagged("update", {n \in DOMAIN ch.devices \cap DOMAIN cur.devices :
                           ChangedKeys(cur.devices[n], ch.devices[n]) # {}})

\* planActions, as far as the instance goes.
PlanActions(cur, ch) == ConfigActions(cur, ch) \cup DeviceActions(cur, ch)

\* warnUnrecorded: what it says is left alone and will not be followed.
LeftAlone(cur, decl, plan) ==
  IF cur.managed = NoRecord /\ cur.owned = NoRecord
    THEN NamesOf(cur) \ DeclaredNames(decl, plan) ELSE {}

\* warnImageChanged, warnDifferentCheckout
Warnings(cur, decl, root) ==
  (IF cur.image \notin {NoRecord, decl.image} THEN {"image"} ELSE {})
  \cup (IF cur.root \notin {NoRecord, root} THEN {"checkout"} ELSE {})

-----------------------------------------------------------------------------
(* A run.                                                                  *)

NoPreview == [shown |-> FALSE, actions |-> {}]
NoPlan == Plan(FALSE, "none", "")

Idle == [pc |-> "idle", decl |-> NoRecord, plan |-> NoPlan, seen |-> Nobody,
         preview |-> NoPreview, warned |-> {}, left |-> {}]

At(p, pc) == proc[p].pc = pc
Decided(p) == Change(proc[p].seen, proc[p].decl, proc[p].plan, p)

\* The declaration is on the instance: provisioning follows.
Readied(p) == [proc EXCEPT ![p].pc = "ready", ![p].seen = Nobody, ![p].preview = NoPreview,
                           ![p].left = {}]

\* Everyone else's reading is older than the instance now, and nobody's preview
\* is of it.
InstBecomes(i, p) ==
  /\ inst' = i
  /\ fresh' = {p} \cap Procs

\* The preflight of up and of --dry-run: the idmap strategy is resolved before
\* the instance is read, and a refusal ends the run there.
Preflight(p) ==
  /\ At(p, "idle")
  /\ \E decl \in Declarations[p], host \in Hosts,
        pc \in {"read"} \cup {"look" : q \in {p} \cap Previewing} :
       \E plan \in Plans(decl, host) :
         proc' = [proc EXCEPT ![p] = [Idle EXCEPT !.pc = pc, !.decl = decl, !.plan = plan]]
  /\ UNCHANGED <<inst, applied, ever, fresh, hand>>

\* Plan (--dry-run): an instance idev does not manage is refused.
Preview(p) ==
  /\ At(p, "look")
  /\ inst.there => inst.ours
  /\ LET ch == Change(inst, proc[p].decl, proc[p].plan, p)
     IN  proc' = [proc EXCEPT ![p].pc = "shown",
                    ![p].preview = [shown |-> TRUE, actions |-> PlanActions(inst, ch)]]
  /\ fresh' = fresh \cup {p}
  /\ UNCHANGED <<inst, applied, ever, hand>>

\* What was shown was liked: up follows, on the same dev.yml and the same host.
Follow(p) ==
  /\ At(p, "shown")
  /\ proc' = [proc EXCEPT ![p].pc = "read",
                 ![p].preview = IF p \in fresh THEN @ ELSE NoPreview]
  /\ UNCHANGED <<inst, applied, ever, fresh, hand>>

\* up reads the instance, and warns about what it will not apply.
Read(p) ==
  /\ At(p, "read")
  /\ inst.there => inst.ours
  /\ proc' = [proc EXCEPT ![p].pc = IF inst.there THEN "write" ELSE "create",
                 ![p].preview = IF p \in fresh THEN @ ELSE NoPreview,
                 ![p].seen = inst,
                 ![p].warned = Warnings(inst, proc[p].decl, p),
                 ![p].left = LeftAlone(inst, proc[p].decl, proc[p].plan)]
  /\ fresh' = fresh \cup {p}
  /\ UNCHANGED <<inst, applied, ever, hand>>

\* What idev has on the instance after a write that sets and removes names.
Applies(p, removed) ==
  LET declared == DeclaredNames(proc[p].decl, proc[p].plan)
  IN  /\ applied' = (applied \ removed) \cup declared
      /\ ever' = ever \cup declared

\* A mutant: the write is judged against an ETag read just before it.
WriteUnguarded(p) ==
  /\ At(p, "write")
  /\ ~Settled(proc[p].seen, Decided(p))
  /\ inst.there
  /\ InstBecomes(Written(inst, Decided(p)), p)
  /\ Applies(p, Tagged("key", Decided(p).unset) \cup Tagged("device", Decided(p).remove))
  /\ proc' \in {Readied(p), [proc EXCEPT ![p] = Idle]}
  /\ UNCHANGED hand

\* The write lands: on the instance as it is, against the ETag of the reading.
\* The run goes on, or ends there with the answer not waited for.
Write(p) ==
  /\ At(p, "write")
  /\ ~Settled(proc[p].seen, Decided(p))
  /\ p \in fresh
  /\ InstBecomes(Written(inst, Decided(p)), p)
  /\ Applies(p, Tagged("key", Decided(p).unset) \cup Tagged("device", Decided(p).remove))
  /\ proc' \in {Readied(p), [proc EXCEPT ![p] = Idle]}
  /\ UNCHANGED hand

\* reapplyInstance with nothing to write.
SkipWrite(p) ==
  /\ At(p, "write")
  /\ Settled(proc[p].seen, Decided(p))
  /\ proc' = Readied(p)
  /\ UNCHANGED <<inst, applied, ever, fresh, hand>>

\* CreateInstance, which fails when something has made the instance since.
Create(p) ==
  /\ At(p, "create")
  /\ ~inst.there
  /\ InstBecomes(Created(proc[p].decl, proc[p].plan, p), p)
  /\ applied' = DeclaredNames(proc[p].decl, proc[p].plan)
  /\ ever' = applied'
  /\ proc' \in {Readied(p), [proc EXCEPT ![p] = Idle]}
  /\ UNCHANGED hand

\* A run ends: in success, on a call that fails, on an interruption, or on a
\* write that is refused because the instance moved on.
End(p) ==
  /\ ~At(p, "idle")
  /\ proc' = [proc EXCEPT ![p] = Idle]
  /\ fresh' = fresh \ {p}
  /\ UNCHANGED <<inst, applied, ever, hand>>

-----------------------------------------------------------------------------
(* The user and `incus`.                                                   *)

ByHand(i, gone) ==
  /\ hand < MaxHand
  /\ hand' = hand + 1
  /\ InstBecomes(i, "nobody")
  /\ applied' = applied \ gone
  /\ UNCHANGED <<ever, proc>>

HandSetKey(k, v) ==
  /\ inst.there /\ Get(inst.config, k, "") # v
  /\ ByHand([inst EXCEPT !.config = Over(Entry(k, v), @)], {})

HandUnsetKey(k) ==
  /\ inst.there /\ k \in DOMAIN inst.config
  /\ ByHand([inst EXCEPT !.config = Without(@, {k})], {<<"key", k>>})

HandSetDevice(n, dev) ==
  /\ inst.there /\ Get(inst.devices, n, Empty) # dev
  /\ ByHand([inst EXCEPT !.devices = Over(Entry(n, dev), @)], {})

HandRemoveDevice(n) ==
  /\ inst.there /\ n \in DOMAIN inst.devices
  /\ ByHand([inst EXCEPT !.devices = Without(@, {n})], {<<"device", n>>})

\* incus delete
HandDelete ==
  /\ inst.there
  /\ hand < MaxHand /\ hand' = hand + 1
  /\ InstBecomes(Nobody, "nobody")
  /\ applied' = {} /\ ever' = {}
  /\ UNCHANGED proc

-----------------------------------------------------------------------------
Init ==
  /\ \E older \in Older \cup {<<Nobody, {}>>} : inst = older[1] /\ applied = older[2]
  /\ ever = applied
  /\ proc = [p \in Procs |-> Idle]
  /\ fresh = {}
  /\ hand = 0

Step(p) ==
  \/ Preflight(p) \/ Preview(p) \/ Follow(p) \/ Read(p)
  \/ Write(p) \/ SkipWrite(p) \/ Create(p) \/ End(p)

Next ==
  \/ \E p \in Procs : Step(p)
  \/ \E k \in DOMAIN inst.config \cup DOMAIN HandValues :
       HandUnsetKey(k) \/ \E v \in Get(HandValues, k, {}) : HandSetKey(k, v)
  \/ \E h \in HandDevices : HandSetDevice(h[1], h[2])
  \/ \E n \in DOMAIN inst.devices : HandRemoveDevice(n)
  \/ HandDelete

Spec == Init /\ [][Next]_vars

-----------------------------------------------------------------------------
(* Properties.                                                             *)

\* What the records name.
Recorded == Tagged("key", Names(inst.managed)) \cup Tagged("device", Names(inst.owned))

\* The instance is idev's, another's or none; what idev put on it is on it.
RecTypeOK ==
  /\ inst.there \/ inst = Nobody
  /\ inst.ours => inst.there
  /\ applied \subseteq NamesOf(inst)
  /\ applied \subseteq ever
  /\ fresh \subseteq Procs
  /\ hand \in 0 .. MaxHand
  /\ \A p \in Procs :
       /\ proc[p].pc \in {"idle", "look", "shown", "read", "write", "create", "ready"}
       /\ ~At(p, "idle") => proc[p].decl \in Declarations[p]
                            /\ proc[p].plan \in PlansOf(proc[p].decl)

\* The records are all idev knows of what it did.  What it put on the instance
\* and is still there is recorded, or nothing would ever take it away; what is
\* recorded an idev did put there, or a later run would take away what a user
\* set by hand.  The image recorded is the one the instance was made from.
RecordIsHonest ==
  inst.managed # NoRecord =>
    /\ applied \subseteq Recorded
    /\ Recorded \subseteq ever
    /\ inst.image \in {NoRecord, inst.madeFrom}

\* An up that ended well, with nobody at the instance since, leaves nothing for
\* a second one to write, nothing of an earlier dev.yml behind, and has said so
\* if the image is not the declared one.
ReadyIsAsDeclared ==
  \A p \in fresh :
    At(p, "ready") =>
      /\ Settled(inst, Change(inst, proc[p].decl, proc[p].plan, p))
      /\ applied \subseteq DeclaredNames(proc[p].decl, proc[p].plan)
      /\ inst.madeFrom \in {NoRecord, proc[p].decl.image} \/ "image" \in proc[p].warned
                                                        \/ inst.image = NoRecord

\* The devices whose shift a dev.yml sets itself, which wins.
ShiftsItself ==
  UNION {{n \in DOMAIN d.devices : "shift" \in DOMAIN d.devices[n]} :
           d \in UNION {Declarations[p] : p \in Procs}}

\* raw.idmap and an idmapped mount are two mappings one over the other: files
\* would belong to neither user.  Whatever the strategy was and becomes, and
\* whoever takes the key over, idev never leaves both on the instance.
NeverBothMappings ==
  <<"key", IDMapKey>> \in applied =>
    \A n \in DOMAIN inst.devices \ ShiftsItself :
      <<"device", n>> \in applied => Get(inst.devices[n], "shift", "false") = "false"

\* What differs between two instances, in the terms of a preview.
Difference(before, after) ==
  Tagged("unset", DOMAIN before.config \ DOMAIN after.config)
  \cup Tagged("set", {k \in DOMAIN after.config :
                        k \notin DOMAIN before.config \/ before.config[k] # after.config[k]})
  \cup Tagged("markers", IF <<before.root, before.managed, before.owned>>
                              = <<after.root, after.managed, after.owned>>
                           THEN {} ELSE {"user.incus-dev"})
  \cup Tagged("remove", DOMAIN before.devices \ DOMAIN after.devices)
  \cup Tagged("add", DOMAIN after.devices \ DOMAIN before.devices)
  \cup Tagged("update", {n \in DOMAIN before.devices \cap DOMAIN after.devices :
                           before.devices[n] # after.devices[n]})

\* A device that only loses keys, which the preview does not look for.
OnlyLoses(before, after) ==
  {n \in DOMAIN before.devices \cap DOMAIN after.devices :
     \A k \in DOMAIN after.devices[n] :
       k \in DOMAIN before.devices[n] /\ before.devices[n][k] = after.devices[n][k]}

Follows(p) == proc[p].preview.shown /\ proc[p].pc \in {"write", "create"} /\ proc'[p].pc = "ready"

\* `up --dry-run` and then up, with nothing done in between: every line shown is
\* done, and everything done was shown, but for keys a device loses.  And what a
\* warning says is left alone is left alone, but for the mapping: raw.idmap is
\* unset on an instance without records all the same (staleIDMapKeys).
SaysWhatItDoes ==
  [][\A p \in Procs :
       /\ Follows(p) =>
            /\ proc[p].preview.actions \subseteq Difference(inst, inst')
            /\ Difference(inst, inst') \subseteq
                 proc[p].preview.actions \cup Tagged("update", OnlyLoses(inst, inst'))
       /\ At(p, "write") /\ proc'[p].pc = "ready" =>
            proc[p].left \subseteq NamesOf(inst') \cup {<<"key", IDMapKey>>}]_vars

\* ... and everything done was shown.  A device of which dev.yml drops a key,
\* such as readonly, is written anew and no line says so.
PreviewShowsAll ==
  [][\A p \in Procs : Follows(p) =>
       Difference(inst, inst') \subseteq proc[p].preview.actions]_vars
=============================================================================
