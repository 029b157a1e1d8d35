# idev, specified

TLA+ models of `idev` (incus-dev): a command that keeps one Incus instance per
project in line with `dev.yml`, runs provisioning in it, and keeps persistent
volumes across instances. The models follow the code in `src/`; what is not
there (the Incus daemon, the user) follows from how the code calls it, its test
double (`internal/incus/incustest`) and the contract tests
(`internal/incus/contract`).

## The system

A run of `idev` is one process. It keeps nothing on disk: everything it has to
remember is in `user.incus-dev.*` config keys of the instance. Several runs may
be at work on the same instance, from two terminals or two checkouts; nothing
locks them out. What protects the records is the ETag of the reading a decision
was made from (spec 05-incus.md 5.7.4).

| component | state | operations | what makes it hard |
|---|---|---|---|
| lifecycle (`internal/cli/app.go`, `volumes.go`, `plan.go`) | the instance's config, devices and records; volumes on the pool; the record a rebuild carries in memory | `up`, `destroy`, `destroy --volumes`, `rebuild`, `provision` | a run of API calls any of which fails or is interrupted; another idev or the user in between; the only names of volumes are stored on the thing being deleted |
| restart record (`restart.go`) | `user.incus-dev.restart-pending`, the instance's start time | settle a restart, warn, `up --restart` | config and record are two writes; hand restarts; values changed and changed back |
| snapshots (`snapshot.go`) | the config each snapshot holds | create, list, restore, delete | a restore rolls idev's records back too |
| Incus calls (`internal/incus/api.go`) | operations in flight in the daemon | instance, volume, snapshot, exec calls | interruption ends the wait, not the operation |
| signals (`cmd/idev/main.go`) | context, handlers | first and second Ctrl-C | the second ends the process at any step |
| exec (`api.go` `Exec`, `exec_tty.go`) | goroutines, websockets, terminal mode | shell, exec, steps | relays, signal and drain in goroutines of their own |
| readiness (`wait.go`) | deadline | `WaitReady` | polling, timeout, network that never comes |
| provisioning (`internal/provision`, `internal/runner`) | none of its own | bootstrap, steps, selection | order, partial failure, interruption |
| reconciliation (`plan.go`, `app.go` `reapplyInstance`) | config keys, devices, and the records of which are idev's | `up`'s one write | hand edits, keys taken over, several checkouts, instances older than the records |
| idmap (`idmap.go`, `idmap_mode.go`) | the strategy in use | choose raw or shift | a strategy change leaves keys behind |
| dry run (`dryrun.go`), status | none | preview, report | must say what `up` would do |
| configuration (`internal/config`) | none | parse, validate | two forms of `workspace`; names and paths that collide from three sources |
| discovery (`internal/project`, `root.go`) | none | search upwards, load, choose the Incus project | a nearer `dev.yml` that cannot be used |
| naming (`name.go`, `naming.go`) | none | derive instance and volume names | lengths, characters that vanish, separators |
| connection (`connect.go`) | image cache | connect, resolve | a goroutine that outlives the wait; an alias that moves |

What has to be right, by component:

- lifecycle: a volume idev created stays named by something until it is
  deleted; `up` leaves on the instance what it decided; `destroy --volumes`
  reaches every volume on record; a message that calls volumes lost is true; a
  write never undoes another idev's.
- restart record: what the container does not run with is recorded, nothing
  else is, and `--restart` never stops an instance for nothing.
- provisioning: steps run in order, a failed step ends the run, a partial
  selection runs what it names and bootstrap.
- exec: the exit code and the whole output arrive, an interruption reaches the
  remote process, the terminal is restored.
- reconciliation: the records name what idev put on the instance and nothing of
  the user's; a second `up` has nothing to do; raw and shifted mappings never
  stand together; the preview and the warnings are true.
- configuration and discovery: what is accepted Incus does not refuse halfway,
  nothing written is dropped in silence, a command acts on the nearest project.
- naming: two checkouts have two instances, and lists of names read back.
- connection: an answer given once holds for the run, and no handshake, image
  server or operation that stays silent keeps an interrupted run.

## Modules

| module | models | state and actions |
|---|---|---|
| `VolumeCustody` | the promise about volumes, with no instance in it | `pool`, `yml`, `kept`; every step keeps `pool \cap Named` named |
| `Lifecycle` | `up`, `destroy`, `rebuild`, snapshots, interruption | see below |
| `MCLifecycle` | small instances of it | which process runs which commands |
| `LifecycleProofs`, `CustodyProofs` | theorems about `Lifecycle`: types, readings and what a command that succeeds has done; what becomes of names | |
| `RestartRecord` | `settleRestart` and the writes around it | see below |
| `MCRestartRecord` | small instances of it | the spellings of `raw.idmap` |
| `RestartProofs` | theorems about `RestartRecord` | |
| `ExecSession` | `API.Exec`, `exec_tty.go`, the signal handlers of `main.go` | one goroutine per variable, see below |
| `ExecProofs` | theorems about `ExecSession` | |
| `Readiness` | `wait.go` | `ready`: where `waitReady` is and its timers |
| `Provisioning` | `provision`, `runner` and what `App.Provision` and `up` do around them; extends `Readiness` | see below |
| `MCProvisioning` | small instances of it | `dev.yml` files and selections |
| `ProvisioningProofs` | theorems about `Readiness` and `Provisioning` | |
| `Reconcile` | what `up` makes of an instance that is there: config, devices, mapping, records, and the preview of it | see below |
| `MCReconcile` | a small instance of it | `dev.yml` files, hosts, instances from before the records |
| `ReconcileProofs` | theorems about `Reconcile` | |
| `Naming` | `name.go`, `naming.go`, volume names and record lists | operators |
| `Declaration` | a `dev.yml`: what it declares, and what is refused of it; extends `Naming` | operators |
| `Loading` | from a directory to an instance name: `Discover`, `Load`, `buildApp`, `NewApp`; extends `Declaration` | two commands one after the other |
| `MCLoading` | a small instance of it | files, trees and checkouts |
| `LoadingProofs` | theorems about `Naming`, `Declaration` and `Loading` | |
| `RemoteCalls` | `connect.go`, and the waiting in `api.go` | `run`, the goroutine it waits for, the daemon's operation |
| `RemoteProofs` | theorems about `RemoteCalls` | |

### Lifecycle

`inst` is the instance as the daemon holds it: whether it exists and runs, the
volume record (`NoRecord` when the key is absent), the device record, and the
volumes attached as devices. `pool` is the set of volumes that exist. `proc[p]`
is what one idev process holds: the declaration it loaded (`decl`), its reading
(`seen`), the working copy of the record that `adoptCarried` and
`pruneVolumeRecord` edit (`work`), `App.carried`, and what a loop has left
(`todo`). `current` is the set of processes whose ETag the daemon would still
accept. `deleting` is a delete whose wait was given up. `told` and `lost` are
history: the volumes a message named because the record naming them was going,
and the ones `recordLostWith` called lost.

One API call is one step, and each may fail instead (`UpFails`,
`DestroyFails`). The code between two calls belongs to the step that follows or
precedes it: `UpRead` is the reading and `adoptCarried`, `Write` the one write
of `reapplyInstance` with config and devices together, `Delete` also writes
the message of `destroy`. A volume stands for the `pool/name` of a `dev.yml`
key. Choices made:

- The order a loop visits volumes in is left open; the code sorts them.
- `VolumeExists` followed by `CreateVolume` is one step, at the create. A
  second idev creating in between makes the create fail, which is `UpFails`.
- The rest of `dev.yml` is not modelled, so a write that would not change the
  volumes may happen or be skipped.
- The daemon refuses a device whose volume is missing, a delete of a running
  instance or of an attached volume, and any change to an instance it is
  deleting.
- `rebuild` logs the volumes it keeps; that line does not count as telling the
  user, since the record is being carried.
- Instances of another owner are not modelled: `up` and `destroy` stop at their
  first reading of one.

`Kept` is what idev itself names: the record, what a command carries or has left
to delete, and `told`. While the daemon is deleting an instance in the
background its record counts for nothing. `VolumeCustody` with `yml <- devyml`
and `kept <- Kept` is what `Lifecycle` implements (`CustodyKept`).

### RestartRecord

`stored` is the config of the keys Incus reads at boot, `booted` what the
container booted with, `starts` the instance's start time, `record` the pending
record with the start time it was written under. `Write` is the guarded config
write, `RecordOwed` and `ClearPending` the second, unguarded one, decided from
the reading `Write` was decided from. `Same` is `SameIDMapping`, taken as a map
from spellings to mappings. A `dev.yml` declares a value or nothing; an entry
without a value (`Unknown`) is what an older idev wrote.

### ExecSession

One exec from the call to the end of its process. `main` is the goroutine in
`API.Exec`; its `pc` walks through the code, and the deferred calls follow in
the order they run (`Unsubscribe`, `Restore`, `Await`, `Finish`). `control` is
the handler of the control websocket with `done` and `sent`, `window` the
terminal and the goroutine that relays its changes over two channels of one
entry, `sig` the two signal handlers with the window between them, `cont` the
process in the container, its output and the websocket. What lies between two
channel operations is one step. Choices made:

- The size in the request is given to the container when the request is made;
  resizes follow over the websocket.
- Window changes nobody follows (no terminal, or unsubscribed) are left out.
- `signalGrace` is a timer that may run out at any moment (`GraceOver`), so no
  property depends on its length.
- A size may be unreadable at any time. `cont.wire` is the websocket: broken, it
  stays broken, and a send on it fails.
- The content of the streams, the environment and the user are left out.

### Readiness and Provisioning

`ready` holds the position in `waitExec` and `waitNetwork`, the reading they
have, and four timers counted in ticks; a tick may fall between any two steps,
so the two looks at the clock in one round can differ. `net` is what addresses
the instance has.

`run` is one `up` or `provision`: `todo` is what is left of bootstrap and the
selected steps, `need` the prerequisites still to be looked for, `ran` what was
started. `checked` is the three `sync.Once` answers of the `Executor`, `host`
the tools on the host and the step's temporary directory, `child` the host
command under `runner.Exec`. A step in the container is `ExecEnds`, one step,
as `ExecSession` shows its outcomes. What `up` does to the instance before the
wait is `InstanceReady`; `Lifecycle` models it. `Verdict` says what
`runner.Exec` returns and takes over from `os/exec` that a context that is over
starts nothing, that a command asked to stop ends in the context's error even
with exit code 0, and that after `WaitDelay` the command is killed and its
output closed. Data that decides nothing here (arguments, inventories, names of
files) is left out. The second Ctrl-C, which ends the process anywhere and
leaves the temporary directory, is not in this module.

### Reconcile

`inst` has the config and the devices as functions of their names, and the
records `managed`, `owned`, `root` and `image`. `madeFrom` is what it was really
made from. `applied` is history: the names on the instance because an idev put
them there, which hand edits take out; `ever` keeps those, too. `proc[p]` is a
run with its `dev.yml`, its idmap plan, its reading and what it showed and
warned of, and `fresh` the runs whose ETag is current. `Preflight` resolves the
strategy, `Preview` is `--dry-run`, `Follow` the `up` a user then runs, `Write`
is `UpdateInstance` with config, devices and records in one, against the ETag.
Choices made:

- Devices have only the keys the properties tell apart; `path` has none of its
  own. A source is absolute or relative to the checkout.
- A write whose answer is not waited for lands all the same, and the run ends.
- A user edits names, not idev's own `user.incus-dev.*` keys.
- Between `--dry-run` and `up` the same `dev.yml` and host are read.
- The volume record, and the volumes themselves, are `Lifecycle`'s; the restart
  that a new mapping needs is `RestartRecord`'s.

### Naming, Declaration and Loading

A text is a sequence of pieces: separators, characters, or whole words none of
the code looks into. A problem is `<<section, name, what>>`, and a document with
none is accepted: `SchemaProblems` is the JSON schema and the other operators
`validate.go`, one for each of its functions. `workspace`, which the schema leaves
alone, keeps kinds and fields as YAML has them, and `Workspace` is its custom
decoder. `IsDoc` says which documents there are: what the schema and the decoder
let through. A hash is eight pieces of which the first is the hashed text itself
(`ShortHash`); `HashAssumption` says that nobody wrote such a piece into a name
and that texts that differ have hashes that differ. In the code a hash is 32
bits of a SHA-256 in hex, so both can fail, by chance.

`world` is the disk: what is at `.incus-dev/dev.yml` in each directory, which
document that is, links, and what git says of the branch. `cmd` is two commands,
the second after the first: `Start`, `Look`, `LookDenied` and `LookFound` are the loop of
`Discover`; `Load`, `Connect`, `Name` and `CheckVolumes` the way through
`buildApp` and `NewApp` to the first check of a command. Only `up`, `rebuild`, the
preview and `validate` check the names of volumes, so a command may pass
`CheckVolumes` with any. What decodes is what Go's decoder takes, a null included,
which leaves the default.

### RemoteCalls

Most calls of the client library take no context. idev makes those in a
goroutine and selects between its answer and the end of the run's context
(`call`; `Answered`, `GivesUp`); with both ready either is taken. Others are
waited for with `op.WaitContext`, a `select` as well (`WaitedFor`, `WaitCut`). `daemon` is the
instance and the operation on it, which runs on whatever idev does. A job is a
rebuild, an `up` or the restart of one, from the handshake to the start, and
`cut` the cancelled context. Choices made:

- A plain request (a reading, or the one that starts an operation) is answered
  with the step that makes it, or never: `Hangs` leaves the run `stuck` at any
  place that makes one (`AsksPlainly`). A refusal is an operation that fails.
- `Look` is the readings before the first change, preflight's included.
- One reference is resolved. `alias` is what it stands for upstream at the
  moment, `cache` what the resolver remembers.
- The daemon is handed the alias beside the resolved image and may look it up
  once more; what it finds then is not modelled.
- Provisioning and volumes between the calls are left out.

## Runs

| run | instance | shows |
|---|---|---|
| `alone` | 1 process, 2 volumes, every command, 1 snapshot taken and restored between commands, edits between commands, hand deletes, starts and stops, interruption, kills, failures, legacy instance | `PurgeReachesAll`, `UncutLossIsReal`, `UpLeavesItsDecision`, types |
| `together` | 2 processes, 2 volumes: destroy, destroy `--volumes` or rebuild beside up, edits between commands, interruption, failures, legacy instance | `CustodyKept`, `RecordKeepsVolumes` |
| `restart` | 1 process, 2 keys, 3 values of which 2 are one mapping, 3 starts, runs that end early except between the two writes | the record is exact and true, no needless restart |
| `exec` | with or without a terminal, 2 sizes, 2 changes, 2 interrupts, a deadline, a websocket that breaks | an interruption reaches the process and ends the exec, exit code and output are whole, the terminal is restored, the last size arrives, nothing is left behind |
| `provision` | 4 `dev.yml` files, 3 selections and everything, every set of host tools, limits of 1 and 2 ticks | what was asked runs in order, tools are looked for first, verdicts are true, the wait ends, an interruption ends the run and its files |
| `reconcile` | 2 checkouts, 4 `dev.yml` files for one and 1 for the other, 4 hosts, no instance or one of 3 found, 1 edit by hand | records are honest, `up` converges, one mapping at a time, preview and warnings are true |
| `declare` | some 650 `dev.yml` files, 216 trees of 3 directories, pairs of 6 checkouts, 9 branches, a project with a long hyphenated name | devices never collide, lists read back, nothing written is dropped, the nearest project is used, checkouts are apart |
| `remote` | 3 jobs, 2 images, an alias that moves or goes, servers that may never answer, plain requests that hang, an interruption | what a call answered holds; an interruption ends every wait that is made to end with the context |
| `restart_not_recorded` | 1 process, 1 key, failing calls | a finding, below |
| `preview_silent` | as `reconcile` | a finding |
| `volumes_shared` | as `declare` | a finding |
| `idmap_dropped` | as `declare` | a finding |

Two volumes are enough for one to be declared and one not, and for a loop to be
cut between two; the volumes are otherwise independent. Two processes are
enough for the guarded write to be refused and for a record to move between
reading and writing. Both runs take the two volumes for interchangeable, which
nothing tells apart. `MaxSnapshots` bounds the snapshots that stand at a time;
one holds any earlier state of the records. Beside two processes, hand deletes,
starts and stops are more than TLC gets through; `CustodyIsKept` and
`RecordSurvivesWrites` have them, and so `alone` does. `MaxStarts` bounds the start time, which
otherwise only grows: three starts allow a restart by idev and one by hand on
either side of it. `restart*` switches the deadlock check off because of that
bound alone. `declare` and `remote` stop because a command does.

Two window changes are needed for one notice to be dropped behind another, and
two interrupts for the first to cancel and the second to end the process. In
`provision` the limits are as small as they can be with the network's longer
than the others; the declarations put a galaxy step before, after and between
ansible steps, give a step the name `2` and one the name `step 2`, and declare,
empty and omit the bootstrap.

In `reconcile` the `dev.yml` files differ in pairs in every way the write tells
apart: a key, a device and a volume come, go, change and change hands (`data`
is a mount in one and a device in another), the mapping is auto, shift, none or
the user's, and the host allows raw, shift, both or neither. Two checkouts suffice
for a reading to be overtaken; one edit by hand for a name to be taken over or
lost between a reading and a write. `MaxHand` bounds the edits. `declare` takes
every combination of 12 workspace sections, 7 of volumes and 7 of devices, and
every other field wrong by itself: the checks of different sections do not
look at one another except over names and paths, which the combinations share.
Three directories allow a project below and above one that cannot be used. The
lengths are the real ones: 55, 63, 64, and 32 and 33 for a suffix.

Fairness: the lifecycle, restart, reconcile and declare runs have none and claim no liveness. In
`exec` each goroutine goes on when it can (weak fairness of `Main`, `Select`,
`Relay` and the signal handlers, as Go schedules goroutines). Nothing is assumed
of the daemon, the process, its output, the websocket or the user, and the wait
for the signal still ends because `signalGrace` is a timer of `Main`. A send on
the websocket has no fairness either; `SizeSettles` and `NothingLeft` state it
as a premise. In `provision` idev goes on and its timers run out, an interrupted
exec ends (`InterruptEnds`), and a probe ends once its context is over. A step
need not end by itself, nor a command heed SIGTERM or close its output.
`PauseEnds` is strongly fair: it is one ready case of a `select` entered again
and again, and Go picks among ready cases at random. The calls that read the
instance are taken to return; they accept no context, and the second interrupt is
the way out.

In `remote` idev goes on when it can, and no image server, handshake or
operation of the daemon has to come to an end: an interrupted run ends though
none does. A plain request is another matter. `GetInstanceFull`,
`UpdateInstanceState` and `DeleteInstance` are called without a context and
without a goroutine (`api.go:122`, `348`, `374`), so the daemon may leave one
unanswered and the run with it (`Hangs`, which nothing obliges and nothing
undoes); `InterruptEndsCall` says that an interrupted run ends or is stuck there,
and the second interrupt, which ends the process wherever it is, is
`NextSignalEnds`.

`together` is limited to one process that deletes. With two, or with
`destroy` beside `rebuild`, TLC finds volumes that lose their name: the delete
is by name and carries no ETag, so it may hit an instance whose record is not
the one that was read (`app.go:400`).

### Findings

- An `up` that ends between the config write and the restart record forgets the
  restart (`OwedIsRecorded`, `restart.go:48`).
- The preview says nothing of a device that only loses a key, such as
  `readonly`, though `up` writes it (`PreviewShowsAll`, `dryrun.go:220`).
- An `idmap` beside mounts that is no string is dropped without a word
  (`IdmapIsTaken`, `workspace.go:76`); the shape check passes over the key.
- Two instances can share a volume: volume `x-cache` of branch `feat` and volume
  `cache` of branch `feat-x` (`VolumesApart`, `plan.go:234`).

### Limits of the properties

What the passing runs exclude, or state more weakly than one might wish:

- A create interrupted while the daemon works may complete, with the carried
  record in it, after `rebuild` has called the volumes lost (`api.go:255`).
  `UncutLossIsReal` is about runs whose create was not cut.
- Volumes an `up` creates before it fails are named by `dev.yml` alone
  (`app.go:266`), so `CustodyKept` counts those names.
- A restored snapshot brings an older volume record back (`snapshot.go:109`);
  `CustodyKept` does not hold with restores: a volume made since the snapshot
  and dropped from `dev.yml` has no name left. `together` restores none; `alone`
  restores between commands, for the other properties.
- An `up` that read before another `up` wrote its restart record drops that
  record (`restart.go:184`); `restart` has one process.
- A wait whose limit passes between its two looks at the clock ends well with no
  address, and no warning is printed (`wait.go:117`).
- A mount with an empty name is accepted, and so is one named `source`, `target`
  or `readonly`, which 03-configuration.md 3.7.7 rules out.
- The code's default scope is `path` (`config.go:116`, 03-configuration.md 3.5.2).
  05-incus.md (lines 31, 36 and 72) and a comment (`app.go:898`) still say that it is
  `name`, under which checkouts share an instance by design. The documents disagree
  with one another, so `CheckoutsApart` speaks of scopes that are written down,
  and no property speaks of a `dev.yml` without one; the model follows the code.
- Branches with one normal form share an instance. `CheckoutsApart` says so.
- Two branches of a project with a long name with hyphens in it can share an
  instance, which `CheckoutsApart` leaves out (`NeverCut`). How much of the name is
  left depends on the suffix, and a hyphen it would end in is dropped
  (`name.go:56`): with a project of 25 letters, a hyphen and 29 times the letter
  `a`, the branch `bb` and the branch of 29 times `a`, a hyphen and `bb` are both
  `dev-`, the 25 letters, `-`, 29 times `a` and `-bb`. It was met in the proof, and
  `declare` has these two branches: without `NeverCut` it fails.
- `warnUnrecorded` says what it will leave alone, and `staleIDMapKeys` unsets
  `raw.idmap` all the same; `SaysWhatItDoes` excepts that key.
- A nearer `dev.yml` that cannot be used is mentioned only once the project
  above has loaded.
- A config value that is the empty string is no difference to an absent key for
  the preview (`dryrun.go:179`) and one for `settled` (`app.go:701`).
  `MCReconcile` declares none, and `PreviewIsTrue` is about `dev.yml` files
  without.
- `ReadsBack` is about pools whose names hold no `/` and no `,` (`PoolsAreNames`).
  The schema gives no pattern for them; Incus has no such pool, so a volume in
  one is not made and not recorded.

## Proofs

The theorems hold for every value of the constants that meets the assumptions
the modules state of them: any number of volumes, keys, values, processes,
`dev.yml` files, hosts, images, failures and interruptions. What a theorem
assumes beyond that is a definition it names.

`LifecycleProofs` proves, in any environment:

- `TypeCorrect`: `Spec => []TypeOK`.
- `RecordSurvivesWrites`: `Spec => RecordKeepsVolumes`, assuming that `dev.yml`
  is not edited while commands run and that no snapshot is restored (both are
  needed: without the first, a process drops from the record a volume another
  is just creating; the second is under the limits). The invariant is `KeepInv`: what
  `up` read in the record and is still on the pool is in what it will write.
  A step of another process can only disturb it by creating a volume, and then
  one both declare. A reading whose ETag is current is the instance (`CoherentInv`, a lemma
  about how ETags are modelled), so the record read is the one written over.

`CustodyProofs` proves the refinement, `CustodyIsKept` (`Spec => CustodyKept`):
`Lifecycle` implements `VolumeCustody`, each step mapping to a step of it or to
a stutter. `CustodyInv` says where the names are at each position of a command:
what a rebuild carries covers what the record held, what a loop has still to
delete is what is left, and what is being deleted has been told. It assumes

- `OneDeletes`: of two processes one only runs `up`. A delete is by name, so
  with two it may hit an instance whose record nobody read (`app.go:400`);
- no `dev.yml` edited under a running command, no snapshot restored, no process
  killed: each lets a volume go unnamed, and that is how the code is.

`LossIsReal` (`UncutLossIsReal`) rests on `LossInv` and on the first two of
those; a kill does no harm to it. TLC checked both invariants with two
processes before.

`LifecycleProofs` also is about a command that succeeds: `PurgeIsComplete`
(`PurgeReachesAll`) while nobody who ensures volumes is at work beside a purge
(`PurgeApart`: a volume may otherwise come back after its turn), and
`DecisionIsLeft` (`UpLeavesItsDecision`) while one process at a time makes
instances (`OneMakes`: two of them each may follow the other's write) and no
snapshot is restored under a command. Both first show which command can be at which position
(`CommandInvariant`).

`RestartProofs` proves that the record is exact: `RecordedValuesAreTrue`
(`RecordIsTrue`), `OwedRestartIsRecorded` (`OwedIsRecorded`), `OnlyOwedIsRecorded`
(`NothingElseIsRecorded`) and `RestartAppliesSomething` (`NeverRestartsForNothing`).
`RestartInv` has three parts: between runs the record holds exactly the keys the
container does not run with (`Applied`); since a reading only starts can have
changed what runs (`SinceRead`); and in a run what it read and what it is about
to write give the same (`ReadingInv`). Assumed are one process (`Alone`: the
second write goes by a reading from before the first) and no run that ends
between the two writes (`failBetween`, the finding).

`ReconcileProofs` proves, for any number of checkouts, each with any `dev.yml`
files, and any edits by hand: `RecTypeCorrect`, `RecordsAreHonest`
(`RecordIsHonest`), `ReadyMeansDeclared` (`ReadyIsAsDeclared`), `OneMapping`
(`NeverBothMappings`) and `PreviewIsTrue` (`SaysWhatItDoes`). `ReconcileInv` adds
to the properties that the plan of a run fits its `dev.yml` (`PlanInv`), that a
reading with a current ETag is the instance and was warned of (`SeenInv`), and
that the records come together, and before them an idev put nothing there but
the mapping and the tree (`RecordsInv`). The key is `AppliedIsDeclaredOrStale`:
what idev has on the instance is declared or among what the write removes, so
after a write it is exactly what is declared. For the preview, `PreviewInv` ties
what was shown to the reading, and `LinesAreDifferences` compares its lines with
what changes. `OneMapping` assumes that nobody turns `shift` on by hand
(`HandShiftsNothing`; idev would find the device as it is and not know), and
`PreviewIsTrue` that no config value is empty (`NoEmptyValues`).

`RemoteProofs` proves `AnswersAreHeld` (`AnswersHold`), for any images and any
movement of the alias. `RemoteInv` says what the daemon has been asked for at
each position and how far that can have come, and that an answer is that of the
operation waited for.

`ExecProofs` proves, for any sizes and any number of changes and interrupts,
`ExecTypeCorrect` (`TypeOK`), `InterruptedExecTells` (`InterruptReaches`),
`NoInterruptIsDropped` (`InterruptWins`), `CodeAfterOutput` (`CodeIsWhole`) and
`TerminalIsRestored` (`TerminalBack`). The invariant, `ExecInv`, says what each
goroutine's position tells of the others: nothing of the container runs before
the request, `done` is closed last and `sent` with the end of the handler, a
handler ends by `done`, by a broken websocket or after the signal, an
interrupted result is one of a started exec, and `raw` is only set between
making the terminal raw and restoring it.

`ProvisioningProofs` proves, for any time limits, `dev.yml` files, selections and
tools on the host:

- of the wait alone, `ReadyTypeCorrect` and `GraceIsGiven` (`GraceGiven`).
  `GraceInv` adds that a wait that goes on after seeing IPv6 has started the grace
  period and that a verdict is final.
- `WaitIsReadiness`: `Provisioning` implements `Readiness`, so that
  `GraceIsGivenInProvision` follows.
- `ProvTypeCorrect` (`ProvTypeOK`) and `OutcomesAreTrue` (`OutcomeIsTrue`).
  `ProvBase` adds to the types that a step under way is the head of what is left,
  that a host command runs only while idev waits for it and that it is asked to
  stop only by an interruption.
- `AskedStepsAreRun` (`RunsWhatWasAsked`), by `PlanFollowed`: what has run is the
  start of the plan and what is left the rest of it, the step under way in both.
  `PlanIsInOrder` and `PlanHoldsTheChosen` say what a plan is; they rest on
  `AscendingExists`, that any positions can be put in order. That is an induction
  over their number, done without an induction rule: of the sizes that fail there
  would be a least (`LeastExists`, from the library's `WFMin`), and taking away
  the greatest position gives a smaller one.
- `ToolsAreTrue` (`ToolsDecide`), by `ToolsChecked`: a tool found is there for
  good, since steps only add tools; one not found ends the run, so that no second
  look meets a stale answer of a `sync.Once`; and before the instance what is
  wanted and not found yet is still to be looked for.

Assumed of the constants: steps are sequences of known kinds
(`StepsAssumption`, what `config` lets through) and `--step` and `--from` exclude each
other (`SelectionsAssumption`, `root.go:273`, `select.go:31`).

TLC checked `ProvBase`, `PlanFollowed` and `ToolsChecked` on the instances of
`provision` before they were proved.

`LoadingProofs` proves, for any `dev.yml` files, trees, links and branches:

- `ActsOnTheNearest` (`NearestIsActedOn`). `LoadInv` is the inductive invariant:
  what lies between the start of a search and the directory it has come to was
  looked at and not used (`Searched`), what is remembered of it is the nearest
  that was unusable (`ShadowedIsNearest`), and a name is that of the
  document found (`NamedAfter`).
- `DevicesApart` (`DevicesNeverCollide`): what `validate.go` lets through,
  `desiredDevices` can put on an instance. Names and paths come from mounts,
  volumes and devices; each pair of the three has a step.
- `NothingDropped` (`WrittenIsTaken`), for both forms of `workspace`.
- `RecordsAreReadBack` (`ReadsBack`): lists joined by commas are split into the
  same names. A text is `Clear` when it holds no comma, and `Normalize`, the
  patterns of the schema and the hash each leave a clear text.
- `CheckoutsStayApart` (`CheckoutsApart`). Under `path` the name of an instance
  and of its volumes bears the hash of the directory, and a hash is in no other
  piece of a name (`Marked`, `Known`). Under `branch` the suffix is told from
  the rest of the name by where the name was cut (`CutApart`, `TailsApart`).

These rest on what folding over a text computes for every length. `FoldLeft`,
`Clean`, `Split`, `Join` and `Normalize` are recursive functions, and an induction
theorem cannot be used; so a solution of each recursion is first shown to exist
(`RecursionExists`), built up to the length of the text, and then what holds of
its steps is shown by the least step that fails. `JoinedIsSplit` and
`NormalizeIsOfNamePieces` are the results. Assumed are `DocsAssumption` (every
document is an `IsDoc`), `WorldsAssumption` (a directory goes by its real path, of
which every part is a directory) and `HashAssumption`.

Model-checked only: liveness under fairness (`InterruptEnds`, `NextSignalEnds`,
`SizeSettles`, `NothingLeft`, `WaitEnds`, `InterruptEndsRun`,
`InterruptEndsCall`), which is outside what the prover does. Every invariant and
every action property a passing run checks is proved.

## Not modelled

- `status`, the listing and deleting of snapshots, and the volume and
  provisioning lines of the preview: they print or delete one thing at a time
  and keep nothing.
- The user, shell and directory `idev shell` and `idev exec` choose, and the
  prompts: one reading of the instance each, decided by flags.
- The contents handed on (inventories, environment, secrets, file modes, the
  arguments of tools), and all wording and logging, masking of secrets included.
- YAML and JSON themselves, SHA-256, `git`, `ansible-playbook`, the Incus daemon
  beyond what the calls see of it.
- Instances of another owner beyond the refusal at the first reading, and the
  instances `up` warns it would strand.
- `incustest` and `contract`: they are tests. They were read for what the daemon
  does.

## Plan

1. Done: `Lifecycle`, `VolumeCustody`, `RestartRecord`, the first theorems.
2. Done: `ExecSession` and its theorems; `Readiness`, `Provisioning`.
3. Done: `Reconcile`, `Naming`, `Declaration`, `Loading`, `RemoteCalls`.
4. Done: the theorems about `Lifecycle`'s volumes, `RestartRecord`, `Reconcile`
   and `RemoteCalls`.
5. Done: the theorems about `Provisioning`.
6. Done: the theorems about `Naming`, `Declaration` and `Loading`.
