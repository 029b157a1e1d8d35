------------------------------- MODULE Loading -------------------------------
(***************************************************************************)
(* From a directory to an instance and its declaration: the search for     *)
(* dev.yml (internal/project discover.go), its reading and validation, and *)
(* the name of the instance (internal/cli root.go, app.go, naming.go).     *)
(*                                                                         *)
(* Two commands run one after the other, each from a directory of its own. *)
(* A directory is the sequence of its path's elements.                     *)
(***************************************************************************)
EXTENDS Declaration

CONSTANTS
  Docs,     \* every dev.yml, as a sequence
  Worlds    \* what is on the disk: for every directory what is found at
            \* .incus-dev/dev.yml in it, which of Docs that is, and what git
            \* says of it; which symbolic link leads where; and, for each of
            \* two commands, the command lines to try

Nowhere == <<"nowhere">>

ASSUME DocsAssumption == \A i \in DOMAIN Docs : IsDoc(Docs[i])

\* A directory goes by its real path, of which every part is a directory; there
\* is a document where a dev.yml is; and no path is what stands for none.
ASSUME WorldsAssumption ==
  \A w \in Worlds :
    /\ \A dir \in DOMAIN w.tree :
         /\ dir \in Texts
         /\ \A n \in 0 .. Len(dir) : SubSeq(dir, 1, n) \in DOMAIN w.tree
         /\ dir # <<>> => SubSeq(dir, 1, 1) \notin DOMAIN w.links
         /\ w.tree[dir] = "regular" => w.docs[dir] \in DOMAIN Docs /\ w.branch[dir] \in Texts
    /\ Nowhere \notin DOMAIN w.tree

\* The directories with a dev.yml, and what is hashed there: the project's
\* name, the directory and its hash, the branch.
ProjectDirs(w) == {dir \in DOMAIN w.tree : w.tree[dir] = "regular"}
Hashed(w) ==
  UNION {{Docs[w.docs[dir]].project, dir, ShortHash(dir), w.branch[dir]} : dir \in ProjectDirs(w)}

\* The pieces of what is written there into names, pools and keys, and of what
\* idev puts between them.
PiecesOf(doc) ==
  Range(doc.project)
  \cup UNION {Range(key) \cup Range(doc.volumes[key].pool) : key \in DOMAIN doc.volumes}
Written(w) ==
  Range(InstanceNamePrefix) \cup {"default"}
  \cup UNION {PiecesOf(Docs[w.docs[dir]]) \cup Range(w.branch[dir]) : dir \in ProjectDirs(w)}

\* A hash is of hex digits, which nobody wrote by chance; and texts that differ
\* have hashes that differ.
ASSUME HashAssumption ==
  \A w \in Worlds : \A text \in Hashed(w) :
    /\ ToString(text) \notin Separators /\ Lower(ToString(text)) = ToString(text)
    /\ \A piece \in Written(w) : ToString(text) \notin {piece, Lower(piece)}
    /\ \A other \in Hashed(w) : ToString(text) = ToString(other) => text = other

VARIABLES
  world,    \* one of Worlds
  cmd       \* the two commands

vars == <<world, cmd>>

Cmds == {1, 2}

Idle == [pc |-> "idle", start |-> Nowhere, dir |-> Nowhere, shadowed |-> Nowhere,
         bare |-> FALSE, online |-> FALSE, flag |-> <<>>, target |-> <<>>, branch |-> <<>>,
         instance |-> <<>>, said |-> {}, why |-> ""]

\* The directory a path leads to: only its first element may be a link.
Real(dir) ==
  IF dir # <<>> /\ SubSeq(dir, 1, 1) \in DOMAIN world.links
    THEN world.links[SubSeq(dir, 1, 1)] \o Tail(dir) ELSE dir
Found(dir) == world.tree[Real(dir)]

AtPc(c, pc) == cmd[c].pc = pc
Done(c) == cmd[c].pc \in {"ready", "refused"}
Doc(c) == Docs[world.docs[Real(cmd[c].dir)]]

\* What Stat answers of a regular file that is not there to read, of something
\* else of that name, of a link to nothing, and of a directory closed to us.
Unusable == {"other", "dangling"}

Becomes(c, new) == cmd' = [cmd EXCEPT ![c] = new] /\ UNCHANGED world
Refuse(c, why) == Becomes(c, [cmd[c] EXCEPT !.pc = "refused", !.why = why])

\* Discover, up to the search: a start that is no directory is not replaced by
\* one above it, and a link to it is followed.
Start(c) ==
  /\ AtPc(c, "idle") /\ (c = 2 => Done(1))
  /\ \E line \in world.lines[c] :
       IF Real(line.start) \notin DOMAIN world.tree
         THEN Refuse(c, "start")
         ELSE Becomes(c, [Idle EXCEPT !.pc = "search", !.start = line.start, !.dir = Real(line.start),
                                      !.online = line.online, !.flag = line.flag])

\* A mutant: of several that cannot be used the farthest is remembered.
LookFarthest(c) ==
  /\ AtPc(c, "search") /\ Found(cmd[c].dir) \notin {"regular", "denied"}
  /\ LET dir == cmd[c].dir
         now == [cmd[c] EXCEPT !.shadowed = IF Found(dir) \in Unusable THEN dir ELSE @]
     IN  IF dir # <<>> THEN Becomes(c, [now EXCEPT !.dir = Front(dir)])
         ELSE Becomes(c, [now EXCEPT !.pc = "refused", !.why = "none"])

\* One directory of the search, in which there is no dev.yml to use.
Look(c) ==
  /\ AtPc(c, "search") /\ Found(cmd[c].dir) \notin {"regular", "denied"}
  /\ LET dir == cmd[c].dir
         now == [cmd[c] EXCEPT
                   !.shadowed = IF @ = Nowhere /\ Found(dir) \in Unusable THEN dir ELSE @,
                   !.bare = @ \/ Found(dir) = "bare"]
         why == IF now.shadowed # Nowhere THEN "unusable"
                ELSE IF now.bare THEN "no dev.yml in it" ELSE "none"
     IN  IF dir # <<>> THEN Becomes(c, [now EXCEPT !.dir = Front(dir)])
         ELSE Becomes(c, [now EXCEPT !.pc = "refused", !.why = why])

\* One that cannot be looked into ends it: what is above may not be meant.
LookDenied(c) ==
  /\ AtPc(c, "search") /\ Found(cmd[c].dir) = "denied"
  /\ Refuse(c, "denied")

\* The nearest dev.yml.
LookFound(c) ==
  /\ AtPc(c, "search") /\ Found(cmd[c].dir) = "regular"
  /\ Becomes(c, [cmd[c] EXCEPT !.pc = "load"])

\* resolveTarget
Target(flag, doc) == Or(Or(flag, doc.incus), <<"default">>)

\* Load and resolveTarget, and the warning about a nearer dev.yml.
Load(c) ==
  /\ AtPc(c, "load")
  /\ IF Problems(Doc(c)) # {} THEN Refuse(c, "invalid")
     ELSE Becomes(c, [cmd[c] EXCEPT !.pc = IF cmd[c].online THEN "connect" ELSE "name",
                        !.target = Target(cmd[c].flag, Doc(c)),
                        !.said = {cmd[c].shadowed} \ {Nowhere}])

\* Connect, of which only that it may fail is of interest here.
Connect(c) ==
  /\ AtPc(c, "connect")
  /\ \/ Becomes(c, [cmd[c] EXCEPT !.pc = "name"])
     \/ Refuse(c, "no daemon")

\* NewApp: an offline command does without a name git cannot give.
Name(c) ==
  /\ AtPc(c, "name")
  /\ LET doc == Doc(c)
         branch == IF Scope(doc) = "branch" THEN world.branch[Real(cmd[c].dir)] ELSE <<>>
     IN  IF Scope(doc) = "branch" /\ branch = <<>>
           THEN IF cmd[c].online THEN Refuse(c, "no branch")
                ELSE Becomes(c, [cmd[c] EXCEPT !.pc = "ready"])
           ELSE Becomes(c, [cmd[c] EXCEPT
                  !.pc = "named", !.branch = branch,
                  !.instance = InstanceNameFor(doc.project, Scope(doc), cmd[c].dir, branch)])

\* checkVolumeNames, which up, rebuild, a preview and validate begin with, and
\* the other commands do without.
CheckVolumes(c) ==
  /\ AtPc(c, "named")
  /\ \/ Becomes(c, [cmd[c] EXCEPT !.pc = "ready"])
     \/ ~VolumeNamesFit(Doc(c), cmd[c].instance) /\ Refuse(c, "volume name")

Init == world \in Worlds /\ cmd = [c \in Cmds |-> Idle]

Next ==
  \E c \in Cmds :
    \/ Start(c) \/ Look(c) \/ LookDenied(c) \/ LookFound(c)
    \/ Load(c) \/ Connect(c) \/ Name(c) \/ CheckVolumes(c)

Spec == Init /\ [][Next]_vars

-----------------------------------------------------------------------------
(* Properties.                                                             *)

Accepted(c) == cmd[c].pc \in {"connect", "name", "named", "ready"}
Named(c) == AtPc(c, "ready") /\ cmd[c].instance # <<>>

\* What validation let through Incus does not refuse halfway, after volumes
\* were made: no two of the three sources of devices share a name, whatever
\* main is called; no two disks share a path, however spelled; nothing takes
\* the place of the root, which something provides; every name fits.  A mount
\* whose name is empty is let through, and is not Incus's.
NoDeviceCollides(doc) ==
  LET names == DeviceClaims(doc)
      paths == PathClaims(doc)
  IN  /\ \A n, m \in names : n[3] = m[3] => n = m
      /\ \A p, q \in paths : IsAbs(p[3]) /\ IsAbs(q[3]) /\ Clean(p[3]) = Clean(q[3]) => p = q
      /\ \A p \in paths : p[1] # "device" => IsAbs(p[3]) /\ ~IsRoot(p[3])
      /\ \A n \in names : Len(n[3]) \in (IF n[1] = "mount" THEN 0 ELSE 1) .. MaxDeviceName
      /\ doc.profiles.given /\ doc.profiles.names = {} =>
           \E p \in paths : p[1] = "device" /\ IsRoot(p[3])
DevicesNeverCollide == \A c \in Cmds : Accepted(c) => NoDeviceCollides(Doc(c))

\* A record is a list with separators, and the next run takes away what it
\* reads there: each of the names written is read back, and nothing else.
ComesBack(names) == SplitList(Join(SetToSeq(names), ",")) = SetToSeq(names)

\* ansible-playbook reads the tags back the same way.
RecordsReadBack(doc) ==
  /\ ComesBack(ManagedKeys(doc)) /\ ComesBack(ManagedDevices(doc))
  /\ \A s \in Range(doc.provision) : s.kinds = {"ansible"} => ComesBack(s.tags)

\* Of a volume, its pool and its name come back.
VolumesReadBack(doc, instance) ==
  /\ ComesBack(DeclaredVolumes(doc, instance))
  /\ \A key \in DOMAIN doc.volumes :
       LET pool == Pool(doc.volumes[key])
           name == VolumeName(instance, key)
       IN  SplitVolume(VolumeRef(pool, name)) = <<pool, name>>

\* A name Incus can give a pool.  The schema asks nothing of it: a volume in
\* any other is not made, and not recorded.
PoolsAreNames(doc) ==
  \A key \in DOMAIN doc.volumes :
    LET pool == Pool(doc.volumes[key]) IN ~Holds(pool, ",") /\ ~Holds(pool, "/")

ReadsBack ==
  \A c \in Cmds : Accepted(c) =>
    /\ RecordsReadBack(Doc(c))
    /\ Named(c) /\ PoolsAreNames(Doc(c)) => VolumesReadBack(Doc(c), cmd[c].instance)

\* Nothing of a dev.yml is dropped without a word: of an accepted one, all that
\* the workspace section says has been taken.  An empty text or a null asks for
\* the default.  An idmap that is no string is IdmapIsTaken's.
AllIsTaken(doc) ==
  LET ws == doc.workspace
      taken(mount, key, text) ==
        CASE key = <<"source">> -> text \in {<<>>, mount.source}
          [] key = <<"target">> -> text \in {<<>>, mount.target}
          [] key = <<"readonly">> -> mount.readonly = (text = <<"true">>)
          [] OTHER -> FALSE
  IN  /\ doc.documents = 1 /\ ~doc.twice
      /\ \A n \in DOMAIN ws :
           CASE n = OwnerKey ->
                  /\ OwnerGiven(ws) /\ IDMap(doc) \in {<<"auto">>, <<"raw">>}
                  /\ \A f \in DOMAIN ws[n].fields :
                       \/ f = <<"uid">> /\ ws[n].fields[f].text \in {<<>>, Owner(doc).uid}
                       \/ f = <<"gid">> /\ ws[n].fields[f].text \in {<<>>, Owner(doc).gid}
             [] n = IdmapKey -> ws[n].kind # "string" \/ ws[n].text \in {<<>>, IDMap(doc)}
             [] n \notin {OwnerKey, IdmapKey} /\ MapForm(ws) ->
                  \A f \in DOMAIN ws[n].fields :
                    n \in DOMAIN Mounts(doc) /\ taken(Mounts(doc)[n], f, ws[n].fields[f].text)
             [] OTHER -> taken(Main(doc), n, ws[n].text)
WrittenIsTaken == \A c \in Cmds : Accepted(c) => AllIsTaken(Doc(c))

\* An idmap of an accepted dev.yml is a string that was taken, or left open
\* (workspace.go:74: "A wrong value is caught by the same validation that
\* catches it in the single form").  Beside mounts it need not be: there the
\* decoder leaves out what is no string, and the shape check passes over it.
IdmapIsTaken ==
  \A c \in Cmds : Accepted(c) =>
    LET ws == Doc(c).workspace
    IN  IdmapKey \in DOMAIN ws =>
          /\ ws[IdmapKey].kind \in {"string", "null"}
          /\ ws[IdmapKey].text \in {<<>>, IDMap(Doc(c))}

\* The directories from where a command was started upwards to dir, without it.
Below(start, dir) == {SubSeq(Real(start), 1, n) : n \in Len(dir) + 1 .. Len(Real(start))}

\* A command acts on the project nearest to where it is run, or says which
\* nearer one it could not use: the nearest of those.  It finds nothing only
\* where there is nothing.
NearestIsActedOn ==
  \A c \in Cmds :
    LET start == cmd[c].start
        nearer == Below(start, cmd[c].dir)
        unusable == {d \in nearer : Found(d) \in Unusable}
    IN  /\ Accepted(c) =>
             /\ IsPrefix(cmd[c].dir, Real(start))
             /\ \A d \in nearer : Found(d) \notin {"regular", "denied"}
             /\ cmd[c].said = {d \in unusable : \A e \in unusable : Len(e) <= Len(d)}
        /\ cmd[c].why \in {"none", "no dev.yml in it", "unusable"} =>
             \A d \in nearer \cup {<<>>} : Found(d) \notin {"regular", "denied"}

\* Two branches share an instance only if what Incus allows in a name does not
\* tell them apart.
SameName(a, b) ==
  \/ a = b
  \/ Normalize(a) = Normalize(b) /\ Len(Normalize(a)) \in 1 .. MaxSuffix

\* A project whose name is never cut, or not where it could be taken for the
\* suffix: of one word, or short enough for the longest suffix.  What is cut off
\* another name, behind a hyphen, may be what the suffix of a branch begins with.
NeverCut(doc) ==
  \/ ~Holds(Slug(doc.project), "-")
  \/ Len(Slug(doc.project)) <= MaxInstanceName - Len(InstanceNamePrefix) - 1 - MaxSuffix

\* The commands that act on instances of one project under one scope.
SameProject(c, d, scope) ==
  /\ Doc(c).project = Doc(d).project
  /\ Scope(Doc(c)) = scope /\ Scope(Doc(d)) = scope

\* Incus takes it for the name of an instance.
NameFits(instance) == Len(instance) <= MaxInstanceName /\ Last(instance) # "-"

SameInstance(c, d) == cmd[c].instance = cmd[d].instance
VolumesOf(c) == DeclaredVolumes(Doc(c), cmd[c].instance)

\* Under scope path there is one instance per checkout, from whatever directory
\* of it and through whatever link, and its volumes are its own.  Which scope a
\* dev.yml without one has is not said here: the documents disagree.
OnePerCheckout(c, d) ==
  Doc(c).scope = "path" /\ Doc(d).scope = "path" =>
    /\ SameInstance(c, d) <=> Real(cmd[c].dir) = Real(cmd[d].dir)
    /\ ~SameInstance(c, d) => VolumesOf(c) \cap VolumesOf(d) = {}

\* Under branch there is one for each branch.
OnePerBranch(c, d) ==
  SameProject(c, d, "branch") =>
    /\ SameName(cmd[c].branch, cmd[d].branch) => SameInstance(c, d)
    /\ SameInstance(c, d) /\ NeverCut(Doc(c)) => SameName(cmd[c].branch, cmd[d].branch)

\* Two checkouts end on one instance only where the scope says so: under name
\* there is one for the project.
CheckoutsApart ==
  \A c, d \in {e \in Cmds : Named(e)} :
    /\ NameFits(cmd[c].instance)
    /\ OnePerCheckout(c, d) /\ OnePerBranch(c, d)
    /\ SameProject(c, d, "name") => SameInstance(c, d)

\* A volume's name is unique to its instance.  Under branch and name the name
\* of one instance may begin with another's, and a volume's key can make up
\* the difference.
VolumesApart ==
  \A c, d \in {e \in Cmds : Named(e)} :
    ~SameInstance(c, d) => VolumesOf(c) \cap VolumesOf(d) = {}
=============================================================================
