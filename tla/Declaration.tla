----------------------------- MODULE Declaration -----------------------------
(***************************************************************************)
(* What a dev.yml declares and what is refused of it (internal/config).    *)
(*                                                                         *)
(* A document is a record of what was written.  A section that is a map is *)
(* a function of its keys; the workspace section, which has two forms and  *)
(* is read without the help of the schema, keeps its values as YAML has    *)
(* them: of a kind, with a text, or with fields.  A problem is             *)
(* <<section, name, what is wrong>>; a document with none is accepted.     *)
(***************************************************************************)
EXTENDS Naming

CONSTANTS
  Dirs,   \* the directories there are: elements from the project root, or from
          \* "/" when that comes first
  Files   \* the other files there are

Texts == Seq(STRING)
AreTexts(names) == IsFiniteSet(names) /\ \A n \in names : n \in Texts

\* What the schema and the YAML decoder see to on their own, of what is looked
\* into here: the keys of a section are texts, and it has so many; nothing
\* that goes into a record is empty; and a file has something in it.
IsDoc(doc) ==
  /\ doc.documents \in Nat \ {0}
  /\ doc.project \in Texts /\ doc.scope \in {"", "path", "branch", "name"}
  /\ AreTexts(DOMAIN doc.workspace) /\ AreTexts(DOMAIN doc.volumes)
  /\ AreTexts(DOMAIN doc.devices) /\ AreTexts(doc.config)
  /\ \A n \in DOMAIN doc.volumes : doc.volumes[n].pool \in Texts
  /\ \A i \in DOMAIN doc.provision :
       AreTexts(doc.provision[i].tags) /\ <<>> \notin doc.provision[i].tags

WorkspaceName == <<"workspace">>
MainMount == <<"main">>
IdmapKey == <<"idmap">>
OwnerKey == <<"owner">>
SingleFields == {IdmapKey, OwnerKey, <<"readonly">>, <<"source">>, <<"target">>}
MountFields == {<<"readonly">>, <<"source">>, <<"target">>}
OwnerFields == {<<"gid">>, <<"uid">>}
MaxProjectName == 55
MaxDeviceName == 63
RuntimeVersion == <<1, 2>>
IDMapModes == {<<"auto">>, <<"raw">>, <<"shift">>, <<"none">>}
RunOnlyFields == {"cwd", "env", "shell", "user"}

-----------------------------------------------------------------------------
(* Paths: "/" is a piece, and so is every element.                         *)

IsAbs(text) == Starts(text, "/")

\* filepath.Clean, as the elements that remain.
Clean(text) ==
  LET add(sofar, c) == CASE c \in {"/", "."} -> sofar
                         [] c = ".." -> IF sofar = <<>> THEN <<>> ELSE Front(sofar)
                         [] OTHER -> Append(sofar, c)
  IN  FoldLeft(add, <<>>, text)

IsRoot(text) == IsAbs(text) /\ Clean(text) = <<>>

\* ResolvePath, for a path that does not leave the project by "..".
Resolve(text) == IF IsAbs(text) THEN <<"/">> \o Clean(text) ELSE Clean(text)
IsDir(text) == Resolve(text) \in Dirs
Exists(text) == Resolve(text) \in Dirs \cup Files

-----------------------------------------------------------------------------
(* Reading the workspace section (workspace.go).                           *)

IsObject(value) == value.kind = "object"
TextOf(entries, key) == IF key \in DOMAIN entries THEN entries[key].text ELSE <<>>

\* hasMountEntry: what tells the map form from the single one.
MapForm(ws) == \E n \in DOMAIN ws \ {OwnerKey} : IsObject(ws[n])

\* The entries that are mounts.
MountEntries(ws) == {n \in DOMAIN ws \ {IdmapKey, OwnerKey} : IsObject(ws[n])}

Mount(entries) ==
  [source |-> TextOf(entries, <<"source">>), target |-> TextOf(entries, <<"target">>),
   readonly |-> TextOf(entries, <<"readonly">>) = <<"true">>]

\* readOwner: an owner of the wrong shape is left to the shape check.
OwnerGiven(ws) == OwnerKey \in DOMAIN ws /\ IsObject(ws[OwnerKey])

\* UnmarshalJSON: either form becomes mounts; without the section there are none.
Workspace(ws) ==
  [mounts |-> IF DOMAIN ws = {} THEN << >>
              ELSE IF MapForm(ws) THEN [n \in MountEntries(ws) |-> Mount(ws[n].fields)]
              ELSE [n \in {MainMount} |-> Mount(ws)],
   idmap |-> IF IdmapKey \in DOMAIN ws /\ ws[IdmapKey].kind = "string"
               THEN ws[IdmapKey].text ELSE <<>>,
   owner |-> IF OwnerGiven(ws) THEN ws[OwnerKey].fields ELSE << >>]

\* The kinds the decoder takes, for the keys it looks at, and a null for each.
Kinds == [n \in MountFields |-> IF n = <<"readonly">> THEN "bool" ELSE "string"]
IdmapKinds == [n \in {IdmapKey} |-> "string"]
OwnerKinds == [n \in OwnerFields |-> "int"]
Decodes(entries, kinds) ==
  \A n \in DOMAIN entries \cap DOMAIN kinds : entries[n].kind \in {kinds[n], "null"}

\* Where it fails all the same, which ends the reading at the first of them.
Undecodable(ws) ==
  \/ OwnerGiven(ws) /\ ~Decodes(ws[OwnerKey].fields, OwnerKinds)
  \/ ~MapForm(ws) /\ ~(Decodes(ws, Kinds) /\ Decodes(ws, IdmapKinds))
  \/ MapForm(ws) /\ \E n \in MountEntries(ws) : ~Decodes(ws[n].fields, Kinds)

-----------------------------------------------------------------------------
(* Defaults (config.go).                                                   *)

Or(text, default) == IF text = <<>> THEN default ELSE text

Section(doc) == Workspace(doc.workspace)
IDMap(doc) == Or(Section(doc).idmap, <<"auto">>)

\* ResolvedOwner: gid follows uid, and root is the default.
Owner(doc) ==
  LET owner == Section(doc).owner
      uid == Or(TextOf(owner, <<"uid">>), <<"0">>)
  IN  [uid |-> uid, gid |-> Or(TextOf(owner, <<"gid">>), uid)]

\* WorkspaceOrDefault, as far as the mount named main goes.
Main(doc) ==
  LET mounts == Section(doc).mounts
      main == IF MainMount \in DOMAIN mounts THEN mounts[MainMount] ELSE Mount(<< >>)
  IN  [main EXCEPT !.source = Or(@, <<".">>), !.target = Or(@, <<"/", "workspace">>)]

\* Mounts: main is always there.
Mounts(doc) ==
  [n \in {MainMount} \cup DOMAIN Section(doc).mounts |->
     IF n = MainMount THEN Main(doc) ELSE Section(doc).mounts[n]]

\* PoolOrDefault, ScopeOrDefault
Pool(volume) == Or(volume.pool, <<"default">>)
Scope(doc) == IF doc.scope = "" THEN "path" ELSE doc.scope

\* MountDeviceName
MountDeviceName(entry) == IF entry = MainMount THEN WorkspaceName ELSE entry

\* What each of the three sources of desiredDevices puts under which name.
DeviceClaims(doc) ==
  {<<"mount", n, MountDeviceName(n)>> : n \in DOMAIN Mounts(doc)}
  \cup {<<"volume", n, n>> : n \in DOMAIN doc.volumes}
  \cup {<<"device", n, n>> : n \in DOMAIN doc.devices}

\* ... and which disk of it at which path in the container.
PathClaims(doc) ==
  {<<"mount", n, Mounts(doc)[n].target>> : n \in DOMAIN Mounts(doc)}
  \cup {<<"volume", n, doc.volumes[n].path>> : n \in DOMAIN doc.volumes}
  \cup {<<"device", n, doc.devices[n].path>> :
          n \in {d \in DOMAIN doc.devices : doc.devices[d].type = "disk"}}

-----------------------------------------------------------------------------
(* Before the schema, and the schema (parse.go, schemas/).                 *)

If(holds, problem) == IF holds THEN {problem} ELSE {}
At(section, what) == <<section, <<>>, what>>

\* A name of letters and digits with ".", "_" and "-" in between.
Plain(text) == /\ text # <<>> /\ text[1] \notin Separators
               /\ Range(text) \cap Separators \subseteq {".", "_", "-"}

SchemaProblems(doc) ==
  If(doc.unknown, At("(root)", "additional properties"))
  \cup If(~Plain(doc.project) \/ Len(doc.project) > MaxProjectName, At("project.name", "pattern"))
  \cup If(doc.empty, At("workspace", "minProperties"))
  \cup {<<"volumes", n, "key name">> :
          n \in {v \in DOMAIN doc.volumes : ~Plain(v) \/ Len(v) > MaxDeviceName}}
  \cup {<<"instance.devices", n, "key name">> :
          n \in {d \in DOMAIN doc.devices : Len(d) \notin 1 .. MaxDeviceName}}
  \cup If(<<>> \in doc.config, At("instance.config", "key name"))

-----------------------------------------------------------------------------
(* Semantics (validate.go), section by section.                            *)

\* parseVersion and runtimeCompatible; -1 is a part that is not a number.
RuntimeProblems(doc) ==
  LET v == doc.runtime
      minor == IF Len(v) > 1 THEN v[2] ELSE 0
  IN  IF v = <<>> THEN {}
      ELSE If(Len(v) > 3 \/ -1 \in Range(v), At("runtime.version", "invalid version"))
           \cup If(v[1] # RuntimeVersion[1] \/ minor > RuntimeVersion[2],
                   At("runtime.version", "not provided"))

\* validateSteps and, for a step of one kind, validateStepValues with
\* checkAnsibleTags.
StepProblems(step, allowAnsible) ==
  LET one == Cardinality(step.kinds) = 1
      run == step.kinds = {"run"}
  IN  If(~one, At("step", "one of run, ansible, galaxy"))
      \cup If(step.control, At("step", "control character in the name"))
      \cup If("run" \notin step.kinds /\ step.kinds # {} /\ ~allowAnsible, At("step", "only run"))
      \cup If("run" \notin step.kinds /\ step.kinds # {} /\ step.fields \cap RunOnlyFields # {},
              At("step", "run only"))
      \cup If(step.kinds = {"ansible"} /\ \E t \in step.tags : Starts(t, "-") \/ Holds(t, ","),
              At("step", "tag"))
      \cup If(run /\ (Starts(step.user, "-") \/ Starts(step.shell, "-")), At("step", "option"))
      \cup If(run /\ \E k \in step.env : Holds(k, "="), At("step", "env"))
      \cup If(run /\ step.cwd # <<>> /\ ~IsAbs(step.cwd), At("step", "cwd"))

\* validateSecrets
SecretProblems(doc) ==
  {<<"secrets", n, "env or file">> : n \in {s \in DOMAIN doc.secrets : doc.secrets[s] # 1}}
  \cup {<<"secrets", n, "reserved">> : n \in {s \in DOMAIN doc.secrets : Starts(s, "IDEV_")}}

\* validateShell
ShellProblems(doc) ==
  If(Starts(doc.shell.user, "-") \/ Starts(doc.shell.command, "-"), At("shell", "option"))
  \cup If(doc.shell.cwd # <<>> /\ ~IsAbs(doc.shell.cwd), At("shell", "cwd"))

\* validateVolumes.  A section keeps only the mounts written in it, main too.
VolumeProblems(doc) ==
  UNION {If(~IsAbs(doc.volumes[n].path), <<"volumes", n, "path">>)
         \cup If(n = WorkspaceName, <<"volumes", n, "reserved">>)
         \cup If(Holds(n, ",") \/ Holds(n, "/"), <<"volumes", n, "separator">>)
         \cup If(n \in DOMAIN doc.devices, <<"volumes", n, "conflicts with a device">>)
         \cup If(n \in DOMAIN Section(doc).mounts, <<"volumes", n, "conflicts with a mount">>)
         : n \in DOMAIN doc.volumes}

\* checkKeyShape
BadKey(key) == Starts(key, "-") \/ Holds(key, "=") \/ Holds(key, ",")

\* hasRootDisk
HasRootDisk(devices) ==
  \E n \in DOMAIN devices :
    devices[n].type = "disk" /\ devices[n].path = <<"/">> /\ devices[n].pool # <<>>

\* A mutant: a device name may hold what separates the names in a record.
BadDeviceNameNoComma(name) == Starts(name, "-")

BadDeviceName(name) == Starts(name, "-") \/ Holds(name, ",")

\* validateInstance
InstanceProblems(doc) ==
  If(Starts(doc.image, "-"), At("instance.image", "option"))
  \cup If(\E p \in doc.profiles.names : ~Plain(p), At("instance.profiles", "name"))
  \cup {<<"instance.config", k, "key">> : k \in {c \in doc.config : BadKey(c)}}
  \cup {<<"instance.config", k, "reserved">> :
          k \in {c \in doc.config : Starts(c, "user.incus-dev")}}
  \cup {<<"instance.devices", n, "name">> : n \in {d \in DOMAIN doc.devices : BadDeviceName(d)}}
  \cup {<<"instance.devices", n, "key">> :
          n \in {d \in DOMAIN doc.devices : \E k \in doc.devices[d].extra : BadKey(k)}}
  \cup If(doc.profiles.given /\ doc.profiles.names = {} /\ ~HasRootDisk(doc.devices),
          At("instance.devices", "no root disk"))
  \cup If(WorkspaceName \in DOMAIN doc.devices, <<"instance.devices", WorkspaceName, "reserved">>)

\* A mutant: what stands beside the mounts of a map form is not looked at.
ShapeProblemsObjects(doc) ==
  LET ws == doc.workspace
  IN  If(OwnerKey \in DOMAIN ws /\ ~IsObject(ws[OwnerKey]), At("workspace", "owner is no mapping"))
      \cup UNION {{<<"workspace", f, "unknown field of a mount">> :
                     f \in DOMAIN ws[n].fields \ MountFields} :
                  n \in IF MapForm(ws) THEN MountEntries(ws) ELSE {}}

\* validateWorkspaceShape and validateOwnerShape.  An idmap that is an object
\* is looked at as if it were a mount.
ShapeProblems(doc) ==
  LET ws == doc.workspace
      entries == DOMAIN ws \ {OwnerKey}
  IN  If(OwnerKey \in DOMAIN ws /\ ~IsObject(ws[OwnerKey]), At("workspace", "owner is no mapping"))
      \cup {<<"workspace.owner", f, "unknown field">> :
              f \in IF OwnerKey \in DOMAIN ws THEN DOMAIN ws[OwnerKey].fields \ OwnerFields ELSE {}}
      \cup (IF MapForm(ws)
              THEN {<<"workspace", n, "belongs to a mount">> :
                      n \in {e \in entries \ {IdmapKey} : ~IsObject(ws[e])}}
                   \cup UNION {{<<"workspace", f, "unknown field of a mount">> :
                                  f \in DOMAIN ws[n].fields \ MountFields} :
                               n \in {e \in entries : IsObject(ws[e])}}
              ELSE {<<"workspace", n, "unknown field">> : n \in entries \ SingleFields})

\* validateMountName, where the name of main is not one of a device.
MountNameProblems(doc, n) ==
  If(n = WorkspaceName, <<"workspace", n, "is what main produces">>)
  \cup If(BadDeviceName(n), <<"workspace", n, "name">>)
  \cup If(Len(n) > MaxDeviceName, <<"workspace", n, "too long">>)
  \cup If(n \in DOMAIN doc.devices, <<"workspace", n, "conflicts with a device">>)

\* validateOwner: refused where it could not take effect.
OwnerProblems(doc) ==
  IF ~OwnerGiven(doc.workspace) THEN {}
  ELSE If(Starts(Owner(doc).uid, "-") \/ Starts(Owner(doc).gid, "-"), At("workspace.owner", "negative"))
       \cup If(IDMap(doc) \in {<<"shift">>, <<"none">>}, At("workspace.owner", "has no effect"))

\* validateWorkspace
WorkspaceProblems(doc) ==
  If(IDMap(doc) \notin IDMapModes, At("workspace.idmap", "mode"))
  \cup OwnerProblems(doc)
  \cup (UNION {If(~IsAbs(Mounts(doc)[n].target), <<"workspace", n, "target">>)
               \cup If(IsRoot(Mounts(doc)[n].target), <<"workspace", n, "root">>)
               : n \in DOMAIN Mounts(doc)})
  \cup UNION {MountNameProblems(doc, n) : n \in DOMAIN Mounts(doc) \ {MainMount}}

\* A mutant: paths are compared as they are written.
MountPathProblemsAsWritten(doc) ==
  LET claims == {c \in PathClaims(doc) : IsAbs(c[3])}
  IN  {<<"volumes", n, "root">> : n \in {v \in DOMAIN doc.volumes : IsRoot(doc.volumes[v].path)}}
      \cup {At("(paths)", "taken") : c \in {c \in claims : \E d \in claims \ {c} : c[3] = d[3]}}

\* validateMountPaths: who of two comes second is left out.
MountPathProblems(doc) ==
  LET claims == {c \in PathClaims(doc) : IsAbs(c[3])}
  IN  {<<"volumes", n, "root">> : n \in {v \in DOMAIN doc.volumes : IsRoot(doc.volumes[v].path)}}
      \cup {At("(paths)", "taken") :
              c \in {c \in claims : \E d \in claims \ {c} : Clean(c[3]) = Clean(d[3])}}

\* validatePaths and checkStepPaths
PathProblems(doc) ==
  {<<"workspace", n, "source">> :
     n \in {m \in DOMAIN Mounts(doc) : ~IsDir(Mounts(doc)[m].source)}}
  \cup {<<"instance.devices", n, "source">> :
          n \in {d \in DOMAIN doc.devices :
                   LET dev == doc.devices[d]
                   IN  /\ dev.source # <<>> /\ ~IsAbs(dev.source)
                       /\ ~(dev.type = "disk" /\ dev.pool # <<>>)
                       /\ ~Exists(dev.source)}}
  \cup If(\E s \in Range(doc.bootstrap) \cup Range(doc.provision) :
            Cardinality(s.kinds) = 1 /\ \E p \in s.paths : ~Exists(p),
          At("step", "path"))

\* validateSemantics: everything that was found, together.
SemanticProblems(doc) ==
  RuntimeProblems(doc)
  \cup (UNION {StepProblems(s, FALSE) : s \in Range(doc.bootstrap)})
  \cup (UNION {StepProblems(s, TRUE) : s \in Range(doc.provision)})
  \cup InstanceProblems(doc) \cup ShellProblems(doc) \cup VolumeProblems(doc)
  \cup SecretProblems(doc) \cup ShapeProblems(doc) \cup WorkspaceProblems(doc)
  \cup MountPathProblems(doc) \cup PathProblems(doc)

\* Parse: a later check is not made of what an earlier one refused.
Problems(doc) ==
  IF doc.documents > 1 THEN {At("(file)", "more than one document")}
  ELSE IF doc.twice THEN {At("(file)", "a key written twice")}
  ELSE IF doc.schema # 1 THEN {At("schema", "unsupported")}
  ELSE IF SchemaProblems(doc) # {} THEN SchemaProblems(doc)
  ELSE IF Undecodable(doc.workspace) THEN {At("workspace", "does not decode")}
  ELSE SemanticProblems(doc)

\* checkVolumeNames, once the instance has a name.
VolumeNamesFit(doc, instance) ==
  \A key \in DOMAIN doc.volumes : Len(VolumeName(instance, key)) <= MaxVolumeName

\* declaredVolumes, managedDeviceNames, managedNames: what goes into the records.
DeclaredVolumes(doc, instance) ==
  {VolumeRef(Pool(doc.volumes[key]), VolumeName(instance, key)) : key \in DOMAIN doc.volumes}
ManagedDevices(doc) == {c[3] : c \in DeviceClaims(doc)}
ManagedKeys(doc) == doc.config
=============================================================================
