------------------------------ MODULE MCLoading ------------------------------
(***************************************************************************)
(* A small instance of Loading: every choice of a few workspace sections,  *)
(* volumes and devices; every tree of three directories; and every two of  *)
(* a few checkouts, of which one may lie in the other.                     *)
(***************************************************************************)
EXTENDS Loading

None == << >>
Value(kind, text) == [kind |-> kind, text |-> text, fields |-> None]
Str(text) == Value("string", text)
Null == Value("null", None)
Obj(fields) == [kind |-> "object", text |-> None, fields |-> fields]
Key(word, value) == <<word>> :> value
SourceAt(text) == Key("source", Str(text))
TargetAt(text) == Key("target", Str(text))
Long(n) == [i \in 1 .. n |-> "a"]

DataMount == Key("data", Obj(SourceAt(<<"sub">>) @@ TargetAt(<<"/", "data", "/", ".">>)))
UidOwner == Key("owner", Obj(Key("uid", Value("int", <<"1000">>))))

Sections == <<
  None,
  TargetAt(<<"/", "data">>) @@ Key("idmap", Str(<<"none">>)),
  SourceAt(<<"sub">>) @@ Key("readonly", Value("bool", <<"true">>)) @@ Key("idmap", Str(<<"raw">>)),
  DataMount,
  DataMount @@ Key("main", Obj(TargetAt(<<"/", "work">>))) @@ Key("idmap", Str(<<"shift">>)),
  Key("", Obj(TargetAt(<<"/", "empty">>))),
  DataMount @@ UidOwner,
  DataMount @@ SourceAt(<<"sub">>),
  DataMount @@ Key("idmap", Value("int", <<"5">>)),
  Key("idmap", Obj(SourceAt(<<"sub">>) @@ TargetAt(<<"/", "mapped">>))),
  <<"x", ",", "y">> :> Obj(TargetAt(<<"/", "x">>)),
  Key("workspace", Obj(TargetAt(<<"/", "w">>)))
>>

\* What is refused in any company.
OtherSections == <<
  Key("idmap", Value("int", <<"5">>)),
  Key("idmap", Str(<<"other">>)),
  Key("readonly", Str(<<"yes">>)),
  Key("gone", Str(<<"sub">>)),
  Key("main", Obj(Key("source", Value("int", <<"5">>)))),
  Key("data", Obj(TargetAt(<<"/">>))),
  Key("data", Obj(Key("idmap", Str(<<"raw">>)) @@ TargetAt(<<"/", "d">>))),
  Key("data", Obj(SourceAt(<<"sub">>))),
  Long(64) :> Obj(TargetAt(<<"/", "d">>)),
  <<"-", "d">> :> Obj(TargetAt(<<"/", "d">>)),
  SourceAt(<<"dev.yml">>),
  UidOwner @@ Key("idmap", Str(<<"shift">>)),
  Key("owner", Str(<<"me">>)),
  Key("owner", Obj(Key("uid", Str(<<"me">>)))),
  Key("owner", Obj(Key("gid", Value("int", <<"-", "1">>)))),
  Key("owner", Obj(Key("name", Str(<<"me">>)))),
  Key("owner", Obj(None))
>>

Vol(path) == [path |-> path, pool |-> None]
Volumes == <<
  None,
  Key("cache", Vol(<<"/", "cache">>)),
  Key("data", [path |-> <<"/", "cache", "/", "..", "/", "workspace">>, pool |-> <<"fast">>]),
  Key("main", Vol(<<"/", "data">>)) @@ Key("cache", Vol(<<"/", "cache">>)),
  Key("workspace", Vol(<<"/", "w">>)),
  Key("cache", Vol(<<"/", "data", "/", "..">>)),
  Key("cache", Vol(<<"cache">>))
>>

Dev(type, path) == [type |-> type, path |-> path, pool |-> None, source |-> None, extra |-> {}]
Devices == <<
  None,
  Key("gpu", Dev("gpu", None)) @@ Key("port", Dev("proxy", <<"/", "workspace">>)),
  Key("cache", [Dev("disk", <<"/", "cache", "/">>) EXCEPT !.source = <<"sub">>]),
  Key("more", [Dev("disk", <<"/", "data">>) EXCEPT !.source = <<"vol">>, !.pool = <<"fast">>]),
  Key("root", [Dev("disk", <<"/">>) EXCEPT !.pool = <<"default">>]) @@ Key("main", Dev("gpu", None)),
  <<"x", ",", "y">> :> Dev("gpu", None),
  Key("workspace", Dev("gpu", None))
>>

App == <<"a", "p", "p">>
Step0 == [kinds |-> {"run"}, fields |-> {}, tags |-> {}, user |-> None, shell |-> None,
          env |-> {}, cwd |-> None, paths |-> {}, control |-> FALSE]
Ansible(tags, path) ==
  [Step0 EXCEPT !.kinds = {"ansible"}, !.tags = tags, !.paths = {<<path>>}]

Base == [documents |-> 1, twice |-> FALSE, schema |-> 1, unknown |-> FALSE, empty |-> FALSE,
         project |-> App, scope |-> "", runtime |-> None, image |-> <<"img">>,
         profiles |-> [given |-> FALSE, names |-> {}], config |-> {<<"limits">>, <<"raw">>},
         devices |-> None, workspace |-> None, volumes |-> None, secrets |-> None,
         shell |-> [user |-> None, command |-> None, cwd |-> None],
         bootstrap |-> None, provision |-> None, incus |-> None]

\* One thing at a time besides.
Edits == <<
  [Base EXCEPT !.documents = 2], [Base EXCEPT !.twice = TRUE], [Base EXCEPT !.schema = 2],
  [Base EXCEPT !.unknown = TRUE], [Base EXCEPT !.empty = TRUE],
  [Base EXCEPT !.project = Long(56)], [Base EXCEPT !.project = <<"a", "/", "b">>],
  [Base EXCEPT !.runtime = <<1, 1>>], [Base EXCEPT !.runtime = <<1, 3>>],
  [Base EXCEPT !.runtime = <<2>>], [Base EXCEPT !.runtime = <<1, -1>>],
  [Base EXCEPT !.image = <<"-", "i">>],
  [Base EXCEPT !.profiles = [given |-> TRUE, names |-> {}]],
  [Base EXCEPT !.profiles = [given |-> TRUE, names |-> {}],
               !.devices = Key("root", [Dev("disk", <<"/">>) EXCEPT !.pool = <<"default">>])],
  [Base EXCEPT !.profiles = [given |-> TRUE, names |-> {<<"-", "p">>}]],
  [Base EXCEPT !.config = {<<"a", ",", "b">>}], [Base EXCEPT !.config = {<<>>}],
  [Base EXCEPT !.config = {<<"user.incus-dev", "root">>}],
  [Base EXCEPT !.devices = Key("gpu", [Dev("gpu", None) EXCEPT !.extra = {<<"a", "=">>}])],
  [Base EXCEPT !.devices = Key("d", [Dev("disk", <<"/", "d">>) EXCEPT !.source = <<"gone">>])],
  [Base EXCEPT !.volumes = Long(64) :> Vol(<<"/", "v">>)],
  [Base EXCEPT !.volumes = Long(55) :> Vol(<<"/", "v">>)],
  [Base EXCEPT !.volumes = <<"x", ",", "y">> :> Vol(<<"/", "v">>)],
  [Base EXCEPT !.volumes = Key("cache", [path |-> <<"/", "v">>, pool |-> <<"x", ",", "y">>])],
  [Base EXCEPT !.workspace = SourceAt(<<>>) @@ Key("idmap", Str(<<>>))],
  [Base EXCEPT !.workspace = SourceAt(<<"sub">>) @@ Key("readonly", Null) @@ Key("target", Null)],
  [Base EXCEPT !.workspace = DataMount @@ Key("owner", Obj(Key("uid", Value("int", <<"5">>))
                                                           @@ Key("gid", Null)))
                               @@ Key("idmap", Null)],
  [Base EXCEPT !.secrets = Key("TOKEN", 2)], [Base EXCEPT !.secrets = <<"IDEV_", "X">> :> 1],
  [Base EXCEPT !.shell.user = <<"-", "u">>], [Base EXCEPT !.shell.cwd = <<"sub">>],
  [Base EXCEPT !.bootstrap = <<Ansible({}, "site.yml")>>],
  [Base EXCEPT !.provision = <<Ansible({<<"web">>, <<"db">>}, "site.yml"), Step0>>],
  [Base EXCEPT !.provision = <<Ansible({<<"web", ",", "db">>}, "site.yml")>>],
  [Base EXCEPT !.provision = <<Ansible({}, "gone.yml")>>],
  [Base EXCEPT !.provision = <<[Step0 EXCEPT !.kinds = {"run", "galaxy"}]>>],
  [Base EXCEPT !.provision = <<[Step0 EXCEPT !.kinds = {"galaxy"}, !.fields = {"cwd"}]>>],
  [Base EXCEPT !.provision = <<[Step0 EXCEPT !.user = <<"-", "u">>]>>],
  [Base EXCEPT !.provision = <<[Step0 EXCEPT !.env = {<<"A", "=", "B">>}]>>],
  [Base EXCEPT !.provision = <<[Step0 EXCEPT !.cwd = <<"sub">>]>>],
  [Base EXCEPT !.provision = <<[Step0 EXCEPT !.control = TRUE]>>]
>>

\* Checkouts, told apart by more or less.
Cached == [Base EXCEPT !.volumes = Key("cache", Vol(<<"/", "cache">>))]
Scoped(doc, scope) == [doc EXCEPT !.scope = scope]
Checkouts == <<
  Scoped(Cached, "path"),
  Scoped([Base EXCEPT !.project = Long(55)], "path"),
  Scoped([Base EXCEPT !.incus = <<"team">>], "name"),
  Scoped(Cached, "branch"),
  Scoped([Base EXCEPT !.volumes = <<"x", "-", "cache">> :> Vol(<<"/", "cache">>)], "branch"),
  Scoped([Base EXCEPT !.project = Long(55)], "branch"),
  Scoped([Cached EXCEPT !.project = Long(25) \o <<"-">> \o Long(29)], "branch")
>>

Combined ==
  [i \in 1 .. Len(Sections) * Len(Volumes) * Len(Devices) |->
     [Base EXCEPT !.workspace = Sections[1 + (i % Len(Sections))],
                  !.volumes = Volumes[1 + ((i \div Len(Sections)) % Len(Volumes))],
                  !.devices = Devices[1 + ((i \div (Len(Sections) * Len(Volumes))) % Len(Devices))]]]
Refused == [i \in DOMAIN OtherSections |-> [Base EXCEPT !.workspace = OtherSections[i]]]
AllDocs == Checkouts \o Edits \o Refused \o Combined

Top == <<>>
A == <<"a">>
AB == <<"a", "b">>
Linked == <<"link">> :> A
Branches == {<<"f", "e", "a", "t">>, <<"f", "e", "a", "t", "/", "x">>, <<"F", "e", "A", "t", "-", "x">>, Long(32),
             Long(33), Long(32) \o <<"b">>, <<"nonascii">>, <<"nonascii", "/", "nonascii">>, <<>>}

\* Where the first is written into what is cut off the last checkout's name.
Confused == {<<"b", "b">>, Long(29) \o <<"-", "b", "b">>}

Everywhere(x) == [d \in {Top, A, AB} |-> x]
Alone(d) == [e \in {Top, A, AB} |-> IF e = d THEN "regular" ELSE "none"]
Lines(starts, reaches, flags) == [start : starts, online : reaches, flag : flags]
World(tree, docs, branch, lines) ==
  [tree |-> tree, links |-> Linked, docs |-> docs, branch |-> branch, lines |-> lines]

\* Each dev.yml, somewhere.
DocWorlds ==
  {World(Alone(Top), Everywhere(i), Everywhere(<<>>),
         <<Lines({Top}, {TRUE}, {<<>>, <<"mine">>}), {}>>) : i \in DOMAIN AllDocs}

\* Each tree, with the second command in the next directory.
FoundKinds == {"none", "bare", "other", "dangling", "denied", "regular"}
TreeWorlds ==
  {World(tree, Everywhere(1), Everywhere(<<>>),
         <<Lines({A, AB, <<"link", "b">>, <<"gone">>}, {FALSE}, {<<>>}),
           Lines({A}, {FALSE}, {<<>>})>>) : tree \in [{Top, A, AB} -> FoundKinds]}

\* Each two checkouts, where git may have nothing to say, and each two branches.
\* From below a checkout, and where the other one lies in it.
Inside == [d \in {Top, A, AB} |-> IF d = Top THEN "none" ELSE "regular"]
Pair(tree, i, j, b, e) ==
  World(tree, [d \in {Top, A, AB} |-> IF d = A THEN i ELSE j],
        [d \in {Top, A, AB} |-> IF d = A THEN b ELSE e],
        <<Lines({A, AB}, BOOLEAN, {<<>>}), Lines({AB, <<"link">>}, {TRUE}, {<<>>})>>)
PairWorlds ==
  {Pair(tree, i, j, b, e) : tree \in {Inside, Alone(A)}, i, j \in 1 .. 6,
                            b, e \in {<<>>, <<"m", "a", "i", "n">>}}
  \cup {Pair(Inside, i, j, b, e) :
          i, j \in {k \in 1 .. 6 : Checkouts[k].scope = "branch"}, b, e \in Branches}
  \cup {Pair(Inside, i, i, b, e) : i \in {4, 7}, b, e \in Confused}

SomeWorlds == DocWorlds \cup TreeWorlds \cup PairWorlds
SomeDirs == {<<>>, <<"sub">>}
SomeFiles == {<<"site.yml">>, <<"dev.yml">>}
=============================================================================
