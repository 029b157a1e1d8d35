----------------------------- MODULE MCReconcile -----------------------------
(***************************************************************************)
(* A small instance of Reconcile: four dev.yml files that between them     *)
(* drop, take over and rename what another declares, four hosts, and three *)
(* instances from before the records.                                      *)
(***************************************************************************)
EXTENDS Reconcile, TLC

CONSTANTS p1, p2

None == << >>

Disk(source) == [type |-> "disk", source |-> <<"", source>>]
Main(readonly) == "main" :> [source |-> <<"", ".">>, readonly |-> readonly]
Also(name) == name :> [source |-> <<"", name>>, readonly |-> FALSE]

\* The least there is: only the project's own tree, and no mapping.
Plain == [image |-> "img1", config |-> None, devices |-> None, volumes |-> {},
          mounts |-> Main(FALSE), idmap |-> "none", owner |-> "0"]

\* A key, a volume and a second mount; the tree read-only.
Rich == [image |-> "img1", config |-> "limits.cpu" :> "2", devices |-> None,
         volumes |-> {"cache"}, mounts |-> Main(TRUE) @@ Also("data"),
         idmap |-> "auto", owner |-> "1000"]

\* Another image, idmapped mounts, a disk that says itself whether it is one.
Shifted == [image |-> "img2", config |-> None,
            devices |-> ("data" :> Disk("data"))
                          @@ ("own" :> (Disk("own") @@ ("shift" :> "true"))),
            volumes |-> {}, mounts |-> Main(FALSE), idmap |-> "shift", owner |-> "0"]

\* The user manages the mapping.
OwnMapping == [image |-> "img1", config |-> "raw.idmap" :> "both 5 5",
               devices |-> "node" :> [type |-> "unix-char", source |-> <<"", "node">>],
               volumes |-> {}, mounts |-> Main(FALSE) @@ Also("data"), idmap |-> "auto", owner |-> "0"]

\* The second checkout keeps to one of them.
EachDeclares == [p \in Procs |-> IF p = p1 THEN {Plain, Rich, Shifted, OwnMapping}
                                 ELSE {Shifted}]

Host(readable, start, mounts) ==
  [readable |-> readable, uids |-> {[start |-> start, count |-> 2]},
   gids |-> {[start |-> 0, count |-> 1], [start |-> 7, count |-> 1]}, mounts |-> mounts]

\* The user's uid is 7: granted by the first range, one past it, not readable.
AllHosts == {Host(TRUE, 6, "unreported"), Host(TRUE, 5, "true"), Host(TRUE, 5, "false"),
             Host(FALSE, 0, "false")}

Found(config, devices, ours) ==
  [Nobody EXCEPT !.there = TRUE, !.ours = ours, !.config = config, !.devices = devices,
                 !.root = IF ours THEN p1 ELSE NoRecord]

OldTree == Workspace :> [type |-> "disk", source |-> <<p1, ".">>]

\* Another project's; from before the records, with what an older dev.yml set
\* and the mapping an older idev made; and the same with the mapping by hand.
AllOlder ==
  {<<Found("limits.cpu" :> "1", None, FALSE), {}>>,
   <<Found("raw.idmap" :> "0" @@ "limits.cpu" :> "1", OldTree, TRUE),
     {<<"key", "raw.idmap">>, <<"device", Workspace>>}>>,
   <<Found("raw.idmap" :> "by hand", OldTree @@ "mine" :> [type |-> "gpu"], TRUE),
     {<<"device", Workspace>>}>>}

ByHandValues == ("limits.cpu" :> {"9"}) @@ ("raw.idmap" :> {"by hand"})
ByHandDevices == {<<"data", [type |-> "gpu"]>>,
                  <<Workspace, [type |-> "disk", source |-> <<p1, ".">>, shift |-> "false",
                                propagation |-> "private"]>>}
=============================================================================
