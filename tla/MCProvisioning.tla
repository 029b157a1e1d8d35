----------------------------- MODULE MCProvisioning -----------------------------
(* dev.yml files and selections in which names, numbers and kinds meet.      *)
EXTENDS Provisioning

CONSTANT Anonymous  \* model value: no name

Run(name) == [name |-> name, kind |-> "run"]
Ansible == [name |-> Anonymous, kind |-> "ansible"]
Galaxy == [name |-> Anonymous, kind |-> "galaxy"]

Dev(bootstrap, provision) == [bootstrap |-> bootstrap, provision |-> provision]

MCDeclarations ==
  { Dev(Omitted, <<Galaxy, Ansible>>),
    Dev(<<>>, <<Ansible, Galaxy, Ansible>>),
    Dev(Omitted, <<Run("2"), Run(Anonymous), Run("2")>>),
    Dev(<<Run("setup")>>, <<Run("step 2"), Galaxy>>) }

Only(refs) == [only |-> refs, from |-> Anonymous]

MCSelections ==
  {Only({"2"}), Only({"1", "step 2"}), [only |-> {}, from |-> "2"]}

MCNumber == [ref \in {"1", "2", "step 2"} |->
               CASE ref = "1" -> 1 [] ref = "2" -> 2 [] OTHER -> 0]

MCShown == <<"step 1", "step 2", "step 3">>
=============================================================================
