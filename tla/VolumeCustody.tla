---------------------------- MODULE VolumeCustody ----------------------------
(***************************************************************************)
(* What idev promises about persistent volumes: a volume on the pool that  *)
(* something names stays named until it is deleted.  Names come from       *)
(* dev.yml, which is the user's, and from what idev keeps.                 *)
(***************************************************************************)
CONSTANT Volumes

VARIABLES
  pool,  \* the volumes that exist
  yml,   \* the volumes dev.yml names
  kept   \* the volumes idev names: records, memory, messages

Named == yml \cup kept

Init ==
  /\ pool \in SUBSET Volumes
  /\ yml \in SUBSET Volumes
  /\ kept \in SUBSET Volumes
  /\ pool \subseteq Named

\* Names move between records, memory and messages; none that is needed goes.
Keeps == yml' = yml /\ pool' \cap Named \subseteq Named'

\* A volume is created only when it is named, and one at a time.
CreateVolume == \E v \in Named \ pool : pool' = pool \cup {v} /\ Keeps

DeleteVolume == \E v \in pool : pool' = pool \ {v} /\ Keeps

MoveNames == pool' = pool /\ Keeps

\* Only the user takes a name out of dev.yml, and idev's own stay.
EditConfig == pool' = pool /\ kept' = kept /\ yml' \in SUBSET Volumes

Next == CreateVolume \/ DeleteVolume \/ MoveNames \/ EditConfig

Spec == Init /\ [][Next]_<<pool, yml, kept>>
=============================================================================
