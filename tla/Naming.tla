------------------------------- MODULE Naming -------------------------------
(***************************************************************************)
(* How idev names what it makes in Incus (internal/incus name.go,          *)
(* internal/cli naming.go and plan.go), and how it writes lists of names   *)
(* into the records on the instance and reads them back.                   *)
(*                                                                         *)
(* A text is a sequence of pieces: a separator, or characters that none of *)
(* this code looks into.  Where a length matters a piece is a character.   *)
(***************************************************************************)
EXTENDS Integers, Sequences, SequencesExt, TLC

\* The pieces that are neither a letter nor a digit.
Separators == {"-", ".", "_", "/", ",", "=", " ", "nonascii"}
Lower(c) == CASE c = "A" -> "a" [] c = "B" -> "b" [] OTHER -> c

InstanceNamePrefix == <<"d", "e", "v", "-">>
MaxInstanceName == 63
MaxSuffix == 32
MaxVolumeName == 64

Starts(text, piece) == text # <<>> /\ text[1] = piece
Holds(text, piece) == piece \in Range(text)

\* strings.TrimRight(text, "-")
TrimRight(text) ==
  SubSeq(text, 1, Max({0} \cup {i \in DOMAIN text : text[i] # "-"}))

\* normalize: no run of hyphens, and none at either end.
Normalize(text) ==
  LET add(sofar, c) ==
        IF c \notin Separators THEN Append(sofar, Lower(c))
        ELSE IF sofar # <<>> /\ Last(sofar) # "-" THEN Append(sofar, "-")
        ELSE sofar
  IN  TrimRight(FoldLeft(add, <<>>, text))

Truncate(text, n) == SubSeq(text, 1, Min({n, Len(text)}))

\* shortHash: eight hex digits, of which texts that differ share no first one.
ShortHash(text) == [i \in 1 .. 8 |-> IF i = 1 THEN ToString(text) ELSE "0"]

\* What is left of a text for a name, or its hash when nothing is.
Slug(text) == IF Normalize(text) = <<>> THEN ShortHash(text) ELSE Normalize(text)

\* InstanceName
InstanceName(project) ==
  TrimRight(Truncate(InstanceNamePrefix \o Slug(project), MaxInstanceName))

\* A mutant: an oversized suffix is cut like everything else.
SuffixedCut(project, suffix) ==
  LET tail == Truncate(Slug(suffix), MaxSuffix)
      room == MaxInstanceName - Len(InstanceNamePrefix) - 1 - Len(tail)
  IN  InstanceNamePrefix \o TrimRight(Truncate(Slug(project), room)) \o <<"-">> \o tail

\* InstanceNameWithSuffix: the suffix is what must survive.
Suffixed(project, suffix) ==
  LET tail == IF Len(Normalize(suffix)) > MaxSuffix THEN ShortHash(suffix) ELSE Slug(suffix)
      room == MaxInstanceName - Len(InstanceNamePrefix) - 1 - Len(tail)
  IN  InstanceNamePrefix \o TrimRight(Truncate(Slug(project), room)) \o <<"-">> \o tail

\* instanceNameFor; the suffix of a branch is never empty (gitBranch).
InstanceNameFor(project, scope, root, branch) ==
  CASE scope = "path"   -> Suffixed(project, ShortHash(root))
    [] scope = "branch" -> Suffixed(project, branch)
    [] scope = "name"   -> InstanceName(project)

\* volumeName
VolumeName(instance, key) == instance \o <<"-">> \o key

-----------------------------------------------------------------------------
(* Records.                                                                *)

\* strings.Join(texts, sep)
Join(texts, sep) ==
  IF texts = <<>> THEN <<>>
  ELSE FoldLeft(LAMBDA sofar, t : sofar \o <<sep>> \o t, texts[1], Tail(texts))

\* strings.Split(text, sep), of a text that is not empty.
Split(text, sep) ==
  LET add(sofar, c) == IF c = sep THEN Append(sofar, <<>>)
                       ELSE Append(Front(sofar), Append(Last(sofar), c))
  IN  FoldLeft(add, << <<>> >>, text)

\* splitList
SplitList(text) == IF text = <<>> THEN <<>> ELSE Split(text, ",")

\* An entry of the volume record, and splitVolume, which cuts at the first "/".
VolumeRef(pool, name) == pool \o <<"/">> \o name
SplitVolume(ref) ==
  LET cut == Min({i \in DOMAIN ref : ref[i] = "/"})
  IN  <<SubSeq(ref, 1, cut - 1), SubSeq(ref, cut + 1, Len(ref))>>
=============================================================================
