--------------------------- MODULE MCRestartRecord ---------------------------
(* Small instances of RestartRecord for TLC. *)
EXTENDS RestartRecord

CONSTANTS both, pair

\* Two spellings of one mapping, and no mapping.
Spellings == [v \in Values |-> IF v = pair THEN both ELSE v]
=============================================================================
