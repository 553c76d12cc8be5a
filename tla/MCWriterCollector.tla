-------------------------- MODULE MCWriterCollector --------------------------
(* Small instances of WriterCollector for TLC.                             *)
EXTENDS WriterCollector

CONSTANTS c1, c2

(* Two cgroups side by side, and one inside the other.                     *)
FlatTree == [c \in Cgroups |-> Root]
NestedTree == [c \in Cgroups |-> IF c = c2 THEN c1 ELSE Root]
=============================================================================
