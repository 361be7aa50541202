--------------------------- MODULE MCSnapshotStore ---------------------------
(* Three Saves and two Loads, verified and not, of one name/version.       *)
EXTENDS SnapshotStore, TLC

CONSTANTS s1, s2, s3, v1, u1, t1

OneTemplate == [s \in Save |-> t1]
OneTemplateL == [l \in Load |-> t1]
=============================================================================
