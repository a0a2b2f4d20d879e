-------------------------- MODULE MCEventPipeline --------------------------
(* Small instances of EventPipeline for TLC: items x1, x2, x3 tell the     *)
(* same story; x1 and x2 come from the adapter s1, x3 from s2.  z tells it *)
(* in another category; w, y1, y2, y3 are other stories, w has no date;    *)
(* these come from s3.                                                     *)
EXTENDS EventPipeline, TLC

CONSTANTS x1, x2, x3, y1, y2, y3, z, w, s1, s2, s3

MCSource == [x \in Items |-> IF x = x3 THEN s2 ELSE IF x \in {x1, x2} THEN s1 ELSE s3]
MCCategory == [x \in Items |-> IF x = z THEN "d" ELSE "c"]
MCSimilar == {x1, x2, x3, z} \X {x1, x2, x3, z} \cup {<<y, y>> : y \in {y1, y2, y3, w}}
Unrelated == {<<x, x>> : x \in Items}
MCSubscribed == Bots \X Sources
NoSubscription == {}

IngestorSymmetry == Permutations(Ingestors)
GeneratorSymmetry == Permutations(Generators)
=============================================================================
