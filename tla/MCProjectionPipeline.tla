------------------------- MODULE MCProjectionPipeline -------------------------
(***************************************************************************)
(* Small instances of ProjectionPipeline.                                  *)
(*   solo    one mutation of one revision                                  *)
(*   twin    the same chunk submitted twice: a shared assertion            *)
(*   chain   a revision and its successor, one mutation each               *)
(***************************************************************************)
EXTENDS ProjectionPipeline

CONSTANTS m1, m2, r1, r2, d1

SoloRevisionOf == [m \in {m1} |-> r1]
TwinRevisionOf == [m \in {m1, m2} |-> r1]
ChainRevisionOf == [m \in {m1, m2} |-> IF m = m1 THEN r1 ELSE r2]
OneDocument == [r \in Revision |-> d1]
NoPredecessor == [r \in Revision |-> None]
ChainSupersedes == [r \in {r1, r2} |-> IF r = r2 THEN r1 ELSE None]

AllLanes == {{"VECTOR", "GRAPH"}}
WithoutGraph == {{"VECTOR"}, {"VECTOR", "GRAPH"}}
=============================================================================
