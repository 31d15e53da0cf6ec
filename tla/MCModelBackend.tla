---------------------------- MODULE MCModelBackend ----------------------------
(* Bounds for TLC: every configuration, three digests two of which begin   *)
(* alike, two tags.                                                        *)
EXTENDS ModelBackend, TLC
CONSTANTS d1, d2, d3, tag1, tag2
ThreeDigests == {d1, d2, d3}
TwoPrefixes == {"p", "q"}
Begins == d1 :> "p" @@ d2 :> "p" @@ d3 :> "q"
TwoTags == {tag1, tag2}
EveryConfig == {c \in AllConfigs : c.model.name = tag1 /\ c.model.of = d1}
=============================================================================
