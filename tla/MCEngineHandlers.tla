--------------------------- MODULE MCEngineHandlers ---------------------------
(* Bounds for TLC: two operator processes, one of which declares a tier.   *)
EXTENDS EngineHandlers
CONSTANTS d1, d2
TwoDrivers == {d1, d2}
OneDeclares == d1 :> "any" @@ d2 :> "t2"
BothDeclare == d1 :> "t2" @@ d2 :> "t2"
Captures == {"capture", "bad_label"}
Rescans == {"rescan", "move"}
Uses == {Captures, Rescans, InjectOps}
OnlyCaptures == {Captures}
=============================================================================
