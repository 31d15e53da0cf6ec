---------------------------- MODULE MCWireServer ----------------------------
(* Bounds for TLC.  In the run of the limits one client sends and another   *)
(* only takes the slot; in that of the dispatch both send.                 *)
EXTENDS WireServer, TLC
CONSTANTS c1, c2
Two == {c1, c2}
Sym2 == Permutations(Two)
LimitKinds == {"auth_ok", "auth_bad", "call", "async", "nocmd", "oversize"}
DispatchKinds == {"auth_ok", "call", "async"}
OneSends == c1 :> 3 @@ c2 :> 0
BothSend == c1 :> 3 @@ c2 :> 3
=============================================================================
