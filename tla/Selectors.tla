------------------------------- MODULE Selectors -------------------------------
(***************************************************************************)
(* Selectors and the tree they are resolved on: _serialize_node of the     *)
(* server (server.gd), which cuts the scene at a depth and a number of     *)
(* children, and flatten, _matches and resolve_selector of the operator    *)
(* (selectors.py).                                                         *)
(*                                                                         *)
(* A node is its position: <<>> is /root, <<1, 2>> the second child of its *)
(* first.  A scene, or a tree, gives the nodes there are their attributes  *)
(* [name, class, text, groups, visible]; a node without a text has one no  *)
(* selector accepts.  A selector is a record with the keys the flow gives; *)
(* for name, class, text and path it has the set of values accepted, which *)
(* for a /regex/ are the strings it is found in.                           *)
(***************************************************************************)
EXTENDS Naturals, Sequences, FiniteSets, SequencesExt

CONSTANTS MaxDepthSent,    \* depth of scene_tree
          MaxChildren      \* _MAX_TREE_CHILDREN

ASSUME TreeAssumption == MaxDepthSent \in Nat /\ MaxChildren \in Nat

(* What the engine can show: children are numbered from 1, without a gap.  *)
IsTree(s) ==
    /\ <<>> \in DOMAIN s /\ DOMAIN s \subseteq Seq(Nat \ {0}) /\ IsFiniteSet(DOMAIN s)
    /\ \A n \in DOMAIN s \ {<<>>} :
          /\ Front(n) \in DOMAIN s
          /\ \A i \in 1..Last(n) : Append(Front(n), i) \in DOMAIN s

Restricted(s, nodes) == [n \in nodes |-> s[n]]
IsChild(m, n) == m # <<>> /\ Front(m) = n
Children(t, n) == Cardinality({m \in DOMAIN t : IsChild(m, n)})

-----------------------------------------------------------------------------
(* _serialize_node: depth counts down on the way to a node; what lies below*)
(* the last level is left out, and so are children beyond the limit.       *)
Serialize(s) ==
    Restricted(s, {n \in DOMAIN s : /\ Len(n) <= MaxDepthSent
                                    /\ \A i \in DOMAIN n : n[i] <= MaxChildren})

Truncated(s) == DOMAIN Serialize(s) # DOMAIN s

(* flatten: a node, then what lies under its children in their order.      *)
Flatten(t, from) ==
    LET walk[n \in DOMAIN t] ==
            <<n>> \o FlattenSeq([i \in 1..Children(t, n) |-> walk[Append(n, i)]])
    IN  walk[from]

(* _matches: attributes only; structural keys of a nested selector, like   *)
(* keys it does not know, are not looked at.                               *)
Matches(t, n, sel) ==
    /\ \A k \in {"name", "class", "text"} \cap DOMAIN sel : t[n][k] \in sel[k]
    /\ "path" \in DOMAIN sel => n \in sel.path
    /\ "group" \in DOMAIN sel => sel.group \in t[n].groups
    /\ "visible" \in DOMAIN sel => t[n].visible = sel.visible

ScreenSpaceOps == {"below", "above", "left_of", "right_of", "near"}
Optional(sel) == "optional" \in DOMAIN sel /\ sel.optional

HasMatchInside(t, n, sub) == \E m \in ToSet(Flatten(t, n)) : Matches(t, m, sub)
HasDescendant(t, n, sub) == \E m \in ToSet(Flatten(t, n)) \ {n} : Matches(t, m, sub)

IsCandidate(t, n, sel) ==
    /\ Matches(t, n, sel)
    /\ "child_of" \in DOMAIN sel => n # <<>> /\ Matches(t, Front(n), sel.child_of)
    /\ "contains" \in DOMAIN sel => HasDescendant(t, n, sel.contains)

Candidates(t, sel) ==
    LET nodes == Flatten(t, <<>>)
    IN  FlattenSeq([i \in DOMAIN nodes |->
                        IF IsCandidate(t, nodes[i], sel) THEN <<nodes[i]>> ELSE <<>>])

NoNode == [is |-> "none"]
Error == [is |-> "error"]
Node(n) == [is |-> "node", node |-> n]

(* resolve_selector                                                        *)
ResolveAmong(found, sel) ==
    CASE found = <<>> /\ Optional(sel) -> NoNode
      [] found # <<>> /\ "index" \in DOMAIN sel /\ sel.index \in 0..Len(found) - 1 ->
             Node(found[sel.index + 1])
      [] Len(found) = 1 /\ "index" \notin DOMAIN sel -> Node(found[1])
      [] OTHER -> Error

Resolve(t, sel) ==
    IF ScreenSpaceOps \cap DOMAIN sel # {} THEN Error ELSE ResolveAmong(Candidates(t, sel), sel)

-----------------------------------------------------------------------------
(* The reference definition: the nodes of the scene itself that a selector *)
(* means, without a traversal, and their document order.                   *)

Inside(m, n) == IsStrictPrefix(n, m)

Meant(s, sel) ==
    {n \in DOMAIN s :
        /\ Matches(s, n, sel)
        /\ "child_of" \in DOMAIN sel =>
               \E p \in DOMAIN s : IsChild(n, p) /\ Matches(s, p, sel.child_of)
        /\ "contains" \in DOMAIN sel =>
               \E m \in DOMAIN s : Inside(m, n) /\ Matches(s, m, sel.contains)}

Before(m, n) ==
    \/ Inside(n, m)
    \/ \E i \in DOMAIN m \cap DOMAIN n :
          m[i] < n[i] /\ SubSeq(m, 1, i - 1) = SubSeq(n, 1, i - 1)

(* The node a selector means: the only one, or the one with index others   *)
(* before it.                                                              *)
IsMeant(s, sel, n) ==
    /\ n \in Meant(s, sel)
    /\ IF "index" \in DOMAIN sel
       THEN Cardinality({m \in Meant(s, sel) : Before(m, n)}) = sel.index
       ELSE Meant(s, sel) = {n}

(* A node that is returned, from any tree, has all that the selector asks. *)
(* From a tree that was not cut it is the one that is meant; nothing is    *)
(* returned only if nothing is meant and that is allowed, and it is an     *)
(* error otherwise (selectors.py:12-14, flow-schema.md:15-16).             *)
MeetsReference(s, sel) ==
    LET r == Resolve(Serialize(s), sel) IN
    ScreenSpaceOps \cap DOMAIN sel = {} =>
        /\ r.is = "node" => r.node \in Meant(s, sel)
        /\ ~Truncated(s) =>
              /\ r.is = "node" => IsMeant(s, sel, r.node)
              /\ r.is = "none" => Meant(s, sel) = {} /\ Optional(sel)
              /\ r.is = "error" => /\ Meant(s, sel) = {} => ~Optional(sel)
                                   /\ \A n \in DOMAIN s : ~IsMeant(s, sel, n)
=============================================================================
