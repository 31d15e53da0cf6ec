----------------------------- MODULE MCFlowRunner -----------------------------
(* Bounds for TLC: two flow files; the top-level one holds up to two       *)
(* commands, the other one or two of those that matter in a sub-flow: a    *)
(* granted, ungranted or ill-formed mutation, a command outside the        *)
(* vocabulary, a settle, a call back into the first.  Commands with a      *)
(* selector stand alone or before a press, ill-formed ones after one.      *)
EXTENDS FlowRunner
CONSTANTS main, sub

(* Every ordered tree of up to four nodes, those below the root named x or *)
(* y, and in those of three or fewer some hidden; with MaxDepthSent and    *)
(* MaxChildren 2, the chain of four and the root with three children are   *)
(* cut.                                                                    *)
Attr(name, visible) ==
    [name |-> name, class |-> "Node", text |-> "", groups |-> {}, visible |-> visible]
Root == Attr("x", TRUE)
Positions == {<<1>>, <<2>>, <<3>>, <<1, 1>>, <<1, 2>>, <<2, 1>>, <<1, 1, 1>>}
Gapless(nodes) == \A n \in nodes : /\ Front(n) \in nodes \cup {<<>>}
                                   /\ Last(n) > 1 => [n EXCEPT ![Len(n)] = @ - 1] \in nodes
Shapes == {nodes \in SUBSET Positions : Cardinality(nodes) <= 3 /\ Gapless(nodes)}
NodesOf(nodes) == {Attr("x", TRUE), Attr("y", TRUE)}
                  \cup IF Cardinality(nodes) < 3 THEN {Attr("y", FALSE)} ELSE {}
AllTrees == UNION {{below @@ (<<>> :> Root) : below \in [nodes -> NodesOf(nodes)]} : nodes \in Shapes}

Single == {[name |-> {"x"}], [name |-> {"x", "y"}], [visible |-> FALSE]}
Structural == {[child_of |-> q] @@ r : q, r \in Single}
              \cup {[contains |-> q] @@ r : q, r \in Single}
              \cup {[contains |-> [name |-> {"y"}], child_of |-> [name |-> {"x"}]]}
AllQueries == LET keys == Single \cup Structural
              IN  keys \cup {[index |-> i] @@ q : i \in 0..1, q \in keys}
                       \cup {[optional |-> TRUE] @@ q : q \in keys}

Y == [name |-> {"y"}]

Plain(name) == [cmd |-> name, wellformed |-> TRUE, file |-> main, here |-> TRUE, times |-> 0,
                body |-> <<>>, sel |-> Y]
Ill(c) == [c EXCEPT !.wellformed = FALSE]
On(name, sel) == [Plain(name) EXCEPT !.sel = sel]
Calls(f, here) == [Plain("run_flow") EXCEPT !.file = f, !.here = here]
Repeats(n, body) == [Plain("repeat") EXCEPT !.times = n, !.body = body]

Looking == {Plain("assert_property"), On("assert_visible", [optional |-> TRUE] @@ Y),
            On("wait_until", [index |-> 0] @@ Y)}
OtherCommands ==
    {Plain(name) : name \in {"launch", "settle_fail", "capture", "press"}}
    \cup {Calls(sub, TRUE), Calls(sub, FALSE)}
    \cup {Repeats(0, <<Plain("press")>>), Repeats(2, <<Plain("press"), Calls(sub, TRUE)>>)}
IllFormed == {Plain("press"), Plain("settle"), Plain("assert_visible"), Plain("wait_until"),
              Calls(sub, TRUE), Repeats(2, <<Plain("press")>>)}
UpToTwo(S) == {<<>>} \cup {<<x>> : x \in S} \cup {<<x, y>> : x, y \in S}
SubBodies == {<<Plain("press")>>, <<Ill(Plain("press"))>>, <<Plain("settle")>>, <<Plain("sleep")>>,
              <<Plain("press"), Calls(main, TRUE)>>}
Flows(bodies) == {[capabilities |-> g, commands |-> body] : g \in SUBSET {"press"}, body \in bodies}

TwoFiles == {main, sub}
Pressing(body) == [capabilities |-> {"press"}, commands |-> body]
AllLibraries ==
    {(main :> m @@ sub :> s) : m \in Flows(UpToTwo(OtherCommands)), s \in Flows(SubBodies)}
    \cup {(main :> Pressing(body) @@ sub :> Pressing(<<>>)) :
              body \in {<<x>> : x \in Looking} \cup {<<x, Plain("press")>> : x \in Looking}
                       \cup {<<On("assert_visible", q)>> : q \in AllQueries}
                       \cup {<<Plain("press"), Ill(x)>> : x \in IllFormed}}
=============================================================================
