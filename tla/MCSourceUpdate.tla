---------------------------- MODULE MCSourceUpdate ----------------------------
(* Two arguments with open questions at two depths, a group that names a leaf nobody has declared. *)
EXTENDS SourceUpdate

Leaf(id) == [root |-> id, prems |-> <<>>, dis |-> <<>>, holes |-> {}]
Rule(id, prems, holes) == [root |-> id, prems |-> prems, dis |-> <<>>, holes |-> holes]

Mix  == Rule("mix", <<>>, {"q1", "q2"})
Wrap == Rule("wrap", <<Mix, Leaf("l1")>>, {"q1"})

MCSources ==
  {[rows |-> <<[name |-> "a", term |-> Leaf("l1")], [name |-> "h", term |-> Wrap]>>,
    leaves |-> <<"l1", "l2">>, metas |-> <<"l1", "l2">>, attacks |-> k,
    groups |-> {{"l1", "l9"}, {"l2"}}] :
     k \in {<<>>, <<[src |-> "a", tgt |-> "h", pos |-> <<<<"premise", 1>>>>]>>}}

MCQuestions == {"q1", "q2"}
MCParts     == {Leaf("l1"), Leaf("l2"), Mix, Wrap}
MCPositions == BoundedSeq(({"premise"} \X {1, 2}) \cup ({"question"} \X MCQuestions), 3)

LeafEdit(id, m) == [kind |-> "leaf", id |-> id, meta |-> m]
Instance(n, t)  == [kind |-> "instance", name |-> n, term |-> t]
Attack(s, t, p) == [kind |-> "attack", attack |-> [src |-> s, tgt |-> t, pos |-> p]]
Discharge(n, p, q, t) == [kind |-> "discharge", name |-> n, pos |-> p, question |-> q, term |-> t]

MCEdits ==
  { LeafEdit("l3", "l1"), LeafEdit("l9", "l9"),
    Instance("b", Leaf("l2")), Instance("b", Mix),
    Attack("h", "b", <<>>), Attack("b", "h", <<<<"question", "q1">>, <<"question", "q1">>>>),
    Discharge("h", <<>>, "q1", Mix), Discharge("h", <<<<"premise", 1>>>>, "q1", Leaf("l2")),
    Discharge("h", <<<<"premise", 1>>>>, "q2", Leaf("l2")),
    Discharge("h", <<<<"question", "q1">>>>, "q1", Leaf("l1")),
    Discharge("h", <<<<"question", "q1">>>>, "q2", Mix),
    Discharge("b", <<>>, "q1", Leaf("l2")), Discharge("a", <<>>, "q1", Leaf("l2")) }
=============================================================================
