---------------------------- MODULE MCSceneSync ----------------------------
(* Three entities, one operation of each shape on each, and the two- to     *)
(* five-operation patches whose operations interact inside one preflight.   *)
EXTENDS SceneSync

Create(i, c) == [op |-> "Create", id |-> i, components |-> c]
Delete(i) == [op |-> "Delete", id |-> i]
SetC(i, k, v) == [op |-> "Set", id |-> i, kind |-> k, value |-> v]
RemoveC(i, k) == [op |-> "Remove", id |-> i, kind |-> k]
Reparent(i, p) == [op |-> "Reparent", id |-> i, parent |-> p]

Placed(v) == [LocalTransform |-> v]
Solid(v) == [LocalTransform |-> v, Primitive |-> 1]

Single ==
    { <<Create(i, Solid(i))>> : i \in EntityIds }
    \union { <<Create(i, [Name |-> 1])>> : i \in {3} }
    \union { <<Delete(i)>> : i \in EntityIds }
    \union { <<SetC(i, "LocalTransform", 9)>> : i \in EntityIds }
    \union { <<SetC(i, "Primitive", 2)>> : i \in {2} }
    \union { <<RemoveC(i, "LocalTransform")>> : i \in {1, 2} }
    \union { <<RemoveC(i, "Primitive")>> : i \in {2, 3} }
    \union { <<Reparent(i, p)>> : i \in EntityIds, p \in EntityIds \union {0} }

Compound ==
    { <<Create(1, Solid(1)), Create(2, Solid(2)), Create(3, Solid(3)),
        Reparent(2, 1), Reparent(3, 2)>>,
      <<Create(3, Solid(3)), Create(2, Placed(2)), Reparent(2, 3)>>,
      <<Delete(1), Create(1, Placed(8))>>,
      <<Delete(2), Create(2, Solid(8)), Reparent(2, 1)>>,
      <<Reparent(2, 0), Delete(1)>>,
      <<Reparent(3, 1), Delete(2)>>,
      <<SetC(1, "LocalTransform", 7), SetC(3, "LocalTransform", 7)>>,
      <<RemoveC(2, "LocalTransform"), Reparent(3, 0), Reparent(3, 2)>>,
      <<Create(2, Solid(2)), Delete(2)>>,
      <<Delete(2), SetC(2, "Primitive", 2)>>,
      <<Reparent(1, 3), Reparent(2, 0)>>,
      <<>> }

MCOperationLists == Single \union Compound

KeySymmetry == Permutations(Keys)

=============================================================================
