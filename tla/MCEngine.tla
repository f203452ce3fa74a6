------------------------------ MODULE MCEngine ------------------------------
(* Two live entities out of three ids, so that ids come and go: create,      *)
(* delete, move, re-parent, and patches whose operations interact.           *)
EXTENDS Engine

Create(i) == [op |-> "Create", id |-> i,
              components |-> [LocalTransform |-> i, Primitive |-> 1]]
Delete(i) == [op |-> "Delete", id |-> i]
Move(i) == [op |-> "Set", id |-> i, kind |-> "LocalTransform", value |-> 9]
Reparent(i, p) == [op |-> "Reparent", id |-> i, parent |-> p]

MCOperationLists ==
    { <<Create(1), Move(1)>>, <<Delete(1)>>, <<Create(1), Create(2), Reparent(2, 1)>>,
      <<Delete(2), Create(3)>>, <<Create(1), Delete(1), Create(1), Delete(1)>> }

KeySymmetry == Permutations(Keys)

=============================================================================
