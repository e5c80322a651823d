----------------------------- MODULE MCLevelPass -----------------------------
(* Small instances of LevelPass.                                           *)
EXTENDS LevelPassProps

CONSTANTS ana, o1, o2, o3, idA, idB, idC

TwoOrders   == {o1, o2}
ThreeOrders == {o1, o2, o3}
OneProfile  == {ana}
\* o1 tops up the linked id, o2 another one while signed in, o3 nobody's.
BuyerOf  == [o \in ThreeOrders |-> IF o = o2 THEN ana ELSE None]
TargetOf == [o \in ThreeOrders |-> CASE o = o1 -> idA [] o = o2 -> idB [] OTHER -> idC]
\* 1.49 pesos earn one point, 1.50 two, a loss none.
ProfitOf == [o \in ThreeOrders |-> CASE o = o1 -> 149 [] o = o2 -> 150 [] OTHER -> -80]
DiamondsOf == [o \in ThreeOrders |-> 1]
Buyer2 == [o \in TwoOrders |-> BuyerOf[o]]
Target2 == [o \in TwoOrders |-> TargetOf[o]]
Profit2 == [o \in TwoOrders |-> ProfitOf[o]]
Diamonds2 == [o \in TwoOrders |-> DiamondsOf[o]]
Linked0 == [x \in OneProfile |-> idA]
OneLadder == { {1, 3} }
Rungs == {1, 3}
NoRung == {}
Values == {0, 3}

\* A guest's order beside a signed-in one, and a rung nothing can deliver.
LiveOrders == {o2, o3}
Buyer3 == [o \in LiveOrders |-> BuyerOf[o]]
Target3 == [o \in LiveOrders |-> TargetOf[o]]
Profit3 == [o \in LiveOrders |-> ProfitOf[o]]
Diamonds3 == [o \in LiveOrders |-> DiamondsOf[o]]
LiveLadders == { {1, 2}, {2} }
LiveRungs == {1, 2}
FirstRung == {1}
NoValue == {}
=============================================================================
