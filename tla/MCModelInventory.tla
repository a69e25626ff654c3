-------------------------- MODULE MCModelInventory --------------------------
(* ModelInventory with two instances, two inventories of two models each,  *)
(* and an origin's clock that is right or as far ahead as is tolerated.    *)
EXTENDS ModelInventory

AheadSet == {0, 1}
SizeSeq == <<2, 2>>
=============================================================================
