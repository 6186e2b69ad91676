------------------------------ MODULE MCCatalogue ------------------------------
(* One bar, its menu of two items, a menu nobody has assigned yet. *)
EXTENDS Catalogue

Symmetries == Permutations(Clients) \cup Permutations(Pulls)

MCOne == [amount |-> 1, currency |-> "KES"]
MCTwo == [amount |-> 2, currency |-> "USD"]
MCPrices == {MCOne, MCTwo}
MCProductOf == [s \in Skus |-> "beer"]
MCSkuOf == [i \in Items |-> IF i = "half" THEN "stout" ELSE "lager"]
MCMenuOf == [i \in Items |-> IF i = "glass" THEN "wines" ELSE "menu"]
MCCode == [s \in Skus |-> s]
MCConfigured == {"organisation", "bar", "beer", "menu", "wines", "lager", "stout", "pint", "half"}
MCAssigned == {<<"menu", "bar">>}
MCConfiguredPrices == [x \in Items \X (Locations \cup {Everywhere}) |->
                         IF x[2] = Everywhere /\ x[1] # "glass" THEN MCOne ELSE Unset]
MCLocationOf == [r \in Registers |-> "bar"]
=============================================================================
