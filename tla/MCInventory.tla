----------------------------- MODULE MCInventory -----------------------------
(* Two SKUs.  The drink sold takes one of each, a transfer asks for all the *)
(* rum of the bar and is received in two parts, a count is about both SKUs, *)
(* and the database sorts them the other way round.  Each kind of request   *)
(* also comes in a form that is refused at the door.                        *)
EXTENDS Inventory

CONSTANTS rum, cola, bar, store

MCSkuOrder == <<cola, rum>>
MCDbOrder == <<rum, cola>>

Bottles(r, c) == [Nothing EXCEPT ![rum] = r, ![cola] = c]
OneRecipe == {Bottles(1, 1), Bottles(1, -1)}
MCOpening == [l \in Locations |-> Bottles(2, 1)]
MCRequests ==
    {[source |-> bar, destination |-> store, requested |-> q] :
        q \in {Bottles(2, 0), Bottles(0, 0), Bottles(3, -1)}}
MCFindings ==
    {[location |-> bar, counted |-> q] : q \in {Bottles(2, 1), Bottles(-1, 1)}}
MCPostings == {[location |-> bar, sku |-> rum, delta |-> d] : d \in {-1, 0}}
=============================================================================
