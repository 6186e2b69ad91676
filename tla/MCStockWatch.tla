---------------------------- MODULE MCStockWatch ----------------------------
EXTENDS StockWatch

MCStock == [l \in Places |-> IF l = "bar" THEN 1 ELSE 2]
MCConfigurations == {[watched |-> <<"bar">>, owned |-> TRUE], [watched |-> <<>>, owned |-> FALSE]}
=============================================================================
