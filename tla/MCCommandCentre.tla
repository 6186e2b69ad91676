-------------------------- MODULE MCCommandCentre --------------------------
EXTENDS CommandCentre

CONSTANTS e1, e2, a1, a2, o1, r1
MCEventOf == [x \in {a1, a2, o1} |-> IF x = a2 THEN e2 ELSE e1]
MCPlaceOf == [o \in {o1} |-> "bar"]
MCSkuOf == [o \in {o1} |-> "beer"]
MCRegisterOf == [o \in {o1} |-> r1]
MCFirstRoster == [r \in {r1} |-> e1]
=============================================================================
