----------------------------- MODULE MCBackend -----------------------------
(* Constants of Backend for TLC.                                           *)
EXTENDS Backend

CONSTANTS c1, c2

\* The fleet is c1 alone, c2 is stored when a client seeds it.
OneOrTwoCabins == {<<c1>>, <<c1, c2>>}

Use(kinds, ids) == [kinds |-> kinds, ids |-> ids]

AllClienteles ==
    {Use({"blackStart"}, 2), Use({"blackStart", "gridSync"}, 1),
     Use({"anomaly", "inspection"}, 1), Use({"anomaly", "order"}, 1),
     Use({"cabin", "inspection"}, 1), Use({"cabin", "blackStart"}, 1)}

OrderClients == {Use({"order"}, 1)}

TwoReadings == {{}, {"phase"}}

=============================================================================
