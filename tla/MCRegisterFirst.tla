-------------------------- MODULE MCRegisterFirst ---------------------------
EXTENDS RegisterFirst

MCAddresses == {"ann", "Ann", "bob", "@"}
MCNormalized == [a \in MCAddresses |-> IF a = "Ann" THEN "ann" ELSE a]
MCRosters == {<<"ann", "bob">>, <<"Ann", "ann">>, <<"@">>}
=============================================================================
