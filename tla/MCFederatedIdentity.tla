------------------------ MODULE MCFederatedIdentity ------------------------
(* Instances of FederatedIdentity for TLC: two addresses, one of them claimed *)
(* in two spellings and held by the founder.                                  *)
EXTENDS FederatedIdentity, TLC

CONSTANTS u1, e1, e2, c1, c1upper, c2

MCClaims == {c1, c1upper, c2}
MCNormal == (c1 :> e1) @@ (c1upper :> e1) @@ (c2 :> e2)
MCHomeOf == u1 :> e1
=============================================================================
