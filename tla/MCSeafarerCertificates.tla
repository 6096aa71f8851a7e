------------------------ MODULE MCSeafarerCertificates ------------------------
(***************************************************************************)
(* Instance for TLC: two tenants with a certificate each; the sweep of the *)
(* first one always fails.                                                 *)
(***************************************************************************)
EXTENDS SeafarerCertificates

MCTenant == [c \in Certificates |-> IF c = "c1" THEN 1 ELSE 2]
=============================================================================
