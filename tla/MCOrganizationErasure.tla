------------------------ MODULE MCOrganizationErasure ------------------------
(* An erasure beside two snapshot runs, on small sets for TLC. *)
EXTENDS OrganizationErasure
=============================================================================
