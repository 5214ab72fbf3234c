--------------------------- MODULE MCPortalSession --------------------------
(* A small instance of PortalSession. *)
EXTENDS PortalSession

SameEmail == [i \in Instances |-> CHOOSE e \in Emails : TRUE]

=============================================================================
