---------------------------- MODULE MCMembership ----------------------------
(* One applicant, one administrator and one invitation of a workspace.     *)
EXTENDS Membership

CONSTANTS a, f, i1
=============================================================================
