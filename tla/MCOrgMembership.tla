--------------------------- MODULE MCOrgMembership ---------------------------
(* Model values for the instances of OrgMembership that TLC checks.         *)
EXTENDS OrgMembership, TLC

CONSTANTS founder, second, invite, r1, r2

MCUsers == {founder, second}
MCInvites == {invite}
MCRequests == {r1, r2}
MCSymmetry == Permutations(MCRequests)

=============================================================================
