SPECIFICATION Spec
CONSTANTS
    founder = founder
    second = second
    invite = invite
    r1 = r1
    r2 = r2
    Users <- MCUsers
    Founder = founder
    Invites <- MCInvites
    Requests <- MCRequests
SYMMETRY MCSymmetry
INVARIANT LastOwner
