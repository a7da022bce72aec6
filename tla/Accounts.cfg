SPECIFICATION Spec
CONSTANTS
  u1 = u1  u2 = u2  u3 = u3  p1 = p1  p2 = p2  p3 = p3  g1 = g1
  NoUser = NoUser
  Users <- TwoUsers
  Grants <- OneGrant
  Requests <- TwoRequests
  Configured = FALSE
  Approval = TRUE
  Perils = {"crash", "db"}
SYMMETRY Symmetric
INVARIANTS TypeOK ActiveAdminRemains GrantsBelongToMods SetupPossible
PROPERTY OneFounder
