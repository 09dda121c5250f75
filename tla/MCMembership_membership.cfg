CONSTANTS
  Identities = {ada, bilal, cyra}
  Emails = {ada, bilal, cyra}
  EmailOf <- OwnAddress
  Shops = {s1, s2}
  NoShop = NoShop
  Invitations = {i1, i2, i3}
  Requests = {r1, r2}
  Nobody = Nobody
  NoInvitation = NoInvitation
SYMMETRY Symmetry
SPECIFICATION Spec
INVARIANT EveryMemberBelongs
PROPERTIES AcceptedIsFinal MembersStayPut AdminsRemain
CHECK_DEADLOCK FALSE
