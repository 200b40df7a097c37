CONSTANTS
  c1 = c1
  c2 = c2
  c3 = c3
  a1 = a1
  a2 = a2
  k1 = k1
  p1 = p1
  p2 = p2
  Calls = {c1, c2}
  Keys = {k1}
  Actions = {a1, a2}
  Approvals = {p1, p2}
  Key <- MCKey
  ActionOf <- MCAction
  Token <- MCToken
  Bound <- MCBound
  NoAction = NoAction
  NoApproval = NoApproval
SPECIFICATION Spec
INVARIANTS
  CanceledIsSafe
CHECK_DEADLOCK FALSE
