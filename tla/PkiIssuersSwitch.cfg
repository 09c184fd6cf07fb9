CONSTANTS
  a = a
  b = b
  x = x
  f = f
  g = g
  h = h
  Issuer = {a, b, x}
  NoIssuer = NoIssuer
  FileCA = {f, g, h}
  Deployment <- MCDeployment
  Create <- MCCreate
  Configured = Configured
  Own = Own
  ByHand = ByHand
  NoRow = NoRow
  Request = {r1, r2}
  MaxBoot = 0
SPECIFICATION Spec
SYMMETRY Symmetry
PROPERTIES SwitchKeepsTrust
