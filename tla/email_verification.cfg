SPECIFICATION Spec
CONSTANTS
  Code = {k1, k2, k3}
  Client = {c1, c2}
  RateLimit = 2
  Expiry = 3
  None = None
INVARIANTS VerificationInv LastCodeWorks NoCodeLeft CodesAreApart
SYMMETRY Symmetry
