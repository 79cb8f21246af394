SPECIFICATION Spec
CONSTANTS
  Channels = {ch}
  Secrets = {sec}
  FreeSecrets = {free}
  Buyers = {b1, b2}
  MaxCheckouts = 2
  MaxRenewals = 1
SYMMETRY BuyerSymmetry
INVARIANTS TypeOK OneReader TokensAreHonoured OfferedIsClaimable
CHECK_DEADLOCK FALSE
