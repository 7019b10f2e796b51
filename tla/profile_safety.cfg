SPECIFICATION Spec
CONSTANTS
  u1 = u1  u2 = u2  e1 = e1  e2 = e2
  size = size  mobile = mobile  large = large  small = small  number = number
  Setups <- MCSetups
  Earlier <- MCEarlier
  Wanted <- MCWanted
  Cleared = Cleared
  MaxOperations = 3
  Attempts = 2
  Outages = {"timeout", "not_found", "unauthorized"}
  MaxOutages = 2
  MaxRestarts = 1
PROPERTIES
  ProfileHeals
CHECK_DEADLOCK FALSE
