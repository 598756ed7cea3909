SPECIFICATION Spec
CONSTANTS
  None = None
  ann = ann
  bob = bob
  eve = eve
  s1 = s1
  d1 = d1
  Users = {ann, bob}
  Ads = {s1}
  Missions = {m1}
  Offers = {o1}
  Packages = {}
  Prices = {low}
  Verified = {ann, bob}
  AdType <- MCAdType
  AdAuthor <- MCAdAuthor
  PackageOwner <- MCPackageOwner
  Slots = {t1}
  MAX_OTP_ATTEMPTS = 2
  MaxCodes = 0
  Ops = {"publish", "converse", "offer", "accept", "cancel", "restart"}
SYMMETRY RowSymmetry
INVARIANTS NoHalfCancellation
CHECK_DEADLOCK FALSE
