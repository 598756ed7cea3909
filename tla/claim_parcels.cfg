SPECIFICATION Spec
CONSTANTS
  None = None
  ann = ann
  bob = bob
  eve = eve
  s1 = s1
  d1 = d1
  Users = {ann, bob}
  Ads = {s1}
  Missions = {m1}
  Offers = {o1}
  Packages = {parcel}
  Prices = {low}
  Verified = {ann, bob}
  AdType <- MCAdType
  AdAuthor <- MCAdAuthor
  PackageOwner <- MCPackageOwner
  Slots = {t1, t2}
  MAX_OTP_ATTEMPTS = 1
  MaxCodes = 1
  Ops = {"publish", "converse", "offer", "accept", "packages", "code", "verify"}
SYMMETRY RowSymmetry
INVARIANTS NoParcelLeftBehind
CHECK_DEADLOCK FALSE
