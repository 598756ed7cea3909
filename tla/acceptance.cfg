SPECIFICATION Spec
CONSTANTS
  None = None
  ann = ann
  bob = bob
  eve = eve
  s1 = s1
  d1 = d1
  Users = {ann, bob, eve}
  Ads = {s1}
  Missions = {m1}
  Offers = {o1, o2}
  Packages = {}
  Prices = {low, high}
  Verified = {ann, bob, eve}
  AdType <- MCAdType
  AdAuthor <- MCAdAuthor
  PackageOwner <- MCPackageOwner
  Slots = {t1, t2}
  MAX_OTP_ATTEMPTS = 2
  MaxCodes = 0
  Ops = {"publish", "converse", "offer", "accept", "reject", "edit"}
SYMMETRY RowSymmetry
INVARIANTS OneAcceptedOfferPerMission
PROPERTIES AcceptedOfferStands ImplementsLedger
CHECK_DEADLOCK FALSE
