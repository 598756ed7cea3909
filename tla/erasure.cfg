SPECIFICATION Spec
CONSTANTS
  None = None
  ann = ann
  bob = bob
  eve = eve
  s1 = s1
  d1 = d1
  Users = {ann, bob}
  Ads = {s1, d1}
  Missions = {m1, m2}
  Offers = {o1}
  Packages = {}
  Prices = {low}
  Verified = {ann, bob}
  AdType <- MCAdType
  AdAuthor <- MCAdAuthor
  PackageOwner <- MCPackageOwner
  Slots = {t1, t2}
  MAX_OTP_ATTEMPTS = 2
  MaxCodes = 0
  Ops = {"publish", "converse", "offer", "accept", "delete_mission", "delete_ad", "delete_message", "remove_conv", "create_mission"}
SYMMETRY RowSymmetry
INVARIANTS TypeOK AcceptedOfferBinds PartiesConsistent PaymentMatchesDeal
PROPERTIES ImplementsLedger
CHECK_DEADLOCK FALSE
