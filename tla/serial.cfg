SPECIFICATION Spec
CONSTANTS
  None = None
  ann = ann
  bob = bob
  eve = eve
  s1 = s1
  d1 = d1
  Users = {ann, bob}
  Ads = {s1}
  Missions = {m1, m2}
  Offers = {o1}
  Packages = {parcel}
  Prices = {low}
  Verified = {bob}
  AdType <- MCAdType
  AdAuthor <- MCAdAuthor
  PackageOwner <- MCPackageOwner
  Slots = {t1}
  MAX_OTP_ATTEMPTS = 1
  MaxCodes = 1
  Ops = {"publish", "badge", "revoke", "converse", "offer", "edit", "accept", "reject", "create_mission", "packages", "cancel", "delete_mission", "delete_ad", "delete_message", "remove_conv", "code", "verify", "dispute", "resolve"}
SYMMETRY RowSymmetry
INVARIANTS OpenDisputeIffDisputed AdFollowsSoleMission
PROPERTIES ImplementsContract EngagedPackagesFrozen
CHECK_DEADLOCK FALSE
