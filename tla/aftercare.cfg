SPECIFICATION AftercareSpec
CONSTANTS
  None = None
  ann = ann
  s1 = s1
  Users = {ann, bob}
  Ads = {s1}
  Missions = {m1}
  Offers = {o1}
  Packages = {}
  Prices = {low}
  Verified = {ann, bob}
  AdType <- MCAdType
  AdAuthor <- MCAdAuthor
  PackageOwner <- MCPackageOwner
  Slots = {t1, t2}
  MAX_OTP_ATTEMPTS = 1
  MaxCodes = 1
  Ops = {"publish", "converse", "offer", "accept", "dispute", "resolve", "rate", "cancel", "code", "verify", "restart", "delete_ad", "delete_mission"}
SYMMETRY SlotSymmetry
INVARIANTS RatingsMatchDeal TicketTellsVerdict
CHECK_DEADLOCK FALSE
