SPECIFICATION Spec
CONSTANTS
  Nil = Nil
  ann = ann
  bob = bob
  eve = eve
  mailA = mailA
  mailB = mailB
  mailE = mailE
  phone1 = phone1
  phone2 = phone2
  gA = gA
  aB = aB
  fC = fC
  parcel = parcel
  picture = picture
  proof = proof
  Users = {ann, bob, eve}
  Emails = {mailA, mailB, mailE}
  Phones = {phone1, phone2}
  Workers = {w1}
  Loads <- MCErasureLoads
  Tokens = {k1, k2}
  MemberEmail <- MCMemberEmail
  Profiles = {gA, aB, fC}
  ProfileProvider <- MCProfileProvider
  ProfileEmail <- MCProfileEmail
  Anonymous = {fC}
  Confirmed = {gA}
  Sessions = {v1, v2}
  Images = {i1, i2}
  Hosts = {parcel, picture, proof}
  HostKind <- MCHostKind
  Chats = {c1}
  ChatParties <- MCChatParties
  Notes = {n1}
  BlockIds = {b1, b2}
  Reports = {r1}
  Sockets = {s1, s2}
  Ads = {a1, a2, a3}
  Spots = {paris}
  MaxLimit = 2
  Limits = {1, 3}
INVARIANTS NoOrphanDocuments
CHECK_DEADLOCK FALSE
