----------------------------- MODULE MCPlatform -----------------------------
(***************************************************************************)
(* Small instances of the platform for TLC: each load is a mix of requests  *)
(* that can interfere, with the users who have an account at the start and  *)
(* those who may open one.                                                  *)
(***************************************************************************)
EXTENDS Platform

CONSTANTS ann, bob, eve, mailA, mailB, mailE, phone1, phone2, gA, aB, fC, parcel, picture, proof

MCMemberEmail ==
  [u \in Users |-> IF u = ann THEN mailA ELSE IF u = bob THEN mailB ELSE mailE]

\* gA and aB have the same address, which Apple does not confirm; fC has none
\* and gets a placeholder.
MCProfileProvider == [x \in Profiles |-> IF x = gA THEN "GOOGLE"
                                         ELSE IF x = aB THEN "APPLE" ELSE "FACEBOOK"]
MCProfileEmail == [x \in Profiles |-> IF x = fC THEN mailE ELSE mailA]

MCHostKind == [h \in Hosts |-> IF h = parcel THEN "package"
                               ELSE IF h = picture THEN "message" ELSE "proof"]

MCChatParties == [c \in Chats |-> {ann, bob}]

Mix(kinds, members, newcomers, emails, phones) ==
  [kinds |-> kinds, members |-> members, newcomers |-> newcomers,
   emails |-> emails, phones |-> phones]

\* Requests of users who all have an account and change no contact.
Members(kinds, members) == Mix(kinds, members, {}, {}, {})

MCLoads == {
  \* links: changes of address, and a registration with the same address
  Mix({"open_link", "new_email", "resend"}, {ann}, {}, {mailA, mailB, mailE}, {}),
  Mix({"register", "open_link", "new_email"}, {ann}, {bob}, {mailB}, {}),
  \* codes: by phone and by mail, with changes of contact
  Mix({"new_phone", "sms_code", "otp"}, {ann}, {}, {}, {phone1, phone2}),
  Mix({"register", "sms_code", "otp", "new_phone"}, {}, {ann}, {mailA}, {phone1}),
  Mix({"register", "mail_code", "otp", "open_link", "new_email"},
      {}, {bob}, {mailB, mailE}, {}),
  \* sign-in with profiles, against a registration
  Mix({"register", "oauth", "open_link", "restart"}, {}, {ann, bob}, {mailA}, {}),
  \* sessions of a deleted account
  Mix({"erase", "refresh", "logout", "oauth", "mail_code", "otp",
       "day"}, {ann}, {}, {}, {}),
  \* verification of identity, and deletion
  Members({"kyc", "restart"} \union EventKinds, {ann}),
  Members({"kyc", "erase", "verified", "canceled"}, {ann}),
  \* files
  Members({"avatar", "erase", "restart"}, {ann}),
  Members({"host", "image", "delete_host"}, {ann}),
  \* blocks, messages, appointments, rooms, reports
  Members({"chat", "block"}, {ann, bob}),
  Members({"message", "block", "delete_message"}, {ann, bob}),
  Members({"message", "appointment", "socket"}, {ann, bob}),
  Members({"message", "appointment", "delete_message"}, {ann, bob}),
  Members({"socket", "typing", "leave", "restart", "delete_message"}, {ann, bob, eve}),
  Members({"report"}, {ann, bob}),
  \* the catalogue
  Members({"publish", "withdraw", "search"}, {ann}),
  Members({"publish", "delete_ad", "restart"}, {ann})
}

\* Select is SelectSeq, which is recursive.
ASSUME SelectIsSelectSeq ==
  \A s \in SeqOf(Ads, 3), ids \in SUBSET Ads :
    Select(s, ids) = SelectSeq(s, LAMBDA a : a \in ids)

\* Verification and deletion only.
MCErasureLoads == {Members({"kyc", "erase", "verified", "requires_input"}, {ann})}
=============================================================================
